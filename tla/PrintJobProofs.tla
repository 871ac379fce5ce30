--------------------------- MODULE PrintJobProofs ---------------------------
(***************************************************************************)
(* The invariant PrintInv of PrintJob and what follows from it; for who    *)
(* waits for whom see PrintJobWaitProofs.  The module goes from what an    *)
(* action does to the control state (who runs, who owns the mutex), over   *)
(* what it leaves of the print, to one lemma per action, and puts the      *)
(* actions together in StepInv.  The delicate actions are those around     *)
(* do_pause, where PauseSeen says what the work_handler and the pausing    *)
(* command know of each other, and those that end a line, where Reading    *)
(* and WithinFile give the position.                                       *)
(***************************************************************************)
EXTENDS PrintJob, TLAPS

USE PrintJobAssumption DEF Greenlets

(***************************************************************************)
(* Ways in which the control state of a greenlet changes                   *)
(***************************************************************************)

(* The queue of the mutex stays a sequence of greenlets. *)
LEMMA QueueFacts ==
    ASSUME waiting \in Seq(Greenlets)
    PROVE  /\ waiting # <<>> => Head(waiting) \in Greenlets
                                /\ Tail(waiting) \in Seq(Greenlets)
           /\ \A g \in Greenlets : Append(waiting, g) \in Seq(Greenlets)
  OBVIOUS

(* What is left of a script is a script. *)
LEMMA TailOfScript ==
    ASSUME ControlType, NEW g \in Greenlets, script[g] # <<>>
    PROVE  /\ Tail(script[g]) \in Seq(Commands) /\ Head(script[g]) \in Commands
           /\ [script EXCEPT ![g] = Tail(@)] \in [Greenlets -> Seq(Commands)]
<1>1. script[g] \in Seq(Commands)
  BY DEF ControlType
<1>2. Tail(script[g]) \in Seq(Commands) /\ Head(script[g]) \in Commands
  BY <1>1
<1> QED
  BY <1>2 DEF ControlType

LEMMA EmptyScript ==
    ASSUME ControlType, NEW g \in Greenlets
    PROVE  [script EXCEPT ![g] = <<>>] \in [Greenlets -> Seq(Commands)]
<1>1. <<>> \in Seq(Commands)
  OBVIOUS
<1> QED
  BY <1>1 DEF ControlType

(***************************************************************************)
(* The layout of the file                                                  *)
(***************************************************************************)

(* Lines follow each other and have at least as many bytes as characters.  *)
LEMMA LayoutFacts ==
    /\ \A i \in 1..Len(File) + 1 : LineAt[i] \in Nat
    /\ \A i \in 1..Len(File) + 1, j \in 1..Len(File) + 1 : i <= j => LineAt[i] <= LineAt[j]
    /\ \A i \in 1..Len(File) : /\ Chars[i] \in Nat
                              /\ LineAt[i] + Chars[i] <= LineAt[i + 1]
                              /\ Bytes(i) = LineAt[i + 1] - LineAt[i]
<1>1. Len(File) \in Nat
  BY PrintJobAssumption
<1>2. ASSUME NEW i \in 1..Len(File) + 1, NEW j \in 1..Len(File) + 1, i <= j
      PROVE  LineAt[i] <= LineAt[j]
  <2>1. CASE i = j
    <3>1. LineAt[i] \in Nat BY FileAssumption
    <3> QED BY <2>1, <3>1
  <2>2. CASE i < j
    <3>1. i \in 1..Len(File) BY <1>1, <2>2
    <3>2. LineAt[i] + Chars[i] <= LineAt[j] BY <2>2, <3>1, FileAssumption
    <3>3. LineAt[i] \in Nat /\ LineAt[j] \in Nat /\ Chars[i] \in Nat
      BY <3>1, FileAssumption
    <3> QED BY <3>2, <3>3
  <2> QED BY <1>1, <1>2, <2>1, <2>2
<1>3. ASSUME NEW i \in 1..Len(File)
      PROVE  Chars[i] \in Nat /\ LineAt[i] + Chars[i] <= LineAt[i + 1]
  <2>1. i + 1 \in 1..Len(File) + 1 /\ i < i + 1 BY <1>1
  <2> QED BY <2>1, FileAssumption
<1> QED BY <1>2, <1>3, FileAssumption DEF Bytes

(* A seek to a place not behind the beginning of line k reads from a line  *)
(* not behind k, and from k itself if it is the very place.                *)
LEMMA SeekFacts ==
    ASSUME NEW n \in Nat, NEW line \in 1..Len(File) + 1, LineAt[line] <= n,
           \A later \in line + 1..Len(File) + 1 : n < LineAt[later],
           NEW k \in 1..Len(File) + 1, n <= LineAt[k]
    PROVE  /\ line <= k /\ (LineAt[line] < n => line < k)
           /\ n = LineAt[k] => line = k
<1>1. Len(File) \in Nat /\ LineAt[line] \in Nat /\ LineAt[k] \in Nat
  <2>1. LineAt \in [1..Len(File) + 1 -> Nat] BY FileAssumption
  <2>2. Len(File) \in Nat BY PrintJobAssumption
  <2>3. LineAt[line] \in Nat /\ LineAt[k] \in Nat BY <2>1
  <2> QED BY <2>2, <2>3
<1>2. CASE k < line
  <2>1. k \in 1..Len(File) BY <1>1, <1>2
  <2>2. LineAt[k] + Chars[k] <= LineAt[line] /\ Chars[k] \in Nat /\ Chars[k] # 0
    BY <1>2, <2>1, FileAssumption
  <2>3. LineAt[k] < LineAt[line] BY <1>1, <2>2
  <2> QED BY <1>1, <2>3
<1>3. CASE line < k
  <2>1. k \in line + 1..Len(File) + 1 BY <1>1, <1>3
  <2>2. n < LineAt[k] BY <2>1
  <2> QED BY <1>1, <1>3, <2>2
<1>4. CASE line = k BY <1>1, <1>4
<1> QED BY <1>1, <1>2, <1>3, <1>4

(* If more lines are plain so are fewer. *)
LEMMA PlainPrefix ==
    ASSUME NEW m \in Nat, NEW n \in Nat, n <= m, PlainTo(m)
    PROVE  PlainTo(n)
  BY DEF PlainTo

(* A line of the file, and on_error_gcode, are scripts. *)
LEMMA ScriptOfLine ==
    ASSUME ControlType
    PROVE  /\ \A i \in 1..Len(File) :
                [script EXCEPT ![SD] = File[i]] \in [Greenlets -> Seq(Commands)]
           /\ [script EXCEPT ![SD] = OnError] \in [Greenlets -> Seq(Commands)]
<1>1. \A i \in 1..Len(File) : File[i] \in Seq(Commands)
  OBVIOUS
<1> QED
  BY <1>1 DEF ControlType

(* g executes a script: it has been woken and owns the mutex. *)
InCommand(g) == running = g /\ pc[g] \in {"gcode", "stopped", "failed"} /\ InScript(g)

(* After a command g is at its next line, at the end of its script, or     *)
(* parked in the command.                                                  *)
Advance(g) ==
    \/ NextLine(g) /\ script[g] # <<>>
    \/ Raise(g)
    \/ /\ script[g] # <<>> /\ Head(script[g]) = "RESUME"
       /\ \/ pc' = [pc EXCEPT ![g] = "stopped"] /\ UNCHANGED running
          \/ Park(g, "restore")
       /\ UNCHANGED <<script, holder, waiting>>
    \/ Park(g, "wait") /\ script[g] # <<>> /\ UNCHANGED <<script, holder, waiting>>

(* A command that leaves the work_handler's state and print_stats alone *)
LEMMA QuietCommand ==
    ASSUME PrintInv, NEW g \in Greenlets, InCommand(g), Advance(g),
           UNCHANGED <<sd, stats, hist.last>>, DataType'
    PROVE  PrintInv'
<1>0. /\ script[g] # <<>> => [script EXCEPT ![g] = Tail(@)] \in [Greenlets -> Seq(Commands)]
      /\ [script EXCEPT ![g] = <<>>] \in [Greenlets -> Seq(Commands)]
  BY TailOfScript, EmptyScript DEF PrintInv, TypeOK
<1> USE DEF PrintInv, TypeOK, InCommand, Advance, NextLine, Raise, Park
<1>1. ControlType'
  <2> USE DEF ControlType
  <2>1. running' \in Greenlets \cup {NoOne} OBVIOUS
  <2>2. pc' \in [Greenlets -> Places] BY DEF Places
  <2>3. script' \in [Greenlets -> Seq(Commands)] BY <1>0
  <2>4. holder' \in Greenlets \cup {NoOne} /\ waiting' \in Seq(Greenlets) OBVIOUS
  <2> QED BY <2>1, <2>2, <2>3, <2>4
<1>2. DataType' OBVIOUS
<1>3. Active' BY DEF ControlType, Active
<1>4. Parked' BY DEF ControlType, Parked
<1>5. Handler' BY DEF ControlType, Handler, InScript
<1>6. OneScriptAtATime' BY DEF ControlType, OneScriptAtATime, InScript
<1>7. PauseSeen'
  <2>1. ASSUME NEW h \in Greenlets, NEW c \in PauseCommands, Pausing(h, c)'
        PROVE  Pausing(h, c) /\ (pc'[h] = "stopped" => pc[h] = "stopped")
    BY <2>1 DEF ControlType, Pausing, PauseCommands
  <2> QED BY <2>1 DEF PauseSeen, MustWait
<1>8. LineHasFile' BY DEF ControlType, LineHasFile
<1>9. FileOpenWhenUsed'
  <2>1. ASSUME NEW h \in Greenlets, NEW c \in PauseCommands, Pausing(h, c)'
        PROVE  Pausing(h, c)
    BY <2>1 DEF ControlType, Pausing, PauseCommands
  <2>2. pc'[SD] \in {"loop", "read", "busy"} => pc[SD] = pc'[SD]
    BY DEF ControlType
  <2> QED BY <2>1, <2>2 DEF FileOpenWhenUsed, PauseCommands
<1>10. Reading' BY DEF ControlType, Reading
<1>11. WithinFile' BY DEF ControlType, DataType, WithinFile
<1>12. PositionExact' BY DEF PositionExact
<1>13. Started' BY DEF Started
<1>14. StatsTruthful' BY DEF ControlType, StatsTruthful
<1>15. Over' BY DEF Over
<1>16. Ending' BY DEF ControlType, Ending, Handler
<1> QED BY <1>1, <1>2, <1>3, <1>4, <1>5, <1>6, <1>7, <1>8, <1>9, <1>10, <1>11, <1>12, <1>13, <1>14, <1>15, <1>16

LEMMA SkipLineStep ==
    ASSUME PrintInv, NEW g \in Greenlets, SkipLine(g) PROVE PrintInv'
<1>1. InCommand(g) /\ Advance(g)
  BY DEF SkipLine, Executing, InCommand, InScript, Advance, ControlType, PrintInv, TypeOK
<1>2. UNCHANGED <<sd, stats, hist.last>> /\ DataType'
  BY DEF SkipLine, Executing, PrintInv, TypeOK, DataType, PrFields
<1> QED BY <1>1, <1>2, QuietCommand

LEMMA MoveStep ==
    ASSUME PrintInv, NEW g \in Greenlets, Move(g) PROVE PrintInv'
<1>1. InCommand(g) /\ Advance(g)
  BY DEF Move, At, Executing, InCommand, InScript, Advance, ControlType, PrintInv, TypeOK
<1>2. UNCHANGED <<sd, stats, hist.last>> /\ DataType'
  BY DEF Move, At, Executing, PrintInv, TypeOK, DataType, PrFields
<1> QED BY <1>1, <1>2, QuietCommand

LEMMA FailStep ==
    ASSUME PrintInv, NEW g \in Greenlets, Fail(g) PROVE PrintInv'
<1>1. InCommand(g) /\ Advance(g)
  BY DEF Fail, At, Executing, InCommand, InScript, Advance, ControlType, PrintInv, TypeOK
<1>2. UNCHANGED <<sd, stats, hist.last>> /\ DataType'
  BY DEF Fail, At, Executing, PrintInv, TypeOK, DataType, PrFields
<1> QED BY <1>1, <1>2, QuietCommand

LEMMA HeatAndWaitStep ==
    ASSUME PrintInv, NEW g \in Greenlets, HeatAndWait(g) PROVE PrintInv'
<1>1. InCommand(g) /\ Advance(g)
  BY DEF HeatAndWait, At, Executing, InCommand, InScript, Advance, ControlType, PrintInv, TypeOK
<1>2. UNCHANGED <<sd, stats, hist.last>> /\ DataType'
  BY DEF HeatAndWait, At, Executing, PrintInv, TypeOK, DataType, PrFields
<1> QED BY <1>1, <1>2, QuietCommand

LEMMA TemperatureWaitStep ==
    ASSUME PrintInv, NEW g \in Greenlets, TemperatureWait(g) PROVE PrintInv'
<1>1. InCommand(g) /\ Advance(g)
  BY DEF TemperatureWait, At, Executing, InCommand, InScript, Advance, ControlType, PrintInv, TypeOK
<1>2. UNCHANGED <<sd, stats, hist.last>> /\ DataType'
  BY DEF TemperatureWait, At, Executing, PrintInv, TypeOK, DataType, PrFields
<1> QED BY <1>1, <1>2, QuietCommand

LEMMA PauseIgnoredStep ==
    ASSUME PrintInv, NEW g \in Greenlets, PauseIgnored(g) PROVE PrintInv'
<1>1. InCommand(g) /\ Advance(g)
  BY DEF PauseIgnored, At, Executing, InCommand, InScript, Advance, ControlType, PrintInv, TypeOK
<1>2. UNCHANGED <<sd, stats, hist.last>> /\ DataType'
  BY DEF PauseIgnored, At, Executing, PrintInv, TypeOK, DataType, PrFields
<1> QED BY <1>1, <1>2, QuietCommand

LEMMA PauseAtOnceStep ==
    ASSUME PrintInv, NEW g \in Greenlets, PauseAtOnce(g) PROVE PrintInv'
<1>1. InCommand(g) /\ Advance(g)
  BY DEF PauseAtOnce, At, Executing, InCommand, InScript, Advance, ControlType, PrintInv, TypeOK
<1>2. UNCHANGED <<sd, stats, hist.last>> /\ DataType'
  BY DEF PauseAtOnce, At, Executing, PrintInv, TypeOK, DataType, PrFields
<1> QED BY <1>1, <1>2, QuietCommand

LEMMA PauseCompletesStep ==
    ASSUME PrintInv, NEW g \in Greenlets, PauseCompletes(g) PROVE PrintInv'
<1>1. InCommand(g) /\ Advance(g)
  BY DEF PauseCompletes, Stopped, InCommand, InScript, Advance, ControlType, PrintInv, TypeOK
<1>2. UNCHANGED <<sd, stats, hist.last>> /\ DataType'
  BY DEF PauseCompletes, Stopped, PrintInv, TypeOK, DataType, PrFields
<1> QED BY <1>1, <1>2, QuietCommand

LEMMA ResumeIgnoredStep ==
    ASSUME PrintInv, NEW g \in Greenlets, ResumeIgnored(g) PROVE PrintInv'
<1>1. InCommand(g) /\ Advance(g)
  BY DEF ResumeIgnored, At, Executing, InCommand, InScript, Advance, ControlType, PrintInv, TypeOK
<1>2. UNCHANGED <<sd, stats, hist.last>> /\ DataType'
  BY DEF ResumeIgnored, At, Executing, PrintInv, TypeOK, DataType, PrFields
<1> QED BY <1>1, <1>2, QuietCommand

LEMMA ResumeMovesBackStep ==
    ASSUME PrintInv, NEW g \in Greenlets, ResumeMovesBack(g) PROVE PrintInv'
<1>1. InCommand(g) /\ Advance(g)
  BY DEF ResumeMovesBack, At, Executing, InCommand, InScript, Advance, ControlType, PrintInv, TypeOK
<1>2. UNCHANGED <<sd, stats, hist.last>> /\ DataType'
  BY DEF ResumeMovesBack, At, Executing, PrintInv, TypeOK, DataType, PrFields
<1> QED BY <1>1, <1>2, QuietCommand

LEMMA ResumeRefusedStep ==
    ASSUME PrintInv, NEW g \in Greenlets, ResumeRefused(g) PROVE PrintInv'
<1>1. InCommand(g) /\ Advance(g)
  BY DEF ResumeRefused, Stopped, InCommand, InScript, Advance, ControlType, PrintInv, TypeOK
<1>2. UNCHANGED <<sd, stats, hist.last>> /\ DataType'
  BY DEF ResumeRefused, Stopped, PrintInv, TypeOK, DataType, PrFields
<1> QED BY <1>1, <1>2, QuietCommand

LEMMA ClearPauseCmdStep ==
    ASSUME PrintInv, NEW g \in Greenlets, ClearPauseCmd(g) PROVE PrintInv'
<1>1. InCommand(g) /\ Advance(g)
  BY DEF ClearPauseCmd, At, Executing, ClearPause, InCommand, InScript, Advance, ControlType, PrintInv, TypeOK
<1>2. UNCHANGED <<sd, stats, hist.last>> /\ DataType'
  BY DEF ClearPauseCmd, At, Executing, ClearPause, PrintInv, TypeOK, DataType, PrFields
<1> QED BY <1>1, <1>2, QuietCommand

LEMMA M25CompletesStep ==
    ASSUME PrintInv, NEW g \in Greenlets, M25Completes(g) PROVE PrintInv'
<1>1. InCommand(g) /\ Advance(g)
  BY DEF M25Completes, Stopped, InCommand, InScript, Advance, ControlType, PrintInv, TypeOK
<1>2. UNCHANGED <<sd, stats, hist.last>> /\ DataType'
  BY DEF M25Completes, Stopped, PrintInv, TypeOK, DataType, PrFields
<1> QED BY <1>1, <1>2, QuietCommand

-----------------------------------------------------------------------------
(* Steps of the reactor that wake a greenlet *)

LEMMA GetMutexStep ==
    ASSUME PrintInv, NEW g \in Greenlets, GetMutex(g)
    PROVE  PrintInv'
<1> USE DEF PrintInv, TypeOK, GetMutex
<1>1. ControlType'
  <2> USE DEF ControlType
  <2>1. running' \in Greenlets \cup {NoOne} OBVIOUS
  <2>2. pc' \in [Greenlets -> Places] BY DEF Places
  <2>3. script' \in [Greenlets -> Seq(Commands)] OBVIOUS
  <2>4. holder' \in Greenlets \cup {NoOne} /\ waiting' \in Seq(Greenlets) OBVIOUS
  <2> QED BY <2>1, <2>2, <2>3, <2>4
<1>2. DataType' BY DEF DataType
<1>3. Active' BY DEF ControlType, Active
<1>4. Parked' BY DEF ControlType, Parked
<1>5. Handler' BY DEF ControlType, Handler, InScript
<1>6. OneScriptAtATime' BY DEF ControlType, OneScriptAtATime, InScript
<1>7. PauseSeen' BY DEF ControlType, PauseSeen, Pausing, MustWait, PauseCommands
<1>8. LineHasFile' BY DEF ControlType, LineHasFile
<1>9. FileOpenWhenUsed' BY DEF ControlType, FileOpenWhenUsed, Pausing
<1>10. Reading' BY DEF ControlType, Reading
<1>11. WithinFile' BY DEF ControlType, DataType, WithinFile
<1>12. PositionExact' BY DEF PositionExact
<1>13. Started' BY DEF Started
<1>14. StatsTruthful' BY DEF ControlType, StatsTruthful
<1>15. Over' BY DEF Over
<1>16. Ending' BY DEF ControlType, Ending, Handler
<1> QED BY <1>1, <1>2, <1>3, <1>4, <1>5, <1>6, <1>7, <1>8, <1>9, <1>10, <1>11, <1>12, <1>13, <1>14, <1>15, <1>16

LEMMA EndWaitStep ==
    ASSUME PrintInv, NEW g \in Greenlets, EndWait(g)
    PROVE  PrintInv'
<1>0. /\ script[g] # <<>> => [script EXCEPT ![g] = Tail(@)] \in [Greenlets -> Seq(Commands)]
      /\ [script EXCEPT ![g] = <<>>] \in [Greenlets -> Seq(Commands)]
  BY TailOfScript, EmptyScript DEF PrintInv, TypeOK
<1> USE DEF PrintInv, TypeOK, EndWait
<1>1. ControlType'
  <2> USE DEF ControlType
  <2>1. running' \in Greenlets \cup {NoOne} OBVIOUS
  <2>2. pc' \in [Greenlets -> Places] BY DEF Places
  <2>3. script' \in [Greenlets -> Seq(Commands)] BY <1>0 DEF Parked
  <2>4. holder' \in Greenlets \cup {NoOne} /\ waiting' \in Seq(Greenlets) OBVIOUS
  <2> QED BY <2>1, <2>2, <2>3, <2>4
<1>2. DataType' BY DEF DataType
<1>3. Active' BY DEF ControlType, Active
<1>4. Parked' BY DEF ControlType, Parked
<1>5. Handler' BY DEF ControlType, Handler, InScript
<1>6. OneScriptAtATime' BY DEF ControlType, OneScriptAtATime, InScript
<1>7. PauseSeen' BY DEF ControlType, PauseSeen, Pausing, MustWait, PauseCommands
<1>8. LineHasFile' BY DEF ControlType, LineHasFile
<1>9. FileOpenWhenUsed' BY DEF ControlType, FileOpenWhenUsed, Pausing
<1>10. Reading' BY DEF ControlType, DataType, Reading
<1>11. WithinFile' BY DEF ControlType, DataType, WithinFile
<1>12. PositionExact' BY DEF PositionExact, DataType
<1>13. Started' BY DEF Started
<1>14. StatsTruthful' BY DEF ControlType, StatsTruthful
<1>15. Over' BY DEF Over
<1>16. Ending' BY DEF ControlType, DataType, Ending, Handler
<1> QED BY <1>1, <1>2, <1>3, <1>4, <1>5, <1>6, <1>7, <1>8, <1>9, <1>10, <1>11, <1>12, <1>13, <1>14, <1>15, <1>16

LEMMA WaitFailsStep ==
    ASSUME PrintInv, NEW g \in Greenlets, WaitFails(g)
    PROVE  PrintInv'
<1>0. /\ script[g] # <<>> => [script EXCEPT ![g] = Tail(@)] \in [Greenlets -> Seq(Commands)]
      /\ [script EXCEPT ![g] = <<>>] \in [Greenlets -> Seq(Commands)]
  BY TailOfScript, EmptyScript DEF PrintInv, TypeOK
<1> USE DEF PrintInv, TypeOK, WaitFails
<1>1. ControlType'
  <2> USE DEF ControlType
  <2>1. running' \in Greenlets \cup {NoOne} OBVIOUS
  <2>2. pc' \in [Greenlets -> Places] BY DEF Places
  <2>3. script' \in [Greenlets -> Seq(Commands)] BY <1>0 DEF Parked
  <2>4. holder' \in Greenlets \cup {NoOne} /\ waiting' \in Seq(Greenlets) OBVIOUS
  <2> QED BY <2>1, <2>2, <2>3, <2>4
<1>2. DataType' BY DEF DataType
<1>3. Active' BY DEF ControlType, Active
<1>4. Parked' BY DEF ControlType, Parked
<1>5. Handler' BY DEF ControlType, Handler, InScript
<1>6. OneScriptAtATime' BY DEF ControlType, OneScriptAtATime, InScript
<1>7. PauseSeen' BY DEF ControlType, PauseSeen, Pausing, MustWait, PauseCommands
<1>8. LineHasFile' BY DEF ControlType, LineHasFile
<1>9. FileOpenWhenUsed' BY DEF ControlType, FileOpenWhenUsed, Pausing
<1>10. Reading' BY DEF ControlType, Reading
<1>11. WithinFile' BY DEF ControlType, DataType, WithinFile
<1>12. PositionExact' BY DEF PositionExact
<1>13. Started' BY DEF Started
<1>14. StatsTruthful' BY DEF ControlType, StatsTruthful
<1>15. Over' BY DEF Over
<1>16. Ending' BY DEF ControlType, Ending, Handler
<1> QED BY <1>1, <1>2, <1>3, <1>4, <1>5, <1>6, <1>7, <1>8, <1>9, <1>10, <1>11, <1>12, <1>13, <1>14, <1>15, <1>16

LEMMA MoveBackEndsStep ==
    ASSUME PrintInv, NEW g \in Greenlets, MoveBackEnds(g)
    PROVE  PrintInv'
<1> USE DEF PrintInv, TypeOK, MoveBackEnds
<1>1. ControlType'
  <2> USE DEF ControlType
  <2>1. running' \in Greenlets \cup {NoOne} OBVIOUS
  <2>2. pc' \in [Greenlets -> Places] BY DEF Places
  <2>3. script' \in [Greenlets -> Seq(Commands)] OBVIOUS
  <2>4. holder' \in Greenlets \cup {NoOne} /\ waiting' \in Seq(Greenlets) OBVIOUS
  <2> QED BY <2>1, <2>2, <2>3, <2>4
<1>2. DataType' BY DEF DataType
<1>3. Active' BY DEF ControlType, Active
<1>4. Parked' BY DEF ControlType, Parked
<1>5. Handler' BY DEF ControlType, Handler, InScript
<1>6. OneScriptAtATime' BY DEF ControlType, OneScriptAtATime, InScript
<1>7. PauseSeen' BY DEF ControlType, Parked, PauseSeen, Pausing, MustWait, PauseCommands
<1>8. LineHasFile' BY DEF ControlType, LineHasFile
<1>9. FileOpenWhenUsed' BY DEF ControlType, Parked, FileOpenWhenUsed, Pausing, MustWait, PauseCommands
<1>10. Reading' BY DEF ControlType, Reading
<1>11. WithinFile' BY DEF ControlType, DataType, WithinFile
<1>12. PositionExact' BY DEF PositionExact
<1>13. Started' BY DEF Started
<1>14. StatsTruthful' BY DEF ControlType, StatsTruthful
<1>15. Over' BY DEF Over
<1>16. Ending' BY DEF ControlType, Ending, Handler
<1> QED BY <1>1, <1>2, <1>3, <1>4, <1>5, <1>6, <1>7, <1>8, <1>9, <1>10, <1>11, <1>12, <1>13, <1>14, <1>15, <1>16

LEMMA DoPauseReturnsStep ==
    ASSUME PrintInv, NEW g \in Greenlets, DoPauseReturns(g)
    PROVE  PrintInv'
<1> USE DEF PrintInv, TypeOK, DoPauseReturns
<1>1. ControlType'
  <2> USE DEF ControlType
  <2>1. running' \in Greenlets \cup {NoOne} OBVIOUS
  <2>2. pc' \in [Greenlets -> Places] BY DEF Places
  <2>3. script' \in [Greenlets -> Seq(Commands)] OBVIOUS
  <2>4. holder' \in Greenlets \cup {NoOne} /\ waiting' \in Seq(Greenlets) OBVIOUS
  <2> QED BY <2>1, <2>2, <2>3, <2>4
<1>2. DataType' BY DEF DataType
<1>3. Active' BY DEF ControlType, Active
<1>4. Parked' BY DEF ControlType, Parked
<1>5. Handler' BY DEF ControlType, Handler, InScript
<1>6. OneScriptAtATime' BY DEF ControlType, OneScriptAtATime, InScript
<1>7. PauseSeen' BY DEF ControlType, PauseSeen, Pausing, MustWait, PauseCommands
<1>8. LineHasFile' BY DEF ControlType, LineHasFile
<1>9. FileOpenWhenUsed' BY DEF ControlType, FileOpenWhenUsed, Pausing
<1>10. Reading' BY DEF ControlType, Reading
<1>11. WithinFile' BY DEF ControlType, DataType, WithinFile
<1>12. PositionExact' BY DEF PositionExact
<1>13. Started' BY DEF Started
<1>14. StatsTruthful' BY DEF ControlType, StatsTruthful
<1>15. Over' BY DEF Over
<1>16. Ending' BY DEF ControlType, Ending, Handler
<1> QED BY <1>1, <1>2, <1>3, <1>4, <1>5, <1>6, <1>7, <1>8, <1>9, <1>10, <1>11, <1>12, <1>13, <1>14, <1>15, <1>16

-----------------------------------------------------------------------------
(* Commands of the work_handler's state *)

(* A command goes into do_pause; if it will close the file, one is open. *)
LEMMA DoPauseStep ==
    ASSUME PrintInv, NEW g \in Greenlets, InCommand(g), DoPause(g),
           pc[g] = "gcode", script[g] # <<>>, Head(script[g]) \in PauseCommands,
           Head(script[g]) \in {"CANCEL_PRINT", "SDCARD_RESET_FILE"} => sd.file,
           Head(script[g]) = "SDCARD_RESET_FILE" => ~sd.fromSd,
           UNCHANGED <<stats, hist>>, DataType'
    PROVE  PrintInv'
<1>0. /\ sd'.work = sd.work /\ sd'.fromSd = sd.fromSd
      /\ sd'.file = sd.file /\ sd'.error = sd.error
      /\ sd'.mustPause <=> sd.mustPause \/ sd.work
  BY DEF DoPause, PrintInv, TypeOK, DataType, SdFields
<1> USE DEF PrintInv, TypeOK, InCommand, DoPause, Park, MustWait
<1>1. ControlType'
  <2> USE DEF ControlType
  <2>1. running' \in Greenlets \cup {NoOne} OBVIOUS
  <2>2. pc' \in [Greenlets -> Places] BY DEF Places
  <2>3. script' \in [Greenlets -> Seq(Commands)] OBVIOUS
  <2>4. holder' \in Greenlets \cup {NoOne} /\ waiting' \in Seq(Greenlets) OBVIOUS
  <2> QED BY <2>1, <2>2, <2>3, <2>4
<1>2. DataType' OBVIOUS
<1>3. Active' BY DEF ControlType, Active
<1>4. Parked' BY DEF ControlType, Parked
<1>5. Handler' BY DEF ControlType, Handler, InScript
<1>6. OneScriptAtATime' BY DEF ControlType, OneScriptAtATime, InScript
<1>7. PauseSeen' BY <1>0 DEF ControlType, PauseSeen, Pausing, PauseCommands, Handler, OneScriptAtATime, InScript
<1>8. LineHasFile' BY <1>0 DEF ControlType, LineHasFile, Handler
<1>9. FileOpenWhenUsed' BY <1>0 DEF ControlType, FileOpenWhenUsed, Pausing, Handler
<1>10. Reading' BY DEF ControlType, Reading
<1>11. WithinFile' BY DEF ControlType, DataType, WithinFile
<1>12. PositionExact' BY DEF PositionExact
<1>13. Started' BY DEF Started
<1>14. StatsTruthful' BY DEF ControlType, StatsTruthful
<1>15. Over' BY DEF Over
<1>16. Ending' BY DEF ControlType, Ending, Handler
<1> QED BY <1>1, <1>2, <1>3, <1>4, <1>5, <1>6, <1>7, <1>8, <1>9, <1>10, <1>11, <1>12, <1>13, <1>14, <1>15, <1>16

(* do_pause leaves the fields of VirtualSD in their types. *)
LEMMA DoPauseType ==
    ASSUME PrintInv, NEW g \in Greenlets, DoPause(g) PROVE sd' \in SdFields
<1>1. sd \in SdFields BY DEF PrintInv, TypeOK, DataType
<1>2. sd' = [sd EXCEPT !.mustPause = @ \/ sd.work] BY DEF DoPause
<1> QED BY <1>1, <1>2 DEF SdFields

LEMMA PausePrintStep ==
    ASSUME PrintInv, NEW g \in Greenlets, PausePrint(g) PROVE PrintInv'
<1>1. InCommand(g) /\ pc[g] = "gcode" /\ DoPause(g) /\ UNCHANGED <<stats, hist>>
  BY DEF PausePrint, At, Executing, InCommand, InScript
<1>2. script[g] # <<>> /\ Head(script[g]) \in PauseCommands
      /\ Head(script[g]) # "SDCARD_RESET_FILE"
      /\ (Head(script[g]) = "CANCEL_PRINT" => sd.file)
  BY DEF PausePrint, At, Executing, PauseCommands
<1>3. DataType'
  <2>1. sd' \in SdFields BY <1>1, DoPauseType
  <2>2. UNCHANGED <<flags, moving, stats, hist, events>> /\ pr' = [pr EXCEPT !.sdPaused = TRUE]
    BY DEF PausePrint
  <2> QED BY <2>1, <2>2 DEF PrintInv, TypeOK, DataType, PrFields
<1> QED BY <1>1, <1>2, <1>3, DoPauseStep

LEMMA CancelPrintStep ==
    ASSUME PrintInv, NEW g \in Greenlets, CancelPrint(g) PROVE PrintInv'
<1>1. InCommand(g) /\ pc[g] = "gcode" /\ DoPause(g) /\ UNCHANGED <<stats, hist>>
  BY DEF CancelPrint, At, Executing, InCommand, InScript
<1>2. script[g] # <<>> /\ Head(script[g]) \in PauseCommands
      /\ Head(script[g]) # "SDCARD_RESET_FILE"
      /\ (Head(script[g]) = "CANCEL_PRINT" => sd.file)
  BY DEF CancelPrint, At, Executing, PauseCommands
<1>3. DataType'
  <2>1. sd' \in SdFields BY <1>1, DoPauseType
  <2>2. UNCHANGED <<moving, pr, stats, hist, events>> /\ flags' = UnbreakFlags
    BY DEF CancelPrint
  <2>3. flags' \in [gcode : BOOLEAN, heat : BOOLEAN, shutdown : BOOLEAN]
    BY <2>2 DEF PrintInv, TypeOK, DataType, UnbreakFlags
  <2> QED BY <2>1, <2>2, <2>3 DEF PrintInv, TypeOK, DataType
<1> QED BY <1>1, <1>2, <1>3, DoPauseStep

LEMMA M25Step ==
    ASSUME PrintInv, NEW g \in Greenlets, M25(g) PROVE PrintInv'
<1>1. InCommand(g) /\ pc[g] = "gcode" /\ DoPause(g) /\ UNCHANGED <<stats, hist>>
  BY DEF M25, At, Executing, InCommand, InScript
<1>2. script[g] # <<>> /\ Head(script[g]) \in PauseCommands
      /\ Head(script[g]) # "SDCARD_RESET_FILE"
      /\ (Head(script[g]) = "CANCEL_PRINT" => sd.file)
  BY DEF M25, At, Executing, PauseCommands
<1>3. DataType'
  <2>1. sd' \in SdFields BY <1>1, DoPauseType
  <2>2. UNCHANGED <<flags, moving, pr, stats, hist, events>> BY DEF M25
  <2> QED BY <2>1, <2>2 DEF PrintInv, TypeOK, DataType
<1> QED BY <1>1, <1>2, <1>3, DoPauseStep

LEMMA EndScriptStep ==
    ASSUME PrintInv, NEW g \in Greenlets, EndScript(g)
    PROVE  PrintInv'
<1> USE DEF PrintInv, TypeOK, EndScript, Park, Lock!Release
<1>1. ControlType'
  <2> USE DEF ControlType
  <2>1. running' \in Greenlets \cup {NoOne} OBVIOUS
  <2>2. pc' \in [Greenlets -> Places] BY DEF Places
  <2>3. script' \in [Greenlets -> Seq(Commands)] OBVIOUS
  <2>4. holder' \in Greenlets \cup {NoOne} /\ waiting' \in Seq(Greenlets) BY QueueFacts
  <2> QED BY <2>1, <2>2, <2>3, <2>4
<1>2. DataType' BY DEF DataType, SdFields, PrFields, StatsFields
<1>3. Active' BY DEF ControlType, Active
<1>4. Parked' BY DEF ControlType, Parked
<1>5. Handler' BY DEF ControlType, Handler, InScript
<1>6. OneScriptAtATime' BY DEF ControlType, OneScriptAtATime, InScript
<1>7. PauseSeen' BY DEF ControlType, PauseSeen, Pausing, MustWait, PauseCommands
<1>8. LineHasFile' BY DEF ControlType, LineHasFile
<1>9. FileOpenWhenUsed' BY DEF ControlType, FileOpenWhenUsed, Pausing
<1>10. Reading' BY DEF ControlType, Reading
<1>11. WithinFile' BY DEF ControlType, DataType, WithinFile
<1>12. PositionExact' BY DEF PositionExact
<1>13. Started' BY DEF Started
<1>14. StatsTruthful' BY DEF ControlType, StatsTruthful
<1>15. Over' BY DEF Over
<1>16. Ending' BY DEF ControlType, Ending, Handler
<1> QED BY <1>1, <1>2, <1>3, <1>4, <1>5, <1>6, <1>7, <1>8, <1>9, <1>10, <1>11, <1>12, <1>13, <1>14, <1>15, <1>16

LEMMA ResumePrintStep ==
    ASSUME PrintInv, NEW g \in Greenlets, ResumePrint(g)
    PROVE  PrintInv'
<1>n. Len(File) \in Nat /\ sd.pos \in Nat /\ sd.next \in Nat /\ sd.read \in Nat /\ sd.head \in Nat
      /\ sd.offset \in Nat /\ hist.last \in Nat
  BY DEF PrintInv, TypeOK, DataType, SdFields
<1>0. /\ sd' \in SdFields
      /\ sd'.fromSd = sd.fromSd /\ sd'.file = sd.file /\ sd'.pos = sd.pos
      /\ sd'.next = sd.next /\ sd'.read = sd.read /\ sd'.head = sd.head
      /\ sd'.offset = sd.offset /\ sd'.error = sd.error
      /\ sd'.work <=> sd.work \/ pr.sdPaused
      /\ pr.sdPaused => ~sd.work /\ ~sd'.mustPause
      /\ ~pr.sdPaused => sd'.mustPause = sd.mustPause
  <2>0. sd \in SdFields /\ pr \in PrFields /\ (pr.sdPaused => ~sd.work)
    BY DEF ResumePrint, PrintInv, TypeOK, DataType
  <2>1. CASE pr.sdPaused
    <3>1. sd' = [sd EXCEPT !.work = TRUE, !.mustPause = FALSE]
      BY <2>1 DEF ResumePrint, DoResume
    <3> QED BY <2>0, <2>1, <3>1 DEF SdFields, PrFields
  <2>2. CASE ~pr.sdPaused
    <3>1. sd' = sd BY <2>2 DEF ResumePrint
    <3> QED BY <2>0, <2>2, <3>1 DEF PrFields
  <2> QED BY <2>1, <2>2
<1> USE DEF PrintInv, TypeOK, ResumePrint, Stopped, DoResume
<1>1. ControlType'
  <2> USE DEF ControlType
  <2>1. running' \in Greenlets \cup {NoOne} OBVIOUS
  <2>2. pc' \in [Greenlets -> Places] BY DEF Places
  <2>3. script' \in [Greenlets -> Seq(Commands)] BY TailOfScript
  <2>4. holder' \in Greenlets \cup {NoOne} /\ waiting' \in Seq(Greenlets) OBVIOUS
  <2> QED BY <2>1, <2>2, <2>3, <2>4
<1>2. DataType' BY <1>0 DEF DataType, PrFields
<1>3. Active' BY <1>0 DEF ControlType, Active
<1>4. Parked' 
  <2>1. pc' = [pc EXCEPT ![SD] = "due", ![g] = "gcode"] \/ pc' = [pc EXCEPT ![g] = "gcode"]
    OBVIOUS
  <2> QED BY <2>1 DEF ControlType, Parked
<1>5. Handler' BY SMTT(30), <1>0 DEF ControlType, Handler, InScript, Active
<1>6. OneScriptAtATime' BY <1>0 DEF ControlType, OneScriptAtATime, InScript
<1>7. PauseSeen' BY SMTT(30), <1>0 DEF ControlType, PauseSeen, Pausing, MustWait, PauseCommands, OneScriptAtATime, InScript, Active, Handler
<1>8. LineHasFile' BY SMTT(30), <1>0 DEF ControlType, LineHasFile, Handler
<1>9. FileOpenWhenUsed' BY SMTT(30), <1>0 DEF ControlType, FileOpenWhenUsed, Pausing, OneScriptAtATime, InScript, Active, Handler
<1>10. Reading' BY ZenonT(30), <1>0, <1>n DEF ControlType, Reading
<1>11. WithinFile' BY <1>0, <1>n DEF ControlType, WithinFile
<1>12. PositionExact' BY <1>0, <1>n DEF PositionExact
<1>13. Started' BY <1>0 DEF Started
<1>14. StatsTruthful' BY <1>0 DEF ControlType, StatsTruthful, Handler
<1>15. Over' BY <1>0 DEF Over
<1>16. Ending' BY <1>0 DEF ControlType, Ending, Handler
<1> QED BY <1>1, <1>2, <1>3, <1>4, <1>5, <1>6, <1>7, <1>8, <1>9, <1>10, <1>11, <1>12, <1>13, <1>14, <1>15, <1>16

LEMMA CancelNothingStep ==
    ASSUME PrintInv, NEW g \in Greenlets, CancelNothing(g)
    PROVE  PrintInv'
<1>n. Len(File) \in Nat /\ sd.pos \in Nat /\ sd.next \in Nat /\ sd.read \in Nat /\ sd.head \in Nat
      /\ sd.offset \in Nat /\ hist.last \in Nat
  BY DEF PrintInv, TypeOK, DataType, SdFields
<1>0. /\ sd' \in SdFields
      /\ sd'.work = sd.work /\ sd'.mustPause = sd.mustPause /\ sd'.fromSd = sd.fromSd
      /\ sd'.file = sd.file /\ sd'.error = sd.error
      /\ sd'.next = sd.next /\ sd'.read = sd.read /\ sd'.head = sd.head
      /\ sd'.offset = sd.offset
      /\ sd'.pos = IF sd.work \/ pr.sdPaused THEN 0 ELSE sd.pos
      /\ (sd.work \/ pr.sdPaused) => ~sd.file
  <2> USE DEF CancelNothing, PrintInv, TypeOK, DataType, SdFields
  <2>1. CASE sd.work \/ pr.sdPaused BY <2>1
  <2>2. CASE ~(sd.work \/ pr.sdPaused) BY <2>2
  <2> QED BY <2>1, <2>2
<1> USE DEF PrintInv, TypeOK, CancelNothing, At, Executing, NextLine, UnbreakFlags, ClearPause
<1>1. ControlType'
  <2> USE DEF ControlType
  <2>1. running' \in Greenlets \cup {NoOne} OBVIOUS
  <2>2. pc' \in [Greenlets -> Places] BY DEF Places
  <2>3. script' \in [Greenlets -> Seq(Commands)] BY TailOfScript
  <2>4. holder' \in Greenlets \cup {NoOne} /\ waiting' \in Seq(Greenlets) OBVIOUS
  <2> QED BY <2>1, <2>2, <2>3, <2>4
<1>2. DataType' BY <1>0 DEF DataType, PrFields
<1>3. Active' BY <1>0 DEF ControlType, Active
<1>4. Parked' BY <1>0 DEF ControlType, Parked
<1>5. Handler' BY <1>0 DEF ControlType, Handler, InScript
<1>6. OneScriptAtATime' BY <1>0 DEF ControlType, OneScriptAtATime, InScript
<1>7. PauseSeen' BY <1>0 DEF ControlType, PauseSeen, Pausing, MustWait, PauseCommands
<1>8. LineHasFile' BY <1>0 DEF ControlType, LineHasFile
<1>9. FileOpenWhenUsed' BY <1>0 DEF ControlType, FileOpenWhenUsed, Pausing
<1>10. Reading' BY SMTT(30), <1>0, <1>n DEF ControlType, Reading
<1>11. WithinFile' BY <1>0, <1>n DEF ControlType, WithinFile
<1>12. PositionExact' BY <1>0, <1>n DEF PositionExact
<1>13. Started' BY <1>0 DEF Started
<1>14. StatsTruthful' BY <1>0 DEF ControlType, StatsTruthful
<1>15. Over' BY <1>0 DEF Over
<1>16. Ending' BY <1>0 DEF ControlType, Ending, Handler
<1> QED BY <1>1, <1>2, <1>3, <1>4, <1>5, <1>6, <1>7, <1>8, <1>9, <1>10, <1>11, <1>12, <1>13, <1>14, <1>15, <1>16

LEMMA CancelCompletesStep ==
    ASSUME PrintInv, NEW g \in Greenlets, CancelCompletes(g)
    PROVE  PrintInv'
<1>n. Len(File) \in Nat /\ sd.pos \in Nat /\ sd.next \in Nat /\ sd.read \in Nat /\ sd.head \in Nat
      /\ sd.offset \in Nat /\ hist.last \in Nat
  BY DEF PrintInv, TypeOK, DataType, SdFields
<1>0. /\ sd'.work = sd.work /\ sd'.mustPause = sd.mustPause /\ sd'.fromSd = sd.fromSd /\ sd'.error = sd.error /\ sd'.next = sd.next /\ sd'.read = sd.read /\ sd'.head = sd.head
      /\ sd'.offset = sd.offset
      /\ ~sd'.file /\ sd'.pos = 0
  BY DEF CancelCompletes, PrintInv, TypeOK, DataType, SdFields
<1> USE DEF PrintInv, TypeOK, CancelCompletes, Stopped, NextLine, NoteFinish, ClearPause
<1>1. ControlType'
  <2> USE DEF ControlType
  <2>1. running' \in Greenlets \cup {NoOne} OBVIOUS
  <2>2. pc' \in [Greenlets -> Places] BY DEF Places
  <2>3. script' \in [Greenlets -> Seq(Commands)] BY TailOfScript
  <2>4. holder' \in Greenlets \cup {NoOne} /\ waiting' \in Seq(Greenlets) OBVIOUS
  <2> QED BY <2>1, <2>2, <2>3, <2>4
<1>2. DataType' BY DEF DataType, SdFields, PrFields, StatsFields
<1>3. Active' BY <1>0 DEF ControlType, Active
<1>4. Parked' BY <1>0 DEF ControlType, Parked
<1>5. Handler' BY <1>0 DEF ControlType, Handler, InScript
<1>6. OneScriptAtATime' BY <1>0 DEF ControlType, OneScriptAtATime, InScript
<1>7. PauseSeen' BY <1>0 DEF ControlType, PauseSeen, Pausing, MustWait, PauseCommands
<1>8. LineHasFile' BY <1>0 DEF ControlType, LineHasFile, PauseSeen, Pausing, PauseCommands, MustWait, Handler
<1>9. FileOpenWhenUsed' BY <1>0 DEF ControlType, FileOpenWhenUsed, Pausing, OneScriptAtATime, InScript, Active, Handler, PauseSeen, PauseCommands, MustWait
<1>10. Reading' BY <1>0, <1>n DEF ControlType, Reading
<1>11. WithinFile' BY <1>0, <1>n DEF ControlType, WithinFile
<1>12. PositionExact' BY <1>0, <1>n DEF PositionExact
<1>13. Started' BY <1>0 DEF Started
<1>14. StatsTruthful' BY <1>0 DEF ControlType, StatsTruthful, Started
<1>15. Over' BY <1>0 DEF Over
<1>16. Ending' BY <1>0 DEF ControlType, Ending, Handler
<1> QED BY <1>1, <1>2, <1>3, <1>4, <1>5, <1>6, <1>7, <1>8, <1>9, <1>10, <1>11, <1>12, <1>13, <1>14, <1>15, <1>16

LEMMA ResetFileClosesStep ==
    ASSUME PrintInv, NEW g \in Greenlets, At(g, "SDCARD_RESET_FILE"),
           ~sd.fromSd, ~sd.file, sd' = Closed, stats' = ResetStats, hist' = Forgotten,
           NextLine(g), UNCHANGED <<flags, moving, pr, events>>
    PROVE  PrintInv'
<1>n. Len(File) \in Nat /\ sd.pos \in Nat /\ sd.next \in Nat /\ sd.read \in Nat /\ sd.head \in Nat
      /\ sd.offset \in Nat /\ hist.last \in Nat
  BY DEF PrintInv, TypeOK, DataType, SdFields
<1>0. /\ sd'.work = sd.work /\ sd'.mustPause = sd.mustPause /\ sd'.fromSd = sd.fromSd /\ sd'.error = sd.error /\ sd'.next = sd.next /\ sd'.read = sd.read /\ sd'.head = sd.head
      /\ sd'.offset = sd.offset
      /\ ~sd'.file /\ sd'.pos = 0
  BY DEF Closed, PrintInv, TypeOK, DataType, SdFields
<1> USE DEF PrintInv, TypeOK, At, Executing, NextLine, ResetStats, Forgotten
<1>1. ControlType'
  <2> USE DEF ControlType
  <2>1. running' \in Greenlets \cup {NoOne} OBVIOUS
  <2>2. pc' \in [Greenlets -> Places] BY DEF Places
  <2>3. script' \in [Greenlets -> Seq(Commands)] BY TailOfScript
  <2>4. holder' \in Greenlets \cup {NoOne} /\ waiting' \in Seq(Greenlets) OBVIOUS
  <2> QED BY <2>1, <2>2, <2>3, <2>4
<1>2. DataType' BY DEF DataType, SdFields, PrFields, StatsFields, Closed
<1>3. Active' BY <1>0 DEF ControlType, Active
<1>4. Parked' BY <1>0 DEF ControlType, Parked
<1>5. Handler' BY <1>0 DEF ControlType, Handler, InScript
<1>6. OneScriptAtATime' BY <1>0 DEF ControlType, OneScriptAtATime, InScript
<1>7. PauseSeen' BY <1>0 DEF ControlType, PauseSeen, Pausing, MustWait, PauseCommands
<1>8. LineHasFile' BY <1>0 DEF ControlType, LineHasFile
<1>9. FileOpenWhenUsed' BY <1>0 DEF ControlType, FileOpenWhenUsed, Pausing, OneScriptAtATime, InScript, Active, Handler
<1>10. Reading' BY <1>0, <1>n DEF ControlType, Reading
<1>11. WithinFile' BY <1>0, <1>n DEF ControlType, WithinFile
<1>12. PositionExact' BY <1>0, <1>n DEF PositionExact
<1>13. Started' BY <1>0 DEF Started
<1>14. StatsTruthful' BY <1>0 DEF ControlType, StatsTruthful, Handler, LineHasFile, Active, Places
<1>15. Over' BY <1>0 DEF Over
<1>16. Ending' BY <1>0 DEF ControlType, Ending, Handler, Active
<1> QED BY <1>1, <1>2, <1>3, <1>4, <1>5, <1>6, <1>7, <1>8, <1>9, <1>10, <1>11, <1>12, <1>13, <1>14, <1>15, <1>16

LEMMA ResetFileCompletesStep ==
    ASSUME PrintInv, NEW g \in Greenlets, ResetFileCompletes(g)
    PROVE  PrintInv'
<1>n. Len(File) \in Nat /\ sd.pos \in Nat /\ sd.next \in Nat /\ sd.read \in Nat /\ sd.head \in Nat
      /\ sd.offset \in Nat /\ hist.last \in Nat
  BY DEF PrintInv, TypeOK, DataType, SdFields
<1>0. /\ sd'.work = sd.work /\ sd'.mustPause = sd.mustPause /\ sd'.fromSd = sd.fromSd /\ sd'.error = sd.error /\ sd'.next = sd.next /\ sd'.read = sd.read /\ sd'.head = sd.head
      /\ sd'.offset = sd.offset
      /\ ~sd'.file /\ sd'.pos = 0
  BY DEF ResetFileCompletes, Closed, PrintInv, TypeOK, DataType, SdFields
<1> USE DEF PrintInv, TypeOK, ResetFileCompletes, Stopped, NextLine, ResetStats, Forgotten
<1>1. ControlType'
  <2> USE DEF ControlType
  <2>1. running' \in Greenlets \cup {NoOne} OBVIOUS
  <2>2. pc' \in [Greenlets -> Places] BY DEF Places
  <2>3. script' \in [Greenlets -> Seq(Commands)] BY TailOfScript
  <2>4. holder' \in Greenlets \cup {NoOne} /\ waiting' \in Seq(Greenlets) OBVIOUS
  <2> QED BY <2>1, <2>2, <2>3, <2>4
<1>2. DataType' BY DEF DataType, SdFields, PrFields, StatsFields, Closed
<1>3. Active' BY <1>0 DEF ControlType, Active
<1>4. Parked' BY <1>0 DEF ControlType, Parked
<1>5. Handler' BY <1>0 DEF ControlType, Handler, InScript
<1>6. OneScriptAtATime' BY <1>0 DEF ControlType, OneScriptAtATime, InScript
<1>7. PauseSeen' BY <1>0 DEF ControlType, PauseSeen, Pausing, MustWait, PauseCommands
<1>8. LineHasFile' BY <1>0 DEF ControlType, LineHasFile, PauseSeen, Pausing, PauseCommands, MustWait, Handler
<1>9. FileOpenWhenUsed' BY <1>0 DEF ControlType, FileOpenWhenUsed, Pausing, OneScriptAtATime, InScript, Active, Handler, PauseSeen, PauseCommands, MustWait
<1>10. Reading' BY <1>0, <1>n DEF ControlType, Reading
<1>11. WithinFile' BY SMTT(30), <1>0, <1>n DEF ControlType, WithinFile
<1>12. PositionExact' BY <1>0, <1>n DEF PositionExact
<1>13. Started' BY <1>0 DEF Started
<1>14. StatsTruthful' BY <1>0 DEF ControlType, StatsTruthful, PauseSeen, Pausing, PauseCommands, MustWait, Handler
<1>15. Over' BY <1>0 DEF Over
<1>16. Ending' BY <1>0 DEF ControlType, Ending, Handler, Active
<1> QED BY <1>1, <1>2, <1>3, <1>4, <1>5, <1>6, <1>7, <1>8, <1>9, <1>10, <1>11, <1>12, <1>13, <1>14, <1>15, <1>16

LEMMA ResetFileStep ==
    ASSUME PrintInv, NEW g \in Greenlets, ResetFile(g) PROVE PrintInv'
<1>1. InCommand(g) /\ pc[g] = "gcode" /\ script[g] # <<>>
      /\ Head(script[g]) = "SDCARD_RESET_FILE"
  BY DEF ResetFile, At, Executing, InCommand, InScript
<1>2. CASE sd.fromSd /\ Raise(g) /\ UNCHANGED <<sd, stats, hist>>
  <2>1. Advance(g) BY <1>2 DEF Advance
  <2>2. DataType' BY <1>2 DEF ResetFile, PrintInv, TypeOK, DataType
  <2> QED BY <1>1, <1>2, <2>1, <2>2, QuietCommand
<1>3. CASE ~sd.fromSd /\ sd.file /\ DoPause(g) /\ UNCHANGED <<stats, hist>>
  <2>1. DataType'
    BY <1>3 DEF ResetFile, DoPause, PrintInv, TypeOK, DataType, SdFields
  <2> QED BY <1>1, <1>3, <2>1, DoPauseStep DEF PauseCommands
<1>4. CASE ~sd.fromSd /\ ~sd.file /\ sd' = Closed /\ stats' = ResetStats
           /\ hist' = Forgotten /\ NextLine(g)
  BY <1>4, ResetFileClosesStep DEF ResetFile
<1> QED BY <1>2, <1>3, <1>4 DEF ResetFile

LEMMA LoadFileLoadsStep ==
    ASSUME PrintInv, NEW g \in Greenlets, NEW c, At(g, c), ~sd.work,
           stats' = ResetStats, hist' = Forgotten,
           script' = [script EXCEPT ![g] = Tail(@)],
           \/ sd' = [Closed EXCEPT !.file = TRUE] /\ UNCHANGED pc
           \/ sd' = DoResume([Closed EXCEPT !.file = TRUE]) /\ pc' = [pc EXCEPT ![SD] = "due"],
           UNCHANGED <<running, holder, waiting, flags, moving, pr, events>>
    PROVE  PrintInv'
<1>n. Len(File) \in Nat /\ sd.pos \in Nat /\ sd.next \in Nat /\ sd.read \in Nat /\ sd.head \in Nat
      /\ sd.offset \in Nat /\ hist.last \in Nat
  BY DEF PrintInv, TypeOK, DataType, SdFields
<1>0. /\ sd' \in SdFields
      /\ sd'.fromSd = sd.fromSd /\ sd'.error = sd.error
      /\ sd'.read = sd.read /\ sd'.head = sd.head
      /\ sd'.offset = sd.offset /\ sd'.next = sd.next
      /\ sd'.file /\ sd'.pos = 0
      /\ \/ sd'.work = sd.work /\ sd'.mustPause = sd.mustPause /\ pc' = pc
         \/ sd'.work /\ ~sd'.mustPause /\ pc' = [pc EXCEPT ![SD] = "due"]
  <2> USE DEF Closed, PrintInv, TypeOK, DataType, SdFields
  <2>1. CASE sd' = [Closed EXCEPT !.file = TRUE] /\ UNCHANGED pc
    BY <2>1
  <2>2. CASE sd' = DoResume([Closed EXCEPT !.file = TRUE]) /\ pc' = [pc EXCEPT ![SD] = "due"]
    BY <2>2 DEF DoResume
  <2> QED BY <2>1, <2>2
<1>l. hist'.last = 0
  BY DEF Forgotten, PrintInv, TypeOK, DataType
<1>i. ~sd.fromSd /\ pc'[SD] \in {"idle", "due"}
  BY <1>0 DEF PrintInv, TypeOK, ControlType, Handler
<1> USE DEF PrintInv, TypeOK, At, Executing, ResetStats, Forgotten
<1>1. ControlType'
  <2> USE DEF ControlType
  <2>1. running' \in Greenlets \cup {NoOne} OBVIOUS
  <2>2. pc' \in [Greenlets -> Places] BY DEF Places
  <2>3. script' \in [Greenlets -> Seq(Commands)] BY TailOfScript
  <2>4. holder' \in Greenlets \cup {NoOne} /\ waiting' \in Seq(Greenlets) OBVIOUS
  <2> QED BY <2>1, <2>2, <2>3, <2>4
<1>2. DataType' BY <1>0 DEF DataType, StatsFields
<1>3. Active' BY <1>0 DEF ControlType, Active
<1>4. Parked' BY <1>0 DEF ControlType, Parked
<1>5. Handler' BY <1>0 DEF ControlType, Handler, InScript, Active
<1>6. OneScriptAtATime' BY SMTT(30), <1>0 DEF ControlType, OneScriptAtATime, InScript
<1>7. PauseSeen' BY SMTT(30), <1>0 DEF ControlType, PauseSeen, Pausing, MustWait, PauseCommands, OneScriptAtATime, InScript, Active, Handler
<1>8. LineHasFile' BY <1>0 DEF ControlType, LineHasFile, Handler
<1>9. FileOpenWhenUsed' BY <1>0 DEF ControlType, FileOpenWhenUsed, Pausing, OneScriptAtATime, InScript, Active, Handler
<1>10. Reading' BY <1>0, <1>n DEF ControlType, Reading, Handler
<1>11. WithinFile' BY <1>0, <1>l, <1>n, <1>i DEF WithinFile
<1>12. PositionExact' BY <1>0, <1>l, FileAssumption DEF PositionExact
<1>13. Started' BY <1>0 DEF Started
<1>14. StatsTruthful' BY <1>0 DEF ControlType, StatsTruthful, Handler
<1>15. Over' BY <1>0 DEF Over
<1>16. Ending' BY <1>0 DEF ControlType, Ending, Handler
<1> QED BY <1>1, <1>2, <1>3, <1>4, <1>5, <1>6, <1>7, <1>8, <1>9, <1>10, <1>11, <1>12, <1>13, <1>14, <1>15, <1>16

LEMMA LoadFileRaisesStep ==
    ASSUME PrintInv, NEW g \in Greenlets, NEW c, At(g, c), ~sd.work, Raise(g),
           sd' = Closed, stats' = ResetStats, hist' = Forgotten,
           UNCHANGED <<flags, moving, pr, events>>
    PROVE  PrintInv'
<1>n. Len(File) \in Nat /\ sd.pos \in Nat /\ sd.next \in Nat /\ sd.read \in Nat /\ sd.head \in Nat
      /\ sd.offset \in Nat /\ hist.last \in Nat
  BY DEF PrintInv, TypeOK, DataType, SdFields
<1>0. /\ sd'.work = sd.work /\ sd'.mustPause = sd.mustPause /\ sd'.fromSd = sd.fromSd /\ sd'.error = sd.error /\ sd'.next = sd.next /\ sd'.read = sd.read /\ sd'.head = sd.head
      /\ sd'.offset = sd.offset
      /\ ~sd'.file /\ sd'.pos = 0
  BY DEF Closed, PrintInv, TypeOK, DataType, SdFields
<1> USE DEF PrintInv, TypeOK, At, Executing, Raise, ResetStats, Forgotten
<1>1. ControlType'
  <2> USE DEF ControlType
  <2>1. running' \in Greenlets \cup {NoOne} OBVIOUS
  <2>2. pc' \in [Greenlets -> Places] BY DEF Places
  <2>3. script' \in [Greenlets -> Seq(Commands)] BY EmptyScript
  <2>4. holder' \in Greenlets \cup {NoOne} /\ waiting' \in Seq(Greenlets) OBVIOUS
  <2> QED BY <2>1, <2>2, <2>3, <2>4
<1>2. DataType' BY DEF DataType, SdFields, PrFields, StatsFields, Closed
<1>3. Active' BY <1>0 DEF ControlType, Active
<1>4. Parked' BY <1>0 DEF ControlType, Parked
<1>5. Handler' BY <1>0 DEF ControlType, Handler, InScript, Active
<1>6. OneScriptAtATime' BY <1>0 DEF ControlType, OneScriptAtATime, InScript
<1>7. PauseSeen' BY <1>0 DEF ControlType, PauseSeen, Pausing, MustWait, PauseCommands, OneScriptAtATime, InScript, Active, Handler
<1>8. LineHasFile' BY <1>0 DEF ControlType, LineHasFile, Handler
<1>9. FileOpenWhenUsed' BY <1>0 DEF ControlType, FileOpenWhenUsed, Pausing, OneScriptAtATime, InScript, Active, Handler
<1>10. Reading' BY <1>0, <1>n DEF ControlType, Reading, Handler
<1>11. WithinFile' BY <1>0, <1>n DEF ControlType, WithinFile
<1>12. PositionExact' BY <1>0, <1>n DEF PositionExact
<1>13. Started' BY <1>0 DEF Started
<1>14. StatsTruthful' BY <1>0 DEF ControlType, StatsTruthful, Handler
<1>15. Over' BY <1>0 DEF Over
<1>16. Ending' BY <1>0 DEF ControlType, Ending, Handler
<1> QED BY <1>1, <1>2, <1>3, <1>4, <1>5, <1>6, <1>7, <1>8, <1>9, <1>10, <1>11, <1>12, <1>13, <1>14, <1>15, <1>16

LEMMA LoadFileStep ==
    ASSUME PrintInv, NEW g \in Greenlets, NEW c, LoadFile(g, c) PROVE PrintInv'
<1>1. CASE sd.work /\ Raise(g) /\ UNCHANGED <<sd, stats, hist>>
  <2>1. InCommand(g) /\ Advance(g)
    BY <1>1 DEF LoadFile, At, Executing, InCommand, InScript, Advance
  <2>2. DataType' BY <1>1 DEF LoadFile, PrintInv, TypeOK, DataType
  <2> QED BY <1>1, <2>1, <2>2, QuietCommand
<1>2. CASE ~sd.work /\ sd' = Closed /\ stats' = ResetStats /\ hist' = Forgotten /\ Raise(g)
  BY <1>2, LoadFileRaisesStep DEF LoadFile
<1>3. CASE /\ ~sd.work /\ stats' = ResetStats /\ hist' = Forgotten
           /\ script' = [script EXCEPT ![g] = Tail(@)]
           /\ IF c = "M23"
              THEN sd' = [Closed EXCEPT !.file = TRUE] /\ UNCHANGED pc
              ELSE sd' = DoResume([Closed EXCEPT !.file = TRUE])
                   /\ pc' = [pc EXCEPT ![SD] = "due"]
           /\ UNCHANGED <<running, holder, waiting>>
  BY <1>3, LoadFileLoadsStep DEF LoadFile
<1> QED BY <1>1, <1>2, <1>3 DEF LoadFile

LEMMA M24ResumesStep ==
    ASSUME PrintInv, NEW g \in Greenlets, At(g, "M24"), ~sd.work, sd' = DoResume(sd),
           pc' = [pc EXCEPT ![SD] = "due"], script' = [script EXCEPT ![g] = Tail(@)],
           UNCHANGED <<running, holder, waiting, flags, moving, pr, stats, hist, events>>
    PROVE  PrintInv'
<1>n. Len(File) \in Nat /\ sd.pos \in Nat /\ sd.next \in Nat /\ sd.read \in Nat /\ sd.head \in Nat
      /\ sd.offset \in Nat /\ hist.last \in Nat
  BY DEF PrintInv, TypeOK, DataType, SdFields
<1>0. /\ sd'.fromSd = sd.fromSd /\ sd'.file = sd.file /\ sd'.pos = sd.pos /\ sd'.next = sd.next /\ sd'.read = sd.read /\ sd'.head = sd.head
      /\ sd'.offset = sd.offset /\ sd'.error = sd.error
      /\ sd'.work /\ ~sd'.mustPause
  BY DEF DoResume, PrintInv, TypeOK, DataType, SdFields
<1> USE DEF PrintInv, TypeOK, At, Executing
<1>1. ControlType'
  <2> USE DEF ControlType
  <2>1. running' \in Greenlets \cup {NoOne} OBVIOUS
  <2>2. pc' \in [Greenlets -> Places] BY DEF Places
  <2>3. script' \in [Greenlets -> Seq(Commands)] BY TailOfScript
  <2>4. holder' \in Greenlets \cup {NoOne} /\ waiting' \in Seq(Greenlets) OBVIOUS
  <2> QED BY <2>1, <2>2, <2>3, <2>4
<1>2. DataType'
  <2> USE DEF DataType, DoResume
  <2>1. sd' \in SdFields BY DEF SdFields
  <2>2. stats' \in StatsFields BY DEF StatsFields
  <2>3. pr' \in PrFields BY DEF PrFields
  <2>4. (flags \in [gcode : BOOLEAN, heat : BOOLEAN, shutdown : BOOLEAN])' OBVIOUS
  <2>5. (hist \in [last : Nat, skipped : BOOLEAN, asked : BOOLEAN, cut : BOOLEAN])' OBVIOUS
  <2>6. moving' \in BOOLEAN /\ events' \in 0..MaxEvents OBVIOUS
  <2> QED BY <2>1, <2>2, <2>3, <2>4, <2>5, <2>6
<1>3. Active' BY <1>0 DEF ControlType, Active
<1>4. Parked' BY <1>0 DEF ControlType, Parked
<1>5. Handler' BY <1>0 DEF ControlType, Handler, InScript, Active
<1>6. OneScriptAtATime' BY <1>0 DEF ControlType, OneScriptAtATime, InScript
<1>7. PauseSeen' BY <1>0 DEF ControlType, PauseSeen, Pausing, MustWait, PauseCommands, OneScriptAtATime, InScript, Active, Handler
<1>8. LineHasFile' BY <1>0 DEF ControlType, LineHasFile, Handler
<1>9. FileOpenWhenUsed' BY <1>0 DEF ControlType, FileOpenWhenUsed, Pausing, OneScriptAtATime, InScript, Active, Handler
<1>10. Reading' BY <1>0, <1>n DEF ControlType, Reading
<1>11. WithinFile' BY <1>0, <1>n DEF ControlType, WithinFile
<1>12. PositionExact' BY <1>0, <1>n DEF PositionExact
<1>13. Started' BY <1>0 DEF Started
<1>14. StatsTruthful' BY <1>0 DEF ControlType, StatsTruthful, Handler
<1>15. Over' BY <1>0 DEF Over
<1>16. Ending' BY <1>0 DEF ControlType, Ending, Handler
<1> QED BY <1>1, <1>2, <1>3, <1>4, <1>5, <1>6, <1>7, <1>8, <1>9, <1>10, <1>11, <1>12, <1>13, <1>14, <1>15, <1>16

LEMMA M24Step ==
    ASSUME PrintInv, NEW g \in Greenlets, M24(g) PROVE PrintInv'
<1>1. CASE sd.work /\ Raise(g) /\ UNCHANGED sd
  <2>1. InCommand(g) /\ Advance(g)
    BY <1>1 DEF M24, At, Executing, InCommand, InScript, Advance
  <2>2. UNCHANGED <<sd, stats, hist.last>> /\ DataType'
    BY <1>1 DEF M24, PrintInv, TypeOK, DataType
  <2> QED BY <2>1, <2>2, QuietCommand
<1>2. CASE ~sd.work
  BY <1>2, M24ResumesStep DEF M24
<1> QED BY <1>1, <1>2 DEF M24

LEMMA M112Step ==
    ASSUME PrintInv, NEW g \in Greenlets, M112(g)
    PROVE  PrintInv'
<1>n. Len(File) \in Nat /\ sd.pos \in Nat /\ sd.next \in Nat /\ sd.read \in Nat /\ sd.head \in Nat
      /\ sd.offset \in Nat /\ hist.last \in Nat
  BY DEF PrintInv, TypeOK, DataType, SdFields
<1>0. /\ sd'.work = sd.work /\ sd'.fromSd = sd.fromSd /\ sd'.file = sd.file /\ sd'.pos = sd.pos /\ sd'.next = sd.next /\ sd'.read = sd.read /\ sd'.head = sd.head
      /\ sd'.offset = sd.offset /\ sd'.error = sd.error
      /\ sd'.mustPause <=> sd.mustPause \/ (sd.work /\ ~flags.shutdown)
  BY DEF M112, InvokeShutdown, PrintInv, TypeOK, DataType, SdFields
<1> USE DEF PrintInv, TypeOK, M112, At, Executing, NextLine, InvokeShutdown
<1>1. ControlType'
  <2> USE DEF ControlType
  <2>1. running' \in Greenlets \cup {NoOne} OBVIOUS
  <2>2. pc' \in [Greenlets -> Places] BY DEF Places
  <2>3. script' \in [Greenlets -> Seq(Commands)] BY TailOfScript
  <2>4. holder' \in Greenlets \cup {NoOne} /\ waiting' \in Seq(Greenlets) OBVIOUS
  <2> QED BY <2>1, <2>2, <2>3, <2>4
<1>2. DataType'
  <2> USE DEF DataType
  <2>1. sd' \in SdFields BY DEF SdFields
  <2>2. stats' \in StatsFields BY DEF StatsFields
  <2>3. pr' \in PrFields BY DEF PrFields
  <2>4. (flags \in [gcode : BOOLEAN, heat : BOOLEAN, shutdown : BOOLEAN])' OBVIOUS
  <2>5. (hist \in [last : Nat, skipped : BOOLEAN, asked : BOOLEAN, cut : BOOLEAN])' OBVIOUS
  <2>6. moving' \in BOOLEAN /\ events' \in 0..MaxEvents OBVIOUS
  <2> QED BY <2>1, <2>2, <2>3, <2>4, <2>5, <2>6
<1>3. Active' BY <1>0 DEF ControlType, Active
<1>4. Parked' BY <1>0 DEF ControlType, Parked
<1>5. Handler' BY <1>0 DEF ControlType, Handler, InScript
<1>6. OneScriptAtATime' BY <1>0 DEF ControlType, OneScriptAtATime, InScript
<1>7. PauseSeen' BY <1>0 DEF ControlType, PauseSeen, Pausing, MustWait, PauseCommands, MustWait
<1>8. LineHasFile' BY <1>0 DEF ControlType, LineHasFile, Handler
<1>9. FileOpenWhenUsed' BY <1>0 DEF ControlType, FileOpenWhenUsed, Pausing
<1>10. Reading' BY <1>0, <1>n DEF ControlType, Reading
<1>11. WithinFile' BY <1>0, <1>n DEF ControlType, WithinFile
<1>12. PositionExact' BY <1>0, <1>n DEF PositionExact
<1>13. Started' BY <1>0 DEF Started
<1>14. StatsTruthful' BY <1>0 DEF ControlType, StatsTruthful
<1>15. Over' BY <1>0 DEF Over
<1>16. Ending' BY <1>0 DEF ControlType, Ending, Handler
<1> QED BY <1>1, <1>2, <1>3, <1>4, <1>5, <1>6, <1>7, <1>8, <1>9, <1>10, <1>11, <1>12, <1>13, <1>14, <1>15, <1>16

LEMMA CrashStep ==
    ASSUME PrintInv, NEW g \in Greenlets, Crash(g)
    PROVE  PrintInv'
<1>n. Len(File) \in Nat /\ sd.pos \in Nat /\ sd.next \in Nat /\ sd.read \in Nat /\ sd.head \in Nat
      /\ sd.offset \in Nat /\ hist.last \in Nat
  BY DEF PrintInv, TypeOK, DataType, SdFields
<1>0. /\ sd'.work = sd.work /\ sd'.fromSd = sd.fromSd /\ sd'.file = sd.file /\ sd'.pos = sd.pos /\ sd'.next = sd.next /\ sd'.read = sd.read /\ sd'.head = sd.head
      /\ sd'.offset = sd.offset /\ sd'.error = sd.error
      /\ sd'.mustPause <=> sd.mustPause \/ (sd.work /\ ~flags.shutdown)
  BY DEF Crash, InvokeShutdown, PrintInv, TypeOK, DataType, SdFields
<1> USE DEF PrintInv, TypeOK, Crash, At, Executing, Raise, InvokeShutdown
<1>1. ControlType'
  <2> USE DEF ControlType
  <2>1. running' \in Greenlets \cup {NoOne} OBVIOUS
  <2>2. pc' \in [Greenlets -> Places] BY DEF Places
  <2>3. script' \in [Greenlets -> Seq(Commands)] BY EmptyScript
  <2>4. holder' \in Greenlets \cup {NoOne} /\ waiting' \in Seq(Greenlets) OBVIOUS
  <2> QED BY <2>1, <2>2, <2>3, <2>4
<1>2. DataType'
  <2> USE DEF DataType
  <2>1. sd' \in SdFields BY DEF SdFields
  <2>2. stats' \in StatsFields BY DEF StatsFields
  <2>3. pr' \in PrFields BY DEF PrFields
  <2>4. (flags \in [gcode : BOOLEAN, heat : BOOLEAN, shutdown : BOOLEAN])' OBVIOUS
  <2>5. (hist \in [last : Nat, skipped : BOOLEAN, asked : BOOLEAN, cut : BOOLEAN])' OBVIOUS
  <2>6. moving' \in BOOLEAN /\ events' \in 0..MaxEvents OBVIOUS
  <2> QED BY <2>1, <2>2, <2>3, <2>4, <2>5, <2>6
<1>3. Active' BY <1>0 DEF ControlType, Active
<1>4. Parked' BY <1>0 DEF ControlType, Parked
<1>5. Handler' BY <1>0 DEF ControlType, Handler, InScript
<1>6. OneScriptAtATime' BY <1>0 DEF ControlType, OneScriptAtATime, InScript
<1>7. PauseSeen' BY <1>0 DEF ControlType, PauseSeen, Pausing, MustWait, PauseCommands, MustWait
<1>8. LineHasFile' BY <1>0 DEF ControlType, LineHasFile, Handler
<1>9. FileOpenWhenUsed' BY <1>0 DEF ControlType, FileOpenWhenUsed, Pausing
<1>10. Reading' BY <1>0, <1>n DEF ControlType, Reading
<1>11. WithinFile' BY <1>0, <1>n DEF ControlType, WithinFile
<1>12. PositionExact' BY <1>0, <1>n DEF PositionExact
<1>13. Started' BY <1>0 DEF Started
<1>14. StatsTruthful' BY <1>0 DEF ControlType, StatsTruthful
<1>15. Over' BY <1>0 DEF Over
<1>16. Ending' BY <1>0 DEF ControlType, Ending, Handler
<1> QED BY <1>1, <1>2, <1>3, <1>4, <1>5, <1>6, <1>7, <1>8, <1>9, <1>10, <1>11, <1>12, <1>13, <1>14, <1>15, <1>16

LEMMA EmergencyStopStep ==
    ASSUME PrintInv, EmergencyStop
    PROVE  PrintInv'
<1>n. Len(File) \in Nat /\ sd.pos \in Nat /\ sd.next \in Nat /\ sd.read \in Nat /\ sd.head \in Nat
      /\ sd.offset \in Nat /\ hist.last \in Nat
  BY DEF PrintInv, TypeOK, DataType, SdFields
<1>0. /\ sd'.work = sd.work /\ sd'.fromSd = sd.fromSd /\ sd'.file = sd.file /\ sd'.pos = sd.pos /\ sd'.next = sd.next /\ sd'.read = sd.read /\ sd'.head = sd.head
      /\ sd'.offset = sd.offset /\ sd'.error = sd.error
      /\ sd'.mustPause <=> sd.mustPause \/ (sd.work /\ ~flags.shutdown)
  BY DEF EmergencyStop, InvokeShutdown, PrintInv, TypeOK, DataType, SdFields
<1> USE DEF PrintInv, TypeOK, EmergencyStop, Occurs, InvokeShutdown
<1>1. ControlType'
  <2> USE DEF ControlType
  <2>1. running' \in Greenlets \cup {NoOne} OBVIOUS
  <2>2. pc' \in [Greenlets -> Places] BY DEF Places
  <2>3. script' \in [Greenlets -> Seq(Commands)] OBVIOUS
  <2>4. holder' \in Greenlets \cup {NoOne} /\ waiting' \in Seq(Greenlets) OBVIOUS
  <2> QED BY <2>1, <2>2, <2>3, <2>4
<1>2. DataType'
  <2> USE DEF DataType
  <2>1. sd' \in SdFields BY DEF SdFields
  <2>2. stats' \in StatsFields BY DEF StatsFields
  <2>3. pr' \in PrFields BY DEF PrFields
  <2>4. (flags \in [gcode : BOOLEAN, heat : BOOLEAN, shutdown : BOOLEAN])' OBVIOUS
  <2>5. (hist \in [last : Nat, skipped : BOOLEAN, asked : BOOLEAN, cut : BOOLEAN])' OBVIOUS
  <2>6. moving' \in BOOLEAN /\ events' \in 0..MaxEvents OBVIOUS
  <2> QED BY <2>1, <2>2, <2>3, <2>4, <2>5, <2>6
<1>3. Active' BY <1>0 DEF ControlType, Active
<1>4. Parked' BY <1>0 DEF ControlType, Parked
<1>5. Handler' BY <1>0 DEF ControlType, Handler, InScript
<1>6. OneScriptAtATime' BY <1>0 DEF ControlType, OneScriptAtATime, InScript
<1>7. PauseSeen' BY <1>0 DEF ControlType, PauseSeen, Pausing, MustWait, PauseCommands, MustWait
<1>8. LineHasFile' BY <1>0 DEF ControlType, LineHasFile, Handler
<1>9. FileOpenWhenUsed' BY <1>0 DEF ControlType, FileOpenWhenUsed, Pausing
<1>10. Reading' BY <1>0, <1>n DEF ControlType, Reading
<1>11. WithinFile' BY <1>0, <1>n DEF ControlType, WithinFile
<1>12. PositionExact' BY <1>0, <1>n DEF PositionExact
<1>13. Started' BY <1>0 DEF Started
<1>14. StatsTruthful' BY <1>0 DEF ControlType, StatsTruthful
<1>15. Over' BY <1>0 DEF Over
<1>16. Ending' BY <1>0 DEF ControlType, Ending, Handler
<1> QED BY <1>1, <1>2, <1>3, <1>4, <1>5, <1>6, <1>7, <1>8, <1>9, <1>10, <1>11, <1>12, <1>13, <1>14, <1>15, <1>16

-----------------------------------------------------------------------------
(* The work_handler *)

LEMMA SdStartStep ==
    ASSUME PrintInv, SdStart
    PROVE  PrintInv'
<1>n. Len(File) \in Nat /\ sd.pos \in Nat /\ sd.next \in Nat /\ sd.read \in Nat /\ sd.head \in Nat
      /\ sd.offset \in Nat /\ hist.last \in Nat
  BY DEF PrintInv, TypeOK, DataType, SdFields
<1>0. /\ sd' \in SdFields /\ stats' \in StatsFields
      /\ sd'.mustPause = sd.mustPause /\ sd'.fromSd = sd.fromSd
      /\ sd'.file = sd.file /\ sd'.pos = sd.pos /\ sd'.next = sd.next
      /\ sd.file => /\ sd'.work = sd.work /\ ~sd'.error
                    /\ stats'.state = "printing" /\ stats'.started
      /\ ~sd.file => /\ ~sd'.work /\ sd'.error = sd.error
                     /\ sd'.read = sd.read /\ sd'.head = sd.head
                     /\ stats' = stats
  <2> USE DEF PrintInv, TypeOK, DataType
  <2>1. CASE sd.file
    <3>1. PICK line \in 1..Len(File) + 1 : Seek(sd.pos, line)
      BY <2>1 DEF SdStart
    <3>2. line - 1 \in Nat /\ line \in Nat /\ sd.pos - LineAt[line] \in Nat
      <4>1. LineAt[line] \in Nat BY FileAssumption
      <4>2. LineAt[line] <= sd.pos BY <3>1 DEF Seek
      <4> QED BY <1>n, <4>1, <4>2
    <3>3. stats' = NoteStart(stats) BY <2>1 DEF SdStart
    <3>4. stats' \in StatsFields /\ stats'.state = "printing" /\ stats'.started
      BY <3>3 DEF NoteStart, StatsFields
    <3>5. sd' \in SdFields BY <3>1, <3>2 DEF SdFields, Seek
    <3> QED BY <2>1, <3>1, <3>4, <3>5 DEF SdFields, Seek
  <2>2. CASE ~sd.file
    <3>1. sd' = [sd EXCEPT !.work = FALSE] /\ stats' = stats
      BY <2>2 DEF SdStart
    <3> QED BY <2>2, <3>1 DEF SdFields
  <2> QED BY <2>1, <2>2
<1>k. sd.file =>
        /\ sd'.head \in 1..hist.last + 1 /\ sd'.read = sd'.head - 1
        /\ sd'.read <= Len(File)
        /\ sd'.offset > 0 => sd'.head <= hist.last
        /\ sd.pos <= LineAt[sd'.head] + sd'.offset
        /\ PlainTo(hist.last) => sd'.head = hist.last + 1 /\ sd.pos = LineAt[sd'.head]
  <2> HAVE sd.file
  <2>1. PICK line \in 1..Len(File) + 1 : Seek(sd.pos, line)
    BY DEF SdStart
  <2>2. hist.last + 1 \in 1..Len(File) + 1
    BY SMTT(30), <1>n DEF PrintInv, WithinFile
  <2>3. /\ sd.pos <= LineAt[hist.last + 1]
        /\ PlainTo(hist.last) => sd.pos = LineAt[hist.last + 1]
    BY DEF PrintInv, PositionExact
  <2>4. sd'.head = line /\ sd'.read = line - 1 /\ sd'.offset = sd.pos - LineAt[line]
    BY <2>1 DEF Seek, PrintInv, TypeOK, DataType, SdFields
  <2>5. LineAt[line] \in Nat
    BY FileAssumption
  <2>6. /\ line <= hist.last + 1 /\ (LineAt[line] < sd.pos => line < hist.last + 1)
        /\ sd.pos = LineAt[hist.last + 1] => line = hist.last + 1
    <3>1. /\ LineAt[line] <= sd.pos /\ sd.pos \in Nat
          /\ \A later \in line + 1..Len(File) + 1 : sd.pos < LineAt[later]
      BY <1>n, <2>1 DEF Seek
    <3>2. PICK k \in 1..Len(File) + 1 : k = hist.last + 1
      BY <2>2
    <3>3. sd.pos <= LineAt[k] BY <2>3, <3>2
    <3>4. /\ line <= k /\ (LineAt[line] < sd.pos => line < k)
          /\ sd.pos = LineAt[k] => line = k
      BY <3>1, <3>3, SeekFacts
    <3> QED BY <3>2, <3>4
  <2> QED BY SMTT(30), <1>n, <2>2, <2>3, <2>4, <2>5, <2>6
<1>w. WithinFile'
  <2>1. ~sd.fromSd /\ pc[SD] = "due" BY DEF SdStart, PrintInv, Handler
  <2>2. WithinFile BY DEF PrintInv
  <2>3. hist' = hist /\ (~sd.file => pc'[SD] = "idle")
    BY DEF SdStart, SdGoes, PrintInv, TypeOK, ControlType
  <2>4. CASE sd.file BY SMTT(30), <1>0, <1>k, <1>n, <2>1, <2>2, <2>3, <2>4 DEF WithinFile
  <2>5. CASE ~sd.file BY <1>0, <1>n, <2>1, <2>2, <2>3, <2>5 DEF WithinFile
  <2> QED BY <2>4, <2>5
<1> USE DEF PrintInv, TypeOK, SdStart, SdGoes
<1>1. ControlType'
  <2> USE DEF ControlType
  <2>1. running' \in Greenlets \cup {NoOne} OBVIOUS
  <2>2. pc' \in [Greenlets -> Places] BY DEF Places
  <2>3. script' \in [Greenlets -> Seq(Commands)] OBVIOUS
  <2>4. holder' \in Greenlets \cup {NoOne} /\ waiting' \in Seq(Greenlets) OBVIOUS
  <2> QED BY <2>1, <2>2, <2>3, <2>4
<1>2. DataType' BY <1>0 DEF DataType
<1>3. Active' BY <1>0 DEF ControlType, Active
<1>4. Parked' BY <1>0 DEF ControlType, Parked
<1>5. Handler' BY <1>0 DEF ControlType, Handler, InScript
<1>6. OneScriptAtATime' BY <1>0 DEF ControlType, OneScriptAtATime, InScript
<1>7. PauseSeen' BY <1>0 DEF ControlType, PauseSeen, Pausing, MustWait, PauseCommands
<1>8. LineHasFile' BY <1>0 DEF ControlType, LineHasFile, Handler
<1>9. FileOpenWhenUsed' BY <1>0 DEF ControlType, FileOpenWhenUsed, Pausing
<1>10. Reading' BY <1>0, <1>k DEF ControlType, Reading, Handler
<1>11. WithinFile' BY <1>w
<1>12. PositionExact' BY <1>0, <1>n DEF PositionExact
<1>13. Started' BY <1>0 DEF Started
<1>14. StatsTruthful' BY <1>0 DEF ControlType, StatsTruthful
<1>15. Over' BY <1>0 DEF Over
<1>16. Ending' BY <1>0 DEF ControlType, Ending, Handler
<1> QED BY <1>1, <1>2, <1>3, <1>4, <1>5, <1>6, <1>7, <1>8, <1>9, <1>10, <1>11, <1>12, <1>13, <1>14, <1>15, <1>16

LEMMA SdReadStep ==
    ASSUME PrintInv, SdRead
    PROVE  PrintInv'
<1>n. Len(File) \in Nat /\ sd.pos \in Nat /\ sd.next \in Nat /\ sd.read \in Nat /\ sd.head \in Nat
      /\ sd.offset \in Nat /\ hist.last \in Nat
  BY DEF PrintInv, TypeOK, DataType, SdFields
<1>0. /\ sd' \in SdFields
      /\ sd'.work = sd.work /\ sd'.mustPause = sd.mustPause /\ sd'.fromSd = sd.fromSd
      /\ sd'.file = sd.file /\ sd'.error = sd.error
      /\ sd'.pos = sd.pos /\ sd'.next = sd.next /\ sd'.head = sd.head
      /\ sd'.offset = sd.offset
      /\ sd.read <= sd'.read /\ sd'.read <= Len(File)
  <2>1. PICK n \in Nat : /\ sd' = [sd EXCEPT !.read = n]
                         /\ sd.read <= n /\ n <= Len(File)
    <3>1. CASE sd.read + ChunkLines < Len(File)
      <4>1. sd' = [sd EXCEPT !.read = sd.read + ChunkLines]
        BY <3>1 DEF SdRead
      <4>2. sd.read + ChunkLines \in Nat /\ sd.read <= sd.read + ChunkLines
        BY <1>n
      <4> USE <4>2
      <4> WITNESS sd.read + ChunkLines \in Nat
      <4> QED BY <1>n, <3>1, <4>1, <4>2
    <3>2. CASE ~(sd.read + ChunkLines < Len(File))
      <4>1. sd' = [sd EXCEPT !.read = Len(File)]
        BY <3>2 DEF SdRead
      <4>2. sd.read <= Len(File)
        BY <1>n DEF SdRead
      <4> WITNESS Len(File) \in Nat
      <4> QED BY <1>n, <4>1, <4>2
    <3> QED BY <3>1, <3>2
  <2> QED BY <2>1 DEF PrintInv, TypeOK, DataType, SdFields
<1>w. WithinFile'
  <2>1. WithinFile BY DEF PrintInv
  <2>2. hist' = hist /\ pc[SD] = "loop"
    BY DEF SdRead, InLoop
  <2>3. sd'.read \in Nat BY <1>0 DEF SdFields
  <2>4. sd'.head = sd.head /\ sd'.file = sd.file /\ sd'.fromSd = sd.fromSd /\ sd'.error = sd.error
    BY <1>0
  <2>5. sd.read <= sd'.read /\ sd'.read <= Len(File) BY <1>0
  <2>6. sd'.head >= 1 /\ hist'.last <= Len(File) BY <2>1, <2>2, <2>4 DEF WithinFile
  <2>7. sd'.file => sd'.head <= sd'.read + 1
    <3>1. sd'.file => sd.head <= sd.read + 1 BY <2>1, <2>2, <2>4 DEF WithinFile
    <3> QED BY <1>n, <2>3, <2>4, <2>5, <3>1
  <2>8. sd'.fromSd /\ ~sd'.error => sd'.head \in 2..sd'.read + 1
    <3>1. sd'.fromSd /\ ~sd'.error => sd.head \in 2..sd.read + 1
      BY <2>1, <2>4 DEF WithinFile
    <3> QED BY <1>n, <2>3, <2>4, <2>5, <3>1
  <2> QED BY <2>5, <2>6, <2>7, <2>8 DEF WithinFile
<1> USE DEF PrintInv, TypeOK, SdRead, InLoop, Park
<1>1. ControlType'
  <2> USE DEF ControlType
  <2>1. running' \in Greenlets \cup {NoOne} OBVIOUS
  <2>2. pc' \in [Greenlets -> Places] BY DEF Places
  <2>3. script' \in [Greenlets -> Seq(Commands)] OBVIOUS
  <2>4. holder' \in Greenlets \cup {NoOne} /\ waiting' \in Seq(Greenlets) OBVIOUS
  <2> QED BY <2>1, <2>2, <2>3, <2>4
<1>2. DataType' BY <1>0 DEF DataType
<1>3. Active' BY <1>0 DEF ControlType, Active
<1>4. Parked' BY <1>0 DEF ControlType, Parked
<1>5. Handler' BY <1>0 DEF ControlType, Handler, InScript
<1>6. OneScriptAtATime' BY <1>0 DEF ControlType, OneScriptAtATime, InScript
<1>7. PauseSeen' BY <1>0 DEF ControlType, PauseSeen, Pausing, MustWait, PauseCommands, MustWait
<1>8. LineHasFile' BY <1>0 DEF ControlType, LineHasFile, FileOpenWhenUsed
<1>9. FileOpenWhenUsed' BY <1>0 DEF ControlType, FileOpenWhenUsed, Pausing
<1>10. Reading' BY <1>0, <1>n DEF ControlType, Reading
<1>11. WithinFile' BY <1>w
<1>12. PositionExact' BY <1>0, <1>n DEF PositionExact
<1>13. Started' BY <1>0 DEF Started
<1>14. StatsTruthful' BY <1>0 DEF ControlType, StatsTruthful
<1>15. Over' BY <1>0 DEF Over
<1>16. Ending' BY <1>0 DEF ControlType, Ending, Handler
<1> QED BY <1>1, <1>2, <1>3, <1>4, <1>5, <1>6, <1>7, <1>8, <1>9, <1>10, <1>11, <1>12, <1>13, <1>14, <1>15, <1>16

LEMMA SdEndOfFileStep ==
    ASSUME PrintInv, SdEndOfFile
    PROVE  PrintInv'
<1>e. hist.last = Len(File)
  <2>1. sd.file /\ sd.head <= hist.last + 1 /\ hist.last <= Len(File)
    BY DEF SdEndOfFile, InLoop, PrintInv, FileOpenWhenUsed, Reading, WithinFile
  <2>2. sd.head > sd.read /\ sd.read = Len(File)
    BY DEF SdEndOfFile, NoLines
  <2>n. Len(File) \in Nat /\ sd.head \in Nat /\ hist.last \in Nat
    BY DEF PrintInv, TypeOK, DataType, SdFields
  <2> QED BY <2>1, <2>2, <2>n
<1>n. Len(File) \in Nat /\ sd.pos \in Nat /\ sd.next \in Nat /\ sd.read \in Nat /\ sd.head \in Nat
      /\ sd.offset \in Nat /\ hist.last \in Nat
  BY DEF PrintInv, TypeOK, DataType, SdFields
<1>0. /\ sd'.work = sd.work /\ sd'.mustPause = sd.mustPause /\ sd'.fromSd = sd.fromSd /\ sd'.pos = sd.pos /\ sd'.next = sd.next /\ sd'.read = sd.read /\ sd'.head = sd.head
      /\ sd'.offset = sd.offset /\ sd'.error = sd.error
      /\ ~sd'.file
  BY DEF SdEndOfFile, PrintInv, TypeOK, DataType, SdFields
<1> USE DEF PrintInv, TypeOK, SdEndOfFile, InLoop, NoLines, SdGoes
<1>1. ControlType'
  <2> USE DEF ControlType
  <2>1. running' \in Greenlets \cup {NoOne} OBVIOUS
  <2>2. pc' \in [Greenlets -> Places] BY DEF Places
  <2>3. script' \in [Greenlets -> Seq(Commands)] OBVIOUS
  <2>4. holder' \in Greenlets \cup {NoOne} /\ waiting' \in Seq(Greenlets) OBVIOUS
  <2> QED BY <2>1, <2>2, <2>3, <2>4
<1>2. DataType'
  <2> USE DEF DataType
  <2>1. sd' \in SdFields BY DEF SdFields
  <2>2. stats' \in StatsFields BY DEF StatsFields
  <2>3. pr' \in PrFields BY DEF PrFields
  <2>4. (flags \in [gcode : BOOLEAN, heat : BOOLEAN, shutdown : BOOLEAN])' OBVIOUS
  <2>5. (hist \in [last : Nat, skipped : BOOLEAN, asked : BOOLEAN, cut : BOOLEAN])' OBVIOUS
  <2>6. moving' \in BOOLEAN /\ events' \in 0..MaxEvents OBVIOUS
  <2> QED BY <2>1, <2>2, <2>3, <2>4, <2>5, <2>6
<1>3. Active' BY <1>0 DEF ControlType, Active
<1>4. Parked' BY <1>0 DEF ControlType, Parked
<1>5. Handler' BY <1>0 DEF ControlType, Handler, InScript
<1>6. OneScriptAtATime' BY <1>0 DEF ControlType, OneScriptAtATime, InScript
<1>7. PauseSeen' BY <1>0 DEF ControlType, PauseSeen, Pausing, MustWait, PauseCommands
<1>8. LineHasFile' BY <1>0 DEF ControlType, LineHasFile, Handler
<1>9. FileOpenWhenUsed' BY <1>0 DEF ControlType, FileOpenWhenUsed, Pausing, PauseSeen, PauseCommands, Handler
<1>10. Reading' BY <1>0, <1>n DEF ControlType, Reading
<1>11. WithinFile' BY <1>0, <1>n DEF ControlType, WithinFile
<1>12. PositionExact' BY <1>0, <1>n DEF PositionExact
<1>13. Started' BY <1>0 DEF Started
<1>14. StatsTruthful' BY <1>0 DEF ControlType, StatsTruthful
<1>15. Over' BY <1>0 DEF Over
<1>16. Ending' BY <1>0, <1>e DEF ControlType, Ending, Handler
<1> QED BY <1>1, <1>2, <1>3, <1>4, <1>5, <1>6, <1>7, <1>8, <1>9, <1>10, <1>11, <1>12, <1>13, <1>14, <1>15, <1>16

LEMMA SdReadFailsStep ==
    ASSUME PrintInv, SdReadFails
    PROVE  PrintInv'
<1> USE DEF PrintInv, TypeOK, SdReadFails, InLoop, NoLines, SdGoes
<1>1. ControlType'
  <2> USE DEF ControlType
  <2>1. running' \in Greenlets \cup {NoOne} OBVIOUS
  <2>2. pc' \in [Greenlets -> Places] BY DEF Places
  <2>3. script' \in [Greenlets -> Seq(Commands)] OBVIOUS
  <2>4. holder' \in Greenlets \cup {NoOne} /\ waiting' \in Seq(Greenlets) OBVIOUS
  <2> QED BY <2>1, <2>2, <2>3, <2>4
<1>2. DataType' BY DEF DataType, SdFields, PrFields, StatsFields
<1>3. Active' BY DEF ControlType, Active
<1>4. Parked' BY DEF ControlType, Parked
<1>5. Handler' BY DEF ControlType, Handler, InScript
<1>6. OneScriptAtATime' BY DEF ControlType, OneScriptAtATime, InScript
<1>7. PauseSeen' BY DEF ControlType, PauseSeen, Pausing, MustWait, PauseCommands
<1>8. LineHasFile' BY DEF ControlType, LineHasFile, FileOpenWhenUsed
<1>9. FileOpenWhenUsed' BY DEF ControlType, FileOpenWhenUsed, Pausing
<1>10. Reading' BY DEF ControlType, Reading
<1>11. WithinFile' BY DEF ControlType, DataType, WithinFile
<1>12. PositionExact' BY DEF PositionExact
<1>13. Started' BY DEF Started
<1>14. StatsTruthful' BY DEF ControlType, StatsTruthful
<1>15. Over' BY DEF Over
<1>16. Ending' BY DEF ControlType, Ending, Handler
<1> QED BY <1>1, <1>2, <1>3, <1>4, <1>5, <1>6, <1>7, <1>8, <1>9, <1>10, <1>11, <1>12, <1>13, <1>14, <1>15, <1>16

LEMMA SdYieldStep ==
    ASSUME PrintInv, SdYield
    PROVE  PrintInv'
<1> USE DEF PrintInv, TypeOK, SdYield, InLoop, NoLines, Park
<1>1. ControlType'
  <2> USE DEF ControlType
  <2>1. running' \in Greenlets \cup {NoOne} OBVIOUS
  <2>2. pc' \in [Greenlets -> Places] BY DEF Places
  <2>3. script' \in [Greenlets -> Seq(Commands)] OBVIOUS
  <2>4. holder' \in Greenlets \cup {NoOne} /\ waiting' \in Seq(Greenlets) OBVIOUS
  <2> QED BY <2>1, <2>2, <2>3, <2>4
<1>2. DataType' BY DEF DataType, SdFields, PrFields, StatsFields
<1>3. Active' BY DEF ControlType, Active
<1>4. Parked' BY DEF ControlType, Parked
<1>5. Handler' BY DEF ControlType, Handler, InScript
<1>6. OneScriptAtATime' BY DEF ControlType, OneScriptAtATime, InScript
<1>7. PauseSeen' BY DEF ControlType, PauseSeen, Pausing, MustWait, PauseCommands
<1>8. LineHasFile' BY DEF ControlType, LineHasFile, FileOpenWhenUsed
<1>9. FileOpenWhenUsed' BY DEF ControlType, FileOpenWhenUsed, Pausing
<1>10. Reading' BY DEF ControlType, Reading
<1>11. WithinFile' BY DEF ControlType, DataType, WithinFile
<1>12. PositionExact' BY DEF PositionExact
<1>13. Started' BY DEF Started
<1>14. StatsTruthful' BY DEF ControlType, StatsTruthful
<1>15. Over' BY DEF Over
<1>16. Ending' BY DEF ControlType, Ending, Handler
<1> QED BY <1>1, <1>2, <1>3, <1>4, <1>5, <1>6, <1>7, <1>8, <1>9, <1>10, <1>11, <1>12, <1>13, <1>14, <1>15, <1>16

LEMMA SdWakeStep ==
    ASSUME PrintInv, SdWake
    PROVE  PrintInv'
<1> USE DEF PrintInv, TypeOK, SdWake, SdGoes
<1>1. ControlType'
  <2> USE DEF ControlType
  <2>1. running' \in Greenlets \cup {NoOne} OBVIOUS
  <2>2. pc' \in [Greenlets -> Places] BY DEF Places
  <2>3. script' \in [Greenlets -> Seq(Commands)] OBVIOUS
  <2>4. holder' \in Greenlets \cup {NoOne} /\ waiting' \in Seq(Greenlets) OBVIOUS
  <2> QED BY <2>1, <2>2, <2>3, <2>4
<1>2. DataType' BY DEF DataType, SdFields, PrFields, StatsFields
<1>3. Active' BY DEF ControlType, Active
<1>4. Parked' BY DEF ControlType, Parked
<1>5. Handler' BY DEF ControlType, Handler, InScript
<1>6. OneScriptAtATime' BY DEF ControlType, OneScriptAtATime, InScript
<1>7. PauseSeen' BY DEF ControlType, PauseSeen, Pausing, MustWait, PauseCommands
<1>8. LineHasFile' BY DEF ControlType, LineHasFile
<1>9. FileOpenWhenUsed' BY DEF ControlType, FileOpenWhenUsed, Pausing, LineHasFile
<1>10. Reading' BY DEF ControlType, Reading
<1>11. WithinFile' BY DEF ControlType, DataType, WithinFile
<1>12. PositionExact' BY DEF PositionExact
<1>13. Started' BY DEF Started
<1>14. StatsTruthful' BY DEF ControlType, StatsTruthful
<1>15. Over' BY DEF Over
<1>16. Ending' BY DEF ControlType, Ending, Handler, LineHasFile
<1> QED BY <1>1, <1>2, <1>3, <1>4, <1>5, <1>6, <1>7, <1>8, <1>9, <1>10, <1>11, <1>12, <1>13, <1>14, <1>15, <1>16

LEMMA SdDispatchStep ==
    ASSUME PrintInv, SdDispatch
    PROVE  PrintInv'
<1>n. Len(File) \in Nat /\ sd.pos \in Nat /\ sd.next \in Nat /\ sd.read \in Nat /\ sd.head \in Nat
      /\ sd.offset \in Nat /\ hist.last \in Nat
  BY DEF PrintInv, TypeOK, DataType, SdFields
<1>h. /\ sd.head \in 1..Len(File) /\ sd.head <= sd.read
      /\ sd.file /\ pc[SD] = "loop" /\ hist' = hist
  BY <1>n DEF SdDispatch, InLoop, NoLines, PrintInv, WithinFile, FileOpenWhenUsed
<1>f. /\ LineAt[sd.head] \in Nat /\ LineAt[sd.head + 1] \in Nat /\ Chars[sd.head] \in Nat
      /\ LineAt[sd.head] + Chars[sd.head] <= LineAt[sd.head + 1]
      /\ Bytes(sd.head) = LineAt[sd.head + 1] - LineAt[sd.head]
  <2>1. sd.head \in 1..Len(File) + 1 /\ sd.head + 1 \in 1..Len(File) + 1
    BY SMTT(30), <1>h, <1>n
  <2>2. LineAt[sd.head] \in Nat /\ LineAt[sd.head + 1] \in Nat
    BY <2>1, LayoutFacts
  <2>3. /\ Chars[sd.head] \in Nat /\ LineAt[sd.head] + Chars[sd.head] <= LineAt[sd.head + 1]
        /\ Bytes(sd.head) = LineAt[sd.head + 1] - LineAt[sd.head]
    BY <1>h, LayoutFacts
  <2> QED BY <2>2, <2>3
<1>d. PICK commands \in Seq(Commands), chars \in Nat :
        /\ Dispatch(commands, chars)
        /\ IF sd.offset = 0 THEN chars = Chars[sd.head]
                            ELSE chars <= Bytes(sd.head) - sd.offset
  <2>1. CASE sd.offset = 0
    <3>1. File[sd.head] \in Seq(Commands) BY <1>h
    <3> QED BY <1>f, <2>1, <3>1 DEF SdDispatch
  <2>2. CASE sd.offset # 0
    <3>1. PICK commands \in Fragments, n \in CharsLeft(sd.head, sd.offset) :
             Dispatch(commands, n)
      BY <2>2 DEF SdDispatch
    <3>2. n \in Nat /\ n <= Bytes(sd.head) - sd.offset
      BY <1>f DEF CharsLeft
    <3> QED BY <2>2, <3>1, <3>2
  <2> QED BY <2>1, <2>2
<1>0. /\ sd'.work = sd.work /\ sd'.mustPause = sd.mustPause /\ sd'.fromSd
      /\ sd'.file = sd.file /\ sd'.error = sd.error
      /\ sd'.pos = sd.pos /\ sd'.next = sd.pos + chars
      /\ sd'.read = sd.read /\ sd'.head = sd.head + 1
  BY <1>d DEF Dispatch, PrintInv, TypeOK, DataType, SdFields
<1>w. WithinFile'
  <2>1. WithinFile BY DEF PrintInv
  <2>2. pc'[SD] = "gcode" BY DEF SdDispatch, SdGoes, PrintInv, TypeOK, ControlType
  <2>3. sd.head + 1 \in 2..sd.read + 1
    <3>1. sd.head \in 1..Len(File) /\ sd.head <= sd.read BY <1>h
    <3> HIDE PrintJobAssumption
    <3> QED BY SMTT(30), <1>n, <3>1
  <2>4. sd'.read = sd.read /\ sd'.head = sd.head + 1 /\ hist'.last = hist.last
    BY <1>0, <1>h
  <2>5. sd'.read <= Len(File) /\ hist'.last <= Len(File)
    BY <2>1, <2>4 DEF WithinFile
  <2>6. sd'.head >= 1 /\ sd'.head \in 2..sd'.read + 1
    <3> HIDE PrintJobAssumption
    <3> QED BY <1>n, <2>3, <2>4
  <2> QED BY <2>2, <2>5, <2>6 DEF WithinFile
<1>r. /\ sd'.head <= hist.last + 2 /\ sd'.next <= LineAt[sd'.head]
      /\ PlainTo(hist.last) => sd'.head = hist.last + 2
      /\ PlainTo(hist.last) /\ PlainTo(sd'.head - 1) => sd'.next = LineAt[sd'.head]
  <2>1. /\ sd.head <= hist.last + 1 /\ (sd.offset > 0 => sd.head <= hist.last)
        /\ sd.pos <= LineAt[sd.head] + sd.offset
        /\ PlainTo(hist.last) => sd.head = hist.last + 1 /\ sd.pos = LineAt[sd.head]
    BY <1>h DEF PrintInv, Reading
  <2>2. PlainTo(sd.head) => Bytes(sd.head) = Chars[sd.head]
    BY <1>h DEF PlainTo
  <2>3. sd'.head - 1 = sd.head BY <1>0, <1>n
  <2>4. sd.pos + chars <= LineAt[sd.head + 1]
    <3>1. CASE sd.offset = 0
      <4>1. chars = Chars[sd.head] /\ sd.pos <= LineAt[sd.head]
        BY <1>d, <1>f, <2>1, <3>1
      <4>2. sd.pos \in Nat /\ chars \in Nat BY <1>n, <1>d
      <4> QED BY <1>f, <4>1, <4>2
    <3>2. CASE sd.offset # 0
      <4>1. chars <= LineAt[sd.head + 1] - LineAt[sd.head] - sd.offset
        BY <1>d, <1>f, <3>2
      <4>2. sd.pos \in Nat /\ sd.offset \in Nat /\ chars \in Nat BY <1>n, <1>d
      <4>3. sd.pos <= LineAt[sd.head] + sd.offset BY <2>1
      <4>4. LineAt[sd.head] \in Nat /\ LineAt[sd.head + 1] \in Nat BY <1>f
      <4> HIDE PrintJobAssumption
      <4> QED BY <4>1, <4>2, <4>3, <4>4
    <3> QED BY <3>1, <3>2
  <2>5. sd.head + 1 <= hist.last + 2 BY <1>n, <2>1
  <2>6. PlainTo(hist.last) => sd.head + 1 = hist.last + 2 BY <1>n, <2>1
  <2>7. ASSUME PlainTo(hist.last), PlainTo(sd.head)
        PROVE  sd.pos + chars = LineAt[sd.head + 1]
    <3>1. sd.offset = 0 /\ sd.pos = LineAt[sd.head] BY <1>n, <2>1, <2>7
    <3>2. chars = Chars[sd.head] BY <1>d, <3>1
    <3>3. LineAt[sd.head + 1] - LineAt[sd.head] = Chars[sd.head]
      BY <1>f, <2>2, <2>7
    <3> QED BY <1>f, <3>1, <3>2, <3>3
  <2> QED BY <1>0, <2>3, <2>4, <2>5, <2>6, <2>7
<1>c. hist' = hist /\ pc'[SD] = "gcode" /\ sd'.offset = 0
  BY <1>d, <1>h DEF Dispatch, SdDispatch, SdGoes, PrintInv, TypeOK, ControlType, DataType, SdFields
<1>t. /\ sd' \in SdFields
      /\ [script EXCEPT ![SD] = commands] \in [Greenlets -> Seq(Commands)]
      /\ script' = [script EXCEPT ![SD] = commands]
  <2>1. sd.pos + chars \in Nat /\ sd.head + 1 \in Nat BY SMTT(30), <1>d, <1>n
  <2>2. sd' \in SdFields
    BY <1>d, <2>1 DEF Dispatch, PrintInv, TypeOK, DataType, SdFields
  <2> QED BY <1>d, <2>2 DEF Dispatch, PrintInv, TypeOK, ControlType
<1> USE DEF PrintInv, TypeOK, SdDispatch, InLoop, NoLines, SdGoes, Lock!Acquire
<1>1. ControlType'
  <2> USE DEF ControlType
  <2>1. running' \in Greenlets \cup {NoOne} OBVIOUS
  <2>2. pc' \in [Greenlets -> Places] BY DEF Places
  <2>3. script' \in [Greenlets -> Seq(Commands)] BY <1>t
  <2>4. holder' \in Greenlets \cup {NoOne} /\ waiting' \in Seq(Greenlets) OBVIOUS
  <2> QED BY <2>1, <2>2, <2>3, <2>4
<1>2. DataType' BY <1>t DEF DataType
<1>3. Active' BY <1>0 DEF ControlType, Active
<1>4. Parked' BY <1>0, <1>t DEF ControlType, Parked
<1>5. Handler' BY <1>0 DEF ControlType, Handler, InScript
<1>6. OneScriptAtATime' BY <1>0, <1>t DEF ControlType, OneScriptAtATime, InScript
<1>7. PauseSeen' BY SMTT(30), <1>0, <1>t DEF ControlType, PauseSeen, Pausing, MustWait, PauseCommands, OneScriptAtATime, InScript
<1>8. LineHasFile' BY <1>0 DEF ControlType, LineHasFile, FileOpenWhenUsed
<1>9. FileOpenWhenUsed' BY <1>0 DEF ControlType, FileOpenWhenUsed, Pausing
<1>10. Reading' BY <1>r, <1>c DEF Reading
<1>11. WithinFile' BY <1>w
<1>12. PositionExact' BY <1>0, <1>n DEF PositionExact
<1>13. Started' BY <1>0 DEF Started
<1>14. StatsTruthful' BY <1>0 DEF ControlType, StatsTruthful
<1>15. Over' BY <1>0 DEF Over
<1>16. Ending' BY <1>0 DEF ControlType, Ending, Handler
<1> QED BY <1>1, <1>2, <1>3, <1>4, <1>5, <1>6, <1>7, <1>8, <1>9, <1>10, <1>11, <1>12, <1>13, <1>14, <1>15, <1>16

LEMMA SdLineDoneStep ==
    ASSUME PrintInv, SdLineDone
    PROVE  PrintInv'
<1>n. Len(File) \in Nat /\ sd.pos \in Nat /\ sd.next \in Nat /\ sd.read \in Nat /\ sd.head \in Nat
      /\ sd.offset \in Nat /\ hist.last \in Nat
  BY DEF PrintInv, TypeOK, DataType, SdFields
<1>0. /\ sd'.work = sd.work /\ sd'.mustPause = sd.mustPause /\ ~sd'.fromSd
      /\ sd'.file = sd.file /\ sd'.error = sd.error
      /\ sd'.pos = sd.next /\ sd'.read = sd.read /\ sd'.head = sd.head
  BY DEF SdLineDone, PrintInv, TypeOK, DataType, SdFields
<1>l. hist'.last = IF sd.file /\ hist.last < sd.head - 1 THEN sd.head - 1 ELSE hist.last
  BY DEF SdLineDone, PrintInv, TypeOK, DataType
<1>r. /\ sd.head \in 2..sd.read + 1 /\ sd.read <= Len(File) /\ hist.last <= Len(File)
      /\ sd.file =>
           /\ sd.head <= hist.last + 2 /\ sd.next <= LineAt[sd.head]
           /\ PlainTo(hist.last) => sd.head = hist.last + 2
           /\ PlainTo(hist.last) /\ PlainTo(sd.head - 1) => sd.next = LineAt[sd.head]
  <2>1. sd.fromSd /\ ~sd.error
    BY DEF SdLineDone, SdReturned, PrintInv, Handler
  <2> QED BY <2>1 DEF PrintInv, Reading, WithinFile
<1>p. sd.file => /\ sd.head <= hist'.last + 1 /\ hist'.last \in Nat
                 /\ sd.next <= LineAt[sd.head] /\ sd.next <= LineAt[hist'.last + 1]
                 /\ PlainTo(hist'.last) => /\ sd.head = hist'.last + 1
                                           /\ sd.next = LineAt[sd.head]
  <2> HAVE sd.file
  <2>1. CASE hist.last < sd.head - 1
    <3>0. sd.head = hist.last + 2
      <4>1. sd.head <= hist.last + 2 BY <1>r
      <4>2. sd.head \in Nat /\ hist.last \in Nat BY <1>n
      <4> QED BY <2>1, <4>1, <4>2
    <3>1. sd.head = hist.last + 2 /\ hist'.last = hist.last + 1
      BY <1>l, <1>n, <2>1, <3>0
    <3>2. PlainTo(hist'.last) => PlainTo(hist.last)
      BY <1>n, <3>1, PlainPrefix
    <3>3. sd.head - 1 = hist'.last /\ hist'.last + 1 = sd.head
      BY <1>n, <3>1
    <3> QED BY SMTT(30), <1>n, <1>r, <3>1, <3>2, <3>3
  <2>2. CASE ~(hist.last < sd.head - 1)
    <3>1. hist'.last = hist.last /\ ~PlainTo(hist.last) /\ sd.head <= hist.last + 1
      BY <1>l, <1>n, <1>r, <2>2
    <3>2. PICK h \in 1..Len(File) + 1, k \in 1..Len(File) + 1 :
             h = sd.head /\ k = hist.last + 1
      <4> HIDE PrintJobAssumption
      <4>1. sd.head \in 1..Len(File) + 1
        BY <1>n, <1>r
      <4>2. hist.last + 1 \in 1..Len(File) + 1
        BY SMTT(30), <1>n, <1>r
      <4> QED BY <4>1, <4>2
    <3>3. LineAt[h] <= LineAt[k] /\ LineAt[h] \in Nat /\ LineAt[k] \in Nat
      <4>1. h <= k BY <3>1, <3>2
      <4> QED BY <4>1, LayoutFacts
    <3>4. sd.next <= LineAt[h] BY <1>r, <3>2
    <3>5. sd.next <= LineAt[k] BY <1>n, <3>3, <3>4
    <3> QED BY <1>n, <3>1, <3>2, <3>4, <3>5
  <2> QED BY <2>1, <2>2
<1>o. sd.file => sd'.offset = 0
  <2>1. sd.fromSd /\ ~sd.error
    BY DEF SdLineDone, SdReturned, PrintInv, Handler
  <2> QED BY <2>1 DEF SdLineDone, PrintInv, Reading, TypeOK, DataType, SdFields
<1>q. sd'.file => /\ sd'.head <= hist'.last + 1
                  /\ sd'.offset > 0 => sd'.head <= hist'.last
                  /\ sd'.pos <= LineAt[sd'.head] + sd'.offset
                  /\ PlainTo(hist'.last) => sd'.head = hist'.last + 1 /\ sd'.pos = LineAt[sd'.head]
  <2> HAVE sd'.file
  <2>1. LineAt[sd.head] \in Nat
    <3>1. sd.head \in 1..Len(File) + 1 BY SMTT(30), <1>n, <1>r
    <3> QED BY <3>1, LayoutFacts
  <2>2. LineAt[sd.head] + 0 = LineAt[sd.head] BY <2>1
  <2> QED BY <1>0, <1>o, <1>p, <2>2
<1>w. WithinFile'
  <2>1. hist'.last <= Len(File) BY <1>l, <1>n, <1>r
  <2> QED BY <1>0, <1>n, <1>r, <2>1 DEF WithinFile
<1>t. (hist \in [last : Nat, skipped : BOOLEAN, asked : BOOLEAN, cut : BOOLEAN])'
  <2>1. sd.head - 1 \in Nat BY <1>n, <1>r
  <2> QED BY <2>1 DEF SdLineDone, PrintInv, TypeOK, DataType
<1> USE DEF PrintInv, TypeOK, SdLineDone, SdReturned, Lock!Release, SdGoes
<1>1. ControlType'
  <2> USE DEF ControlType
  <2>1. running' \in Greenlets \cup {NoOne} OBVIOUS
  <2>2. pc' \in [Greenlets -> Places] BY DEF Places
  <2>3. script' \in [Greenlets -> Seq(Commands)] OBVIOUS
  <2>4. holder' \in Greenlets \cup {NoOne} /\ waiting' \in Seq(Greenlets) BY QueueFacts
  <2> QED BY <2>1, <2>2, <2>3, <2>4
<1>2. DataType' BY <1>t DEF DataType, SdFields
<1>3. Active' BY <1>0 DEF ControlType, Active
<1>4. Parked' BY <1>0 DEF ControlType, Parked
<1>5. Handler' BY <1>0 DEF ControlType, Handler, InScript
<1>6. OneScriptAtATime' BY <1>0 DEF ControlType, OneScriptAtATime, InScript
<1>7. PauseSeen' BY <1>0 DEF ControlType, PauseSeen, Pausing, MustWait, PauseCommands, OneScriptAtATime, InScript
<1>8. LineHasFile' BY <1>0 DEF ControlType, LineHasFile
<1>9. FileOpenWhenUsed' BY <1>0 DEF ControlType, FileOpenWhenUsed, Pausing, LineHasFile, Handler
<1>10. Reading' BY <1>q, <1>0 DEF Reading
<1>11. WithinFile' BY <1>w
<1>12. PositionExact' BY <1>0, <1>p DEF PositionExact
<1>13. Started' BY <1>0 DEF Started
<1>14. StatsTruthful' BY <1>0 DEF ControlType, StatsTruthful
<1>15. Over' BY <1>0 DEF Over
<1>16. Ending' BY <1>0 DEF ControlType, Ending, Handler
<1> QED BY <1>1, <1>2, <1>3, <1>4, <1>5, <1>6, <1>7, <1>8, <1>9, <1>10, <1>11, <1>12, <1>13, <1>14, <1>15, <1>16

LEMMA SdLineFailedStep ==
    ASSUME PrintInv, SdLineFailed
    PROVE  PrintInv'
<1>n. Len(File) \in Nat /\ sd.pos \in Nat /\ sd.next \in Nat /\ sd.read \in Nat /\ sd.head \in Nat
      /\ sd.offset \in Nat /\ hist.last \in Nat
  BY DEF PrintInv, TypeOK, DataType, SdFields
<1>0. /\ sd'.work = sd.work /\ sd'.mustPause = sd.mustPause /\ sd'.fromSd = sd.fromSd /\ sd'.file = sd.file /\ sd'.pos = sd.pos /\ sd'.next = sd.next /\ sd'.read = sd.read /\ sd'.head = sd.head
      /\ sd'.offset = sd.offset
      /\ sd'.error
  BY DEF SdLineFailed, PrintInv, TypeOK, DataType, SdFields
<1> USE DEF PrintInv, TypeOK, SdLineFailed, SdRaised, Lock!Release, SdGoes
<1>1. ControlType'
  <2> USE DEF ControlType
  <2>1. running' \in Greenlets \cup {NoOne} OBVIOUS
  <2>2. pc' \in [Greenlets -> Places] BY DEF Places
  <2>3. script' \in [Greenlets -> Seq(Commands)] OBVIOUS
  <2>4. holder' \in Greenlets \cup {NoOne} /\ waiting' \in Seq(Greenlets) BY QueueFacts
  <2> QED BY <2>1, <2>2, <2>3, <2>4
<1>2. DataType'
  <2> USE DEF DataType
  <2>1. sd' \in SdFields BY DEF SdFields
  <2>2. stats' \in StatsFields BY DEF StatsFields
  <2>3. pr' \in PrFields BY DEF PrFields
  <2>4. (flags \in [gcode : BOOLEAN, heat : BOOLEAN, shutdown : BOOLEAN])' OBVIOUS
  <2>5. (hist \in [last : Nat, skipped : BOOLEAN, asked : BOOLEAN, cut : BOOLEAN])' OBVIOUS
  <2>6. moving' \in BOOLEAN /\ events' \in 0..MaxEvents OBVIOUS
  <2> QED BY <2>1, <2>2, <2>3, <2>4, <2>5, <2>6
<1>3. Active' BY <1>0 DEF ControlType, Active
<1>4. Parked' BY <1>0 DEF ControlType, Parked
<1>5. Handler' BY <1>0 DEF ControlType, Handler, InScript
<1>6. OneScriptAtATime' BY <1>0 DEF ControlType, OneScriptAtATime, InScript
<1>7. PauseSeen' BY <1>0 DEF ControlType, PauseSeen, Pausing, MustWait, PauseCommands, MustWait
<1>8. LineHasFile' BY <1>0 DEF ControlType, LineHasFile
<1>9. FileOpenWhenUsed' BY <1>0 DEF ControlType, FileOpenWhenUsed, Pausing
<1>10. Reading' BY <1>0, <1>n DEF ControlType, Reading
<1>11. WithinFile' BY <1>0, <1>n DEF ControlType, WithinFile
<1>12. PositionExact' BY <1>0, <1>n DEF PositionExact
<1>13. Started' BY <1>0 DEF Started
<1>14. StatsTruthful' BY <1>0 DEF ControlType, StatsTruthful
<1>15. Over' BY <1>0 DEF Over
<1>16. Ending' BY <1>0 DEF ControlType, Ending, Handler
<1> QED BY <1>1, <1>2, <1>3, <1>4, <1>5, <1>6, <1>7, <1>8, <1>9, <1>10, <1>11, <1>12, <1>13, <1>14, <1>15, <1>16

LEMMA SdLineCrashesStep ==
    ASSUME PrintInv, SdLineCrashes
    PROVE  PrintInv'
<1>n. Len(File) \in Nat /\ sd.pos \in Nat /\ sd.next \in Nat /\ sd.read \in Nat /\ sd.head \in Nat
      /\ sd.offset \in Nat /\ hist.last \in Nat
  BY DEF PrintInv, TypeOK, DataType, SdFields
<1>0. /\ sd'.work = sd.work /\ sd'.fromSd = sd.fromSd /\ sd'.file = sd.file /\ sd'.pos = sd.pos /\ sd'.next = sd.next /\ sd'.read = sd.read /\ sd'.head = sd.head
      /\ sd'.offset = sd.offset /\ sd'.error = sd.error
      /\ sd'.mustPause <=> sd.mustPause \/ (sd.work /\ ~flags.shutdown)
  BY DEF SdLineCrashes, InvokeShutdown, PrintInv, TypeOK, DataType, SdFields
<1> USE DEF PrintInv, TypeOK, SdLineCrashes, At, Executing, InvokeShutdown, Lock!Release, SdGoes
<1>1. ControlType'
  <2> USE DEF ControlType
  <2>1. running' \in Greenlets \cup {NoOne} OBVIOUS
  <2>2. pc' \in [Greenlets -> Places] BY DEF Places
  <2>3. script' \in [Greenlets -> Seq(Commands)] BY EmptyScript
  <2>4. holder' \in Greenlets \cup {NoOne} /\ waiting' \in Seq(Greenlets) BY QueueFacts
  <2> QED BY <2>1, <2>2, <2>3, <2>4
<1>2. DataType'
  <2> USE DEF DataType
  <2>1. sd' \in SdFields BY DEF SdFields
  <2>2. stats' \in StatsFields BY DEF StatsFields
  <2>3. pr' \in PrFields BY DEF PrFields
  <2>4. (flags \in [gcode : BOOLEAN, heat : BOOLEAN, shutdown : BOOLEAN])' OBVIOUS
  <2>5. (hist \in [last : Nat, skipped : BOOLEAN, asked : BOOLEAN, cut : BOOLEAN])' OBVIOUS
  <2>6. moving' \in BOOLEAN /\ events' \in 0..MaxEvents OBVIOUS
  <2> QED BY <2>1, <2>2, <2>3, <2>4, <2>5, <2>6
<1>3. Active' BY <1>0 DEF ControlType, Active
<1>4. Parked' BY <1>0 DEF ControlType, Parked
<1>5. Handler' BY <1>0 DEF ControlType, Handler, InScript
<1>6. OneScriptAtATime' BY <1>0 DEF ControlType, OneScriptAtATime, InScript
<1>7. PauseSeen' BY <1>0 DEF ControlType, PauseSeen, Pausing, MustWait, PauseCommands, MustWait
<1>8. LineHasFile' BY <1>0 DEF ControlType, LineHasFile
<1>9. FileOpenWhenUsed' BY <1>0 DEF ControlType, FileOpenWhenUsed, Pausing
<1>10. Reading' BY <1>0, <1>n DEF ControlType, Reading
<1>11. WithinFile' BY <1>0, <1>n DEF ControlType, WithinFile
<1>12. PositionExact' BY <1>0, <1>n DEF PositionExact
<1>13. Started' BY <1>0 DEF Started
<1>14. StatsTruthful' BY <1>0 DEF ControlType, StatsTruthful
<1>15. Over' BY <1>0 DEF Over
<1>16. Ending' BY <1>0 DEF ControlType, Ending, Handler
<1> QED BY <1>1, <1>2, <1>3, <1>4, <1>5, <1>6, <1>7, <1>8, <1>9, <1>10, <1>11, <1>12, <1>13, <1>14, <1>15, <1>16

LEMMA SdOnErrorStep ==
    ASSUME PrintInv, SdOnError
    PROVE  PrintInv'
<1>q. Append(waiting, SD) \in Seq(Greenlets)
  BY QueueFacts DEF PrintInv, TypeOK, ControlType
<1> USE DEF PrintInv, TypeOK, SdOnError, RunScript, Lock!Acquire, Lock!Enqueue, Park
<1>1. ControlType'
  <2> USE DEF ControlType
  <2>1. running' \in Greenlets \cup {NoOne} OBVIOUS
  <2>2. pc' \in [Greenlets -> Places] BY DEF Places
  <2>3. script' \in [Greenlets -> Seq(Commands)] BY ScriptOfLine
  <2>4. holder' \in Greenlets \cup {NoOne} /\ waiting' \in Seq(Greenlets) BY <1>q
  <2> QED BY <2>1, <2>2, <2>3, <2>4
<1>2. DataType' BY DEF DataType, SdFields, PrFields, StatsFields
<1>3. Active' BY DEF ControlType, Active
<1>4. Parked' BY DEF ControlType, Parked
<1>5. Handler' BY DEF ControlType, Handler, InScript
<1>6. OneScriptAtATime' BY DEF ControlType, OneScriptAtATime, InScript
<1>7. PauseSeen' BY SMTT(30) DEF ControlType, PauseSeen, Pausing, MustWait, PauseCommands
<1>8. LineHasFile' BY DEF ControlType, LineHasFile
<1>9. FileOpenWhenUsed' BY DEF ControlType, FileOpenWhenUsed, Pausing
<1>10. Reading' BY DEF ControlType, Reading
<1>11. WithinFile' BY DEF ControlType, DataType, WithinFile
<1>12. PositionExact' BY DEF PositionExact
<1>13. Started' BY DEF Started
<1>14. StatsTruthful' BY DEF ControlType, StatsTruthful
<1>15. Over' BY DEF Over
<1>16. Ending' BY DEF ControlType, Ending, Handler
<1> QED BY <1>1, <1>2, <1>3, <1>4, <1>5, <1>6, <1>7, <1>8, <1>9, <1>10, <1>11, <1>12, <1>13, <1>14, <1>15, <1>16

LEMMA SdOnErrorDoneStep ==
    ASSUME PrintInv, SdOnErrorDone
    PROVE  PrintInv'
<1> USE DEF PrintInv, TypeOK, SdOnErrorDone, SdReturned, SdRaised, Lock!Release, SdGoes
<1>1. ControlType'
  <2> USE DEF ControlType
  <2>1. running' \in Greenlets \cup {NoOne} OBVIOUS
  <2>2. pc' \in [Greenlets -> Places] BY DEF Places
  <2>3. script' \in [Greenlets -> Seq(Commands)] OBVIOUS
  <2>4. holder' \in Greenlets \cup {NoOne} /\ waiting' \in Seq(Greenlets) BY QueueFacts
  <2> QED BY <2>1, <2>2, <2>3, <2>4
<1>2. DataType' BY DEF DataType, SdFields, PrFields, StatsFields
<1>3. Active' BY DEF ControlType, Active
<1>4. Parked' BY DEF ControlType, Parked
<1>5. Handler' BY DEF ControlType, Handler, InScript
<1>6. OneScriptAtATime' BY DEF ControlType, OneScriptAtATime, InScript
<1>7. PauseSeen' BY DEF ControlType, PauseSeen, Pausing, MustWait, PauseCommands
<1>8. LineHasFile' BY DEF ControlType, LineHasFile
<1>9. FileOpenWhenUsed' BY DEF ControlType, FileOpenWhenUsed, Pausing
<1>10. Reading' BY DEF ControlType, Reading
<1>11. WithinFile' BY DEF ControlType, DataType, WithinFile
<1>12. PositionExact' BY DEF PositionExact
<1>13. Started' BY DEF Started
<1>14. StatsTruthful' BY DEF ControlType, StatsTruthful
<1>15. Over' BY DEF Over
<1>16. Ending' BY DEF ControlType, Ending, Handler
<1> QED BY <1>1, <1>2, <1>3, <1>4, <1>5, <1>6, <1>7, <1>8, <1>9, <1>10, <1>11, <1>12, <1>13, <1>14, <1>15, <1>16

LEMMA SdExitStep ==
    ASSUME PrintInv, SdExit
    PROVE  PrintInv'
<1>s. /\ (stats \in StatsFields)' /\ Started' /\ stats'.state # "printing"
      /\ (stats'.state \in {"complete", "cancelled"} => ~sd.file)
  <2>1. stats \in StatsFields /\ Started /\ stats.state \in {"printing", "cancelled"}
        /\ (stats.state = "cancelled" => ~sd.file)
    BY DEF SdExit, PrintInv, TypeOK, DataType, StatsTruthful, Over
  <2>2. CASE sd.error
    <3>1. stats' = NoteFinish(stats, "error") BY <2>2 DEF SdExit
    <3> QED BY <2>1, <3>1 DEF NoteFinish, StatsFields, Started
  <2>3. CASE ~sd.error /\ sd.file
    <3>1. stats' = NotePause(stats) BY <2>3 DEF SdExit
    <3> QED BY <2>1, <2>3, <3>1 DEF NotePause, StatsFields, Started
  <2>4. CASE ~sd.error /\ ~sd.file
    <3>1. stats' = NoteFinish(stats, "complete") BY <2>4 DEF SdExit
    <3> QED BY <2>1, <2>4, <3>1 DEF NoteFinish, StatsFields, Started
  <2> QED BY <2>2, <2>3, <2>4
<1>n. Len(File) \in Nat /\ sd.pos \in Nat /\ sd.next \in Nat /\ sd.read \in Nat /\ sd.head \in Nat
      /\ sd.offset \in Nat /\ hist.last \in Nat
  BY DEF PrintInv, TypeOK, DataType, SdFields
<1>0. /\ sd'.mustPause = sd.mustPause /\ sd'.file = sd.file /\ sd'.pos = sd.pos /\ sd'.next = sd.next /\ sd'.read = sd.read /\ sd'.head = sd.head
      /\ sd'.offset = sd.offset /\ sd'.error = sd.error
      /\ ~sd'.work /\ ~sd'.fromSd
  BY DEF SdExit, PrintInv, TypeOK, DataType, SdFields
<1> USE DEF PrintInv, TypeOK, SdExit, Park
<1>1. ControlType'
  <2> USE DEF ControlType
  <2>1. running' \in Greenlets \cup {NoOne} OBVIOUS
  <2>2. pc' \in [Greenlets -> Places] BY DEF Places
  <2>3. script' \in [Greenlets -> Seq(Commands)] OBVIOUS
  <2>4. holder' \in Greenlets \cup {NoOne} /\ waiting' \in Seq(Greenlets) OBVIOUS
  <2> QED BY <2>1, <2>2, <2>3, <2>4
<1>2. DataType' BY <1>s DEF DataType, SdFields
<1>3. Active' BY <1>0 DEF ControlType, Active
<1>4. Parked' BY <1>0 DEF ControlType, Parked
<1>5. Handler' BY <1>0 DEF ControlType, Handler, InScript
<1>6. OneScriptAtATime' BY <1>0 DEF ControlType, OneScriptAtATime, InScript
<1>7. PauseSeen' BY <1>0 DEF ControlType, PauseSeen, Pausing, MustWait, PauseCommands
<1>8. LineHasFile' BY <1>0 DEF ControlType, LineHasFile
<1>9. FileOpenWhenUsed' BY <1>0 DEF ControlType, FileOpenWhenUsed, Pausing
<1>10. Reading' BY <1>0, <1>n DEF ControlType, Reading
<1>11. WithinFile' BY <1>0, <1>n DEF ControlType, WithinFile
<1>12. PositionExact' BY <1>0, <1>n DEF PositionExact
<1>13. Started' BY <1>s
<1>14. StatsTruthful' BY <1>s DEF ControlType, StatsTruthful
<1>15. Over' BY <1>0, <1>s DEF Over
<1>16. Ending' BY <1>0 DEF ControlType, Ending, Handler
<1> QED BY <1>1, <1>2, <1>3, <1>4, <1>5, <1>6, <1>7, <1>8, <1>9, <1>10, <1>11, <1>12, <1>13, <1>14, <1>15, <1>16

-----------------------------------------------------------------------------
(* The runout event, the idle timeout, requests and flags *)

LEMMA RunoutBeginStep ==
    ASSUME PrintInv, RunoutBegin
    PROVE  PrintInv'
<1>n. Len(File) \in Nat /\ sd.pos \in Nat /\ sd.next \in Nat /\ sd.read \in Nat /\ sd.head \in Nat
      /\ sd.offset \in Nat /\ hist.last \in Nat
  BY DEF PrintInv, TypeOK, DataType, SdFields
<1>0. /\ sd'.work = sd.work /\ sd'.fromSd = sd.fromSd /\ sd'.file = sd.file /\ sd'.pos = sd.pos /\ sd'.next = sd.next /\ sd'.read = sd.read /\ sd'.head = sd.head
      /\ sd'.offset = sd.offset /\ sd'.error = sd.error
      /\ sd'.mustPause <=> sd.mustPause \/ (sd.work /\ ~pr.sent)
  BY DEF RunoutBegin, PrintInv, TypeOK, DataType, SdFields
<1> USE DEF PrintInv, TypeOK, RunoutBegin, Park, MustWait
<1>1. ControlType'
  <2> USE DEF ControlType
  <2>1. running' \in Greenlets \cup {NoOne} OBVIOUS
  <2>2. pc' \in [Greenlets -> Places] BY DEF Places
  <2>3. script' \in [Greenlets -> Seq(Commands)] OBVIOUS
  <2>4. holder' \in Greenlets \cup {NoOne} /\ waiting' \in Seq(Greenlets) OBVIOUS
  <2> QED BY <2>1, <2>2, <2>3, <2>4
<1>2. DataType'
  <2> USE DEF DataType
  <2>1. sd' \in SdFields
    <3> HIDE DEF PrintInv, TypeOK, DataType, Park, MustWait
    <3>1. sd' = sd \/ sd' = [sd EXCEPT !.mustPause = TRUE] OBVIOUS
    <3>2. sd \in SdFields BY DEF PrintInv, TypeOK, DataType
    <3> QED BY <3>1, <3>2 DEF SdFields
  <2>2. stats' \in StatsFields BY DEF StatsFields
  <2>3. pr' \in PrFields
    <3> HIDE DEF PrintInv, TypeOK, DataType, Park
    <3>1. pr' = pr \/ pr' = [pr EXCEPT !.sdPaused = FALSE, !.sent = TRUE]
          \/ pr' = [pr EXCEPT !.sdPaused = TRUE, !.sent = ~MustWait]
      OBVIOUS
    <3>2. pr \in PrFields BY DEF PrintInv, TypeOK, DataType
    <3> QED BY <3>1, <3>2 DEF PrFields
  <2>4. (flags \in [gcode : BOOLEAN, heat : BOOLEAN, shutdown : BOOLEAN])' OBVIOUS
  <2>5. (hist \in [last : Nat, skipped : BOOLEAN, asked : BOOLEAN, cut : BOOLEAN])' OBVIOUS
  <2>6. moving' \in BOOLEAN /\ events' \in 0..MaxEvents OBVIOUS
  <2> QED BY <2>1, <2>2, <2>3, <2>4, <2>5, <2>6
<1>3. Active' BY <1>0 DEF ControlType, Active
<1>4. Parked' BY <1>0 DEF ControlType, Parked
<1>5. Handler' BY <1>0 DEF ControlType, Handler, InScript
<1>6. OneScriptAtATime' BY SMTT(30), <1>0 DEF ControlType, OneScriptAtATime, InScript, Parked
<1>7. PauseSeen' BY <1>0 DEF ControlType, PauseSeen, Pausing, MustWait, PauseCommands, MustWait, Parked
<1>8. LineHasFile' BY <1>0 DEF ControlType, LineHasFile, Handler
<1>9. FileOpenWhenUsed' BY SMTT(30), <1>0 DEF ControlType, FileOpenWhenUsed, Pausing, Parked
<1>10. Reading' BY <1>0, <1>n DEF ControlType, Reading
<1>11. WithinFile' BY <1>0, <1>n DEF ControlType, WithinFile
<1>12. PositionExact' BY <1>0, <1>n DEF PositionExact
<1>13. Started' BY <1>0 DEF Started
<1>14. StatsTruthful' BY <1>0 DEF ControlType, StatsTruthful
<1>15. Over' BY <1>0 DEF Over
<1>16. Ending' BY <1>0 DEF ControlType, Ending, Handler
<1> QED BY <1>1, <1>2, <1>3, <1>4, <1>5, <1>6, <1>7, <1>8, <1>9, <1>10, <1>11, <1>12, <1>13, <1>14, <1>15, <1>16

LEMMA RunoutPausedStep ==
    ASSUME PrintInv, RunoutPaused
    PROVE  PrintInv'
<1> USE DEF PrintInv, TypeOK, RunoutPaused, Park
<1>1. ControlType'
  <2> USE DEF ControlType
  <2>1. running' \in Greenlets \cup {NoOne} OBVIOUS
  <2>2. pc' \in [Greenlets -> Places] BY DEF Places
  <2>3. script' \in [Greenlets -> Seq(Commands)] OBVIOUS
  <2>4. holder' \in Greenlets \cup {NoOne} /\ waiting' \in Seq(Greenlets) OBVIOUS
  <2> QED BY <2>1, <2>2, <2>3, <2>4
<1>2. DataType'
  <2> USE DEF DataType
  <2>1. sd' \in SdFields BY DEF SdFields
  <2>2. stats' \in StatsFields BY DEF StatsFields
  <2>3. pr' \in PrFields BY DEF PrFields
  <2>4. (flags \in [gcode : BOOLEAN, heat : BOOLEAN, shutdown : BOOLEAN])' OBVIOUS
  <2>5. (hist \in [last : Nat, skipped : BOOLEAN, asked : BOOLEAN, cut : BOOLEAN])' OBVIOUS
  <2>6. moving' \in BOOLEAN /\ events' \in 0..MaxEvents OBVIOUS
  <2> QED BY <2>1, <2>2, <2>3, <2>4, <2>5, <2>6
<1>3. Active' BY DEF ControlType, Active
<1>4. Parked' BY DEF ControlType, Parked
<1>5. Handler' BY DEF ControlType, Handler, InScript
<1>6. OneScriptAtATime' BY DEF ControlType, OneScriptAtATime, InScript
<1>7. PauseSeen' BY DEF ControlType, PauseSeen, Pausing, MustWait, PauseCommands
<1>8. LineHasFile' BY DEF ControlType, LineHasFile
<1>9. FileOpenWhenUsed' BY DEF ControlType, FileOpenWhenUsed, Pausing
<1>10. Reading' BY DEF ControlType, Reading
<1>11. WithinFile' BY DEF ControlType, DataType, WithinFile
<1>12. PositionExact' BY DEF PositionExact
<1>13. Started' BY DEF Started
<1>14. StatsTruthful' BY DEF ControlType, StatsTruthful
<1>15. Over' BY DEF Over
<1>16. Ending' BY DEF ControlType, Ending, Handler
<1> QED BY <1>1, <1>2, <1>3, <1>4, <1>5, <1>6, <1>7, <1>8, <1>9, <1>10, <1>11, <1>12, <1>13, <1>14, <1>15, <1>16

LEMMA RunoutScriptStep ==
    ASSUME PrintInv, RunoutScript
    PROVE  PrintInv'
<1>q. /\ Append(waiting, RO) \in Seq(Greenlets)
      /\ <<"PAUSE">> \o RunoutGcode \o <<"G1">> \in Seq(Commands)
  BY QueueFacts DEF PrintInv, TypeOK, ControlType, Commands
<1> USE DEF PrintInv, TypeOK, RunoutScript, RunScript, Lock!Acquire, Lock!Enqueue, Park
<1>1. ControlType'
  <2> USE DEF ControlType
  <2>1. running' \in Greenlets \cup {NoOne} OBVIOUS
  <2>2. pc' \in [Greenlets -> Places] BY DEF Places
  <2>3. script' \in [Greenlets -> Seq(Commands)] BY <1>q
  <2>4. holder' \in Greenlets \cup {NoOne} /\ waiting' \in Seq(Greenlets) BY <1>q
  <2> QED BY <2>1, <2>2, <2>3, <2>4
<1>2. DataType'
  <2> USE DEF DataType
  <2>1. sd' \in SdFields BY DEF SdFields
  <2>2. stats' \in StatsFields BY DEF StatsFields
  <2>3. pr' \in PrFields BY DEF PrFields
  <2>4. (flags \in [gcode : BOOLEAN, heat : BOOLEAN, shutdown : BOOLEAN])' OBVIOUS
  <2>5. (hist \in [last : Nat, skipped : BOOLEAN, asked : BOOLEAN, cut : BOOLEAN])' OBVIOUS
  <2>6. moving' \in BOOLEAN /\ events' \in 0..MaxEvents OBVIOUS
  <2> QED BY <2>1, <2>2, <2>3, <2>4, <2>5, <2>6
<1>3. Active' BY DEF ControlType, Active
<1>4. Parked' BY DEF ControlType, Parked
<1>5. Handler' BY DEF ControlType, Handler, InScript
<1>6. OneScriptAtATime' BY DEF ControlType, OneScriptAtATime, InScript
<1>7. PauseSeen' BY SMTT(30) DEF ControlType, PauseSeen, Pausing, MustWait, PauseCommands
<1>8. LineHasFile' BY DEF ControlType, LineHasFile
<1>9. FileOpenWhenUsed' BY DEF ControlType, FileOpenWhenUsed, Pausing
<1>10. Reading' BY DEF ControlType, Reading
<1>11. WithinFile' BY DEF ControlType, DataType, WithinFile
<1>12. PositionExact' BY DEF PositionExact
<1>13. Started' BY DEF Started
<1>14. StatsTruthful' BY DEF ControlType, StatsTruthful
<1>15. Over' BY DEF Over
<1>16. Ending' BY DEF ControlType, Ending, Handler
<1> QED BY <1>1, <1>2, <1>3, <1>4, <1>5, <1>6, <1>7, <1>8, <1>9, <1>10, <1>11, <1>12, <1>13, <1>14, <1>15, <1>16

LEMMA IdleReadyStep ==
    ASSUME PrintInv, IdleReady
    PROVE  PrintInv'
<1> USE DEF PrintInv, TypeOK, IdleReady
<1>1. ControlType'
  <2> USE DEF ControlType
  <2>1. running' \in Greenlets \cup {NoOne} OBVIOUS
  <2>2. pc' \in [Greenlets -> Places] BY DEF Places
  <2>3. script' \in [Greenlets -> Seq(Commands)] OBVIOUS
  <2>4. holder' \in Greenlets \cup {NoOne} /\ waiting' \in Seq(Greenlets) OBVIOUS
  <2> QED BY <2>1, <2>2, <2>3, <2>4
<1>2. DataType'
  <2> USE DEF DataType
  <2>1. sd' \in SdFields BY DEF SdFields
  <2>2. stats' \in StatsFields BY DEF StatsFields
  <2>3. pr' \in PrFields BY DEF PrFields
  <2>4. (flags \in [gcode : BOOLEAN, heat : BOOLEAN, shutdown : BOOLEAN])' OBVIOUS
  <2>5. (hist \in [last : Nat, skipped : BOOLEAN, asked : BOOLEAN, cut : BOOLEAN])' OBVIOUS
  <2>6. moving' \in BOOLEAN /\ events' \in 0..MaxEvents OBVIOUS
  <2> QED BY <2>1, <2>2, <2>3, <2>4, <2>5, <2>6
<1>3. Active' BY DEF ControlType, Active
<1>4. Parked' BY DEF ControlType, Parked
<1>5. Handler' BY DEF ControlType, Handler, InScript
<1>6. OneScriptAtATime' BY DEF ControlType, OneScriptAtATime, InScript
<1>7. PauseSeen' BY DEF ControlType, PauseSeen, Pausing, MustWait, PauseCommands
<1>8. LineHasFile' BY DEF ControlType, LineHasFile
<1>9. FileOpenWhenUsed' BY DEF ControlType, FileOpenWhenUsed, Pausing
<1>10. Reading' BY DEF ControlType, Reading
<1>11. WithinFile' BY DEF ControlType, DataType, WithinFile
<1>12. PositionExact' BY DEF PositionExact
<1>13. Started' BY DEF Started
<1>14. StatsTruthful' BY DEF ControlType, StatsTruthful
<1>15. Over' BY DEF Over
<1>16. Ending' BY DEF ControlType, Ending, Handler
<1> QED BY <1>1, <1>2, <1>3, <1>4, <1>5, <1>6, <1>7, <1>8, <1>9, <1>10, <1>11, <1>12, <1>13, <1>14, <1>15, <1>16

LEMMA RequestStep ==
    ASSUME PrintInv, NEW g \in Greenlets, NEW s \in Scripts, g \in Clients, Request(g, s)
    PROVE  PrintInv'
<1>q. Append(waiting, g) \in Seq(Greenlets) /\ s \in Seq(Commands)
  BY QueueFacts DEF PrintInv, TypeOK, ControlType
<1> USE DEF PrintInv, TypeOK, Request, Occurs, RunScript, Lock!Acquire, Lock!Enqueue, Park
<1>1. ControlType'
  <2> USE DEF ControlType
  <2>1. running' \in Greenlets \cup {NoOne} OBVIOUS
  <2>2. pc' \in [Greenlets -> Places] BY DEF Places
  <2>3. script' \in [Greenlets -> Seq(Commands)] BY <1>q
  <2>4. holder' \in Greenlets \cup {NoOne} /\ waiting' \in Seq(Greenlets) BY <1>q
  <2> QED BY <2>1, <2>2, <2>3, <2>4
<1>2. DataType'
  <2> USE DEF DataType
  <2>1. sd' \in SdFields BY DEF SdFields
  <2>2. stats' \in StatsFields BY DEF StatsFields
  <2>3. pr' \in PrFields BY DEF PrFields
  <2>4. (flags \in [gcode : BOOLEAN, heat : BOOLEAN, shutdown : BOOLEAN])' OBVIOUS
  <2>5. (hist \in [last : Nat, skipped : BOOLEAN, asked : BOOLEAN, cut : BOOLEAN])' OBVIOUS
  <2>6. moving' \in BOOLEAN /\ events' \in 0..MaxEvents OBVIOUS
  <2> QED BY <2>1, <2>2, <2>3, <2>4, <2>5, <2>6
<1>3. Active' BY DEF ControlType, Active
<1>4. Parked' BY DEF ControlType, Parked
<1>5. Handler' BY DEF ControlType, Handler, InScript
<1>6. OneScriptAtATime' BY SMTT(30) DEF ControlType, OneScriptAtATime, InScript
<1>7. PauseSeen' BY DEF ControlType, PauseSeen, Pausing, MustWait, PauseCommands
<1>8. LineHasFile' BY DEF ControlType, LineHasFile
<1>9. FileOpenWhenUsed' BY DEF ControlType, FileOpenWhenUsed, Pausing
<1>10. Reading' BY DEF ControlType, Reading
<1>11. WithinFile' BY DEF ControlType, DataType, WithinFile
<1>12. PositionExact' BY DEF PositionExact
<1>13. Started' BY DEF Started
<1>14. StatsTruthful' BY DEF ControlType, StatsTruthful
<1>15. Over' BY DEF Over
<1>16. Ending' BY DEF ControlType, Ending, Handler
<1> QED BY <1>1, <1>2, <1>3, <1>4, <1>5, <1>6, <1>7, <1>8, <1>9, <1>10, <1>11, <1>12, <1>13, <1>14, <1>15, <1>16

LEMMA EndpointStep ==
    ASSUME PrintInv, BreakMacro \/ ResumeMacro \/ BreakHeater
    PROVE  PrintInv'
<1> USE DEF PrintInv, TypeOK, BreakMacro, ResumeMacro, BreakHeater, Occurs
<1>1. ControlType'
  <2> USE DEF ControlType
  <2>1. running' \in Greenlets \cup {NoOne} OBVIOUS
  <2>2. pc' \in [Greenlets -> Places] BY DEF Places
  <2>3. script' \in [Greenlets -> Seq(Commands)] OBVIOUS
  <2>4. holder' \in Greenlets \cup {NoOne} /\ waiting' \in Seq(Greenlets) OBVIOUS
  <2> QED BY <2>1, <2>2, <2>3, <2>4
<1>2. DataType'
  <2> USE DEF DataType
  <2>1. sd' \in SdFields BY DEF SdFields
  <2>2. stats' \in StatsFields BY DEF StatsFields
  <2>3. pr' \in PrFields BY DEF PrFields
  <2>4. (flags \in [gcode : BOOLEAN, heat : BOOLEAN, shutdown : BOOLEAN])' OBVIOUS
  <2>5. (hist \in [last : Nat, skipped : BOOLEAN, asked : BOOLEAN, cut : BOOLEAN])' OBVIOUS
  <2>6. moving' \in BOOLEAN /\ events' \in 0..MaxEvents OBVIOUS
  <2> QED BY <2>1, <2>2, <2>3, <2>4, <2>5, <2>6
<1>3. Active' BY DEF ControlType, Active
<1>4. Parked' BY DEF ControlType, Parked
<1>5. Handler' BY DEF ControlType, Handler, InScript
<1>6. OneScriptAtATime' BY DEF ControlType, OneScriptAtATime, InScript
<1>7. PauseSeen' BY DEF ControlType, PauseSeen, Pausing, MustWait, PauseCommands
<1>8. LineHasFile' BY DEF ControlType, LineHasFile
<1>9. FileOpenWhenUsed' BY DEF ControlType, FileOpenWhenUsed, Pausing
<1>10. Reading' BY DEF ControlType, DataType, Reading
<1>11. WithinFile' BY DEF ControlType, DataType, WithinFile
<1>12. PositionExact' BY DEF PositionExact, DataType
<1>13. Started' BY DEF Started
<1>14. StatsTruthful' BY DEF ControlType, StatsTruthful
<1>15. Over' BY DEF Over
<1>16. Ending' BY DEF ControlType, Ending, Handler, DataType
<1> QED BY <1>1, <1>2, <1>3, <1>4, <1>5, <1>6, <1>7, <1>8, <1>9, <1>10, <1>11, <1>12, <1>13, <1>14, <1>15, <1>16

LEMMA RunoutStep ==
    ASSUME PrintInv, Runout
    PROVE  PrintInv'
<1> USE DEF PrintInv, TypeOK, Runout, Occurs
<1>1. ControlType'
  <2> USE DEF ControlType
  <2>1. running' \in Greenlets \cup {NoOne} OBVIOUS
  <2>2. pc' \in [Greenlets -> Places] BY DEF Places
  <2>3. script' \in [Greenlets -> Seq(Commands)] OBVIOUS
  <2>4. holder' \in Greenlets \cup {NoOne} /\ waiting' \in Seq(Greenlets) OBVIOUS
  <2> QED BY <2>1, <2>2, <2>3, <2>4
<1>2. DataType'
  <2> USE DEF DataType
  <2>1. sd' \in SdFields BY DEF SdFields
  <2>2. stats' \in StatsFields BY DEF StatsFields
  <2>3. pr' \in PrFields BY DEF PrFields
  <2>4. (flags \in [gcode : BOOLEAN, heat : BOOLEAN, shutdown : BOOLEAN])' OBVIOUS
  <2>5. (hist \in [last : Nat, skipped : BOOLEAN, asked : BOOLEAN, cut : BOOLEAN])' OBVIOUS
  <2>6. moving' \in BOOLEAN /\ events' \in 0..MaxEvents OBVIOUS
  <2> QED BY <2>1, <2>2, <2>3, <2>4, <2>5, <2>6
<1>3. Active' BY DEF ControlType, Active
<1>4. Parked' BY DEF ControlType, Parked
<1>5. Handler' BY DEF ControlType, Handler, InScript
<1>6. OneScriptAtATime' BY DEF ControlType, OneScriptAtATime, InScript
<1>7. PauseSeen' BY DEF ControlType, PauseSeen, Pausing, MustWait, PauseCommands
<1>8. LineHasFile' BY DEF ControlType, LineHasFile
<1>9. FileOpenWhenUsed' BY DEF ControlType, FileOpenWhenUsed, Pausing
<1>10. Reading' BY DEF ControlType, Reading
<1>11. WithinFile' BY DEF ControlType, DataType, WithinFile
<1>12. PositionExact' BY DEF PositionExact
<1>13. Started' BY DEF Started
<1>14. StatsTruthful' BY DEF ControlType, StatsTruthful
<1>15. Over' BY DEF Over
<1>16. Ending' BY DEF ControlType, Ending, Handler
<1> QED BY <1>1, <1>2, <1>3, <1>4, <1>5, <1>6, <1>7, <1>8, <1>9, <1>10, <1>11, <1>12, <1>13, <1>14, <1>15, <1>16

LEMMA StutterStep ==
    ASSUME PrintInv, UNCHANGED vars
    PROVE  PrintInv'
<1> USE DEF PrintInv, TypeOK, vars
<1>1. ControlType'
  <2> USE DEF ControlType
  <2>1. running' \in Greenlets \cup {NoOne} OBVIOUS
  <2>2. pc' \in [Greenlets -> Places] BY DEF Places
  <2>3. script' \in [Greenlets -> Seq(Commands)] OBVIOUS
  <2>4. holder' \in Greenlets \cup {NoOne} /\ waiting' \in Seq(Greenlets) OBVIOUS
  <2> QED BY <2>1, <2>2, <2>3, <2>4
<1>2. DataType' BY DEF DataType, SdFields, PrFields, StatsFields
<1>3. Active' BY DEF ControlType, Active
<1>4. Parked' BY DEF ControlType, Parked
<1>5. Handler' BY DEF ControlType, Handler, InScript
<1>6. OneScriptAtATime' BY DEF ControlType, OneScriptAtATime, InScript
<1>7. PauseSeen' BY DEF ControlType, PauseSeen, Pausing, MustWait, PauseCommands
<1>8. LineHasFile' BY DEF ControlType, LineHasFile
<1>9. FileOpenWhenUsed' BY DEF ControlType, FileOpenWhenUsed, Pausing
<1>10. Reading' BY DEF ControlType, Reading
<1>11. WithinFile' BY DEF ControlType, DataType, WithinFile
<1>12. PositionExact' BY DEF PositionExact
<1>13. Started' BY DEF Started
<1>14. StatsTruthful' BY DEF ControlType, StatsTruthful
<1>15. Over' BY DEF Over
<1>16. Ending' BY DEF ControlType, Ending, Handler
<1> QED BY <1>1, <1>2, <1>3, <1>4, <1>5, <1>6, <1>7, <1>8, <1>9, <1>10, <1>11, <1>12, <1>13, <1>14, <1>15, <1>16

-----------------------------------------------------------------------------
(* The inductive invariant *)

LEMMA InitInv == Init => PrintInv
<1> SUFFICES ASSUME Init PROVE PrintInv
  OBVIOUS
<1> USE DEF Init
<1>1. TypeOK
  <2>1. ControlType BY DEF ControlType, Places
  <2>2. sd \in SdFields /\ pr \in PrFields BY DEF SdFields, PrFields
  <2>3. stats \in StatsFields BY DEF StatsFields
  <2>4. flags \in [gcode : BOOLEAN, heat : BOOLEAN, shutdown : BOOLEAN]
        /\ hist \in [last : Nat, skipped : BOOLEAN, asked : BOOLEAN, cut : BOOLEAN]
    OBVIOUS
  <2>5. moving \in BOOLEAN /\ events \in 0..MaxEvents
    <3>1. events = 0 /\ 0 \in 0..MaxEvents OBVIOUS
    <3>2. moving \in BOOLEAN OBVIOUS
    <3> QED BY <3>1, <3>2
  <2>6. DataType
    <3> HIDE DEF Init
    <3> QED BY <2>2, <2>3, <2>4, <2>5 DEF DataType
  <2> QED BY <2>1, <2>6 DEF TypeOK
<1>2. Active /\ Parked /\ Handler BY DEF Active, Parked, Handler
<1>3. OneScriptAtATime /\ PauseSeen
  BY DEF OneScriptAtATime, InScript, PauseSeen, Pausing
<1>4. LineHasFile /\ FileOpenWhenUsed
  BY DEF LineHasFile, FileOpenWhenUsed, Pausing
<1>5. Len(File) \in Nat OBVIOUS
<1>6. Reading /\ WithinFile /\ PositionExact
  BY <1>5 DEF Reading, WithinFile, PositionExact
<1>7. Started /\ StatsTruthful /\ Over /\ Ending
  BY DEF Started, StatsTruthful, Over, Ending
<1> QED BY <1>1, <1>2, <1>3, <1>4, <1>6, <1>7 DEF PrintInv

LEMMA CommandInv ==
    ASSUME PrintInv, NEW g \in Greenlets, Command(g) PROVE PrintInv'
<1>1. CASE SkipLine(g) \/ Move(g) \/ Fail(g) \/ HeatAndWait(g) \/ TemperatureWait(g)
  BY <1>1, SkipLineStep, MoveStep, FailStep, HeatAndWaitStep, TemperatureWaitStep
<1>2. CASE PauseIgnored(g) \/ PauseAtOnce(g) \/ PausePrint(g) \/ PauseCompletes(g)
  BY <1>2, PauseIgnoredStep, PauseAtOnceStep, PausePrintStep, PauseCompletesStep
<1>3. CASE ResumeIgnored(g) \/ ResumeMovesBack(g) \/ ResumeRefused(g) \/ ResumePrint(g)
  BY <1>3, ResumeIgnoredStep, ResumeMovesBackStep, ResumeRefusedStep, ResumePrintStep
<1>4. CASE ClearPauseCmd(g) \/ CancelNothing(g) \/ CancelPrint(g) \/ CancelCompletes(g)
  BY <1>4, ClearPauseCmdStep, CancelNothingStep, CancelPrintStep, CancelCompletesStep
<1>5. CASE ResetFile(g) \/ ResetFileCompletes(g)
           \/ LoadFile(g, "M23") \/ LoadFile(g, "SDCARD_PRINT_FILE")
  BY <1>5, ResetFileStep, ResetFileCompletesStep, LoadFileStep
<1>6. CASE M24(g) \/ M25(g) \/ M25Completes(g) \/ M112(g) \/ Crash(g)
           \/ EndScript(g)
  BY <1>6, M24Step, M25Step, M25CompletesStep, M112Step, CrashStep, EndScriptStep
<1> QED BY <1>1, <1>2, <1>3, <1>4, <1>5, <1>6 DEF Command

LEMMA StepInv == PrintInv /\ [Next]_vars => PrintInv'
<1> SUFFICES ASSUME PrintInv, [Next]_vars PROVE PrintInv'
  OBVIOUS
<1>1. CASE UNCHANGED vars \/ Quiet
  BY <1>1, StutterStep DEF Quiet
<1>2. ASSUME NEW g \in Greenlets, Command(g) \/ Wake(g) PROVE PrintInv'
  BY <1>2, CommandInv, GetMutexStep, EndWaitStep, WaitFailsStep, MoveBackEndsStep,
     DoPauseReturnsStep DEF Wake
<1>3. CASE SdStep \/ SdStart \/ SdWake
  BY <1>3, SdStartStep, SdWakeStep, SdReadStep, SdEndOfFileStep, SdReadFailsStep,
     SdYieldStep, SdDispatchStep, SdLineDoneStep, SdLineFailedStep, SdLineCrashesStep, SdOnErrorStep,
     SdOnErrorDoneStep, SdExitStep DEF SdStep
<1>4. CASE RunoutPaused \/ RunoutWake
  BY <1>4, RunoutPausedStep, RunoutBeginStep, RunoutScriptStep DEF RunoutWake
<1>5. CASE IdleReady
  BY <1>5, IdleReadyStep
<1>6. CASE Asynchronous
  <2>1. ASSUME NEW g \in Clients, NEW s \in Scripts, Request(g, s) PROVE PrintInv'
    <3>1. g \in Greenlets OBVIOUS
    <3> QED BY <2>1, <3>1, RequestStep
  <2> QED BY <1>6, <2>1, EndpointStep, EmergencyStopStep, RunoutStep DEF Asynchronous
<1> QED BY <1>1, <1>2, <1>3, <1>4, <1>5, <1>6 DEF Next

(* Every reachable state of a print satisfies PrintInv: the types, and all *)
(* the parts that the theorems below read off.                             *)
THEOREM PrintInvariance == Spec => []PrintInv
<1>1. Init => PrintInv BY InitInv
<1>2. PrintInv /\ [Next]_vars => PrintInv' BY StepInv
<1> QED BY <1>1, <1>2, PTL DEF Spec

(* The variables keep their types: places, scripts, file positions.        *)
THEOREM TypeCorrectness == Spec => []TypeOK
<1>1. PrintInv => TypeOK BY DEF PrintInv
<1> QED BY <1>1, PrintInvariance, PTL

(* run_script serialises: whoever is inside a script owns the mutex.       *)
THEOREM OneScriptHolds == Spec => []OneScriptAtATime
<1>1. PrintInv => OneScriptAtATime BY DEF PrintInv
<1> QED BY <1>1, PrintInvariance, PTL

(* work_handler, do_cancel and _reset_file find current_file open.         *)
THEOREM FileOpenHolds == Spec => []FileOpenWhenUsed
<1>1. PrintInv => FileOpenWhenUsed BY DEF PrintInv
<1> QED BY <1>1, PrintInvariance, PTL

(* For every file, whatever its characters and its newlines are: a resume  *)
(* never leaves out a line, and file_position is where the first line that *)
(* was not completed begins as long as the lines before it are plain.      *)
THEOREM PositionHolds == Spec => []PositionExact
<1>1. PrintInv => PositionExact BY DEF PrintInv
<1> QED BY <1>1, PrintInvariance, PTL

(* print_stats is "printing" exactly while the work_handler runs.          *)
THEOREM StatsHold == Spec => []StatsTruthful
<1>1. PrintInv => StatsTruthful BY DEF PrintInv
<1> QED BY <1>1, PrintInvariance, PTL

-----------------------------------------------------------------------------
(* PAUSE *)

(* How the fields of PauseResume change, but for the note whether the SD   *)
(* card was paused.                                                        *)
LEMMA PauseFields ==
    ASSUME PrintInv, [Next]_vars
    PROVE  \/ pr'.paused = pr.paused /\ pr'.sent = pr.sent /\ pr'.saved = pr.saved
           \/ ~pr'.paused /\ ~pr'.sent
           \/ \E g \in Greenlets : PauseAtOnce(g) \/ PauseCompletes(g)
           \/ RunoutBegin \/ RunoutPaused
<1> USE DEF PrintInv, TypeOK, DataType, PrFields
<1>1. CASE UNCHANGED pr
  BY <1>1
<1>2. ASSUME NEW g \in Greenlets, Command(g) \/ Wake(g)
      PROVE  \/ pr'.paused = pr.paused /\ pr'.sent = pr.sent /\ pr'.saved = pr.saved
             \/ ~pr'.paused /\ ~pr'.sent
             \/ PauseAtOnce(g) \/ PauseCompletes(g)
  <2>1. CASE PausePrint(g) BY <2>1 DEF PausePrint
  <2>2. CASE ResumePrint(g) BY <2>2 DEF ResumePrint
  <2>3. CASE ClearPauseCmd(g) BY <2>3 DEF ClearPauseCmd, ClearPause
  <2>4. CASE CancelNothing(g) BY <2>4 DEF CancelNothing, ClearPause
  <2>5. CASE CancelCompletes(g) BY <2>5 DEF CancelCompletes, ClearPause
  <2>6. CASE SkipLine(g) \/ Move(g) \/ Fail(g) \/ HeatAndWait(g) \/ TemperatureWait(g)
             \/ PauseIgnored(g) \/ ResumeIgnored(g) \/ ResumeMovesBack(g)
             \/ ResumeRefused(g) \/ CancelPrint(g)
    BY <2>6 DEF SkipLine, Move, Fail, HeatAndWait, TemperatureWait, PauseIgnored,
       ResumeIgnored, ResumeMovesBack, ResumeRefused, CancelPrint
  <2>7. CASE ResetFile(g) \/ ResetFileCompletes(g) \/ LoadFile(g, "M23")
             \/ LoadFile(g, "SDCARD_PRINT_FILE")
             \/ M24(g) \/ M25(g) \/ M25Completes(g) \/ M112(g) \/ Crash(g)
             \/ EndScript(g)
    BY <2>7 DEF ResetFile, ResetFileCompletes, LoadFile, M24, M25, M25Completes,
       M112, Crash, EndScript
  <2>8. CASE Wake(g)
    BY <2>8 DEF Wake, GetMutex, EndWait, WaitFails, MoveBackEnds, DoPauseReturns
  <2> QED BY <1>2, <2>1, <2>2, <2>3, <2>4, <2>5, <2>6, <2>7, <2>8 DEF Command
<1>3. CASE SdStep \/ SdStart \/ SdWake
  <2>1. UNCHANGED pr
    BY <1>3 DEF SdStep, SdStart, SdWake, SdRead, SdEndOfFile, SdReadFails, SdYield,
       SdDispatch, SdLineDone, SdLineFailed, SdLineCrashes, SdOnError, SdOnErrorDone, SdExit
  <2> QED BY <2>1, <1>1
<1>4. CASE RunoutScript
  BY <1>4 DEF RunoutScript
<1>5. CASE IdleReady \/ Quiet \/ Asynchronous \/ UNCHANGED vars
  <2>1. UNCHANGED pr
    BY <1>5 DEF IdleReady, Quiet, Asynchronous, Request, BreakMacro, ResumeMacro,
       BreakHeater, EmergencyStop, Runout, vars
  <2> QED BY <2>1, <1>1
<1> QED BY <1>1, <1>2, <1>3, <1>4, <1>5 DEF Next, RunoutWake

(* Only the end of a PAUSE sets is_paused. *)
LEMMA PausedBy ==
    ASSUME PrintInv, [Next]_vars, ~pr.paused, pr'.paused
    PROVE  \E g \in Greenlets : PauseAtOnce(g) \/ PauseCompletes(g)
<1> USE DEF PrintInv, TypeOK, DataType, PrFields
<1>1. CASE RunoutPaused
  BY <1>1 DEF RunoutPaused
<1>2. CASE RunoutBegin
  <2>1. CASE pr' = pr BY <2>1
  <2>2. CASE pr' = [pr EXCEPT !.sdPaused = FALSE, !.sent = TRUE] BY <2>2
  <2>3. CASE pr' = [pr EXCEPT !.sdPaused = TRUE, !.sent = ~MustWait] BY <2>3
  <2> QED BY <1>2, <2>1, <2>2, <2>3 DEF RunoutBegin
<1> QED BY <1>1, <1>2, PauseFields

(* A PAUSE that takes effect has told the work_handler to stop, whatever   *)
(* happened while it was polling in do_pause, unless the runout event had  *)
(* sent the command.                                                       *)
THEOREM PauseStopsPrintHolds == Spec => PauseStopsPrint
<1>1. PrintInv /\ [Next]_vars =>
        [~pr.paused /\ pr'.paused /\ ~pr.sent /\ sd'.work => sd'.mustPause]_vars
  <2> SUFFICES ASSUME PrintInv, [Next]_vars, ~pr.paused, pr'.paused, ~pr.sent, sd'.work
               PROVE  sd'.mustPause
    OBVIOUS
  <2>1. PICK g \in Greenlets : PauseAtOnce(g) \/ PauseCompletes(g)
    BY PausedBy
  <2>2. CASE PauseAtOnce(g)
    BY <2>2 DEF PauseAtOnce
  <2>3. CASE PauseCompletes(g)
    <3>1. Pausing(g, "PAUSE") BY <2>3 DEF PauseCompletes, Stopped, Pausing
    <3>2. sd.work => sd.mustPause BY <3>1 DEF PrintInv, PauseSeen, PauseCommands
    <3>3. sd' = sd BY <2>3 DEF PauseCompletes
    <3> QED BY <3>2, <3>3
  <2> QED BY <2>1, <2>2, <2>3
<1> QED BY <1>1, PrintInvariance, PTL DEF Spec, PauseStopsPrint

-----------------------------------------------------------------------------
(* PrintLifecycle *)

LifeStep == Lifecycle!Next \/ UNCHANGED <<stats.state, hist.last>>

LEMMA CancelLife ==
    ASSUME PrintInv, NEW g \in Greenlets, CancelCompletes(g) PROVE LifeStep
<1>1. hist' = hist /\ stats' = NoteFinish(stats, "cancelled")
  BY DEF CancelCompletes
<1>2. stats \in StatsFields /\ Started
  BY DEF PrintInv, TypeOK, DataType
<1>3. CASE stats.started
  <2>1. stats'.state = "cancelled" /\ stats.state \in {"printing", "paused"}
    BY <1>1, <1>2, <1>3 DEF NoteFinish, StatsFields, Started
  <2> QED BY <1>1, <2>1 DEF LifeStep, Lifecycle!Next, Lifecycle!Cancel
<1>4. CASE ~stats.started
  <2>1. stats' = stats BY <1>1, <1>4 DEF NoteFinish
  <2> QED BY <1>1, <2>1 DEF LifeStep
<1> QED BY <1>3, <1>4

(* The file is reset only while no work_handler is in its loop. *)
LEMMA ResetLife ==
    ASSUME PrintInv, stats' = ResetStats, hist' = Forgotten, pc[SD] \in {"idle", "due"}
    PROVE  LifeStep
<1>1. stats.state # "printing"
  BY DEF PrintInv, StatsTruthful
<1>2. stats'.state = "standby" /\ hist'.last = 0
  BY DEF ResetStats, Forgotten, PrintInv, TypeOK, DataType
<1> QED BY <1>1, <1>2 DEF LifeStep, Lifecycle!Next, Lifecycle!Reset

LEMMA ResetFileLife ==
    ASSUME PrintInv, NEW g \in Greenlets, ResetFile(g) PROVE LifeStep
<1>1. CASE UNCHANGED <<stats, hist>>
  BY <1>1 DEF LifeStep
<1>2. CASE ~sd.fromSd /\ ~sd.file /\ stats' = ResetStats /\ hist' = Forgotten
  <2>1. running = g /\ pc[g] = "gcode"
    BY DEF ResetFile, At, Executing
  <2>2. pc[SD] \in {"idle", "due"}
    BY <1>2, <2>1 DEF PrintInv, TypeOK, ControlType, Places, Active, Handler, LineHasFile
  <2> QED BY <1>2, <2>2, ResetLife
<1> QED BY <1>1, <1>2 DEF ResetFile

LEMMA ResetFileCompletesLife ==
    ASSUME PrintInv, NEW g \in Greenlets, ResetFileCompletes(g) PROVE LifeStep
<1>1. Pausing(g, "SDCARD_RESET_FILE") /\ pc[g] = "stopped"
  BY DEF ResetFileCompletes, Stopped, Pausing
<1>2. ~MustWait /\ ~sd.fromSd
  BY <1>1 DEF PrintInv, PauseSeen, PauseCommands
<1>3. pc[SD] = "idle"
  BY <1>2 DEF MustWait, PrintInv, Handler
<1> QED BY <1>3, ResetLife DEF ResetFileCompletes

LEMMA LoadFileLife ==
    ASSUME PrintInv, NEW g \in Greenlets, NEW c, LoadFile(g, c) PROVE LifeStep
<1>1. CASE sd.work
  BY <1>1 DEF LoadFile, LifeStep
<1>2. CASE ~sd.work
  <2>1. pc[SD] = "idle" BY <1>2 DEF PrintInv, Handler
  <2>2. stats' = ResetStats /\ hist' = Forgotten BY <1>2 DEF LoadFile
  <2> QED BY <2>1, <2>2, ResetLife
<1> QED BY <1>1, <1>2

LEMMA SdStartLife ==
    ASSUME PrintInv, SdStart PROVE LifeStep
<1>1. CASE sd.file
  <2>1. stats' = NoteStart(stats) /\ hist' = hist
    BY <1>1 DEF SdStart
  <2>2. stats.state \in {"standby", "paused", "error"}
    BY <1>1 DEF SdStart, PrintInv, TypeOK, DataType, StatsFields, StatsTruthful, Over
  <2> QED BY <2>1, <2>2 DEF NoteStart, LifeStep, Lifecycle!Next, Lifecycle!Start
<1>2. CASE ~sd.file
  BY <1>2 DEF SdStart, LifeStep
<1> QED BY <1>1, <1>2

LEMMA SdLineDoneLife ==
    ASSUME PrintInv, SdLineDone PROVE LifeStep
<1>1. CASE sd.file
  <2>1. sd.fromSd /\ ~sd.error /\ pc[SD] = "gcode"
    BY DEF SdLineDone, SdReturned, PrintInv, Handler
  <2>2. sd.head <= hist.last + 2 /\ sd.head <= sd.read + 1 /\ sd.read <= Len(File)
    BY <1>1, <2>1 DEF PrintInv, Reading, WithinFile
  <2>3. hist.last \in Nat /\ sd.head \in Nat /\ sd.read \in Nat /\ Len(File) \in Nat
    BY DEF PrintInv, TypeOK, DataType, SdFields
  <2>4. stats.state = "printing" /\ stats' = stats
    BY <1>1, <2>1 DEF SdLineDone, PrintInv, StatsTruthful, Over
  <2>5. hist'.last = IF hist.last < sd.head - 1 THEN sd.head - 1 ELSE hist.last
    BY <1>1 DEF SdLineDone, PrintInv, TypeOK, DataType
  <2>6. \/ hist'.last = hist.last
        \/ hist'.last = hist.last + 1 /\ hist.last < Len(File)
    <3>1. CASE hist.last < sd.head - 1
      <4>1. hist'.last = sd.head - 1 BY <2>5, <3>1
      <4>2. sd.head - 1 = hist.last + 1 BY <2>2, <2>3, <3>1
      <4>3. hist.last < Len(File) BY <2>2, <2>3, <3>1
      <4> QED BY <4>1, <4>2, <4>3
    <3>2. CASE ~(hist.last < sd.head - 1)
      BY <2>5, <3>2
    <3> QED BY <3>1, <3>2
  <2> QED BY <2>4, <2>6 DEF LifeStep, Lifecycle!Next, Lifecycle!PrintLine
<1>2. CASE ~sd.file
  BY <1>2 DEF SdLineDone, LifeStep, PrintInv, TypeOK, DataType
<1> QED BY <1>1, <1>2

LEMMA SdExitLife ==
    ASSUME PrintInv, SdExit PROVE LifeStep
<1>1. stats \in StatsFields /\ Started /\ stats.state \in {"printing", "cancelled"}
      /\ (stats.state = "cancelled" => ~sd.file) /\ hist' = hist
  BY DEF SdExit, PrintInv, TypeOK, DataType, StatsTruthful, Over
<1>2. CASE stats' = stats
  BY <1>1, <1>2 DEF LifeStep
<1>3. CASE sd.error /\ stats.started
  <2>1. stats' = NoteFinish(stats, "error") BY <1>3 DEF SdExit
  <2>2. stats'.state = "error" /\ stats.state = "printing"
    BY <1>1, <1>3, <2>1 DEF NoteFinish, StatsFields, Started
  <2> QED BY <1>1, <2>2 DEF LifeStep, Lifecycle!Next, Lifecycle!Stop
<1>4. CASE ~sd.error /\ sd.file
  <2>1. stats' = NotePause(stats) BY <1>4 DEF SdExit
  <2>2. stats'.state = "paused" /\ stats.state = "printing"
    BY <1>1, <1>4, <2>1 DEF NotePause, StatsFields
  <2> QED BY <1>1, <2>2 DEF LifeStep, Lifecycle!Next, Lifecycle!Stop
<1>5. CASE ~sd.error /\ ~sd.file /\ stats.started
  <2>1. stats' = NoteFinish(stats, "complete") BY <1>5 DEF SdExit
  <2>2. stats'.state = "complete" /\ stats.state = "printing"
    BY <1>1, <1>5, <2>1 DEF NoteFinish, StatsFields, Started
  <2>3. hist.last = Len(File)
    BY <1>5 DEF SdExit, PrintInv, Ending
  <2> QED
    BY <1>1, <2>2, <2>3 DEF LifeStep, Lifecycle!Next, Lifecycle!Complete, Lifecycle!Stop
<1> QED BY <1>2, <1>3, <1>4, <1>5 DEF SdExit, NoteFinish

LEMMA StepLife ==
    ASSUME PrintInv, [Next]_vars PROVE LifeStep
<1>1. CASE UNCHANGED <<stats, hist.last>>
  BY <1>1 DEF LifeStep
<1>2. ASSUME NEW g \in Greenlets, Command(g) PROVE LifeStep
  <2> USE DEF PrintInv, TypeOK, DataType
  <2>1. CASE SkipLine(g) \/ Move(g) \/ Fail(g) \/ HeatAndWait(g) \/ TemperatureWait(g)
    BY <2>1, <1>1 DEF SkipLine, Move, Fail, HeatAndWait, TemperatureWait
  <2>2. CASE PauseIgnored(g) \/ PauseAtOnce(g) \/ PausePrint(g) \/ PauseCompletes(g)
             \/ ResumeIgnored(g) \/ ResumeMovesBack(g) \/ ResumeRefused(g) \/ ResumePrint(g)
    BY <2>2, <1>1 DEF PauseIgnored, PauseAtOnce, PausePrint, PauseCompletes,
       ResumeIgnored, ResumeMovesBack, ResumeRefused, ResumePrint
  <2>3. CASE ClearPauseCmd(g) \/ CancelNothing(g) \/ CancelPrint(g) \/ M24(g) \/ M25(g)
             \/ M25Completes(g) \/ M112(g) \/ Crash(g) \/ EndScript(g)
    BY <2>3, <1>1 DEF ClearPauseCmd, CancelNothing, CancelPrint, M24, M25,
       M25Completes, M112, Crash, EndScript
  <2>4. CASE CancelCompletes(g) \/ ResetFile(g) \/ ResetFileCompletes(g)
             \/ LoadFile(g, "M23") \/ LoadFile(g, "SDCARD_PRINT_FILE")
    BY <2>4, CancelLife, ResetFileLife, ResetFileCompletesLife, LoadFileLife
  <2> QED BY <1>2, <2>1, <2>2, <2>3, <2>4 DEF Command
<1>3. ASSUME NEW g \in Greenlets, Wake(g) PROVE LifeStep
  BY <1>3, <1>1 DEF Wake, GetMutex, EndWait, WaitFails, MoveBackEnds, DoPauseReturns,
     PrintInv, TypeOK, DataType
<1>4. CASE SdStep
  BY <1>4, <1>1, SdLineDoneLife, SdExitLife DEF SdStep, SdRead, SdEndOfFile,
     SdReadFails, SdYield, SdDispatch, SdLineFailed, SdLineCrashes, SdOnError, SdOnErrorDone
<1>5. CASE SdStart \/ SdWake
  BY <1>5, <1>1, SdStartLife DEF SdWake
<1>6. CASE RunoutPaused \/ RunoutWake \/ IdleReady \/ Quiet \/ UNCHANGED vars
  BY <1>6, <1>1 DEF RunoutPaused, RunoutWake, RunoutBegin, RunoutScript, IdleReady,
     Quiet, vars
<1>7. CASE Asynchronous
  BY <1>7, <1>1 DEF Asynchronous, Request, BreakMacro, ResumeMacro, BreakHeater,
     EmergencyStop, Runout, PrintInv, TypeOK, DataType
<1> QED BY <1>2, <1>3, <1>4, <1>5, <1>6, <1>7 DEF Next

(* What print_stats reports is a life of a print, for every file and every *)
(* set of scripts: "complete" only after every line has been completed, one*)
(* line further at a time and only while "printing", and no way back from  *)
(* "complete" or "cancelled" but to load or reset a file.                  *)
THEOREM PrintImplementsLifecycle == Spec => ImplementsLifecycle
<1>1. Init => Lifecycle!Init
  BY DEF Init, Lifecycle!Init
<1>2. PrintInv /\ [Next]_vars => [Lifecycle!Next]_<<stats.state, hist.last>>
  BY StepLife DEF LifeStep
<1> QED BY <1>1, <1>2, PrintInvariance, PTL DEF Spec, ImplementsLifecycle, Lifecycle!Spec

=============================================================================
