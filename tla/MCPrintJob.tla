----------------------------- MODULE MCPrintJob -----------------------------
(* Instances of PrintJob for TLC: files, scripts and events. *)
EXTENDS PrintJob

Heat == <<"M109">>
Cancel == <<"CANCEL_PRINT">>
Nothing == <<>>

(* Each line is one byte and one character. *)
PlainAt == [i \in 1..Len(File) + 1 |-> i - 1]
PlainChars == [i \in 1..Len(File) |-> 1]

(* A print that heats, homes and pauses itself: two plain lines, "H" and an*)
(* empty one, then the macro "P" with a comment of one character that has  *)
(* two bytes, and an empty line.  A resume after the third line goes back  *)
(* into the middle of it, one after the fourth to the fourth.              *)
MixedLines == <<Heat, Nothing, <<"G28", "PAUSE">>, Nothing>>
MixedAt == <<0, 2, 3, 8, 9>>
MixedChars == <<2, 1, 4, 1>>
Rests == {<<>>, <<"PAUSE">>}

(* Short lines, several of which are read at once *)
FourMoves == <<<<"G1">>, <<"G28">>, <<"G1">>, <<"G1">>>>

AllScripts == {<<c>> : c \in {"PAUSE", "RESUME", "CANCEL_PRINT", "M24", "M25", "M112", "G28",
                              "SDCARD_PRINT_FILE", "SDCARD_RESET_FILE"}}
              \cup {<<"M23", "RESUME", "M24">>, <<"CLEAR_PAUSE", "TEMPERATURE_WAIT">>}

UserScripts == {<<"PAUSE">>, <<"CANCEL_PRINT">>, <<"SDCARD_PRINT_FILE">>,
                <<"M109", "SDCARD_RESET_FILE">>}

PanelEvents == {"breakmacro", "runout"}

AllEvents == {"breakmacro", "resumemacro", "breakheater", "emergency_stop", "runout"}

(* The start of a print as the documentation recommends it, and requests. *)
ClearThenMove == <<<<"CLEAR_PAUSE", "G1">>, <<"G1">>>>
MoveThenPrint == {<<"G1">>, <<"SDCARD_PRINT_FILE">>}
PrintOnly == {<<"SDCARD_PRINT_FILE">>}
PrintPause == {<<"SDCARD_PRINT_FILE">>, <<"PAUSE">>}
WaitOnly == {<<"TEMPERATURE_WAIT">>}
RunoutOnly == {"runout"}
BreakResume == {"breakmacro", "resumemacro"}
BreakHeaterOnly == {"breakheater"}
=============================================================================
