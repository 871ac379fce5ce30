--------------------------- MODULE PrintLifecycle ---------------------------
(***************************************************************************)
(* What print_stats promises its readers (Moonraker, the screen): the life *)
(* of a print.  It comes one line further at a time and only while it is   *)
(* "printing"; it is "complete" only when every line has been printed; a   *)
(* print that is complete or cancelled never prints again, and only loading*)
(* or resetting the file leads away from there.  A line that is printed    *)
(* once more changes nothing here.                                         *)
(***************************************************************************)
EXTENDS Naturals

CONSTANT Lines      \* the lines of the file

VARIABLES phase,    \* print_stats.state
          printed   \* the lines up to this one have been completed

Phases == {"standby", "printing", "paused", "complete", "error", "cancelled"}

Init == phase = "standby" /\ printed = 0

(* A file is loaded or reset; never under a running print. *)
Reset ==
    /\ phase # "printing"
    /\ phase' = "standby" /\ printed' = 0

(* A print starts, or goes on after a pause or an error. *)
Start ==
    /\ phase \in {"standby", "paused", "error"}
    /\ phase' = "printing" /\ UNCHANGED printed

PrintLine ==
    /\ phase = "printing" /\ printed < Lines
    /\ printed' = printed + 1 /\ UNCHANGED phase

Stop(how) ==
    /\ phase = "printing"
    /\ phase' = how /\ UNCHANGED printed

Complete == printed = Lines /\ Stop("complete")

Cancel ==
    /\ phase \in {"printing", "paused"}
    /\ phase' = "cancelled" /\ UNCHANGED printed

Next == Reset \/ Start \/ PrintLine \/ Stop("paused") \/ Stop("error")
        \/ Complete \/ Cancel

Spec == Init /\ [][Next]_<<phase, printed>>
=============================================================================
