----------------------------- MODULE HomingMove -----------------------------
(***************************************************************************)
(* What home_start and home_wait promise the homing commands above them.   *)
(* In a homing move every controller starts at most once and, once it has  *)
(* stopped, stays where it is.  home_wait returns when all have stopped    *)
(* and none is shut down, and it returns a hit only if the controller with *)
(* the endstop was stopped by it.  It may never return.                    *)
(***************************************************************************)
CONSTANTS Mcus,      \* the controllers that take part
          Primary,   \* the one with the endstop
          None       \* no outcome yet

VARIABLES open,      \* home_start was called, home_wait has not returned
          at,        \* what each controller does
          outcome    \* what home_wait has returned

vars == <<open, at, outcome>>

Halted == {"hit", "stopped"}
Places == {"still", "moving", "shutdown"} \cup Halted
Outcomes == {"hit", "no_trigger", "timeout"}

Init ==
    /\ open = FALSE
    /\ at = [m \in Mcus |-> "still"]
    /\ outcome = None

Begin ==
    /\ ~open /\ \A m \in Mcus : at[m] # "moving"
    /\ open' = TRUE
    /\ at' = [m \in Mcus |-> IF at[m] = "shutdown" THEN at[m] ELSE "still"]
    /\ outcome' = None

Go(m) ==
    /\ open /\ at[m] = "still"
    /\ at' = [at EXCEPT ![m] = "moving"]
    /\ UNCHANGED <<open, outcome>>

Stop(m) ==
    /\ at[m] = "moving"
    /\ \E h \in Halted : /\ h = "hit" => m = Primary
                         /\ at' = [at EXCEPT ![m] = h]
    /\ UNCHANGED <<open, outcome>>

Shutdown(m) ==
    /\ open
    /\ at' = [at EXCEPT ![m] = "shutdown"]
    /\ UNCHANGED <<open, outcome>>

Return ==
    /\ open /\ \A m \in Mcus : at[m] \in Halted
    /\ open' = FALSE
    /\ \E v \in Outcomes :
         /\ v = "hit" => at[Primary] = "hit"
         /\ v = "timeout" => \E m \in Mcus : at[m] = "stopped"
         /\ outcome' = v
    /\ UNCHANGED at

Next == Begin \/ Return \/ \E m \in Mcus : Go(m) \/ Stop(m) \/ Shutdown(m)

Spec == Init /\ [][Next]_vars
=============================================================================
