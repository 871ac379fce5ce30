--------------------------- MODULE CommandChannel ---------------------------
(***************************************************************************)
(* What the link between the host and a micro-controller promises.  The    *)
(* commands queued with serialqueue_send are numbered in the order they    *)
(* were queued.  The controller executes them once each and in that order. *)
(* The one exception is the connection: until the two sides have agreed on *)
(* a sequence number, commands may be dropped (the host sends only         *)
(* "identify" requests then, and repeats them).                            *)
(***************************************************************************)
EXTENDS Naturals, Sequences

CONSTANT MaxMsgs    \* how many commands are ever queued

VARIABLES submitted,   \* commands queued so far
          taken,       \* the last command executed or dropped
          delivered,   \* the commands executed, in order
          synced       \* both sides agree on the sequence number

vars == <<submitted, taken, delivered, synced>>

Init ==
    /\ submitted = 0
    /\ taken = 0
    /\ delivered = <<>>
    /\ synced \in BOOLEAN

Submit ==
    /\ submitted < MaxMsgs
    /\ submitted' = submitted + 1
    /\ UNCHANGED <<taken, delivered, synced>>

(* The next command is executed; the first one to be executed may come     *)
(* after some that the connection dropped.                                 *)
Deliver ==
    \E m \in taken + 1 .. submitted :
        /\ synced => m = taken + 1
        /\ delivered' = Append(delivered, m)
        /\ taken' = m
        /\ synced' = TRUE
        /\ UNCHANGED submitted

(* The two sides agree without a command: what was sent so far is dropped. *)
Connect ==
    \E m \in taken .. submitted :
        /\ ~synced
        /\ taken' = m
        /\ synced' = TRUE
        /\ UNCHANGED <<submitted, delivered>>

Next == Submit \/ Deliver \/ Connect

Spec == Init /\ [][Next]_vars
=============================================================================
