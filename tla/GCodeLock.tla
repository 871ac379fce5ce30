----------------------------- MODULE GCodeLock -----------------------------
(***************************************************************************)
(* What the G-code mutex promises the rest of klippy: at most one greenlet *)
(* runs G-code at a time, and those that wait get the mutex in the order   *)
(* in which they asked for it.  ReactorMutex implements this, and PrintJob *)
(* uses it as its lock.                                                    *)
(***************************************************************************)
EXTENDS Sequences, Naturals

CONSTANTS Greenlets,   \* the greenlets that may ask for the mutex
          NoOne        \* the holder of a free mutex

VARIABLES holder,      \* the greenlet the mutex belongs to, or NoOne
          waiting      \* the greenlets that wait for it, oldest request first

lockVars == <<holder, waiting>>

Queued == {waiting[i] : i \in 1..Len(waiting)}

Init == holder = NoOne /\ waiting = <<>>

(* A free mutex is taken at once. *)
Acquire(g) ==
    /\ holder = NoOne
    /\ holder' = g
    /\ UNCHANGED waiting

(* A mutex that belongs to somebody else is waited for. *)
Enqueue(g) ==
    /\ holder \notin {NoOne, g}
    /\ g \notin Queued
    /\ waiting' = Append(waiting, g)
    /\ UNCHANGED holder

(* Releasing hands the mutex to the oldest request: it never becomes free *)
(* while somebody waits, so a newcomer cannot overtake.                   *)
Release(g) ==
    /\ holder = g
    /\ IF waiting = <<>>
       THEN holder' = NoOne /\ UNCHANGED waiting
       ELSE holder' = Head(waiting) /\ waiting' = Tail(waiting)

Next == \E g \in Greenlets : Acquire(g) \/ Enqueue(g) \/ Release(g)

Spec == Init /\ [][Next]_lockVars
=============================================================================
