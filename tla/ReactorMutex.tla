---------------------------- MODULE ReactorMutex ----------------------------
(***************************************************************************)
(* ReactorMutex of klippy/reactor.py: the mutex that serialises G-code.    *)
(* Greenlets are cooperative, so the code between two reactor.pause() calls*)
(* is one step.  A greenlet that waits is parked on its reactor timer;     *)
(* __exit__ does not free the mutex when somebody waits but leaves         *)
(* is_locked set, raises next_pending and makes the timer of queue[0] due. *)
(* The new owner only takes over when the reactor runs that timer.         *)
(***************************************************************************)
EXTENDS Sequences, Naturals

CONSTANTS Greenlets, NoOne

ASSUME NoOneAssumption == NoOne \notin Greenlets

VARIABLES isLocked,     \* self.is_locked
          nextPending,  \* self.next_pending
          queue,        \* self.queue
          pc,           \* where each greenlet is with respect to the mutex
          due           \* greenlets whose reactor timer has waketime NOW

vars == <<isLocked, nextPending, queue, pc, due>>

InQueue == {queue[i] : i \in 1..Len(queue)}

Init ==
    /\ isLocked = FALSE
    /\ nextPending = FALSE
    /\ queue = <<>>
    /\ pc = [g \in Greenlets |-> "outside"]
    /\ due = {}
-----------------------------------------------------------------------------
(* __enter__ of a free mutex. *)
EnterFree(g) ==
    /\ pc[g] = "outside"
    /\ ~isLocked
    /\ isLocked' = TRUE
    /\ pc' = [pc EXCEPT ![g] = "inside"]
    /\ UNCHANGED <<nextPending, queue, due>>

(* A slip in __enter__: the newest request is put in front. *)
EnterFront(g) ==
    /\ pc[g] = "outside"
    /\ isLocked
    /\ queue' = <<g>> \o queue
    /\ pc' = [pc EXCEPT ![g] = "queued"]
    /\ UNCHANGED <<isLocked, nextPending, due>>

(* __enter__ of a locked mutex: append to the queue, reactor.pause(NEVER). *)
EnterQueue(g) ==
    /\ pc[g] = "outside"
    /\ isLocked
    /\ queue' = Append(queue, g)
    /\ pc' = [pc EXCEPT ![g] = "queued"]
    /\ UNCHANGED <<isLocked, nextPending, due>>

(* A slip in the wait loop: the test that queue[0] is this greenlet is     *)
(* left out.                                                               *)
WakeAnybody(g) ==
    /\ pc[g] = "queued" /\ g \in due
    /\ nextPending
    /\ nextPending' = FALSE
    /\ queue' = Tail(queue)
    /\ pc' = [pc EXCEPT ![g] = "inside"]
    /\ due' = due \ {g}
    /\ UNCHANGED isLocked

(* The reactor runs the timer of a parked greenlet, which finds that the   *)
(* mutex has been handed to it ...                                         *)
WakeOwner(g) ==
    /\ pc[g] = "queued" /\ g \in due
    /\ nextPending /\ Head(queue) = g
    /\ nextPending' = FALSE
    /\ queue' = Tail(queue)
    /\ pc' = [pc EXCEPT ![g] = "inside"]
    /\ due' = due \ {g}
    /\ UNCHANGED isLocked

(* ... or that it was woken for nothing, and pauses again. *)
WakeInVain(g) ==
    /\ pc[g] = "queued" /\ g \in due
    /\ ~(nextPending /\ Head(queue) = g)
    /\ due' = due \ {g}
    /\ UNCHANGED <<isLocked, nextPending, queue, pc>>

(* Slips in __exit__: unlocking although the mutex is handed over, and     *)
(* forgetting to make the new owner's timer due.                           *)
ExitUnlocks(g) ==
    /\ pc[g] = "inside"
    /\ pc' = [pc EXCEPT ![g] = "outside"]
    /\ isLocked' = FALSE
    /\ nextPending' = (queue # <<>>)
    /\ due' = due \cup (IF queue = <<>> THEN {} ELSE {Head(queue)})
    /\ UNCHANGED queue

ExitForgetsTimer(g) ==
    /\ pc[g] = "inside"
    /\ pc' = [pc EXCEPT ![g] = "outside"]
    /\ IF queue = <<>>
       THEN isLocked' = FALSE /\ UNCHANGED nextPending
       ELSE nextPending' = TRUE /\ UNCHANGED isLocked
    /\ UNCHANGED <<queue, due>>

(* __exit__ *)
Exit(g) ==
    /\ pc[g] = "inside"
    /\ pc' = [pc EXCEPT ![g] = "outside"]
    /\ IF queue = <<>>
       THEN isLocked' = FALSE /\ UNCHANGED <<nextPending, due>>
       ELSE /\ nextPending' = TRUE
            /\ due' = due \cup {Head(queue)}
            /\ UNCHANGED isLocked
    /\ UNCHANGED queue

(* update_timer on a greenlet's timer by code outside the mutex.  The wait *)
(* loop of __enter__ is written to survive it.                             *)
Nudge(g) ==
    /\ pc[g] = "queued" /\ g \notin due
    /\ due' = due \cup {g}
    /\ UNCHANGED <<isLocked, nextPending, queue, pc>>
-----------------------------------------------------------------------------
Next == \E g \in Greenlets :
            \/ EnterFree(g) \/ EnterQueue(g) \/ Exit(g)
            \/ WakeOwner(g) \/ WakeInVain(g) \/ Nudge(g)

Spec == Init /\ [][Next]_vars

(* The reactor runs every due timer, and a G-code script ends. *)
Fairness == \A g \in Greenlets :
                WF_vars(WakeOwner(g) \/ WakeInVain(g)) /\ WF_vars(Exit(g))

FairSpec == Spec /\ Fairness
-----------------------------------------------------------------------------
(* Every variable has its type. *)
TypeOK ==
    /\ isLocked \in BOOLEAN
    /\ nextPending \in BOOLEAN
    /\ queue \in Seq(Greenlets)
    /\ pc \in [Greenlets -> {"outside", "queued", "inside"}]
    /\ due \in SUBSET Greenlets

(* Two greenlets never run G-code at the same time, not even in the window *)
(* between __exit__ and the wake-up of the greenlet it handed the mutex to.*)
MutualExclusion ==
    \A g, h \in Greenlets : pc[g] = "inside" /\ pc[h] = "inside" => g = h

(* The hand-over cannot be lost: once next_pending is raised nobody else   *)
(* is inside, somebody waits, and the reactor is about to run that one.    *)
HandOver ==
    nextPending =>
        /\ isLocked
        /\ \A g \in Greenlets : pc[g] # "inside"
        /\ queue # <<>> /\ Head(queue) \in due

(* test() tells the truth to the print loop: the mutex is locked exactly   *)
(* when a greenlet runs G-code or has been handed the mutex, and a free    *)
(* mutex leaves nobody behind in its queue.                                *)
LockedIffOwned ==
    /\ isLocked <=> (nextPending \/ \E g \in Greenlets : pc[g] = "inside")
    /\ ~isLocked => queue = <<>>

(* The queue holds each greenlet parked in __enter__ once, and no other. *)
QueueExact ==
    /\ \A g \in Greenlets : pc[g] = "queued" <=> g \in InQueue
    /\ \A i, j \in 1..Len(queue) : queue[i] = queue[j] => i = j

IInv == TypeOK /\ MutualExclusion /\ HandOver /\ LockedIffOwned /\ QueueExact

(* A greenlet that waits is never overtaken: only the head of the queue    *)
(* goes inside while anybody waits.                                        *)
NoOvertaking ==
    [][\A g \in Greenlets :
           pc[g] # "inside" /\ pc'[g] = "inside" /\ queue # <<>>
               => Head(queue) = g]_vars

(* Every greenlet that waits for the mutex gets it. *)
Served == \A g \in Greenlets : (pc[g] = "queued") ~> (pc[g] = "inside")
-----------------------------------------------------------------------------
(* Refinement: the mutex belongs to the greenlet inside, or to the one it  *)
(* has been handed to.                                                     *)
lockHolder == IF nextPending THEN Head(queue)
              ELSE IF isLocked THEN CHOOSE g \in Greenlets : pc[g] = "inside"
              ELSE NoOne

lockWaiting == IF nextPending THEN Tail(queue) ELSE queue

Lock == INSTANCE GCodeLock WITH holder <- lockHolder, waiting <- lockWaiting

(* The reactor's mutex implements the FIFO lock. *)
ImplementsLock == Lock!Spec
=============================================================================
