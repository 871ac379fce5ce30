--------------------------- MODULE ReactorTimers ---------------------------
(***************************************************************************)
(* The timers and the dispatch loop of klippy/reactor.py.  The greenlet in *)
(* _g_dispatch polls for file descriptors and scans the timers; the        *)
(* callbacks it runs may register, update and unregister timers, and may   *)
(* call reactor.pause().  A dispatch greenlet that pauses is parked on a   *)
(* timer of its own and leaves the loop, and its scan, to another greenlet;*)
(* when that timer is run it goes on with its callback inside the scan of  *)
(* the new dispatch greenlet, and is cached when the callback returns.     *)
(*                                                                         *)
(* Times are numbers below Never; 0 is NOW.  Timers and greenlets are pools*)
(* from which the objects the code creates are taken.                      *)
(***************************************************************************)
EXTENDS Naturals

CONSTANTS Timers,      \* the timers that modules register
          Greenlets,   \* the greenlets of the reactor, and the timers on
                       \* which they park
          Fd,          \* stands for the file descriptors
          Never        \* reactor.NEVER

ASSUME ReactorAssumption ==
    /\ Never \in Nat \ {0}
    /\ Timers \cap Greenlets = {} /\ Fd \notin Timers \cup Greenlets

Times == 0..Never
AllTimers == Timers \cup Greenlets

VARIABLES
    registered,  \* the timers in _timers
    older,       \* <<t, u>>: t comes before u in _timers
    waketime,
    nextTimer,   \* _next_timer
    clock,       \* monotonic()
    eventtime,   \* eventtime of the dispatch loop
    dispatch,    \* _g_dispatch
    place,       \* where each greenlet is
    of,          \* the timer, or Fd, whose callback a greenlet is in
    todo         \* what the scan in progress has still to look at

vars == <<registered, older, waketime, nextTimer, clock, eventtime, dispatch,
          place, of, todo>>

(* "poll": about to call _check_timers; "scan": in its loop; "sleep": in   *)
(* poll(); "callback": in a callback; "switch": in the switch() to the     *)
(* greenlet whose timer is run; "parked": in pause(); in _greenlets,       *)
(* "cached" inside a scan and "cachedFd" after poll(); "unborn": not yet   *)
(* created.                                                                *)
Cached == {"cached", "cachedFd"}
Places == Cached \cup
          {"poll", "scan", "sleep", "callback", "switch", "parked", "unborn"}

Init ==
    /\ registered = {} /\ older = {} /\ todo = {}
    /\ waketime = [t \in AllTimers |-> Never]
    /\ nextTimer = Never
    /\ clock = 0 /\ eventtime = 0
    /\ dispatch \in Greenlets
    /\ place = [g \in Greenlets |-> IF g = dispatch THEN "poll" ELSE "unborn"]
    /\ of = [g \in Greenlets |-> Fd]
-----------------------------------------------------------------------------
Earlier(v, w) == IF w < v THEN w ELSE v

Goes(g, p) == place' = [place EXCEPT ![g] = p]

(* _timers is copied on write: a scan goes on over the list it started     *)
(* with, where an unregistered timer has waketime NEVER and is passed over.*)
Add(t) == /\ registered' = registered \cup {t}
          /\ older' = older \cup (registered \X {t})

Remove(t) == /\ registered' = registered \ {t}
             /\ older' = {p \in older : p[1] # t /\ p[2] # t}
             /\ todo' = todo \ {t}

(* A mistake: the scan takes the timers in any order. *)
AnyIsFirst(t) == t \in todo

First(t) == t \in todo /\ \A u \in todo : <<u, t>> \notin older
-----------------------------------------------------------------------------
(* The dispatch greenlet *)

(* _check_timers: nothing is due, or a scan begins. *)
CheckTimers(g) ==
    /\ g = dispatch /\ place[g] = "poll"
    /\ IF eventtime < nextTimer
       THEN Goes(g, "sleep") /\ UNCHANGED <<nextTimer, todo>>
       ELSE /\ nextTimer' = Never /\ todo' = registered
            /\ Goes(g, "scan")
    /\ UNCHANGED <<registered, older, waketime, clock, eventtime, dispatch, of>>

PassTimer(g, t) ==
    /\ g = dispatch /\ place[g] = "scan" /\ First(t)
    /\ eventtime < waketime[t]
    /\ nextTimer' = Earlier(nextTimer, waketime[t])
    /\ todo' = todo \ {t}
    /\ UNCHANGED <<registered, older, waketime, clock, eventtime, dispatch, place, of>>

(* The callback of a module's timer runs in this greenlet; that of a parked*)
(* greenlet is a switch to it.                                             *)
RunTimer(g, t) ==
    /\ g = dispatch /\ place[g] = "scan" /\ First(t)
    /\ eventtime >= waketime[t]
    /\ waketime' = [waketime EXCEPT ![t] = Never]
    /\ todo' = todo \ {t}
    /\ IF t \in Greenlets
       THEN place' = [place EXCEPT ![g] = "switch", ![t] = "callback"] /\ UNCHANGED of
       ELSE Goes(g, "callback") /\ of' = [of EXCEPT ![g] = t]
    /\ UNCHANGED <<registered, older, nextTimer, clock, eventtime, dispatch>>

ScanEnds(g) ==
    /\ g = dispatch /\ place[g] = "scan" /\ todo = {}
    /\ Goes(g, "sleep")
    /\ UNCHANGED <<registered, older, waketime, nextTimer, clock, eventtime,
                   dispatch, of, todo>>

(* poll() returns without or with events; the callbacks of one poll() count*)
(* as one callback.                                                        *)
PollReturns(g) ==
    /\ g = dispatch /\ place[g] = "sleep"
    /\ eventtime' = clock
    /\ \/ Goes(g, "poll") /\ UNCHANGED of
       \/ Goes(g, "callback") /\ of' = [of EXCEPT ![g] = Fd]
    /\ UNCHANGED <<registered, older, waketime, nextTimer, clock, dispatch, todo>>
-----------------------------------------------------------------------------
(* What callbacks do *)

RegisterTimer(g, t, w) ==
    /\ place[g] = "callback"
    /\ t \notin registered
    /\ \A h \in Greenlets : of[h] = t => place[h] \notin {"callback", "parked"}
    /\ Add(t)
    /\ waketime' = [waketime EXCEPT ![t] = w]
    /\ nextTimer' = Earlier(nextTimer, w)
    /\ UNCHANGED <<clock, eventtime, dispatch, place, of, todo>>

(* A mistake: the timer is made due, and the reactor not told. *)
UpdateTimerOnly(g, t, w) ==
    /\ place[g] = "callback" /\ t \in registered
    /\ t \in Greenlets => place[t] = "parked" /\ w = 0
    /\ waketime' = [waketime EXCEPT ![t] = w]
    /\ UNCHANGED <<registered, older, nextTimer, clock, eventtime, dispatch, place,
                   of, todo>>

(* The timer of a parked greenlet is only made due NOW, by a mutex or a    *)
(* completion.                                                             *)
UpdateTimer(g, t, w) ==
    /\ place[g] = "callback" /\ t \in registered
    /\ t \in Greenlets => place[t] = "parked" /\ w = 0
    /\ waketime' = [waketime EXCEPT ![t] = w]
    /\ nextTimer' = Earlier(nextTimer, w)
    /\ UNCHANGED <<registered, older, clock, eventtime, dispatch, place, of, todo>>

UnregisterTimer(g, t) ==
    /\ place[g] = "callback" /\ t \in Timers \cap registered
    /\ waketime' = [waketime EXCEPT ![t] = Never]
    /\ Remove(t)
    /\ UNCHANGED <<nextTimer, clock, eventtime, dispatch, place, of>>

(* A callback returns w to the scan that runs it ... *)
Return(g, w) ==
    /\ g = dispatch /\ place[g] = "callback"
    /\ IF of[g] = Fd
       THEN Goes(g, "poll") /\ UNCHANGED <<waketime, nextTimer>>
       ELSE /\ Goes(g, "scan")
            /\ waketime' = [waketime EXCEPT ![of[g]] = IF of[g] \in registered THEN w ELSE @]
            /\ nextTimer' = Earlier(nextTimer, w)
    /\ of' = [of EXCEPT ![g] = Fd]
    /\ UNCHANGED <<registered, older, clock, eventtime, dispatch, todo>>

CacheOf(g) == IF of[g] = Fd THEN "cachedFd" ELSE "cached"

(* A mistake in what follows: the timer on which the greenlet was parked   *)
(* stays registered.                                                       *)
ReturnLateKeepsTimer(g, w) ==
    /\ g # dispatch /\ place[g] = "callback"
    /\ place' = [place EXCEPT ![g] = CacheOf(g), ![dispatch] = "scan"]
    /\ waketime' = IF of[g] \in registered THEN [waketime EXCEPT ![of[g]] = w] ELSE waketime
    /\ nextTimer' = IF of[g] = Fd THEN nextTimer ELSE Earlier(nextTimer, w)
    /\ of' = [of EXCEPT ![g] = Fd]
    /\ UNCHANGED <<registered, older, clock, eventtime, dispatch, todo>>

(* ... or, if it had paused, to a scan that is no longer the dispatcher's: *)
(* _end_greenlet caches the greenlet, unregisters its timer and goes back  *)
(* to the scan that has resumed it.                                        *)
ReturnLate(g, w) ==
    /\ g # dispatch /\ place[g] = "callback"
    /\ place' = [place EXCEPT ![g] = CacheOf(g), ![dispatch] = "scan"]
    /\ Remove(g)
    /\ waketime' = [t \in AllTimers |->
                      IF t = g THEN Never
                      ELSE IF t = of[g] /\ t \in registered THEN w ELSE waketime[t]]
    /\ nextTimer' = IF of[g] = Fd THEN nextTimer ELSE Earlier(nextTimer, w)
    /\ of' = [of EXCEPT ![g] = Fd]
    /\ UNCHANGED <<clock, eventtime, dispatch>>
-----------------------------------------------------------------------------
(* pause(w) of the dispatch greenlet: h takes over, a cached greenlet if   *)
(* there is one.  One cached in a scan returns from it and polls; one      *)
(* cached after poll() and a new one begin with _check_timers.             *)
Successor(h) == \/ place[h] \in Cached
                \/ /\ place[h] = "unborn"
                   /\ \A g \in Greenlets : place[g] \notin Cached

(* A mistake: the new dispatch greenlet does not know that the scan was    *)
(* given up.                                                               *)
PauseForgetsScan(g, h, w) ==
    /\ g = dispatch /\ place[g] = "callback" /\ Successor(h)
    /\ Add(g)
    /\ waketime' = [waketime EXCEPT ![g] = w]
    /\ nextTimer' = Earlier(nextTimer, w)
    /\ dispatch' = h /\ todo' = {}
    /\ place' = [place EXCEPT ![g] = "parked",
                              ![h] = IF place[h] = "cached" THEN "sleep" ELSE "poll"]
    /\ eventtime' = clock
    /\ UNCHANGED <<clock, of>>

Pause(g, h, w) ==
    /\ g = dispatch /\ place[g] = "callback" /\ Successor(h)
    /\ Add(g)
    /\ waketime' = [waketime EXCEPT ![g] = w]
    /\ nextTimer' = 0
    /\ dispatch' = h /\ todo' = {}
    /\ place' = [place EXCEPT ![g] = "parked",
                              ![h] = IF place[h] = "cached" THEN "sleep" ELSE "poll"]
    /\ eventtime' = clock
    /\ UNCHANGED <<clock, of>>

(* pause(w) of a greenlet that has been resumed: back to the scan. *)
PauseAgain(g, w) ==
    /\ g # dispatch /\ place[g] = "callback"
    /\ waketime' = [waketime EXCEPT ![g] = w]
    /\ nextTimer' = Earlier(nextTimer, w)
    /\ place' = [place EXCEPT ![g] = "parked", ![dispatch] = "scan"]
    /\ UNCHANGED <<registered, older, clock, eventtime, dispatch, of, todo>>

Tick ==
    /\ clock + 1 < Never
    /\ clock' = clock + 1
    /\ UNCHANGED <<registered, older, waketime, nextTimer, eventtime, dispatch,
                   place, of, todo>>
-----------------------------------------------------------------------------
Loop(g) == \/ CheckTimers(g) \/ ScanEnds(g) \/ PollReturns(g)
           \/ \E t \in AllTimers : PassTimer(g, t) \/ RunTimer(g, t)

Manage(g) ==
    \/ \E t \in Timers : UnregisterTimer(g, t) \/ \E w \in Times : RegisterTimer(g, t, w)
    \/ \E t \in AllTimers, w \in Times : UpdateTimer(g, t, w)

Yield(g) == \E w \in Times : \/ Return(g, w) \/ ReturnLate(g, w) \/ PauseAgain(g, w)
                             \/ \E h \in Greenlets : Pause(g, h, w)

Next == Tick \/ \E g \in Greenlets : Loop(g) \/ Manage(g) \/ Yield(g)

Spec == Init /\ [][Next]_vars

(* The loop runs, and a callback returns or pauses. *)
Fairness == WF_vars(\E g \in Greenlets : Loop(g)) /\ WF_vars(\E g \in Greenlets : Yield(g))

FairSpec == Spec /\ Fairness
-----------------------------------------------------------------------------
TypeOK ==
    /\ registered \in SUBSET AllTimers /\ todo \in SUBSET AllTimers
    /\ older \in SUBSET (AllTimers \X AllTimers)
    /\ waketime \in [AllTimers -> Times] /\ nextTimer \in Times
    /\ clock \in 0..(Never - 1) /\ eventtime \in 0..(Never - 1)
    /\ dispatch \in Greenlets
    /\ place \in [Greenlets -> Places]
    /\ of \in [Greenlets -> Timers \cup {Fd}]

(* No timer is slept through: what the scan in progress has not still to   *)
(* look at is not due before _next_timer, whatever callbacks register,     *)
(* update and unregister and however often scans are given up for a pause. *)
NoTimerForgotten == \A t \in registered \ todo : nextTimer <= waketime[t]

(* Only a scan in progress has timers left, all of them registered. *)
ScanInProgress ==
    /\ todo \subseteq registered
    /\ todo # {} => place[dispatch] \in {"scan", "callback", "switch"}
    /\ place[dispatch] = "callback" /\ of[dispatch] = Fd => todo = {}

Resumed(g) == g # dispatch /\ place[g] = "callback"

(* One greenlet runs: the dispatcher, or the one it has switched to. *)
OneRuns ==
    /\ place[dispatch] \in {"poll", "scan", "sleep", "callback", "switch"}
    /\ place[dispatch] = "switch" <=> \E g \in Greenlets : Resumed(g)
    /\ \A g, h \in Greenlets : Resumed(g) /\ Resumed(h) => g = h
    /\ \A g \in Greenlets : g # dispatch =>
           place[g] \in Cached \cup {"callback", "parked", "unborn"}

(* A greenlet has a registered timer exactly from pause() to the end of its*)
(* callback: neither is one parked for ever nor is a cached one resumed.   *)
GreenletTimers == \A g \in Greenlets :
    g \in registered <=> place[g] = "parked" \/ Resumed(g)

IInv == TypeOK /\ NoTimerForgotten /\ ScanInProgress /\ OneRuns /\ GreenletTimers

(* A timer that is due is run: callbacks that pause abandon the scans they *)
(* interrupt, but cannot keep a timer from being reached for ever.         *)
DueRuns == \A t \in AllTimers :
    (t \in registered /\ waketime[t] <= clock) ~> (t \notin registered \/ waketime[t] > clock)
=============================================================================
