------------------------ MODULE ReactorTimersProofs ------------------------
(***************************************************************************)
(* The invariant IInv of ReactorTimers, for any number of timers and of    *)
(* greenlets and any range of times.  NoTimerForgotten is not inductive:   *)
(* an abandoned scan forgets no timer because pause() comes from a callback*)
(* inside the scan and sets _next_timer to NOW, and a scan that ends has   *)
(* nothing left; hence ScanInProgress and OneRuns.  GreenletTimers needs   *)
(* that a greenlet that ends is the one whose timer was run.               *)
(***************************************************************************)
EXTENDS ReactorTimers, TLAPS

USE ReactorAssumption

LEMMA InitInv == Init => IInv
BY DEF Init, IInv, TypeOK, NoTimerForgotten, ScanInProgress, OneRuns, Resumed,
       GreenletTimers, Places, Cached, Times, AllTimers
-----------------------------------------------------------------------------
LEMMA CheckTimersInv ==
    ASSUME IInv, NEW g \in Greenlets, CheckTimers(g) PROVE IInv'
<1> USE DEF IInv, CheckTimers, Goes
<1>1. TypeOK'
  BY DEF TypeOK, Places, Cached, Times
<1>2. NoTimerForgotten'
  BY DEF TypeOK, NoTimerForgotten, Times, AllTimers, ScanInProgress
<1>3. ScanInProgress'
  BY DEF TypeOK, ScanInProgress
<1>4. OneRuns'
  BY DEF TypeOK, OneRuns, Resumed
<1>5. GreenletTimers'
  BY DEF TypeOK, GreenletTimers, Resumed
<1> QED
  BY <1>1, <1>2, <1>3, <1>4, <1>5

LEMMA PassTimerInv ==
    ASSUME IInv, NEW g \in Greenlets, NEW t \in AllTimers, PassTimer(g, t)
    PROVE  IInv'
<1> USE DEF IInv, PassTimer, First, Earlier
<1>1. TypeOK'
  BY DEF TypeOK, Times
<1>2. NoTimerForgotten'
  BY DEF TypeOK, NoTimerForgotten, Times
<1>3. ScanInProgress' /\ OneRuns' /\ GreenletTimers'
  BY DEF TypeOK, ScanInProgress, OneRuns, Resumed, GreenletTimers
<1> QED
  BY <1>1, <1>2, <1>3

LEMMA RunTimerInv ==
    ASSUME IInv, NEW g \in Greenlets, NEW t \in AllTimers, RunTimer(g, t)
    PROVE  IInv'
<1> USE DEF IInv, RunTimer, First, Goes
<1>1. TypeOK'
  BY DEF TypeOK, Times, Places, Cached, AllTimers
<1>2. NoTimerForgotten'
  BY DEF TypeOK, NoTimerForgotten, Times
<1>3. t \in Greenlets => place[t] = "parked"
  BY DEF TypeOK, ScanInProgress, OneRuns, Resumed, GreenletTimers
<1>4. ScanInProgress'
  BY <1>3 DEF TypeOK, ScanInProgress, AllTimers
<1>5. OneRuns'
  BY <1>3 DEF TypeOK, OneRuns, Resumed
<1>6. GreenletTimers'
  BY <1>3 DEF TypeOK, OneRuns, GreenletTimers, Resumed
<1> QED
  BY <1>1, <1>2, <1>4, <1>5, <1>6

LEMMA LoopInv == ASSUME IInv, NEW g \in Greenlets, Loop(g) PROVE IInv'
<1>1. ASSUME ScanEnds(g) PROVE IInv'
  BY <1>1 DEF ScanEnds, Goes, IInv, TypeOK, Places, Cached, NoTimerForgotten,
              ScanInProgress, OneRuns, Resumed, GreenletTimers
<1>2. ASSUME PollReturns(g) PROVE IInv'
  BY <1>2 DEF PollReturns, Goes, IInv, TypeOK, Places, Cached, NoTimerForgotten,
              ScanInProgress, OneRuns, Resumed, GreenletTimers
<1> QED
  BY <1>1, <1>2, CheckTimersInv, PassTimerInv, RunTimerInv DEF Loop
-----------------------------------------------------------------------------
LEMMA RegisterTimerInv ==
    ASSUME IInv, NEW g \in Greenlets, NEW t \in Timers, NEW w \in Times,
           RegisterTimer(g, t, w)
    PROVE  IInv'
<1> USE DEF IInv, RegisterTimer, Add, Earlier
<1>1. TypeOK'
  BY DEF TypeOK, Times, AllTimers
<1>2. NoTimerForgotten'
  BY DEF TypeOK, NoTimerForgotten, Times, AllTimers
<1>3. ScanInProgress' /\ OneRuns'
  BY DEF TypeOK, ScanInProgress, OneRuns, Resumed
<1>4. GreenletTimers'
  BY DEF TypeOK, GreenletTimers, Resumed
<1> QED
  BY <1>1, <1>2, <1>3, <1>4

LEMMA UpdateTimerInv ==
    ASSUME IInv, NEW g \in Greenlets, NEW t \in AllTimers, NEW w \in Times,
           UpdateTimer(g, t, w)
    PROVE  IInv'
<1> USE DEF IInv, UpdateTimer, Earlier
<1>1. TypeOK'
  BY DEF TypeOK, Times, AllTimers
<1>2. NoTimerForgotten'
  BY DEF TypeOK, NoTimerForgotten, Times
<1>3. ScanInProgress' /\ OneRuns' /\ GreenletTimers'
  BY DEF TypeOK, ScanInProgress, OneRuns, Resumed, GreenletTimers
<1> QED
  BY <1>1, <1>2, <1>3

LEMMA UnregisterTimerInv ==
    ASSUME IInv, NEW g \in Greenlets, NEW t \in Timers, UnregisterTimer(g, t)
    PROVE  IInv'
<1> USE DEF IInv, UnregisterTimer, Remove
<1>1. TypeOK'
  BY DEF TypeOK, Times, AllTimers
<1>2. NoTimerForgotten'
  BY DEF TypeOK, NoTimerForgotten, Times
<1>3. ScanInProgress' /\ OneRuns'
  BY DEF TypeOK, ScanInProgress, OneRuns, Resumed
<1>4. GreenletTimers'
  BY DEF TypeOK, GreenletTimers, Resumed
<1> QED
  BY <1>1, <1>2, <1>3, <1>4

LEMMA ManageInv == ASSUME IInv, NEW g \in Greenlets, Manage(g) PROVE IInv'
BY RegisterTimerInv, UpdateTimerInv, UnregisterTimerInv DEF Manage
-----------------------------------------------------------------------------
LEMMA ReturnInv ==
    ASSUME IInv, NEW g \in Greenlets, NEW w \in Times, Return(g, w)
    PROVE  IInv'
<1> USE DEF IInv, Return, Goes, Earlier
<1>1. TypeOK'
  BY DEF TypeOK, Times, Places, Cached, AllTimers
<1>2. NoTimerForgotten'
  BY DEF TypeOK, NoTimerForgotten, Times
<1>3. ScanInProgress' /\ OneRuns'
  BY DEF TypeOK, ScanInProgress, OneRuns, Resumed
<1>4. GreenletTimers'
  BY DEF TypeOK, GreenletTimers, Resumed
<1> QED
  BY <1>1, <1>2, <1>3, <1>4

LEMMA ReturnLateInv ==
    ASSUME IInv, NEW g \in Greenlets, NEW w \in Times, ReturnLate(g, w)
    PROVE  IInv'
<1> USE DEF IInv, ReturnLate, Remove, Earlier, CacheOf
<1>1. TypeOK'
  <2>1. waketime' \in [AllTimers -> Times]
    BY DEF TypeOK, Times
  <2>2. nextTimer' \in Times
    BY DEF TypeOK, Times
  <2> QED
    BY <2>1, <2>2 DEF TypeOK, Places, Cached, AllTimers
<1>2. NoTimerForgotten'
  <2>1. nextTimer' <= nextTimer
    BY DEF TypeOK, Times
  <2> SUFFICES ASSUME NEW t \in registered', t \notin todo'
               PROVE  nextTimer' <= waketime'[t]
    BY DEF NoTimerForgotten
  <2>2. t # g /\ t \in registered /\ t \notin todo /\ nextTimer <= waketime[t]
    BY DEF NoTimerForgotten
  <2>3. CASE t = of[g]
    <3>1. of[g] # Fd
      BY <2>2, <2>3 DEF TypeOK, AllTimers
    <3> QED
      BY <2>2, <2>3, <3>1 DEF TypeOK, Times
  <2>4. CASE t # of[g]
    BY <2>1, <2>2, <2>4 DEF TypeOK, Times
  <2> QED
    BY <2>3, <2>4
<1>3. ScanInProgress' /\ OneRuns'
  BY DEF TypeOK, ScanInProgress, OneRuns, Resumed, Cached
<1>4. GreenletTimers'
  BY DEF TypeOK, GreenletTimers, OneRuns, Resumed
<1> QED
  BY <1>1, <1>2, <1>3, <1>4

LEMMA PauseInv ==
    ASSUME IInv, NEW g \in Greenlets, NEW h \in Greenlets, NEW w \in Times,
           Pause(g, h, w)
    PROVE  IInv'
<1> USE DEF IInv, Pause, Successor, Add
<1>1. TypeOK'
  BY DEF TypeOK, Times, Places, Cached, AllTimers
<1>2. NoTimerForgotten'
  BY DEF TypeOK, NoTimerForgotten, Times, AllTimers
<1>3. ScanInProgress'
  BY DEF TypeOK, ScanInProgress, Cached
<1>4. OneRuns'
  BY DEF TypeOK, OneRuns, Resumed, Cached
<1>5. GreenletTimers'
  BY DEF TypeOK, GreenletTimers, OneRuns, Resumed, Cached
<1> QED
  BY <1>1, <1>2, <1>3, <1>4, <1>5

LEMMA PauseAgainInv ==
    ASSUME IInv, NEW g \in Greenlets, NEW w \in Times, PauseAgain(g, w)
    PROVE  IInv'
<1> USE DEF IInv, PauseAgain, Earlier
<1>1. TypeOK'
  BY DEF TypeOK, Times, Places, Cached, AllTimers
<1>2. NoTimerForgotten'
  BY DEF TypeOK, NoTimerForgotten, Times
<1>3. ScanInProgress' /\ OneRuns'
  BY DEF TypeOK, ScanInProgress, OneRuns, Resumed
<1>4. GreenletTimers'
  BY DEF TypeOK, GreenletTimers, OneRuns, Resumed
<1> QED
  BY <1>1, <1>2, <1>3, <1>4

LEMMA YieldInv == ASSUME IInv, NEW g \in Greenlets, Yield(g) PROVE IInv'
BY ReturnInv, ReturnLateInv, PauseInv, PauseAgainInv DEF Yield

LEMMA TickInv == IInv /\ Tick => IInv'
BY DEF Tick, IInv, TypeOK, NoTimerForgotten, ScanInProgress, OneRuns, Resumed,
       GreenletTimers
-----------------------------------------------------------------------------
LEMMA StepInv == IInv /\ [Next]_vars => IInv'
<1> SUFFICES ASSUME IInv, [Next]_vars PROVE IInv'
  OBVIOUS
<1>1. CASE UNCHANGED vars
  BY <1>1 DEF vars, IInv, TypeOK, NoTimerForgotten, ScanInProgress, OneRuns,
              Resumed, GreenletTimers
<1>2. CASE Next
  BY <1>2, TickInv, LoopInv, ManageInv, YieldInv DEF Next
<1> QED
  BY <1>1, <1>2

(* The timers and greenlets of the reactor are always as IInv says. *)
THEOREM Invariance == Spec => []IInv
<1> QED
  BY InitInv, StepInv, PTL DEF Spec

(* update_timer, register_timer, pause() and the scan of _check_timers     *)
(* never leave _next_timer later than a timer that no scan will look at.   *)
THEOREM Punctuality == Spec => []NoTimerForgotten
<1>1. IInv => NoTimerForgotten
  BY DEF IInv
<1> QED
  BY <1>1, Invariance, PTL

(* pause() and _end_greenlet keep a timer for each greenlet that is parked *)
(* and for no greenlet in the cache.                                       *)
THEOREM ParkedHaveTimers == Spec => []GreenletTimers
<1>1. IInv => GreenletTimers
  BY DEF IInv
<1> QED
  BY <1>1, Invariance, PTL
=============================================================================
