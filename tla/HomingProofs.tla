--------------------------- MODULE HomingProofs ---------------------------
(***************************************************************************)
(* Proofs about Homing, for any axes, drivers, numbers of samples, retries,*)
(* cycles and points, and for a probe that is stowed after each sample or  *)
(* after each session.                                                     *)
(***************************************************************************)
EXTENDS Homing, TLAPS

(* Where a command may be.                                                 *)
FlowInv ==
    /\ pc = "idle" <=> op = "none"
    /\ pc \in {"axis", "first", "second", "retract"} => op \in HomingOps
    /\ pc \in {"first", "second", "retract"} =>
         axis \in todo /\ by[axis] = EndstopOf(axis)
    /\ pc \in {"sample", "probing", "judge"} => op \in ProbingOps
    /\ pc = "next" => op = "points"
    /\ pc \in {"sample", "probing"} => samples < Samples
    /\ op = "points" /\ pc \in {"sample", "probing", "judge"} => got < Points

Base == TypeOK /\ FlowInv

(* An axis that counts as homed and is not being homed.                    *)
Settled(a) == ~(op \in HomingOps /\ (pc = "failed" \/ a \in todo))
PosInv ==
    ~down => \A a \in homed : Settled(a) /\ by[a] \in Twice => a \in exact

SwapInv == op \notin HomingOps /\ ~down /\ reversed => homed = {}

ProbeOK(p) ==
    /\ p.multi = "ON" => p.lowered \/ p.slip
    /\ StowEach => p.multi = "OFF"
    /\ ~p.pending => p.multi = "OFF" \/ p.slip
Stowed(p) == p.multi = "OFF" => ~p.lowered \/ p.slip

InSession ==
    \/ pc \in {"sample", "probing", "judge", "next"}
    \/ pc \in {"first", "second", "retract"} /\ EndstopOf(axis) = Probe

ProbeInv ==
    /\ ProbeOK(probe)
    /\ InSession => probe.pending
    /\ ProbeMove => probe.lowered \/ probe.slip
    /\ ~ProbeMove => Stowed(probe)
    /\ \/ pc \in {"idle", "axis"}
       \/ pc \in {"first", "second", "retract"} /\ EndstopOf(axis) # Probe
       => ~probe.pending
    /\ pc \in {"sample", "probing", "judge"} => (notify <=> op = "PROBE")

(* The drivers that the move under way has set up.                         *)
Held ==
    IF pc \in {"first", "second"} /\ EndstopOf(axis) # Probe
    THEN DriversOf[EndstopOf(axis)] ELSE {}
DriverInv ==
    ~regFailed /\ ~down =>
        \A d \in Drivers : IF d \in Held THEN mode[d] = "home" /\ saved[d] = "run"
                           ELSE mode[d] = "run"

(* How often the samples of a run_probe under way have not agreed.         *)
Bound == Retries + 1 + (MaxCycles - 1) * PerCycle
CountInv ==
    /\ pc \in {"sample", "probing", "judge"} =>
         /\ cycles < MaxCycles
         /\ cycles = 0 => retries <= Retries /\ fails <= retries
         /\ cycles > 0 => /\ retries <= PerCycle
                          /\ fails + PerCycle <=
                               Retries + cycles * PerCycle + retries
    /\ fails <= Bound
-----------------------------------------------------------------------------
(* The calls.                                                              *)

LEMMA EndstopOfType == \A a \in Axes : EndstopOf(a) \in Endstops
BY HomingAssumption DEF EndstopOf, Endstops, Z

LEMMA EndstopOfOwn ==
    ASSUME NEW a, NEW b, EndstopOf(a) = EndstopOf(b)
    PROVE  a = b
BY DEF EndstopOf

LEMMA OutcomeIs ==
    ASSUME NEW p
    PROVE  /\ Returns(p).ok = TRUE /\ Returns(p).p = p
           /\ Raises(p).ok = FALSE /\ Raises(p).p = p
BY DEF Returns, Raises

LEMMA ScriptIs ==
    ASSUME NEW p \in ProbeState, NEW l \in BOOLEAN, NEW r \in Script(p, l)
    PROVE  /\ r.ok \in BOOLEAN /\ r.p \in ProbeState
           /\ r.p.pending = p.pending /\ r.p.multi = p.multi
           /\ r.p.slip \/ (r.ok /\ r.p.lowered = l)
<1>1. CASE breakFlag
  <2>1. r = Returns([p EXCEPT !.slip = TRUE])  BY <1>1 DEF Script
  <2>2. r.ok = TRUE /\ r.p = [p EXCEPT !.slip = TRUE]  BY <2>1, OutcomeIs
  <2> QED  BY <2>2 DEF ProbeState
<1>2. CASE r = Returns([p EXCEPT !.lowered = l, !.slip = FALSE])
  <2>1. r.ok = TRUE /\ r.p = [p EXCEPT !.lowered = l, !.slip = FALSE]
    BY <1>2, OutcomeIs
  <2> QED  BY <2>1 DEF ProbeState
<1>3. CASE \E m \in BOOLEAN : r = Raises([p EXCEPT !.lowered = m, !.slip = TRUE])
  <2>1. PICK m \in BOOLEAN : r = Raises([p EXCEPT !.lowered = m, !.slip = TRUE])
    BY <1>3
  <2>2. r.ok = FALSE /\ r.p = [p EXCEPT !.lowered = m, !.slip = TRUE]
    BY <2>1, OutcomeIs
  <2> QED  BY <2>2 DEF ProbeState
<1> QED  BY <1>1, <1>2, <1>3 DEF Script

LEMMA PreparedIs ==
    ASSUME NEW p \in ProbeState, NEW r \in Prepared(p)
    PROVE  /\ r.ok \in BOOLEAN /\ r.p \in ProbeState
           /\ r.p.pending = p.pending
           /\ p.pending /\ ProbeOK(p) =>
                /\ ProbeOK(r.p)
                /\ r.ok => r.p.lowered \/ r.p.slip
                /\ ~r.ok => Stowed(r.p)
<1>1. CASE p.multi = "ON"
  <2>1. r.ok = TRUE /\ r.p = p  BY <1>1, OutcomeIs DEF Prepared
  <2> QED  BY <1>1, <2>1 DEF ProbeOK
<1>2. CASE p.multi # "ON"
  <2>1. PICK s \in Script(p, TRUE) :
          r = IF s.ok /\ p.multi = "FIRST" THEN Returns([s.p EXCEPT !.multi = "ON"])
              ELSE s
    BY <1>2 DEF Prepared
  <2>2. /\ s.ok \in BOOLEAN /\ s.p \in ProbeState
        /\ s.p.pending = p.pending /\ s.p.multi = p.multi
        /\ s.p.slip \/ (s.ok /\ s.p.lowered = TRUE)
    BY ScriptIs
  <2>3. CASE s.ok /\ p.multi = "FIRST"
    <3>1. r.ok = TRUE /\ r.p = [s.p EXCEPT !.multi = "ON"]
      BY <2>1, <2>3, OutcomeIs
    <3> QED  BY <2>2, <2>3, <3>1 DEF ProbeOK, Stowed, ProbeState
  <2>4. CASE ~(s.ok /\ p.multi = "FIRST")
    <3>1. r = s  BY <2>1, <2>4
    <3> QED  BY <1>2, <2>2, <3>1 DEF ProbeOK, Stowed, ProbeState
  <2> QED  BY <2>3, <2>4
<1> QED  BY <1>1, <1>2

LEMMA FinishedIs ==
    ASSUME NEW p \in ProbeState, NEW r \in Finished(p)
    PROVE  /\ r.ok \in BOOLEAN /\ r.p \in ProbeState
           /\ r.p.pending = p.pending
           /\ p.pending /\ ProbeOK(p) => ProbeOK(r.p) /\ Stowed(r.p)
<1>1. CASE p.multi = "OFF"
  <2>1. r \in Script(p, FALSE)  BY <1>1 DEF Finished
  <2>2. /\ r.ok \in BOOLEAN /\ r.p \in ProbeState
        /\ r.p.pending = p.pending /\ r.p.multi = p.multi
        /\ r.p.slip \/ (r.ok /\ r.p.lowered = FALSE)
    BY <2>1, ScriptIs
  <2> QED  BY <1>1, <2>2 DEF ProbeOK, Stowed
<1>2. CASE p.multi # "OFF"
  <2>1. r.ok = TRUE /\ r.p = p  BY <1>2, OutcomeIs DEF Finished
  <2> QED  BY <1>2, <2>1 DEF Stowed
<1> QED  BY <1>1, <1>2

LEMMA BegunIs ==
    ASSUME NEW p \in ProbeState
    PROVE  /\ Begun(p) \in ProbeState
           /\ Begun(p).pending
           /\ ProbeOK(p) => ProbeOK(Begun(p))
           /\ Stowed(p) => Stowed(Begun(p))
BY HomingAssumption DEF Begun, ProbeState, ProbeOK, Stowed

LEMMA EndedIs ==
    ASSUME NEW p \in ProbeState, NEW r \in Ended(p)
    PROVE  /\ r.ok \in BOOLEAN /\ r.p \in ProbeState
           /\ ~r.p.pending
           /\ ProbeOK(p) => ProbeOK(r.p)
           /\ ProbeOK(p) /\ Stowed(p) => Stowed(r.p)
<1> DEFINE q == [p EXCEPT !.pending = FALSE]
<1>1. CASE ~p.pending
  <2>1. r.ok = TRUE /\ r.p = p  BY <1>1, OutcomeIs DEF Ended
  <2> QED  BY <1>1, <2>1
<1>2. CASE p.pending /\ StowEach
  <2>1. r.ok = TRUE /\ r.p = q  BY <1>2, OutcomeIs DEF Ended
  <2> QED  BY <1>2, <2>1 DEF ProbeState, ProbeOK, Stowed
<1>3. CASE p.pending /\ ~StowEach
  <2>1. q \in ProbeState /\ q.pending = FALSE /\ q.multi = p.multi
    BY DEF ProbeState
  <2>2. PICK s \in Script(q, FALSE) :
          r = IF s.ok THEN Returns([s.p EXCEPT !.multi = "OFF"]) ELSE s
    BY <1>3 DEF Ended
  <2> HIDE DEF q
  <2>3. /\ s.ok \in BOOLEAN /\ s.p \in ProbeState
        /\ s.p.pending = q.pending /\ s.p.multi = q.multi
        /\ s.p.slip \/ (s.ok /\ s.p.lowered = FALSE)
    BY <2>1, ScriptIs
  <2>4. CASE s.ok
    <3>1. r.ok = TRUE /\ r.p = [s.p EXCEPT !.multi = "OFF"]
      BY <2>2, <2>4, OutcomeIs
    <3> QED  BY <2>1, <2>3, <2>4, <3>1 DEF ProbeOK, Stowed, ProbeState
  <2>5. CASE ~s.ok
    <3>1. r = s  BY <2>2, <2>5
    <3> QED  BY <1>3, <2>1, <2>3, <2>5, <3>1 DEF ProbeOK, Stowed, ProbeState
  <2> QED  BY <2>4, <2>5
<1> QED  BY <1>1, <1>2, <1>3, HomingAssumption DEF ProbeState

LEMMA DriversKeepType ==
    ASSUME TypeOK, NEW ds \in SUBSET Drivers, NEW ok \in BOOLEAN,
           DriversBegin(ds, ok) \/ DriversEnd(ds, ok)
    PROVE  /\ mode' \in [Drivers -> {"run", "home"}]
           /\ saved' \in [Drivers -> {"run", "home"}]
           /\ regFailed' \in BOOLEAN
<1>1. CASE DriversBegin(ds, ok)
  BY <1>1 DEF TypeOK, DriversBegin
<1>2. CASE DriversEnd(ds, ok)
  BY <1>2 DEF TypeOK, DriversEnd
<1> QED  BY <1>1, <1>2

LEMMA MoveBeginsType ==
    ASSUME TypeOK, NEW e \in Endstops, NEW p \in ProbeState, NEW ok \in BOOLEAN,
           MoveBegins(e, p, ok)
    PROVE  /\ mode' \in [Drivers -> {"run", "home"}]
           /\ saved' \in [Drivers -> {"run", "home"}]
           /\ regFailed' \in BOOLEAN /\ probe' \in ProbeState
<1>1. CASE e = Probe
  BY <1>1, PreparedIs DEF MoveBegins, driverVars, TypeOK
<1>2. CASE e # Probe
  <2>1. DriversOf[e] \in SUBSET Drivers  BY HomingAssumption
  <2> QED  BY <1>2, <2>1, DriversKeepType DEF MoveBegins
<1> QED  BY <1>1, <1>2

LEMMA MoveEndsType ==
    ASSUME TypeOK, NEW e \in Endstops, NEW p, NEW ok \in BOOLEAN,
           MoveEnds(e, p, ok)
    PROVE  /\ mode' \in [Drivers -> {"run", "home"}]
           /\ saved' \in [Drivers -> {"run", "home"}]
           /\ regFailed' \in BOOLEAN /\ p \in ProbeState
<1>1. CASE e = Probe
  BY <1>1, FinishedIs DEF MoveEnds, driverVars, TypeOK
<1>2. CASE e # Probe
  <2>1. DriversOf[e] \in SUBSET Drivers  BY HomingAssumption
  <2> QED  BY <1>2, <2>1, DriversKeepType DEF MoveEnds, TypeOK
<1> QED  BY <1>1, <1>2
-----------------------------------------------------------------------------
(* The types, and where a command may be.                                  *)

LEMMA BaseInit == Init => Base
<1> SUFFICES ASSUME Init PROVE Base  OBVIOUS
<1>1. Z \in Axes /\ \A a \in Axes : <<a, "primary">> \in Endstops
  BY HomingAssumption DEF Endstops
<1>2. by \in [Axes -> Endstops] /\ axis \in Axes
  BY <1>1 DEF Init
<1>3. mode \in [Drivers -> {"run", "home"}] /\ saved \in [Drivers -> {"run", "home"}]
  BY DEF Init
<1>4. probe \in ProbeState  BY DEF Init
<1>5. /\ samples \in 0..Samples /\ got \in 0..Points /\ rounds \in 0..MaxRounds
      /\ retries \in Nat /\ cycles \in Nat /\ fails \in Nat
  BY HomingAssumption DEF Init
<1>6. TypeOK
  BY <1>2, <1>3, <1>4, <1>5 DEF Init, TypeOK, Places, Moving
<1>7. FlowInv
  BY DEF Init, FlowInv
<1> QED  BY <1>6, <1>7 DEF Base

LEMMA RunProbeType ==
    ASSUME TypeOK, NEW p \in ProbeState, RunProbe(p)
    PROVE  /\ notify' \in BOOLEAN /\ probe' \in ProbeState /\ probe'.pending
           /\ samples' = 0 /\ retries' = 0 /\ cycles' = 0 /\ fails' = 0
<1>1. p.pending \in BOOLEAN  BY DEF ProbeState
<1>2. Begun(p) \in ProbeState /\ Begun(p).pending  BY BegunIs
<1> QED  BY <1>1, <1>2 DEF RunProbe

LEMMA DoneBase ==
    ASSUME Base, Done, probe' \in ProbeState, UNCHANGED envVars,
           reversed' \in BOOLEAN, homed' \subseteq Axes, exact' \subseteq Axes,
           by' \in [Axes -> Endstops],
           mode' \in [Drivers -> {"run", "home"}],
           saved' \in [Drivers -> {"run", "home"}], regFailed' \in BOOLEAN
    PROVE  Base'
<1>1. /\ samples' \in 0..Samples /\ got' \in 0..Points /\ rounds' \in 0..MaxRounds
      /\ retries' \in Nat /\ cycles' \in Nat /\ fails' \in Nat
  BY HomingAssumption DEF Done
<1>2. op' = "none" /\ pc' = "idle" /\ notify' = FALSE /\ todo' = {} /\ axis' = Z
  BY DEF Done
<1>3. TypeOK'
  BY <1>1, <1>2, HomingAssumption DEF Base, TypeOK, envVars, Places
<1>4. FlowInv'
  BY <1>2 DEF FlowInv
<1> QED  BY <1>3, <1>4 DEF Base

LEMMA CommandErrorBase == Base /\ CommandError => Base'
<1> SUFFICES ASSUME Base, CommandError PROVE Base'  OBVIOUS
<1>1. probe' \in ProbeState
  BY EndedIs DEF CommandError, Base, TypeOK
<1>2. homed' \subseteq Axes /\ exact' \subseteq Axes
  BY DEF CommandError, MotorOff, Base, TypeOK
<1> QED  BY <1>1, <1>2, DoneBase DEF CommandError, Base, TypeOK, driverVars

LEMMA HomeBase ==
    ASSUME Base
    PROVE  /\ \A want \in SUBSET Axes \ {{}} : G28(want) => Base'
           /\ ReverseHoming => Base'
<1>1. ASSUME NEW want \in SUBSET Axes \ {{}}, G28(want) PROVE Base'
  BY <1>1 DEF G28, Accepts, Base, TypeOK, FlowInv, sampleVars, pointVars,
     railVars, driverVars, envVars, Places, Moving, HomingOps, ProbingOps
<1>2. ASSUME ReverseHoming PROVE Base'
  BY <1>2, HomingAssumption DEF ReverseHoming, Accepts, Base, TypeOK, FlowInv,
     sampleVars, pointVars, driverVars, envVars, Places, Moving, HomingOps,
     ProbingOps
<1> QED  BY <1>1, <1>2

LEMMA BeginHomeBase ==
    ASSUME Base, NEW a \in Axes, BeginHome(a)
    PROVE  Base'
<1> DEFINE e == EndstopOf(a)
           p == IF e = Probe THEN Begun(probe) ELSE probe
<1>1. e \in Endstops  BY EndstopOfType
<1>2. p \in ProbeState  BY BegunIs DEF Base, TypeOK
<1>3. PICK ok \in BOOLEAN : /\ MoveBegins(e, p, ok)
                            /\ GoTo(IF ok THEN "first" ELSE "failed")
  BY DEF BeginHome
<1>4. /\ mode' \in [Drivers -> {"run", "home"}]
      /\ saved' \in [Drivers -> {"run", "home"}]
      /\ regFailed' \in BOOLEAN /\ probe' \in ProbeState
  BY <1>1, <1>2, <1>3, MoveBeginsType DEF Base
<1>5. by' \in [Axes -> Endstops] /\ by'[a] = e
  BY <1>1 DEF BeginHome, Base, TypeOK
<1>6. EndstopOf(a)' = e  BY DEF BeginHome, EndstopOf
<1> HIDE DEF e, p
<1>7. /\ pc = "axis" /\ a \in todo /\ axis' = a /\ homed' = homed \cup {a}
      /\ exact' = exact \ {a}
      /\ UNCHANGED <<todo, sampleVars, pointVars, reversed, envVars>>
      /\ pc' \in {"first", "failed"} /\ op' = op
  BY <1>3 DEF BeginHome, GoTo
<1>8. TypeOK'
  BY <1>4, <1>5, <1>7 DEF Base, TypeOK, sampleVars, pointVars, envVars, Places,
     Moving
<1>9. FlowInv'
  BY <1>5, <1>6, <1>7 DEF Base, FlowInv, envVars, HomingOps, ProbingOps
<1> QED  BY <1>8, <1>9 DEF Base

LEMMA RailsHomedBase ==
    ASSUME Base, NEW e, NEW p \in ProbeState, pc \in {"first", "second"},
           RailsHomed(e, p), exact' \subseteq Axes,
           UNCHANGED <<homed, by, envVars>>,
           mode' \in [Drivers -> {"run", "home"}],
           saved' \in [Drivers -> {"run", "home"}], regFailed' \in BOOLEAN
    PROVE  Base'
<1>1. PICK r \in IF e = Probe THEN Ended(p) ELSE {Returns(p)} :
        /\ probe' = r.p
        /\ reversed' = (reversed /\ ~r.ok)
        /\ IF ~r.ok
           THEN Fail /\ UNCHANGED <<homeVars, sampleVars, pointVars>>
           ELSE IF todo = {axis} THEN Done
           ELSE GoTo("axis") /\ todo' = todo \ {axis}
                /\ UNCHANGED <<axis, sampleVars, pointVars>>
  BY DEF RailsHomed
<1>2. r.ok \in BOOLEAN /\ r.p \in ProbeState
  <2>1. CASE e = Probe  BY <2>1, <1>1, EndedIs
  <2>2. CASE e # Probe
    <3>1. r = Returns(p)  BY <2>2, <1>1
    <3> QED  BY <3>1, OutcomeIs
  <2> QED  BY <2>1, <2>2
<1>3. probe' \in ProbeState /\ reversed' \in BOOLEAN
  BY <1>1, <1>2
<1>4. CASE Done
  BY <1>3, <1>4, DoneBase DEF Base, TypeOK
<1>5. CASE Fail /\ UNCHANGED <<homeVars, sampleVars, pointVars>>
  BY <1>3, <1>5 DEF Fail, GoTo, Base, TypeOK, FlowInv, homeVars, sampleVars,
     pointVars, envVars, Places, Moving, HomingOps, ProbingOps
<1>6. CASE /\ GoTo("axis") /\ todo' = todo \ {axis}
           /\ UNCHANGED <<axis, sampleVars, pointVars>>
  BY <1>3, <1>6 DEF GoTo, Base, TypeOK, FlowInv, sampleVars,
     pointVars, envVars, Places, Moving, HomingOps, ProbingOps
<1> QED  BY <1>1, <1>4, <1>5, <1>6

LEMMA HomingMoveDoneBase == Base /\ HomingMoveDone => Base'
<1> SUFFICES ASSUME Base, HomingMoveDone PROVE Base'  OBVIOUS
<1> DEFINE e == EndstopOf(axis)
<1>1. PICK outcome \in {"none", "trigger", "still"}, ok \in BOOLEAN,
           p \in ProbeState :
        /\ MoveEnds(e, p, ok)
        /\ exact' = IF outcome = "trigger" THEN exact \cup {axis} ELSE exact
        /\ IF \/ outcome = "none" \/ ~ok
              \/ pc = "second" /\ outcome = "still"
           THEN /\ Fail /\ probe' = p
                /\ UNCHANGED <<homeVars, sampleVars, pointVars, reversed>>
           ELSE IF pc = "first" /\ e \in Twice
           THEN /\ GoTo("retract") /\ probe' = p
                /\ UNCHANGED <<homeVars, sampleVars, pointVars, reversed>>
           ELSE RailsHomed(e, p)
  BY DEF HomingMoveDone
<1>2. pc \in {"first", "second"} /\ UNCHANGED <<homed, by, envVars>>
  BY DEF HomingMoveDone
<1>3. exact' \subseteq Axes  BY <1>1 DEF Base, TypeOK
<1>4. e \in Endstops  BY EndstopOfType DEF Base, TypeOK
<1>5. /\ mode' \in [Drivers -> {"run", "home"}]
      /\ saved' \in [Drivers -> {"run", "home"}]
      /\ regFailed' \in BOOLEAN
  BY <1>1, <1>4, MoveEndsType DEF Base
<1>6. CASE RailsHomed(e, p)
  BY <1>2, <1>3, <1>5, <1>6, RailsHomedBase
<1>7. CASE /\ (Fail \/ GoTo("retract")) /\ probe' = p
           /\ UNCHANGED <<homeVars, sampleVars, pointVars, reversed>>
  <2>1. EndstopOf(axis)' = e  BY <1>7 DEF EndstopOf, homeVars
  <2> HIDE DEF e
  <2>2. pc' \in {"failed", "retract"} /\ op' = op  BY <1>7 DEF Fail, GoTo
  <2>3. TypeOK'
    BY <1>2, <1>3, <1>5, <1>7, <2>2 DEF Base, TypeOK, homeVars, sampleVars,
       pointVars, envVars, Places, Moving
  <2>4. by[axis] = e  BY <1>2 DEF Base, FlowInv, e
  <2> QED
    BY <1>2, <1>7, <2>1, <2>2, <2>3, <2>4 DEF Base, FlowInv, homeVars, sampleVars,
       pointVars, envVars, HomingOps, ProbingOps
<1> QED  BY <1>1, <1>6, <1>7

LEMMA HomeAgainBase == Base /\ HomeAgain => Base'
<1> SUFFICES ASSUME Base, HomeAgain PROVE Base'  OBVIOUS
<1> DEFINE e == EndstopOf(axis)
<1>1. PICK ok \in BOOLEAN : /\ MoveBegins(e, probe, ok)
                            /\ GoTo(IF ok THEN "second" ELSE "failed")
  BY DEF HomeAgain
<1>2. e \in Endstops  BY EndstopOfType DEF Base, TypeOK
<1>3. /\ mode' \in [Drivers -> {"run", "home"}]
      /\ saved' \in [Drivers -> {"run", "home"}]
      /\ regFailed' \in BOOLEAN /\ probe' \in ProbeState
  BY <1>1, <1>2, MoveBeginsType DEF Base, TypeOK
<1>4. EndstopOf(axis)' = e  BY DEF HomeAgain, EndstopOf, homeVars
<1>5. by[axis] = e  BY DEF HomeAgain, Base, FlowInv
<1> HIDE DEF e
<1>6. /\ pc = "retract" /\ pc' \in {"second", "failed"} /\ op' = op
      /\ exact' = exact \ {axis}
      /\ UNCHANGED <<homeVars, sampleVars, pointVars, reversed, homed, by, envVars>>
  BY <1>1 DEF HomeAgain, GoTo
<1>7. TypeOK'
  BY <1>3, <1>6 DEF Base, TypeOK, homeVars, sampleVars, pointVars, envVars,
     Places, Moving
<1> QED
  BY <1>4, <1>5, <1>6, <1>7 DEF Base, FlowInv, homeVars, sampleVars, pointVars,
     envVars, HomingOps, ProbingOps

LEMMA ProbeCommandBase == Base /\ ProbeCommand => Base'
<1> SUFFICES ASSUME Base, ProbeCommand PROVE Base'  OBVIOUS
<1>1. /\ notify' \in BOOLEAN /\ probe' \in ProbeState
      /\ samples' = 0 /\ retries' = 0 /\ cycles' = 0 /\ fails' = 0
  BY RunProbeType DEF ProbeCommand, Base, TypeOK
<1> QED
  BY <1>1, HomingAssumption DEF ProbeCommand, Accepts, Base, TypeOK, FlowInv,
     homeVars, pointVars, railVars, driverVars, envVars, Places, Moving,
     HomingOps, ProbingOps

LEMMA SampleBase == Base /\ Sample => Base'
<1> SUFFICES ASSUME Base, Sample PROVE Base'  OBVIOUS
<1>1. Probe \in Endstops  BY HomingAssumption DEF Probe, Endstops
<1>2. /\ mode' \in [Drivers -> {"run", "home"}]
      /\ saved' \in [Drivers -> {"run", "home"}]
      /\ regFailed' \in BOOLEAN /\ probe' \in ProbeState
  <2>1. CASE Z \in homed
    BY <1>1, <2>1, MoveBeginsType DEF Sample, Base, TypeOK
  <2>2. CASE Z \notin homed
    BY <2>2 DEF Sample, Base, TypeOK, driverVars
  <2> QED  BY <2>1, <2>2
<1>3. /\ pc = "sample" /\ pc' \in {"probing", "failed"} /\ op' = op
      /\ UNCHANGED <<homeVars, sampleVars, pointVars, railVars, envVars>>
  BY DEF Sample, Fail, GoTo
<1> QED
  BY <1>2, <1>3 DEF Base, TypeOK, FlowInv, homeVars, sampleVars, pointVars,
     railVars, envVars, Places, Moving, HomingOps, ProbingOps

LEMMA ProbingMoveDoneBase == Base /\ ProbingMoveDone => Base'
<1> SUFFICES ASSUME Base, ProbingMoveDone PROVE Base'  OBVIOUS
<1>1. PICK hit \in BOOLEAN, ok \in BOOLEAN :
        /\ MoveEnds(Probe, probe', ok) /\ probe' \in ProbeState
        /\ IF hit /\ ok THEN GoTo("judge") /\ samples' = samples + 1
           ELSE Fail /\ UNCHANGED samples
  BY DEF ProbingMoveDone
<1>2. Probe \in Endstops  BY HomingAssumption DEF Probe, Endstops
<1>3. /\ mode' \in [Drivers -> {"run", "home"}]
      /\ saved' \in [Drivers -> {"run", "home"}]
      /\ regFailed' \in BOOLEAN
  BY <1>1, <1>2, MoveEndsType DEF Base
<1>4. /\ pc = "probing" /\ op' = op
      /\ \/ pc' = "judge" /\ samples' = samples + 1
         \/ pc' = "failed" /\ samples' = samples
      /\ UNCHANGED <<homeVars, retries, cycles, notify, fails, pointVars, railVars,
                     envVars>>
  BY <1>1 DEF ProbingMoveDone, Fail, GoTo
<1>5. samples' \in 0..Samples
  BY <1>4, HomingAssumption DEF Base, TypeOK, FlowInv
<1> QED
  BY <1>1, <1>3, <1>4, <1>5 DEF Base, TypeOK, FlowInv, homeVars, pointVars,
     railVars, envVars, Places, Moving, HomingOps, ProbingOps

LEMMA JudgeBase ==
    ASSUME Base, MoreSamples \/ Retry \/ ShakeAndRetry
    PROVE  Base'
<1>1. CASE MoreSamples
  BY <1>1 DEF MoreSamples, GoTo, Base, TypeOK, FlowInv, homeVars, sampleVars,
     pointVars, railVars, driverVars, envVars, Places, Moving, HomingOps,
     ProbingOps
<1>2. CASE Retry
  BY <1>2, HomingAssumption DEF Retry, GoTo, Base, TypeOK, FlowInv, homeVars,
     pointVars, railVars, driverVars, envVars, Places, Moving, HomingOps,
     ProbingOps
<1>3. CASE ShakeAndRetry
  <2>1. probe' \in ProbeState
    <3>1. \A r \in {Returns(probe)} : r.p = probe  BY OutcomeIs
    <3> QED  BY <1>3, <3>1, EndedIs DEF ShakeAndRetry, Base, TypeOK
  <2>2. pc' \in {"sample", "failed"} /\ op' = op
    BY <1>3 DEF ShakeAndRetry, Fail, GoTo
  <2> QED
    BY <1>3, <2>1, <2>2, HomingAssumption DEF ShakeAndRetry, Base, TypeOK,
       FlowInv, homeVars, pointVars, railVars, driverVars, envVars, Places,
       Moving, HomingOps, ProbingOps
<1> QED  BY <1>1, <1>2, <1>3

LEMMA RunProbeEndsBase == Base /\ RunProbeEnds => Base'
<1> SUFFICES ASSUME Base, RunProbeEnds PROVE Base'  OBVIOUS
<1>1. PICK r \in IF notify THEN Ended(probe) ELSE {Returns(probe)},
           trusted \in BOOLEAN :
        /\ probe' = r.p
        /\ IF ~r.ok \/ ~trusted
           THEN Fail /\ UNCHANGED <<homeVars, sampleVars, pointVars>>
           ELSE IF op = "PROBE" THEN Done
           ELSE /\ GoTo("next") /\ got' = got + 1
                /\ UNCHANGED <<homeVars, sampleVars, rounds>>
  BY DEF RunProbeEnds
<1>2. probe' \in ProbeState
  <2>1. \A s \in {Returns(probe)} : s.p = probe  BY OutcomeIs
  <2> QED  BY <1>1, <2>1, EndedIs DEF Base, TypeOK
<1>3. pc = "judge" /\ UNCHANGED <<railVars, driverVars, envVars>>
  BY DEF RunProbeEnds
<1>4. CASE Done
  BY <1>2, <1>3, <1>4, DoneBase DEF Base, TypeOK, railVars, driverVars
<1>5. CASE Fail /\ UNCHANGED <<homeVars, sampleVars, pointVars>>
  BY <1>2, <1>3, <1>5 DEF Fail, GoTo, Base, TypeOK, FlowInv, homeVars, sampleVars,
     pointVars, railVars, driverVars, envVars, Places, Moving, HomingOps,
     ProbingOps
<1>6. CASE /\ op # "PROBE" /\ GoTo("next") /\ got' = got + 1
           /\ UNCHANGED <<homeVars, sampleVars, rounds>>
  <2>1. op = "points"  BY <1>3, <1>6 DEF Base, FlowInv, ProbingOps
  <2>2. got' \in 0..Points
    BY <1>3, <1>6, <2>1, HomingAssumption DEF Base, TypeOK, FlowInv
  <2> QED
    BY <1>2, <1>3, <1>6, <2>1, <2>2 DEF GoTo, Base, TypeOK, FlowInv, homeVars,
       sampleVars, railVars, driverVars, envVars, Places, Moving, HomingOps,
       ProbingOps
<1> QED  BY <1>1, <1>4, <1>5, <1>6

LEMMA StartProbeBase == Base /\ StartProbe => Base'
<1> SUFFICES ASSUME Base, StartProbe PROVE Base'  OBVIOUS
<1>1. probe' \in ProbeState  BY BegunIs DEF StartProbe, Base, TypeOK
<1> QED
  BY <1>1 DEF StartProbe, Accepts, Base, TypeOK, FlowInv, homeVars, sampleVars,
     pointVars, railVars, driverVars, envVars, Places, Moving, HomingOps,
     ProbingOps

LEMMA SessionEndsBase ==
    ASSUME Base, SessionEnds, pc = "next",
           UNCHANGED <<railVars, driverVars, envVars>>
    PROVE  Base'
<1>1. PICK r \in Ended(probe) :
        /\ probe' = r.p
        /\ IF r.ok THEN Done
           ELSE Fail /\ UNCHANGED <<homeVars, sampleVars, pointVars>>
  BY DEF SessionEnds
<1>2. probe' \in ProbeState  BY <1>1, EndedIs DEF Base, TypeOK
<1>3. CASE Done
  BY <1>2, <1>3, DoneBase DEF Base, TypeOK, railVars, driverVars
<1>4. CASE Fail /\ UNCHANGED <<homeVars, sampleVars, pointVars>>
  BY <1>2, <1>4 DEF Fail, GoTo, Base, TypeOK, FlowInv, homeVars, sampleVars,
     pointVars, railVars, driverVars, envVars, Places, Moving, HomingOps,
     ProbingOps
<1> QED  BY <1>1, <1>3, <1>4

LEMMA MoveNextBase == Base /\ MoveNext => Base'
<1> SUFFICES ASSUME Base, MoveNext PROVE Base'  OBVIOUS
<1>1. CASE SessionEnds
  BY <1>1, SessionEndsBase DEF MoveNext
<1>2. CASE /\ \/ got < Points /\ UNCHANGED pointVars
              \/ got >= Points /\ rounds < MaxRounds
                 /\ got' = 0 /\ rounds' = rounds + 1
           /\ RunProbe(probe) /\ GoTo("sample")
           /\ UNCHANGED homeVars
  <2>1. /\ notify' \in BOOLEAN /\ probe' \in ProbeState
        /\ samples' = 0 /\ retries' = 0 /\ cycles' = 0 /\ fails' = 0
    BY <1>2, RunProbeType DEF Base, TypeOK
  <2>2. got' \in 0..Points /\ got' < Points /\ rounds' \in 0..MaxRounds
    BY <1>2, HomingAssumption DEF Base, TypeOK, pointVars
  <2>3. pc = "next" /\ pc' = "sample" /\ op' = op /\ UNCHANGED homeVars
        /\ UNCHANGED <<railVars, driverVars, envVars>>
    BY <1>2 DEF MoveNext, GoTo
  <2> QED
    BY <2>1, <2>2, <2>3, HomingAssumption DEF Base, TypeOK, FlowInv, homeVars,
       railVars, driverVars, envVars, Places, Moving, HomingOps, ProbingOps
<1> QED  BY <1>1, <1>2 DEF MoveNext

LEMMA OtherBase ==
    ASSUME Base, Raise \/ M84 \/ BreakMacro \/ ResumeMacro \/ Shutdown
    PROVE  Base'
<1> USE DEF Base, TypeOK, FlowInv, homeVars, sampleVars, pointVars, railVars,
        driverVars, envVars, Places, Moving, HomingOps, ProbingOps
<1>1. CASE Raise  BY <1>1 DEF Raise, Fail, GoTo
<1>2. CASE M84  BY <1>2 DEF M84, MotorOff, Accepts
<1>3. CASE BreakMacro  BY <1>3 DEF BreakMacro, EndstopOf
<1>4. CASE ResumeMacro  BY <1>4 DEF ResumeMacro, EndstopOf
<1>5. CASE Shutdown
  <2>1. probe' \in ProbeState  BY <1>5 DEF Shutdown, ProbeState
  <2>2. EndstopOf(axis)' = EndstopOf(axis)  BY <1>5 DEF Shutdown, EndstopOf
  <2> QED  BY <1>5, <2>1, <2>2 DEF Shutdown
<1> QED  BY <1>1, <1>2, <1>3, <1>4, <1>5

LEMMA BaseStep == Base /\ [Next]_vars => Base'
<1> SUFFICES ASSUME Base, [Next]_vars PROVE Base'  OBVIOUS
<1>1. ASSUME NEW a \in Axes, BeginHome(a) PROVE Base'  BY <1>1, BeginHomeBase
<1>2. CASE HomingMoveDone \/ HomeAgain
  BY <1>2, HomingMoveDoneBase, HomeAgainBase
<1>3. CASE Sample \/ ProbingMoveDone \/ MoreSamples \/ Retry \/ ShakeAndRetry
  BY <1>3, SampleBase, ProbingMoveDoneBase, JudgeBase
<1>4. CASE RunProbeEnds \/ MoveNext \/ Raise \/ CommandError
  BY <1>4, RunProbeEndsBase, MoveNextBase, OtherBase, CommandErrorBase
<1>5. CASE Start
  BY <1>5, HomeBase, ProbeCommandBase, StartProbeBase, OtherBase DEF Start
<1>6. CASE Environment
  BY <1>6, OtherBase DEF Environment
<1>7. CASE UNCHANGED vars
  BY <1>7 DEF vars, Base, TypeOK, FlowInv, homeVars, sampleVars, pointVars,
     railVars, driverVars, envVars, EndstopOf
<1> QED  BY <1>1, <1>2, <1>3, <1>4, <1>5, <1>6, <1>7 DEF Next, Work
-----------------------------------------------------------------------------
(* The actions in groups, for what does not depend on the rest of them.    *)

(* What only touches the probe, the drivers and the numbers of run_probe.  *)
ProbingStep ==
    \/ Sample \/ ProbingMoveDone \/ MoreSamples \/ Retry \/ ShakeAndRetry
    \/ RunProbeEnds \/ MoveNext
Starting ==
    \/ \E want \in SUBSET Axes \ {{}} : G28(want)
    \/ ReverseHoming \/ ProbeCommand \/ StartProbe

LEMMA ProbingStepIs ==
    ASSUME Base, ProbingStep
    PROVE  /\ op \in ProbingOps /\ op' \in ProbingOps \cup {"none"}
           /\ pc \in {"sample", "probing", "judge", "next"}
           /\ pc' \in {"sample", "probing", "judge", "next", "failed", "idle"}
           /\ UNCHANGED <<railVars, envVars>>
<1> USE DEF Fail, GoTo, Done, Base, FlowInv, ProbingOps, HomingOps
<1>1. CASE Sample  BY <1>1 DEF Sample
<1>2. CASE ProbingMoveDone  BY <1>2 DEF ProbingMoveDone
<1>3. CASE MoreSamples  BY <1>3 DEF MoreSamples
<1>4. CASE Retry  BY <1>4 DEF Retry
<1>5. CASE ShakeAndRetry  BY <1>5 DEF ShakeAndRetry
<1>6. CASE RunProbeEnds  BY <1>6 DEF RunProbeEnds
<1>7. CASE MoveNext  BY <1>7 DEF MoveNext, SessionEnds
<1> QED  BY <1>1, <1>2, <1>3, <1>4, <1>5, <1>6, <1>7 DEF ProbingStep

LEMMA StartingIs ==
    ASSUME Base, Starting
    PROVE  /\ pc = "idle" /\ op = "none" /\ op' # "none"
           /\ pc' \in {"axis", "sample", "next"}
           /\ pc' = "axis" => op' \in HomingOps /\ probe' = probe
           /\ pc' # "axis" => op' \in ProbingOps /\ reversed' = reversed
           /\ pc' = "sample" =>
                RunProbe(probe) /\ op' = "PROBE"
           /\ pc' = "next" => probe' = Begun(probe) /\ UNCHANGED sampleVars
           /\ pc' = "axis" => UNCHANGED sampleVars
           /\ UNCHANGED <<homed, exact, by, driverVars, envVars>>
<1> USE DEF Accepts, Base, FlowInv, ProbingOps, HomingOps, railVars
<1>1. CASE \E want \in SUBSET Axes \ {{}} : G28(want)  BY <1>1 DEF G28
<1>2. CASE ReverseHoming  BY <1>2 DEF ReverseHoming
<1>3. CASE ProbeCommand  BY <1>3 DEF ProbeCommand
<1>4. CASE StartProbe  BY <1>4 DEF StartProbe
<1> QED  BY <1>1, <1>2, <1>3, <1>4 DEF Starting

LEMMA HomingMoveDoneIs ==
    ASSUME Base, HomingMoveDone
    PROVE  /\ pc \in {"first", "second"} /\ op \in HomingOps
           /\ axis \in todo /\ by[axis] = EndstopOf(axis)
           /\ UNCHANGED <<homed, by, envVars>>
           /\ \E ok \in BOOLEAN, p \in ProbeState :
                /\ MoveEnds(EndstopOf(axis), p, ok)
                /\ exact \subseteq exact'
                /\ \/ /\ Fail \/ (GoTo("retract") /\ ok)
                      /\ probe' = p
                      /\ UNCHANGED <<homeVars, sampleVars, pointVars, reversed>>
                   \/ /\ RailsHomed(EndstopOf(axis), p) /\ ok
                      /\ by[axis] \in Twice => axis \in exact'
<1>1. /\ pc \in {"first", "second"} /\ op \in HomingOps
      /\ axis \in todo /\ by[axis] = EndstopOf(axis)
      /\ UNCHANGED <<homed, by, envVars>>
  BY DEF HomingMoveDone, Base, FlowInv
<1> DEFINE e == EndstopOf(axis)
<1>2. PICK outcome \in {"none", "trigger", "still"}, ok \in BOOLEAN,
           p \in ProbeState :
        /\ MoveEnds(e, p, ok)
        /\ exact' = IF outcome = "trigger" THEN exact \cup {axis} ELSE exact
        /\ IF \/ outcome = "none" \/ ~ok
              \/ pc = "second" /\ outcome = "still"
           THEN /\ Fail /\ probe' = p
                /\ UNCHANGED <<homeVars, sampleVars, pointVars, reversed>>
           ELSE IF pc = "first" /\ e \in Twice
           THEN /\ GoTo("retract") /\ probe' = p
                /\ UNCHANGED <<homeVars, sampleVars, pointVars, reversed>>
           ELSE RailsHomed(e, p)
  BY DEF HomingMoveDone
<1>3. exact \subseteq exact'  BY <1>2
<1>4. \/ /\ Fail \/ (GoTo("retract") /\ ok)
         /\ probe' = p
         /\ UNCHANGED <<homeVars, sampleVars, pointVars, reversed>>
      \/ /\ RailsHomed(e, p) /\ ok
         /\ by[axis] \in Twice => axis \in exact'
  BY <1>1, <1>2
<1> QED  BY <1>1, <1>2, <1>3, <1>4

LEMMA RailsHomedIs ==
    ASSUME NEW e, NEW p \in ProbeState, RailsHomed(e, p)
    PROVE  \E r \in IF e = Probe THEN Ended(p) ELSE {Returns(p)} :
             /\ r.ok \in BOOLEAN /\ probe' = r.p
             /\ ~r.ok => Fail /\ UNCHANGED <<homeVars, sampleVars, pointVars>>
             /\ r.ok => /\ reversed' = FALSE
                        /\ \/ Done /\ todo = {axis}
                           \/ /\ GoTo("axis") /\ todo' = todo \ {axis}
                              /\ UNCHANGED <<sampleVars, pointVars>>
<1>1. PICK r \in IF e = Probe THEN Ended(p) ELSE {Returns(p)} :
        /\ probe' = r.p
        /\ reversed' = (reversed /\ ~r.ok)
        /\ IF ~r.ok
           THEN Fail /\ UNCHANGED <<homeVars, sampleVars, pointVars>>
           ELSE IF todo = {axis} THEN Done
           ELSE GoTo("axis") /\ todo' = todo \ {axis}
                /\ UNCHANGED <<axis, sampleVars, pointVars>>
  BY DEF RailsHomed
<1>2. r.ok \in BOOLEAN
  <2>1. CASE e = Probe  BY <2>1, <1>1, EndedIs
  <2>2. CASE e # Probe
    <3>1. r = Returns(p)  BY <2>2, <1>1
    <3> QED  BY <3>1, OutcomeIs
  <2> QED  BY <2>1, <2>2
<1>3. r.ok => reversed' = FALSE  BY <1>1
<1> QED  BY <1>1, <1>2, <1>3

LEMMA CommandErrorIs ==
    ASSUME Base, CommandError
    PROVE  /\ pc = "failed" /\ op # "none" /\ Done
           /\ op \in HomingOps /\ ~down => homed' = {}
           /\ ~(op \in HomingOps /\ ~down) => UNCHANGED <<homed, exact>>
           /\ \E r \in Ended(probe) : probe' = r.p
           /\ UNCHANGED <<reversed, by, driverVars, envVars>>
BY DEF CommandError, MotorOff, Base, FlowInv

LEMMA BeginHomeIs ==
    ASSUME Base, NEW a \in Axes, BeginHome(a)
    PROVE  /\ pc = "axis" /\ op \in HomingOps /\ op' = op
           /\ a \in todo /\ axis' = a
           /\ homed' = homed \cup {a} /\ exact' = exact \ {a}
           /\ \A b \in Axes : b # a => by'[b] = by[b]
           /\ EndstopOf(axis)' = EndstopOf(a)
           /\ \E ok \in BOOLEAN :
                /\ MoveBegins(EndstopOf(a),
                      IF EndstopOf(a) = Probe THEN Begun(probe) ELSE probe, ok)
                /\ pc' = IF ok THEN "first" ELSE "failed"
           /\ UNCHANGED <<todo, sampleVars, pointVars, reversed, envVars>>
<1>1. /\ pc = "axis" /\ op \in HomingOps
      /\ a \in todo /\ axis' = a
      /\ homed' = homed \cup {a} /\ exact' = exact \ {a}
      /\ UNCHANGED <<todo, sampleVars, pointVars, reversed, envVars>>
  BY DEF BeginHome, Base, FlowInv
<1>2. \A b \in Axes : b # a => by'[b] = by[b]
  BY DEF BeginHome, Base, TypeOK
<1>3. EndstopOf(axis)' = EndstopOf(a)  BY <1>1 DEF EndstopOf
<1>4. \E ok \in BOOLEAN :
         /\ MoveBegins(EndstopOf(a),
               IF EndstopOf(a) = Probe THEN Begun(probe) ELSE probe, ok)
         /\ GoTo(IF ok THEN "first" ELSE "failed")
  BY DEF BeginHome
<1>5. op' = op  BY <1>4 DEF GoTo
<1>6. \E ok \in BOOLEAN :
         /\ MoveBegins(EndstopOf(a),
               IF EndstopOf(a) = Probe THEN Begun(probe) ELSE probe, ok)
         /\ pc' = IF ok THEN "first" ELSE "failed"
  BY <1>4 DEF GoTo
<1> QED  BY <1>1, <1>2, <1>3, <1>5, <1>6

LEMMA HomeAgainIs ==
    ASSUME Base, HomeAgain
    PROVE  /\ pc = "retract" /\ op \in HomingOps /\ op' = op
           /\ axis \in todo /\ axis' = axis /\ exact' = exact \ {axis}
           /\ EndstopOf(axis)' = EndstopOf(axis)
           /\ \E ok \in BOOLEAN : /\ MoveBegins(EndstopOf(axis), probe, ok)
                                  /\ pc' = IF ok THEN "second" ELSE "failed"
           /\ UNCHANGED <<homeVars, sampleVars, pointVars, reversed, homed, by,
                          envVars>>
<1>1. EndstopOf(axis)' = EndstopOf(axis)  BY DEF HomeAgain, EndstopOf, homeVars
<1> QED  BY <1>1 DEF HomeAgain, GoTo, Base, FlowInv, homeVars

(* Every step is of one of these kinds.                                    *)
LEMMA StepKinds ==
    ASSUME Base, [Next]_vars
    PROVE  \/ \E a \in Axes : BeginHome(a)
           \/ HomingMoveDone \/ HomeAgain \/ ProbingStep \/ Starting
           \/ CommandError \/ Raise \/ M84 \/ Shutdown
           \/ /\ UNCHANGED <<op, pc, homeVars, sampleVars, pointVars, railVars,
                             driverVars, probe, down>>
<1>1. CASE BreakMacro \/ ResumeMacro
  BY <1>1 DEF BreakMacro, ResumeMacro
<1>2. CASE UNCHANGED vars
  BY <1>2 DEF vars, envVars
<1> QED
  BY <1>1, <1>2 DEF Next, Work, Start, Environment, ProbingStep, Starting
-----------------------------------------------------------------------------
(* Positions.                                                              *)

LEMMA PosOfUnchanged ==
    ASSUME PosInv, op \notin HomingOps, UNCHANGED <<homed, exact, by, down>>
    PROVE  PosInv'
BY DEF PosInv, Settled

LEMMA PosStep == Base /\ PosInv /\ [Next]_vars => PosInv'
<1> SUFFICES ASSUME Base, PosInv, [Next]_vars PROVE PosInv'  OBVIOUS
<1>1. ASSUME NEW a \in Axes, BeginHome(a) PROVE PosInv'
  <2>1. /\ pc = "axis" /\ op \in HomingOps /\ op' = op
        /\ a \in todo /\ todo' = todo
        /\ homed' = homed \cup {a} /\ exact' = exact \ {a}
        /\ \A b \in Axes : b # a => by'[b] = by[b]
        /\ UNCHANGED down
    BY <1>1, BeginHomeIs DEF envVars
  <2>2. homed \subseteq Axes  BY DEF Base, TypeOK
  <2> QED  BY <2>1, <2>2 DEF PosInv, Settled
<1>2. CASE HomingMoveDone
  <2>1. /\ pc \in {"first", "second"} /\ op \in HomingOps
        /\ axis \in todo /\ homed' = homed /\ by' = by /\ UNCHANGED down
    BY <1>2, HomingMoveDoneIs DEF envVars
  <2>2. PICK p \in ProbeState :
           /\ exact \subseteq exact'
           /\ \/ /\ Fail \/ GoTo("retract")
                 /\ UNCHANGED <<homeVars, sampleVars, pointVars, reversed>>
              \/ /\ RailsHomed(EndstopOf(axis), p)
                 /\ by[axis] \in Twice => axis \in exact'
    BY <1>2, HomingMoveDoneIs
  <2>3. ~down => \A a \in homed : a # axis \/ by[axis] \in Twice =>
           (a \notin todo /\ by[a] \in Twice => a \in exact)
    BY <2>1 DEF PosInv, Settled
  <2>4. CASE Fail
    BY <2>1, <2>4 DEF Fail, GoTo, PosInv, Settled
  <2>5. CASE GoTo("retract") /\ UNCHANGED <<homeVars, sampleVars, pointVars, reversed>>
    BY <2>1, <2>2, <2>5 DEF GoTo, PosInv, Settled, homeVars
  <2>6. CASE /\ RailsHomed(EndstopOf(axis), p)
             /\ by[axis] \in Twice => axis \in exact'
    <3>1. PICK r \in IF EndstopOf(axis) = Probe THEN Ended(p) ELSE {Returns(p)} :
            /\ r.ok \in BOOLEAN
            /\ ~r.ok => Fail
            /\ r.ok => \/ Done /\ todo = {axis}
                       \/ GoTo("axis") /\ todo' = todo \ {axis}
      BY <2>6, RailsHomedIs
    <3>2. CASE Done /\ todo = {axis}
      BY <2>1, <2>2, <2>6, <3>2 DEF Done, PosInv, Settled
    <3>3. CASE GoTo("axis") /\ todo' = todo \ {axis}
      BY <2>1, <2>2, <2>6, <3>3 DEF GoTo, PosInv, Settled
    <3> QED  BY <2>4, <3>1, <3>2, <3>3
  <2> QED  BY <2>2, <2>4, <2>5, <2>6
<1>3. CASE HomeAgain
  <2>1. /\ pc = "retract" /\ op \in HomingOps /\ op' = op
        /\ axis \in todo /\ exact' = exact \ {axis} /\ todo' = todo
        /\ homed' = homed /\ by' = by /\ UNCHANGED down
    BY <1>3, HomeAgainIs DEF homeVars, envVars
  <2> QED  BY <2>1 DEF PosInv, Settled
<1>4. CASE ProbingStep
  BY <1>4, ProbingStepIs, PosOfUnchanged DEF ProbingOps, HomingOps, railVars,
     envVars
<1>5. CASE Starting
  BY <1>5, StartingIs, PosOfUnchanged DEF HomingOps, envVars
<1>6. CASE CommandError
  <2>1. CASE op \in HomingOps /\ ~down
    BY <1>6, <2>1, CommandErrorIs DEF PosInv
  <2>2. CASE op \notin HomingOps
    BY <1>6, <2>2, CommandErrorIs, PosOfUnchanged DEF envVars
  <2>3. CASE down
    BY <1>6, <2>3, CommandErrorIs DEF PosInv, envVars
  <2> QED  BY <2>1, <2>2, <2>3
<1>7. CASE Raise
  <2>1. pc' = "failed" /\ op' = op /\ UNCHANGED <<homed, exact, by, down>>
    BY <1>7 DEF Raise, Fail, GoTo, railVars, envVars
  <2> QED  BY <2>1, PosOfUnchanged DEF PosInv, Settled
<1>8. CASE M84
  BY <1>8 DEF M84, MotorOff, PosInv
<1>9. CASE Shutdown
  BY <1>9 DEF Shutdown, PosInv
<1>10. CASE UNCHANGED <<op, pc, homeVars, sampleVars, pointVars, railVars,
                        driverVars, probe, down>>
  BY <1>10 DEF PosInv, Settled, homeVars, railVars
<1> QED
  BY <1>1, <1>2, <1>3, <1>4, <1>5, <1>6, <1>7, <1>8, <1>9, <1>10, StepKinds

LEMMA SwapStep == Base /\ SwapInv /\ [Next]_vars => SwapInv'
<1> SUFFICES ASSUME Base, SwapInv, [Next]_vars PROVE SwapInv'  OBVIOUS
<1>1. ASSUME NEW a \in Axes, BeginHome(a) PROVE SwapInv'
  BY <1>1, BeginHomeIs DEF SwapInv
<1>2. CASE HomingMoveDone
  <2>1. op \in HomingOps /\ homed' = homed /\ axis \in todo
    BY <1>2, HomingMoveDoneIs
  <2>2. PICK p \in ProbeState :
           \/ Fail \/ GoTo("retract")
           \/ RailsHomed(EndstopOf(axis), p)
    BY <1>2, HomingMoveDoneIs
  <2>3. CASE Fail \/ GoTo("retract")
    BY <2>1, <2>3 DEF Fail, GoTo, SwapInv
  <2>4. CASE RailsHomed(EndstopOf(axis), p)
    BY <2>1, <2>3, <2>4, RailsHomedIs DEF SwapInv
  <2> QED  BY <2>2, <2>3, <2>4
<1>3. CASE HomeAgain  BY <1>3, HomeAgainIs DEF SwapInv
<1>4. CASE ProbingStep
  BY <1>4, ProbingStepIs DEF SwapInv, ProbingOps, HomingOps, railVars, envVars
<1>5. CASE Starting
  BY <1>5, StartingIs DEF SwapInv, HomingOps, ProbingOps, envVars
<1>6. CASE CommandError
  BY <1>6, CommandErrorIs DEF SwapInv, envVars
<1>7. CASE Raise
  BY <1>7 DEF Raise, Fail, GoTo, railVars, envVars, SwapInv
<1>8. CASE M84
  BY <1>8 DEF M84, MotorOff, SwapInv
<1>9. CASE Shutdown
  BY <1>9 DEF Shutdown, SwapInv
<1>10. CASE UNCHANGED <<op, pc, homeVars, sampleVars, pointVars, railVars,
                        driverVars, probe, down>>
  BY <1>10 DEF SwapInv, railVars
<1> QED
  BY <1>1, <1>2, <1>3, <1>4, <1>5, <1>6, <1>7, <1>8, <1>9, <1>10, StepKinds
-----------------------------------------------------------------------------
(* The probe.                                                              *)

LEMMA HomingPrepares ==
    ASSUME NEW e \in Endstops, NEW p \in ProbeState, NEW ok \in BOOLEAN,
           MoveBegins(e, p, ok), ProbeOK(p), Stowed(p), p.pending <=> e = Probe
    PROVE  /\ ProbeOK(probe') /\ (probe'.pending <=> e = Probe)
           /\ e = Probe /\ ok => probe'.lowered \/ probe'.slip
           /\ e # Probe \/ ~ok => Stowed(probe')
<1>1. CASE e = Probe
  <2>1. PICK r \in Prepared(p) : r.ok = ok /\ probe' = r.p
    BY <1>1 DEF MoveBegins
  <2> QED  BY <1>1, <2>1, PreparedIs
<1>2. CASE e # Probe
  BY <1>2 DEF MoveBegins
<1> QED  BY <1>1, <1>2

LEMMA HomingFinishes ==
    ASSUME Base, NEW e \in Endstops, NEW p \in ProbeState, NEW ok \in BOOLEAN,
           MoveEnds(e, p, ok), ProbeOK(probe), probe.pending <=> e = Probe,
           e # Probe => Stowed(probe)
    PROVE  ProbeOK(p) /\ Stowed(p) /\ (p.pending <=> e = Probe)
<1>1. probe \in ProbeState  BY DEF Base, TypeOK
<1>2. CASE e = Probe
  <2>1. PICK r \in Finished(probe) : r.ok = ok /\ p = r.p
    BY <1>2 DEF MoveEnds
  <2> QED  BY <1>1, <1>2, <2>1, FinishedIs
<1>3. CASE e # Probe
  BY <1>3 DEF MoveEnds
<1> QED  BY <1>2, <1>3

LEMMA ProbeInvInAxis ==
    ASSUME Base, ProbeInv, pc \in {"axis", "retract"}
    PROVE  ProbeOK(probe) /\ Stowed(probe)
           /\ (probe.pending <=> pc = "retract" /\ EndstopOf(axis) = Probe)
BY DEF ProbeInv, ProbeMove, InSession, Base, TypeOK, ProbeState

(* The state of the probe when the session, if any, is over.               *)
Resting(p) == ProbeOK(p) /\ Stowed(p) /\ ~p.pending

LEMMA RestingHolds ==
    ASSUME Resting(probe'), pc' \in {"idle", "axis", "failed"}
    PROVE  ProbeInv'
BY DEF Resting, ProbeInv, ProbeMove, InSession

LEMMA FailedHolds ==
    ASSUME ProbeOK(probe'), Stowed(probe'), pc' = "failed"
    PROVE  ProbeInv'
BY DEF ProbeInv, ProbeMove, InSession

LEMMA ProbeOfBeginHome ==
    ASSUME Base, ProbeInv, NEW a \in Axes, BeginHome(a)
    PROVE  ProbeInv'
<1> DEFINE e == EndstopOf(a)
           p == IF e = Probe THEN Begun(probe) ELSE probe
<1>1. pc = "axis" /\ EndstopOf(axis)' = e  BY BeginHomeIs
<1>2. PICK ok \in BOOLEAN : MoveBegins(e, p, ok)
                            /\ pc' = IF ok THEN "first" ELSE "failed"
  BY BeginHomeIs
<1>3. e \in Endstops  BY EndstopOfType
<1>4. ProbeOK(probe) /\ Stowed(probe) /\ ~probe.pending /\ probe \in ProbeState
  BY <1>1, ProbeInvInAxis DEF Base, TypeOK
<1>5. p \in ProbeState /\ ProbeOK(p) /\ Stowed(p) /\ (p.pending <=> e = Probe)
  BY <1>4, BegunIs
<1> HIDE DEF e, p
<1>6. /\ ProbeOK(probe') /\ (probe'.pending <=> e = Probe)
      /\ e = Probe /\ ok => probe'.lowered \/ probe'.slip
      /\ e # Probe \/ ~ok => Stowed(probe')
  BY <1>2, <1>3, <1>5, HomingPrepares
<1>7. CASE ok
  BY <1>1, <1>2, <1>6, <1>7 DEF ProbeInv, ProbeMove, InSession
<1>8. CASE ~ok
  BY <1>2, <1>6, <1>8, FailedHolds
<1> QED  BY <1>7, <1>8

LEMMA ProbeOfHomeAgain ==
    ASSUME Base, ProbeInv, HomeAgain
    PROVE  ProbeInv'
<1> DEFINE e == EndstopOf(axis)
<1>1. pc = "retract" /\ EndstopOf(axis)' = e  BY HomeAgainIs
<1>2. PICK ok \in BOOLEAN : MoveBegins(e, probe, ok)
                            /\ pc' = IF ok THEN "second" ELSE "failed"
  BY HomeAgainIs
<1>3. e \in Endstops /\ probe \in ProbeState
  BY EndstopOfType DEF Base, TypeOK
<1>4. ProbeOK(probe) /\ Stowed(probe) /\ (probe.pending <=> e = Probe)
  BY <1>1, ProbeInvInAxis
<1> HIDE DEF e
<1>5. /\ ProbeOK(probe') /\ (probe'.pending <=> e = Probe)
      /\ e = Probe /\ ok => probe'.lowered \/ probe'.slip
      /\ e # Probe \/ ~ok => Stowed(probe')
  BY <1>2, <1>3, <1>4, HomingPrepares
<1>6. CASE ok
  BY <1>1, <1>2, <1>5, <1>6 DEF ProbeInv, ProbeMove, InSession
<1>7. CASE ~ok
  BY <1>2, <1>5, <1>7, FailedHolds
<1> QED  BY <1>6, <1>7

LEMMA ProbeOfHomingMoveDone ==
    ASSUME Base, ProbeInv, HomingMoveDone
    PROVE  ProbeInv'
<1> DEFINE e == EndstopOf(axis)
<1>1. pc \in {"first", "second"}  BY HomingMoveDoneIs
<1>2. PICK ok \in BOOLEAN, p \in ProbeState :
        /\ MoveEnds(e, p, ok)
        /\ \/ /\ Fail \/ GoTo("retract")
              /\ probe' = p
              /\ UNCHANGED <<homeVars, sampleVars, pointVars, reversed>>
           \/ RailsHomed(e, p)
  BY HomingMoveDoneIs
<1>3. e \in Endstops  BY EndstopOfType DEF Base, TypeOK
<1>4. /\ ProbeOK(probe) /\ (probe.pending <=> e = Probe)
      /\ e # Probe => Stowed(probe)
  BY <1>1 DEF ProbeInv, ProbeMove, InSession, Base, TypeOK, ProbeState
<1>5. ProbeOK(p) /\ Stowed(p) /\ (p.pending <=> e = Probe)
  BY <1>2, <1>3, <1>4, HomingFinishes
<1>6. CASE Fail /\ probe' = p
  BY <1>5, <1>6, FailedHolds DEF Fail, GoTo
<1>7. CASE /\ GoTo("retract") /\ probe' = p
           /\ UNCHANGED <<homeVars, sampleVars, pointVars, reversed>>
  <2>1. EndstopOf(axis)' = e  BY <1>7 DEF EndstopOf, homeVars
  <2> QED
    BY <1>5, <1>7, <2>1 DEF GoTo, ProbeInv, ProbeMove, InSession
<1>8. CASE RailsHomed(e, p)
  <2>1. PICK r \in IF e = Probe THEN Ended(p) ELSE {Returns(p)} :
          /\ r.ok \in BOOLEAN /\ probe' = r.p
          /\ ~r.ok => Fail
          /\ r.ok => Done \/ GoTo("axis")
    BY <1>8, RailsHomedIs
  <2>2. Resting(probe')
    <3>1. CASE e = Probe  BY <1>5, <2>1, <3>1, EndedIs DEF Resting
    <3>2. CASE e # Probe
      <4>1. r = Returns(p)  BY <2>1, <3>2
      <4> QED  BY <1>5, <2>1, <3>2, <4>1, OutcomeIs DEF Resting
    <3> QED  BY <3>1, <3>2
  <2>3. pc' \in {"idle", "axis", "failed"}
    BY <2>1 DEF Fail, GoTo, Done
  <2> QED  BY <2>2, <2>3, RestingHolds
<1> QED  BY <1>2, <1>6, <1>7, <1>8

LEMMA RunProbeIs ==
    ASSUME NEW p \in ProbeState, RunProbe(p), ProbeOK(p), Stowed(p)
    PROVE  /\ ProbeOK(probe') /\ Stowed(probe') /\ probe'.pending
           /\ notify' = ~p.pending
<1>1. CASE p.pending  BY <1>1 DEF RunProbe
<1>2. CASE ~p.pending  BY <1>2, BegunIs DEF RunProbe
<1> QED  BY <1>1, <1>2

LEMMA ProbeOfStarting ==
    ASSUME Base, ProbeInv, Starting
    PROVE  ProbeInv'
<1>1. /\ pc = "idle" /\ op = "none"
      /\ pc' \in {"axis", "sample", "next"}
      /\ pc' = "axis" => probe' = probe
      /\ pc' = "sample" => RunProbe(probe) /\ op' = "PROBE"
      /\ pc' = "next" => probe' = Begun(probe)
  BY StartingIs
<1>2. Resting(probe) /\ probe \in ProbeState
  BY <1>1 DEF ProbeInv, ProbeMove, Resting, Base, TypeOK
<1>3. CASE pc' = "axis"
  BY <1>1, <1>2, <1>3, RestingHolds
<1>4. CASE pc' = "sample"
  <2>1. /\ ProbeOK(probe') /\ Stowed(probe') /\ probe'.pending
        /\ notify' = TRUE /\ op' = "PROBE"
    BY <1>1, <1>2, <1>4, RunProbeIs DEF Resting
  <2> QED  BY <1>4, <2>1 DEF ProbeInv, ProbeMove, InSession
<1>5. CASE pc' = "next"
  <2>1. ProbeOK(probe') /\ Stowed(probe') /\ probe'.pending
    BY <1>1, <1>2, <1>5, BegunIs DEF Resting
  <2> QED  BY <1>5, <2>1 DEF ProbeInv, ProbeMove, InSession
<1> QED  BY <1>1, <1>3, <1>4, <1>5

LEMMA ProbeOfProbing ==
    ASSUME Base, ProbeInv, ProbingStep
    PROVE  ProbeInv'
<1>1. /\ op \in ProbingOps /\ pc \in {"sample", "probing", "judge", "next"}
      /\ probe \in ProbeState /\ probe.pending /\ ProbeOK(probe)
      /\ pc # "probing" => Stowed(probe)
      /\ pc # "next" => (notify <=> op = "PROBE")
  BY ProbingStepIs DEF ProbeInv, ProbeMove, InSession, Base, TypeOK
<1>2. CASE Sample
  <2>1. CASE Z \in homed
    <3>1. PICK ok \in BOOLEAN : /\ MoveBegins(Probe, probe, ok)
                                /\ GoTo(IF ok THEN "probing" ELSE "failed")
      BY <1>2, <2>1 DEF Sample
    <3>2. PICK r \in Prepared(probe) : r.ok = ok /\ probe' = r.p
      BY <3>1 DEF MoveBegins
    <3>3. /\ ProbeOK(probe') /\ probe'.pending
          /\ ok => probe'.lowered \/ probe'.slip
          /\ ~ok => Stowed(probe')
      BY <1>1, <3>2, PreparedIs
    <3>4. CASE ok
      <4>1. pc' = "probing" /\ op' = op /\ notify' = notify /\ pc = "sample"
        BY <1>2, <3>1, <3>4 DEF Sample, GoTo, sampleVars
      <4> QED
        BY <1>1, <3>3, <3>4, <4>1 DEF ProbeInv, ProbeMove, InSession
    <3>5. CASE ~ok
      BY <3>1, <3>3, <3>5, FailedHolds DEF GoTo
    <3> QED  BY <3>4, <3>5
  <2>2. CASE Z \notin homed
    BY <1>1, <1>2, <2>2, FailedHolds DEF Sample, Fail, GoTo
  <2> QED  BY <2>1, <2>2
<1>3. CASE ProbingMoveDone
  <2>1. PICK hit \in BOOLEAN, ok \in BOOLEAN :
          /\ MoveEnds(Probe, probe', ok)
          /\ IF hit /\ ok THEN GoTo("judge") ELSE Fail
    BY <1>3 DEF ProbingMoveDone
  <2>2. PICK r \in Finished(probe) : r.ok = ok /\ probe' = r.p
    BY <2>1 DEF MoveEnds
  <2>3. ProbeOK(probe') /\ Stowed(probe') /\ probe'.pending
    BY <1>1, <2>2, FinishedIs
  <2>4. pc' \in {"judge", "failed"} /\ op' = op /\ notify' = notify /\ pc = "probing"
    BY <1>3, <2>1 DEF ProbingMoveDone, Fail, GoTo
  <2> QED  BY <1>1, <2>3, <2>4 DEF ProbeInv, ProbeMove, InSession
<1>4. CASE MoreSamples \/ Retry
  <2>1. /\ pc = "judge" /\ pc' = "sample" /\ op' = op /\ notify' = notify
        /\ probe' = probe
    BY <1>4 DEF MoreSamples, Retry, GoTo, sampleVars
  <2> QED  BY <1>1, <2>1 DEF ProbeInv, ProbeMove, InSession
<1>5. CASE ShakeAndRetry
  <2>1. pc = "judge" /\ notify' = notify  BY <1>5 DEF ShakeAndRetry
  <2>2. CASE GoTo("sample") /\ UNCHANGED probe
    BY <1>1, <2>1, <2>2 DEF GoTo, ProbeInv, ProbeMove, InSession
  <2>3. CASE /\ Fail
             /\ \E r \in IF notify THEN Ended(probe) ELSE {Returns(probe)} :
                   probe' = r.p
    <3>1. ProbeOK(probe') /\ Stowed(probe')
      <4>1. \A s \in {Returns(probe)} : s.p = probe  BY OutcomeIs
      <4> QED  BY <1>1, <2>1, <2>3, <4>1, EndedIs
    <3> QED  BY <2>3, <3>1, FailedHolds DEF Fail, GoTo
  <2> QED  BY <1>5, <2>2, <2>3 DEF ShakeAndRetry
<1>6. CASE RunProbeEnds
  <2>1. PICK r \in IF notify THEN Ended(probe) ELSE {Returns(probe)} :
          /\ probe' = r.p
          /\ \/ Fail
             \/ op = "PROBE" /\ Done
             \/ op # "PROBE" /\ GoTo("next")
    BY <1>6 DEF RunProbeEnds
  <2>2. pc = "judge"  BY <1>6 DEF RunProbeEnds
  <2>3. CASE op = "PROBE"
    <3>1. Resting(probe')  BY <1>1, <2>1, <2>2, <2>3, EndedIs DEF Resting
    <3> QED  BY <2>1, <2>3, <3>1, RestingHolds DEF Fail, GoTo, Done
  <2>4. CASE op # "PROBE"
    <3>1. probe' = probe  BY <1>1, <2>1, <2>2, <2>4, OutcomeIs
    <3> QED
      BY <1>1, <2>1, <2>2, <2>4, <3>1 DEF Fail, GoTo, ProbeInv, ProbeMove,
         InSession
  <2> QED  BY <2>3, <2>4
<1>7. CASE MoveNext
  <2>1. pc = "next"  BY <1>7 DEF MoveNext
  <2>2. CASE SessionEnds
    <3>1. PICK r \in Ended(probe) : probe' = r.p /\ (Done \/ Fail)
      BY <2>2 DEF SessionEnds
    <3>2. Resting(probe')  BY <1>1, <2>1, <3>1, EndedIs DEF Resting
    <3> QED  BY <3>1, <3>2, RestingHolds DEF Fail, GoTo, Done
  <2>3. CASE RunProbe(probe) /\ GoTo("sample")
    <3>1. op = "points"  BY <2>1 DEF Base, FlowInv
    <3>2. /\ ProbeOK(probe') /\ Stowed(probe') /\ probe'.pending
          /\ notify' = FALSE /\ op' = "points" /\ pc' = "sample"
      BY <1>1, <2>1, <2>3, <3>1, RunProbeIs DEF GoTo
    <3> QED  BY <3>2 DEF ProbeInv, ProbeMove, InSession
  <2> QED  BY <1>7, <2>2, <2>3 DEF MoveNext
<1> QED
  BY <1>2, <1>3, <1>4, <1>5, <1>6, <1>7 DEF ProbingStep

LEMMA ProbeOfShutdown ==
    ASSUME Base, ProbeInv, Shutdown
    PROVE  ProbeInv'
<1>1. probe \in ProbeState  BY DEF Base, TypeOK
<1>2. CASE ProbeMove
  <2>1. pc' = "failed" /\ probe' = [probe EXCEPT !.slip = TRUE]
    BY <1>2 DEF Shutdown, ProbeMove, Moving
  <2>2. ProbeOK(probe') /\ Stowed(probe')
    BY <1>1, <2>1 DEF ProbeInv, ProbeOK, Stowed, ProbeState
  <2> QED  BY <2>1, <2>2, FailedHolds
<1>3. CASE ~ProbeMove /\ pc' = "failed"
  BY <1>3, FailedHolds DEF Shutdown, ProbeInv
<1>4. CASE ~ProbeMove /\ pc' = pc
  <2>1. /\ probe' = probe /\ op' = op /\ notify' = notify
        /\ EndstopOf(axis)' = EndstopOf(axis)
    BY <1>4 DEF Shutdown, homeVars, railVars, sampleVars, EndstopOf
  <2> QED  BY <1>4, <2>1 DEF ProbeInv, ProbeMove, InSession
<1> QED  BY <1>2, <1>3, <1>4 DEF Shutdown, ProbeMove

LEMMA ProbeStep == Base /\ ProbeInv /\ [Next]_vars => ProbeInv'
<1> SUFFICES ASSUME Base, ProbeInv, [Next]_vars PROVE ProbeInv'  OBVIOUS
<1>1. CASE Starting \/ ProbingStep \/ HomingMoveDone \/ HomeAgain
  BY <1>1, ProbeOfStarting, ProbeOfProbing, ProbeOfHomingMoveDone,
     ProbeOfHomeAgain
<1>2. CASE CommandError
  <2>1. PICK r \in Ended(probe) : probe' = r.p
    BY <1>2, CommandErrorIs
  <2>2. pc = "failed" /\ pc' = "idle"
    BY <1>2, CommandErrorIs DEF Done
  <2>3. Resting(probe')
    BY <2>1, <2>2, EndedIs DEF Resting, ProbeInv, ProbeMove, Base, TypeOK
  <2> QED  BY <2>2, <2>3, RestingHolds
<1>3. CASE Raise
  <2>1. /\ pc \in {"retract", "sample", "next"} /\ pc' = "failed"
        /\ probe' = probe
    BY <1>3 DEF Raise, Fail, GoTo
  <2> QED  BY <2>1, FailedHolds DEF ProbeInv, ProbeMove
<1>4. CASE M84
  BY <1>4 DEF M84, Accepts, ProbeInv, ProbeMove, InSession, envVars
<1>5. CASE Shutdown
  BY <1>5, ProbeOfShutdown
<1>6. CASE UNCHANGED <<op, pc, homeVars, sampleVars, pointVars, railVars,
                       driverVars, probe, down>>
  BY <1>6 DEF ProbeInv, ProbeMove, InSession, EndstopOf, homeVars, railVars,
     sampleVars
<1> QED
  BY <1>1, <1>2, <1>3, <1>4, <1>5, <1>6, ProbeOfBeginHome, StepKinds
-----------------------------------------------------------------------------
(* The drivers.                                                            *)

LEMMA ProbingKeepsDrivers ==
    ASSUME Base, ProbingStep
    PROVE  UNCHANGED driverVars
<1>1. CASE Sample
  BY <1>1 DEF Sample, MoveBegins
<1>2. CASE ProbingMoveDone
  BY <1>2 DEF ProbingMoveDone, MoveEnds
<1>3. CASE MoreSamples \/ Retry \/ ShakeAndRetry \/ RunProbeEnds \/ MoveNext
  BY <1>3 DEF MoreSamples, Retry, ShakeAndRetry, RunProbeEnds, MoveNext
<1> QED  BY <1>1, <1>2, <1>3 DEF ProbingStep

LEMMA DriversSetUp ==
    ASSUME Base, DriverInv, NEW e \in Endstops, NEW p, NEW ok \in BOOLEAN,
           MoveBegins(e, p, ok), pc \in {"axis", "retract"},
           UNCHANGED down,
           pc' = "failed" \/ (ok /\ pc' \in {"first", "second"}),
           ok => pc' \in {"first", "second"},
           EndstopOf(axis)' = e
    PROVE  DriverInv'
<1>1. Held = {}  BY DEF Held
<1>2. CASE e = Probe
  <2>1. mode' = mode /\ saved' = saved /\ regFailed' = regFailed
    BY <1>2 DEF MoveBegins, driverVars
  <2>2. Held' = {}  BY <1>2 DEF Held
  <2> QED  BY <1>1, <2>1, <2>2 DEF DriverInv
<1>3. CASE e # Probe /\ ok
  <2>1. /\ saved' = [d \in Drivers |-> IF d \in DriversOf[e] THEN mode[d]
                                       ELSE saved[d]]
        /\ mode' = [d \in Drivers |-> IF d \in DriversOf[e] THEN "home"
                                      ELSE mode[d]]
        /\ regFailed' = regFailed
    BY <1>3 DEF MoveBegins, DriversBegin, Base, TypeOK
  <2>2. Held' = DriversOf[e]  BY <1>3 DEF Held
  <2> QED  BY <1>1, <2>1, <2>2 DEF DriverInv
<1>4. CASE e # Probe /\ ~ok
  <2>1. regFailed'  BY <1>4 DEF MoveBegins, DriversBegin
  <2> QED  BY <2>1 DEF DriverInv
<1> QED  BY <1>2, <1>3, <1>4

LEMMA DriversPutBack ==
    ASSUME Base, DriverInv, NEW p, NEW ok \in BOOLEAN,
           MoveEnds(EndstopOf(axis), p, ok), pc \in {"first", "second"},
           UNCHANGED down,
           pc' \notin {"first", "second"}
    PROVE  DriverInv'
<1> DEFINE e == EndstopOf(axis)
<1>1. Held' = {}  BY DEF Held
<1>2. CASE e = Probe
  <2>1. mode' = mode /\ saved' = saved /\ regFailed' = regFailed
    BY <1>2 DEF MoveEnds, driverVars
  <2>2. Held = {}  BY <1>2 DEF Held
  <2> QED  BY <1>1, <2>1, <2>2 DEF DriverInv
<1>3. CASE e # Probe /\ ok
  <2>1. /\ mode' = [d \in Drivers |-> IF d \in DriversOf[e] THEN saved[d]
                                      ELSE mode[d]]
        /\ regFailed' = regFailed
    BY <1>3 DEF MoveEnds, DriversEnd, Base, TypeOK
  <2>2. Held = DriversOf[e]  BY <1>3 DEF Held
  <2> QED  BY <1>1, <2>1, <2>2 DEF DriverInv
<1>4. CASE e # Probe /\ ~ok
  <2>1. regFailed'  BY <1>4 DEF MoveEnds, DriversEnd
  <2> QED  BY <2>1 DEF DriverInv
<1> QED  BY <1>2, <1>3, <1>4

LEMMA DriversUnchanged ==
    ASSUME DriverInv, UNCHANGED driverVars, UNCHANGED down,
           pc \notin {"first", "second"}, pc' \notin {"first", "second"}
    PROVE  DriverInv'
BY DEF DriverInv, Held, driverVars

LEMMA DriverStep == Base /\ DriverInv /\ [Next]_vars => DriverInv'
<1> SUFFICES ASSUME Base, DriverInv, [Next]_vars PROVE DriverInv'  OBVIOUS
<1>1. ASSUME NEW a \in Axes, BeginHome(a) PROVE DriverInv'
  <2>1. pc = "axis" /\ EndstopOf(axis)' = EndstopOf(a) /\ UNCHANGED down
    BY <1>1, BeginHomeIs DEF envVars
  <2>2. PICK ok \in BOOLEAN :
          /\ MoveBegins(EndstopOf(a),
                IF EndstopOf(a) = Probe THEN Begun(probe) ELSE probe, ok)
          /\ pc' = IF ok THEN "first" ELSE "failed"
    BY <1>1, BeginHomeIs
  <2> QED  BY <2>1, <2>2, EndstopOfType, DriversSetUp
<1>2. CASE HomeAgain
  <2>1. pc = "retract" /\ EndstopOf(axis)' = EndstopOf(axis) /\ UNCHANGED down
    BY <1>2, HomeAgainIs DEF envVars
  <2>2. PICK ok \in BOOLEAN : /\ MoveBegins(EndstopOf(axis), probe, ok)
                              /\ pc' = IF ok THEN "second" ELSE "failed"
    BY <1>2, HomeAgainIs
  <2>3. EndstopOf(axis) \in Endstops  BY EndstopOfType DEF Base, TypeOK
  <2> QED  BY <2>1, <2>2, <2>3, DriversSetUp
<1>3. CASE HomingMoveDone
  <2>1. PICK ok \in BOOLEAN, p \in ProbeState :
          /\ MoveEnds(EndstopOf(axis), p, ok)
          /\ Fail \/ GoTo("retract") \/ RailsHomed(EndstopOf(axis), p)
    BY <1>3, HomingMoveDoneIs
  <2>2. pc' \notin {"first", "second"}
    BY <2>1 DEF RailsHomed, Fail, GoTo, Done
  <2>3. pc \in {"first", "second"} /\ UNCHANGED down
    BY <1>3, HomingMoveDoneIs DEF envVars
  <2> QED  BY <2>1, <2>2, <2>3, DriversPutBack
<1>4. CASE ProbingStep
  BY <1>4, ProbingStepIs, ProbingKeepsDrivers, DriversUnchanged DEF envVars
<1>5. CASE Starting
  BY <1>5, StartingIs, DriversUnchanged DEF envVars
<1>6. CASE CommandError
  BY <1>6, CommandErrorIs, DriversUnchanged DEF envVars, Done
<1>7. CASE Raise
  BY <1>7, DriversUnchanged DEF Raise, Fail, GoTo, envVars
<1>8. CASE M84
  BY <1>8, DriversUnchanged DEF M84, Accepts, envVars
<1>9. CASE Shutdown
  BY <1>9 DEF Shutdown, DriverInv
<1>10. CASE UNCHANGED <<op, pc, homeVars, sampleVars, pointVars, railVars,
                        driverVars, probe, down>>
  BY <1>10 DEF DriverInv, Held, EndstopOf, homeVars, railVars, driverVars
<1> QED
  BY <1>1, <1>2, <1>3, <1>4, <1>5, <1>6, <1>7, <1>8, <1>9, <1>10, StepKinds
-----------------------------------------------------------------------------
(* The retries.                                                            *)

LEMMA PerCycleIs == PerCycle \in Nat /\ PerCycle >= 1 /\ PerCycle >= Retries
BY HomingAssumption DEF PerCycle

LEMMA TimesMonotone ==
    ASSUME NEW c \in Nat, NEW d \in Nat, c <= d
    PROVE  /\ c * PerCycle \in Nat /\ d * PerCycle \in Nat
           /\ c * PerCycle <= d * PerCycle
           /\ (c + 1) * PerCycle = c * PerCycle + PerCycle
<1> DEFINE P == PerCycle
<1>1. P \in Nat  BY PerCycleIs
<1> HIDE DEF P
<1>2. \A m, n \in Nat : m * n \in Nat  OBVIOUS
<1>3. PICK k \in Nat : d = c + k  BY SMT
<1>4. (c + k) * P = c * P + k * P  BY <1>1
<1>5. (c + 1) * P = c * P + P  BY <1>1
<1> QED  BY <1>1, <1>2, <1>3, <1>4, <1>5 DEF P

LEMMA BoundIs == Bound \in Nat
BY HomingAssumption, TimesMonotone, PerCycleIs DEF Bound

LEMMA CountUnchanged ==
    ASSUME CountInv, fails' = fails, pc' \notin {"sample", "probing", "judge"}
    PROVE  CountInv'
BY DEF CountInv, Bound, PerCycle

LEMMA CountReset ==
    ASSUME fails' = 0, retries' = 0, cycles' = 0
    PROVE  CountInv'
BY HomingAssumption, BoundIs DEF CountInv, Bound, PerCycle

LEMMA CountKept ==
    ASSUME CountInv, pc \in {"sample", "probing", "judge"},
           UNCHANGED <<retries, cycles, fails>>
    PROVE  CountInv'
BY DEF CountInv, Bound, PerCycle

LEMMA CountOfJudge ==
    ASSUME Base, CountInv, Retry \/ ShakeAndRetry
    PROVE  CountInv'
<1> DEFINE P == PerCycle
           cP == cycles * P
<1>1. /\ retries \in Nat /\ cycles \in Nat /\ fails \in Nat
      /\ Retries \in Nat /\ MaxCycles \in Nat /\ MaxCycles >= 1
  BY HomingAssumption DEF Base, TypeOK
<1>2. P \in Nat /\ P >= 1 /\ P >= Retries /\ (Retries = 0 => P = 1)
  BY PerCycleIs, HomingAssumption DEF PerCycle
<1>3. /\ pc = "judge" /\ cycles < MaxCycles
      /\ cycles = 0 => retries <= Retries /\ fails <= retries
      /\ cycles > 0 => retries <= P /\ fails + P <= Retries + cP + retries
      /\ fails <= Bound
  BY DEF CountInv, Retry, ShakeAndRetry
<1>4. /\ cP \in Nat /\ (cycles + 1) * P = cP + P
      /\ cP <= (MaxCycles - 1) * P
      /\ (MaxCycles - 1) * P \in Nat
  BY <1>1, <1>3, TimesMonotone
<1>5. cycles > 0 => cP >= P
  <2>1. ASSUME cycles > 0 PROVE 1 * P <= cP
    BY <1>1, <2>1, TimesMonotone
  <2>2. 1 * P = P  BY <1>2
  <2> QED  BY <2>1, <2>2
<1>6. cycles = 0 => cP = 0  BY <1>2
<1>7. Bound = Retries + 1 + (MaxCycles - 1) * P  BY DEF Bound
<1>8. fails' = fails + 1 /\ fails + 1 <= Bound
  <2>1. fails' = fails + 1  BY DEF Retry, ShakeAndRetry
  <2>2. fails <= Retries + cP
    BY <1>1, <1>2, <1>3, <1>4, <1>5, <1>6
  <2> QED  BY <1>1, <1>2, <1>4, <1>7, <2>1, <2>2
<1>9. CASE Retry
  <2>1. retries' = retries + 1 /\ cycles' = cycles /\ retries < Retries
    BY <1>9 DEF Retry
  <2>2. cycles' * P = cP  BY <2>1
  <2> HIDE DEF P, cP
  <2>3. /\ cycles' < MaxCycles
        /\ cycles' = 0 => retries' <= Retries /\ fails' <= retries'
        /\ cycles' > 0 => retries' <= P /\ fails' + P <= Retries + cycles' * P + retries'
    BY <1>1, <1>2, <1>3, <1>4, <1>8, <2>1, <2>2
  <2> QED  BY <1>8, <2>3 DEF CountInv, Bound, PerCycle, P
<1>10. CASE ShakeAndRetry
  <2>1. /\ retries' = 1 /\ cycles' = cycles + 1 /\ retries >= Retries
        /\ cycles + 1 < MaxCycles \/ pc' = "failed"
    BY <1>10 DEF ShakeAndRetry, Fail, GoTo
  <2>2. cycles' * P = cP + P  BY <1>4, <2>1
  <2> HIDE DEF P, cP
  <2>3. /\ cycles' > 0 /\ retries' <= P
        /\ fails' + P <= Retries + cycles' * P + retries'
    BY <1>1, <1>2, <1>3, <1>4, <1>6, <1>8, <2>1, <2>2
  <2> QED  BY <1>1, <1>8, <2>1, <2>3 DEF CountInv, Bound, PerCycle, P
<1> QED  BY <1>9, <1>10

LEMMA CountStep == Base /\ CountInv /\ [Next]_vars => CountInv'
<1> SUFFICES ASSUME Base, CountInv, [Next]_vars PROVE CountInv'  OBVIOUS
<1>1. CASE Retry \/ ShakeAndRetry  BY <1>1, CountOfJudge
<1>2. CASE Done  BY <1>2, CountReset DEF Done
<1>3. ASSUME NEW p, RunProbe(p) PROVE CountInv'  BY <1>3, CountReset DEF RunProbe
<1>4. CASE Fail /\ UNCHANGED fails
  BY <1>4, CountUnchanged DEF Fail, GoTo
<1>5. ASSUME NEW a \in Axes, BeginHome(a) PROVE CountInv'
  <2>1. fails' = fails /\ pc' \in {"first", "failed"}
    BY <1>5, BeginHomeIs DEF sampleVars
  <2> QED  BY <2>1, CountUnchanged
<1>6. CASE HomingMoveDone
  <2>1. PICK p \in ProbeState :
          \/ (Fail \/ GoTo("retract")) /\ UNCHANGED sampleVars
          \/ RailsHomed(EndstopOf(axis), p)
    BY <1>6, HomingMoveDoneIs
  <2>2. CASE (Fail \/ GoTo("retract")) /\ UNCHANGED sampleVars
    BY <2>2, CountUnchanged DEF Fail, GoTo, sampleVars
  <2>3. CASE RailsHomed(EndstopOf(axis), p)
    <3>1. \/ Fail /\ UNCHANGED sampleVars
          \/ Done
          \/ GoTo("axis") /\ UNCHANGED sampleVars
      BY <2>3, RailsHomedIs
    <3> QED  BY <1>2, <3>1, CountUnchanged DEF Fail, GoTo, sampleVars
  <2> QED  BY <2>1, <2>2, <2>3
<1>7. CASE HomeAgain
  <2>1. fails' = fails /\ pc' \in {"second", "failed"}
    BY <1>7, HomeAgainIs DEF sampleVars
  <2> QED  BY <2>1, CountUnchanged
<1>8. CASE Sample \/ ProbingMoveDone \/ MoreSamples
  BY <1>8, CountKept DEF Sample, ProbingMoveDone, MoreSamples, sampleVars
<1>9. CASE RunProbeEnds
  BY <1>2, <1>9, CountUnchanged DEF RunProbeEnds, Fail, GoTo, sampleVars
<1>10. CASE MoveNext
  BY <1>2, <1>3, <1>4, <1>10 DEF MoveNext, SessionEnds, sampleVars
<1>11. CASE Starting
  <2>1. \/ RunProbe(probe)
        \/ UNCHANGED sampleVars /\ pc' \in {"axis", "next"}
    BY <1>11, StartingIs
  <2> QED  BY <1>3, <2>1, CountUnchanged DEF sampleVars
<1>12. CASE CommandError  BY <1>2, <1>12, CommandErrorIs
<1>13. CASE Raise  BY <1>4, <1>13 DEF Raise, sampleVars
<1>14. CASE M84
  BY <1>14, CountUnchanged DEF M84, Accepts, sampleVars
<1>15. CASE Shutdown
  <2>1. UNCHANGED sampleVars /\ (pc' = "failed" \/ pc' = pc)
    BY <1>15 DEF Shutdown
  <2> QED  BY <2>1 DEF CountInv, Bound, PerCycle, sampleVars
<1>16. CASE UNCHANGED <<op, pc, homeVars, sampleVars, pointVars, railVars,
                        driverVars, probe, down>>
  BY <1>16 DEF CountInv, Bound, PerCycle, sampleVars
<1> QED
  BY <1>1, <1>5, <1>6, <1>7, <1>8, <1>9, <1>10, <1>11, <1>12, <1>13, <1>14,
     <1>15, <1>16, StepKinds DEF ProbingStep
-----------------------------------------------------------------------------
(* The theorems.                                                           *)

IInv == Base /\ PosInv /\ SwapInv /\ ProbeInv /\ DriverInv /\ CountInv

LEMMA IInvInit == Init => IInv
<1> SUFFICES ASSUME Init PROVE IInv  OBVIOUS
<1>1. Base  BY BaseInit
<1>2. PosInv /\ SwapInv  BY DEF Init, PosInv, SwapInv
<1>3. ProbeInv
  BY DEF Init, ProbeInv, ProbeOK, Stowed, ProbeMove, InSession
<1>4. DriverInv  BY DEF Init, DriverInv, Held
<1>5. CountInv  BY BoundIs DEF Init, CountInv
<1> QED  BY <1>1, <1>2, <1>3, <1>4, <1>5 DEF IInv

LEMMA IInvStep == IInv /\ [Next]_vars => IInv'
BY BaseStep, PosStep, SwapStep, ProbeStep, DriverStep, CountStep DEF IInv

(* The strengthened invariant is inductive. *)
THEOREM Invariance == Spec => []IInv
BY IInvInit, IInvStep, PTL DEF Spec

(* The variables keep their types.                                         *)
THEOREM TypeInvariant == Spec => []TypeOK
<1>1. IInv => TypeOK  BY DEF IInv, Base
<1> QED  BY <1>1, Invariance, PTL

(* Outside homing, an axis that counts as homed is where the host believes,*)
(* if its endstop is tried twice: every error of home_rails, however late, *)
(* takes back the position that home_rails has invented.                   *)
THEOREM PositionIsKnown == Spec => []PositionKnown
<1>1. IInv => PositionKnown  BY DEF IInv, PosInv, Settled, PositionKnown
<1> QED  BY <1>1, Invariance, PTL

(* A rail of Z left switched to its reverse endstop means that no axis is  *)
(* homed.                                                                  *)
THEOREM SwappedRailIsUnhomed == Spec => []SwappedIsUnhomed
<1>1. IInv => SwappedIsUnhomed
  BY DEF IInv, SwapInv, SwappedIsUnhomed, HomingOps
<1> QED  BY <1>1, Invariance, PTL

(* Moves that end on the probe are made with the probe deployed, and when  *)
(* a command is over its session is closed and the probe stowed, unless a  *)
(* script failed or was skipped.                                           *)
THEOREM ProbeIsFollowed == Spec => []ProbeFollowed
<1>1. IInv => ProbeFollowed
  BY DEF IInv, ProbeInv, ProbeOK, Stowed, ProbeMove, ProbeFollowed, Base,
     TypeOK, ProbeState
<1> QED  BY <1>1, Invariance, PTL

(* Between homing moves no driver is left set up for sensorless homing,    *)
(* unless the access to a register has failed.                             *)
THEOREM DriversAreRestored == Spec => []DriversRestored
<1>1. IInv => DriversRestored
  BY DEF IInv, DriverInv, Held, DriversRestored
<1> QED  BY <1>1, Invariance, PTL

(* run_probe rejects at most samples_retries + 1 sets of samples, and      *)
(* max(1, samples_retries) more in each further cycle.                     *)
THEOREM RetriesAreBounded == Spec => []RetriesBounded
<1>1. IInv => RetriesBounded  BY DEF IInv, CountInv, Bound, RetriesBounded
<1> QED  BY <1>1, Invariance, PTL
=============================================================================
