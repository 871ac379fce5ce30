------------------------- MODULE TriggerSyncProofs -------------------------
(***************************************************************************)
(* Proofs about TriggerSync, for any number of controllers and any lengths *)
(* of time.                                                                *)
(***************************************************************************)
EXTENDS TriggerSync, SequenceTheorems, WellFoundedInduction, TLAPS

(* Nothing of a trsync is left on a controller.                            *)
Quiet(m) ==
    /\ ~can[m] /\ ~report[m] /\ ~armed[m]
    /\ expire[m] = NoTime /\ nextReport[m] = NoTime
    /\ m = Primary => endstop = NoTime

(* The lines and what the host knows, for the controller m.                *)
QueueInv(m) ==
    /\ m \in cut => toMcu[m] = <<>> /\ toHost[m] = <<>>
    /\ \A i \in 1..Len(toMcu[m]) :
         /\ toMcu[m][i].cmd = "trsync_start" => i = 1
         /\ toMcu[m][i].cmd = "query" => i = Len(toMcu[m]) /\ asking = m
    /\ Waits(m) => /\ Quiet(m) /\ toHost[m] = <<>> /\ stopTime[m] = NoTime
                   /\ Len(toMcu[m]) >= 2
                   /\ toMcu[m][2].cmd = "trsync_set_timeout"
                   /\ asking = m => answer = None

DoneInv(m) ==
    /\ \A i \in 1..Len(toHost[m]) :
         /\ toHost[m][i].done => /\ i = Len(toHost[m]) /\ asking = m
                                 /\ toMcu[m] = <<>> /\ Quiet(m)
                                 /\ Stopped(m) /\ ~halted[m]
         /\ ~toHost[m][i].can => Stopped(m)
    /\ res[m] # None \/ phase = "idle" =>
         toMcu[m] = <<>> /\ toHost[m] = <<>> /\ Quiet(m)
    /\ res[m] # None => Stopped(m) /\ ~halted[m]

(* The life of a trsync in a move.                                         *)
LifeInv(m) ==
    /\ armed[m] => can[m]
    /\ can[m] => stopTime[m] = NoTime /\ reason[m] = "zero"
    /\ ~can[m] /\ ~Stopped(m) /\ phase # "idle" => Waits(m) \/ m \in cut
    /\ can[m] /\ expire[m] = NoTime =>
         /\ m = Primary => endstop = NoTime
         /\ m \notin cut => toMcu[m] # <<>>
                            /\ toMcu[m][1].cmd = "trsync_set_timeout"

(* A reason that the host hears of m is its reason, or none yet.           *)
Tells(m, r) == r \in {None, "zero", reason[m]}

(* What the host has heard of the reason.                                  *)
ReasonInv(m) ==
    /\ ~halted[m] =>
         /\ \A i \in 1..Len(toHost[m]) : Tells(m, toHost[m][i].reason)
         /\ asking = m => Tells(m, answer)
    /\ Tells(m, res[m])
    /\ lost = 0 =>
         /\ \A i \in 1..Len(toHost[m]) :
              toHost[m][i].done =>
                /\ i = 1 => answer = reason[m]
                /\ i > 1 => toHost[m][i-1].reason = reason[m]
         /\ res[m] # None => res[m] = reason[m]

(* A report of a sent at time t.                                           *)
Before(a, t) ==
    /\ t <= Late(now)
    /\ Stopped(a) => t <= Late(stopTime[a])
    /\ a \in cut => t <= Late(cutTime[a])
    /\ ~HostUp => t <= Late(crashTime)

(* A timeout t that the host has given b.                                  *)
Within(b, t) ==
    /\ t <= Late(now) + Expire
    /\ \A a \in Mcus \ {b} : Stopped(a) => t <= Late(stopTime[a]) + Expire
    /\ \A a \in cut : t <= Late(cutTime[a]) + Expire
    /\ ~HostUp => t <= Late(crashTime) + Expire

StatusInv(m) ==
    /\ Before(m, lastStatus[m])
    /\ \A i \in 1..Len(toHost[m]) :
         toHost[m][i].can => Before(m, toHost[m][i].clock)

TimeoutInv(m) ==
    /\ expire[m] # NoTime => now <= expire[m] /\ Within(m, expire[m])
    /\ \A i \in 1..Len(toMcu[m]) :
         toMcu[m][i].cmd = "trsync_set_timeout" => Within(m, toMcu[m][i].clock)

StopInv(m) ==
    Stopped(m) =>
      /\ stopTime[m] <= now
      /\ ~halted[m] => \A a \in Mcus \ {m} :
           Stopped(a) => stopTime[m] <= Late(stopTime[a]) + Expire

(* When stop() queries Primary its endstop is off or the command that       *)
(* switches it off is under way, before the query.                         *)
EndstopInv ==
    LET q == toMcu[Primary]
    IN  phase = "stopping" /\ Primary \notin cut =>
          \/ /\ endstop = NoTime
             /\ \A i \in 1..Len(q) : q[i].cmd # "endstop_home"
          \/ \E j \in 1..Len(q) :
               /\ q[j].cmd = "endstop_off"
               /\ \A i \in j..Len(q) : q[i].cmd # "endstop_home"

HostInv ==
    /\ active => phase \in {"moving", "waiting"}
    /\ asking # None => phase = "stopping" /\ res[asking] = None
    /\ phase = "idle" /\ result # None =>
         /\ \A m \in Mcus : res[m] # None
         /\ result = "hit" => /\ res[Primary] = "hit"
                              /\ \A m \in Mcus : res[m] # "timeout"
    /\ phase \in {"started", "moving", "waiting"} =>
         /\ \A m \in Mcus : res[m] = None
         /\ complete => \E m \in Mcus : Stopped(m)
    /\ phase \in {"moving", "waiting"} /\ ~canDispatch =>
         \E m \in Mcus : Stopped(m)

IInv ==
    /\ TypeOK /\ HostInv /\ EndstopInv
    /\ \A m \in Mcus : /\ QueueInv(m) /\ DoneInv(m) /\ LifeInv(m)
                       /\ ReasonInv(m)
                       /\ StatusInv(m) /\ TimeoutInv(m) /\ StopInv(m)
-----------------------------------------------------------------------------
(* Sequences, commands and the least of the last reports.                  *)

LEMMA TailOf ==
    ASSUME NEW S, NEW s \in Seq(S), s # <<>>
    PROVE  /\ Len(s) \in Nat /\ 1 \in 1..Len(s) /\ Head(s) = s[1] /\ s[1] \in S
           /\ Tail(s) \in Seq(S) /\ Len(Tail(s)) \in Nat
           /\ Len(Tail(s)) = Len(s) - 1
           /\ \A i \in 1..Len(Tail(s)) : /\ Tail(s)[i] = s[i+1]
                                         /\ i + 1 \in 1..Len(s)
           /\ Tail(s) = <<>> <=> Len(s) = 1
  <1>1. /\ Head(s) = s[1] /\ Tail(s) \in Seq(S) /\ Len(Tail(s)) = Len(s) - 1
        /\ \A i \in 1..Len(Tail(s)) : Tail(s)[i] = s[i+1]
    BY HeadTailProperties
  <1>2. Len(s) \in Nat \ {0}
    BY EmptySeq
  <1>3. Len(Tail(s)) \in Nat
    BY <1>1, LenProperties
  <1>4. Tail(s) = <<>> <=> Len(Tail(s)) = 0
    BY <1>1, EmptySeq
  <1>5. s[1] \in S
    BY <1>2, ElementOfSeq
  <1> QED BY <1>1, <1>2, <1>3, <1>4, <1>5

LEMMA ConcatOf ==
    ASSUME NEW S, NEW s \in Seq(S), NEW t \in Seq(S)
    PROVE  /\ s \o t \in Seq(S) /\ Len(s) \in Nat /\ Len(t) \in Nat
           /\ Len(s \o t) \in Nat /\ Len(s \o t) = Len(s) + Len(t)
           /\ \A i \in 1..Len(s) : (s \o t)[i] = s[i]
           /\ \A i \in 1..Len(s \o t) :
                i \notin 1..Len(s) => /\ (s \o t)[i] = t[i - Len(s)]
                                      /\ i - Len(s) \in 1..Len(t)
  <1>1. Len(s) \in Nat /\ Len(t) \in Nat
    BY LenProperties
  <1> QED BY <1>1, ConcatProperties

LEMMA MinOf ==
    ASSUME NEW S \in SUBSET Nat, S # {}
    PROVE  Min(S) \in S /\ \A x \in S : Min(S) <= x
  <1>1. IsWellFoundedOn(OpToRel(<, Nat), Nat)
    BY NatLessThanWellFounded
  <1>2. \E x \in S : \A y \in S : ~ (<<y, x>> \in OpToRel(<, Nat))
    BY <1>1, WFMin
  <1>3. \E x \in S : \A y \in S : ~ (y < x)
    BY <1>2 DEF OpToRel
  <1>4. \E x \in S : \A y \in S : x =< y
    BY <1>3
  <1> QED BY <1>4 DEF Min

LEMMA CommandTypes ==
    ASSUME NEW t \in Nat
    PROVE  /\ Start(t) \in CommandType /\ SetTimeout(t) \in CommandType
           /\ \A r \in Reasons \ {"hit"} : Trigger(r) \in CommandType
           /\ Query \in CommandType /\ Home(t) \in CommandType
           /\ Unhome \in CommandType
  BY DEF Start, SetTimeout, Trigger, Query, Home, Unhome, Command,
         CommandType, Reasons

LEMMA Oldest ==
    ASSUME NEW m \in Mcus, NEW status \in [Mcus -> Nat]
    PROVE  /\ ExpireFor(m, status) \in Nat
           /\ \A o \in Others(m) : ExpireFor(m, status) <= status[o] + Expire
           /\ \A o \in Mcus \ {m} : ExpireFor(m, status) <= status[o] + Expire
  <1> DEFINE S == {status[o] : o \in Others(m)}
  <1>1. S \in SUBSET Nat /\ Others(m) # {} /\ Others(m) \subseteq Mcus
        /\ Mcus \ {m} \subseteq Others(m)
    BY DEF Others
  <1>2. S # {}
    BY <1>1
  <1>3. Min(S) \in Nat /\ \A o \in Others(m) : Min(S) <= status[o]
    <2> HIDE DEF S
    <2>1. Min(S) \in S /\ \A x \in S : Min(S) <= x
      BY <1>1, <1>2, MinOf
    <2> QED BY <1>1, <2>1 DEF S
  <1>4. ExpireFor(m, status) = Min(S) + Expire
    BY DEF ExpireFor
  <1> HIDE DEF S
  <1>5. \A o \in Others(m) : status[o] \in Nat
    BY <1>1
  <1> QED BY <1>1, <1>3, <1>4, <1>5, SyncAssumption
-----------------------------------------------------------------------------
(* Type correctness.                                                       *)

LEMMA TimesAre ==
    /\ NoTime \in Times /\ NoTime = -1 /\ NoTime \notin Nat
    /\ \A t \in Nat : t \in Times
    /\ \A t \in Times : t \in Int /\ t >= -1
    /\ \A t \in Times : t # NoTime => t \in Nat
  BY DEF Times, NoTime

LEMMA PostedAt ==
    ASSUME TypeOK, NEW msgs \in [Mcus -> Seq(CommandType)]
    PROVE  /\ Posted(msgs) \in [Mcus -> Seq(CommandType)]
           /\ \A m \in cut : Posted(msgs)[m] = toMcu[m]
           /\ \A m \in Mcus \ cut : Posted(msgs)[m] = toMcu[m] \o msgs[m]
  <1>1. \A m \in Mcus : toMcu[m] \in Seq(CommandType) /\ msgs[m] \in Seq(CommandType)
    BY DEF TypeOK
  <1>2. \A m \in Mcus : toMcu[m] \o msgs[m] \in Seq(CommandType)
    BY <1>1, ConcatProperties
  <1> QED BY <1>1, <1>2 DEF Posted, TypeOK

LEMMA SentAt ==
    ASSUME TypeOK, NEW m \in Mcus, NEW msgs \in Seq(MessageType)
    PROVE  /\ Sent(m, msgs) \in [Mcus -> Seq(MessageType)]
           /\ \A o \in Mcus \ {m} : Sent(m, msgs)[o] = toHost[o]
           /\ ~Heard(m) => Sent(m, msgs)[m] = toHost[m]
           /\ Heard(m) => Sent(m, msgs)[m] = toHost[m] \o msgs
  <1>1. toHost[m] \in Seq(MessageType)
    BY DEF TypeOK
  <1>2. toHost[m] \o msgs \in Seq(MessageType)
    BY <1>1, ConcatProperties
  <1> QED BY <1>2 DEF Sent, TypeOK

LEMMA DispatchedTypes ==
    ASSUME TypeOK, NEW msg \in MessageType, NEW status \in [Mcus -> Nat]
    PROVE  Dispatched(msg, status) \in [Mcus -> Seq(CommandType)]
  <1>1. \A o \in Mcus : SetTimeout(ExpireFor(o, status)) \in CommandType
    BY Oldest, CommandTypes
  <1>2. Trigger("host") \in CommandType
    BY CommandTypes DEF Reasons
  <1> QED BY <1>1, <1>2 DEF Dispatched

LEMMA DoTriggerTypes ==
    ASSUME TypeOK, NEW m \in Mcus, NEW r \in Reasons, DoTrigger(m, r)
    PROVE  /\ can' \in [Mcus -> BOOLEAN] /\ reason' \in [Mcus -> Reasons]
           /\ armed' \in [Mcus -> BOOLEAN] /\ stopTime' \in [Mcus -> Times]
  <1>1. CASE can[m]
    <2>1. now \in Times
      BY TimesAre DEF TypeOK
    <2> QED BY <1>1, <2>1, ZenonT(40) DEF DoTrigger, TypeOK
  <1>2. CASE ~can[m]
    BY <1>2 DEF DoTrigger, TypeOK
  <1> QED BY <1>1, <1>2

LEMMA RunsTypes ==
    ASSUME TypeOK, NEW m \in Mcus, NEW c, Runs(m, c)
    PROVE  /\ toMcu[m] \in Seq(CommandType) /\ toMcu[m] # <<>>
           /\ toMcu' \in [Mcus -> Seq(CommandType)]
           /\ Head(toMcu[m]).clock \in Nat /\ Head(toMcu[m]).clock \in Times
           /\ Head(toMcu[m]).reason \in Reasons
  <1>1. toMcu[m] \in Seq(CommandType) /\ toMcu[m] # <<>>
    BY DEF Runs, TypeOK
  <1>2. Tail(toMcu[m]) \in Seq(CommandType) /\ Head(toMcu[m]) \in CommandType
    BY <1>1, TailOf
  <1>3. toMcu' \in [Mcus -> Seq(CommandType)]
    BY <1>2 DEF Runs, TypeOK
  <1>4. Head(toMcu[m]).clock \in Nat /\ Head(toMcu[m]).reason \in Reasons
    BY <1>2 DEF CommandType
  <1> QED BY <1>1, <1>3, <1>4, TimesAre

(* The types of the controllers, of the lines and of the rest.             *)
MachineTypes ==
    /\ can \in [Mcus -> BOOLEAN] /\ report \in [Mcus -> BOOLEAN]
    /\ reason \in [Mcus -> Reasons] /\ armed \in [Mcus -> BOOLEAN]
    /\ expire \in [Mcus -> Times] /\ nextReport \in [Mcus -> Times]
    /\ halted \in [Mcus -> BOOLEAN] /\ endstop \in Times
    /\ stopTime \in [Mcus -> Times]

LineTypes ==
    /\ toMcu \in [Mcus -> Seq(CommandType)]
    /\ toHost \in [Mcus -> Seq(MessageType)]

RestTypes ==
    /\ now \in Nat /\ cut \subseteq Mcus
    /\ active \in BOOLEAN /\ canDispatch \in BOOLEAN
    /\ lastStatus \in [Mcus -> Nat] /\ expireClock \in [Mcus -> Nat]
    /\ phase \in {"idle", "started", "moving", "waiting", "stopping",
                  "failed"}
    /\ start \in Nat /\ homeEnd \in Times /\ complete \in BOOLEAN
    /\ asking \in Mcus \cup {None} /\ answer \in Reasons \cup {None}
    /\ res \in [Mcus -> Reasons \cup {None}]
    /\ result \in {None, "timeout", "no_trigger", "hit"}
    /\ session \in Nat /\ cutTime \in [Mcus -> Times]
    /\ crashTime \in Times /\ lost \in Nat

LEMMA TypeParts ==
    /\ TypeOK <=> MachineTypes /\ LineTypes /\ RestTypes
    /\ TypeOK' <=> MachineTypes' /\ LineTypes' /\ RestTypes'
  <1>1. TypeOK <=> MachineTypes /\ LineTypes /\ RestTypes
    BY DEF TypeOK, MachineTypes, LineTypes, RestTypes
  <1>2. TypeOK' <=> MachineTypes' /\ LineTypes' /\ RestTypes'
    BY DEF TypeOK, MachineTypes, LineTypes, RestTypes
  <1> QED BY <1>1, <1>2

LEMMA RestSame ==
    ASSUME TypeOK, UNCHANGED <<now, dispatchVars, hostVars, faultVars>>
    PROVE  RestTypes'
  <1>1. RestTypes
    BY TypeParts
  <1>2. /\ now' = now /\ active' = active /\ canDispatch' = canDispatch
        /\ lastStatus' = lastStatus /\ expireClock' = expireClock
        /\ phase' = phase /\ start' = start /\ homeEnd' = homeEnd
        /\ complete' = complete /\ asking' = asking /\ answer' = answer
        /\ res' = res /\ result' = result /\ session' = session
        /\ cut' = cut /\ cutTime' = cutTime /\ crashTime' = crashTime
        /\ lost' = lost
    BY DEF dispatchVars, hostVars, faultVars
  <1> QED BY <1>1, <1>2 DEF RestTypes

LEMMA HaltTypes ==
    ASSUME TypeOK, NEW m \in Mcus, NEW c, Runs(m, c), Halt(m)
    PROVE  TypeOK'
  <1>1. now \in Times /\ NoTime \in Times /\ "zero" \in Reasons
    BY TimesAre DEF TypeOK, Reasons
  <1>2. MachineTypes' /\ toHost' = toHost
    BY <1>1 DEF Halt, TypeOK, MachineTypes
  <1>3. LineTypes'
    BY <1>2, RunsTypes DEF LineTypes, TypeOK
  <1>4. RestTypes'
    BY RestSame DEF Runs
  <1> QED BY <1>2, <1>3, <1>4, TypeParts

LEMMA McuTypes ==
    ASSUME TypeOK, NEW m \in Mcus, McuStep(m)
    PROVE  TypeOK'
  <1>0. NoTime \in Times /\ "timeout" \in Reasons /\ "zero" \in Reasons
    BY TimesAre DEF Reasons
  <1>1. CASE ExpireEvent(m)
    <2>1. /\ can' \in [Mcus -> BOOLEAN] /\ reason' \in [Mcus -> Reasons]
          /\ armed' \in [Mcus -> BOOLEAN] /\ stopTime' \in [Mcus -> Times]
      BY <1>0, <1>1, DoTriggerTypes DEF ExpireEvent
    <2>2. MachineTypes' /\ LineTypes'
      BY <1>0, <1>1, <2>1 DEF ExpireEvent, MachineTypes, LineTypes, TypeOK
    <2>3. RestTypes'
      BY <1>1, RestSame DEF ExpireEvent
    <2> QED BY <2>2, <2>3, TypeParts
  <1>2. CASE ReportEvent(m)
    <2>1. nextReport[m] \in Nat
      BY <1>2, TimesAre DEF ReportEvent, TypeOK
    <2>2. nextReport[m] + Report \in Times
      BY <2>1, SyncAssumption, TimesAre
    <2>3. MachineTypes' /\ LineTypes'
      BY <1>2, <2>2 DEF ReportEvent, MachineTypes, LineTypes, TypeOK
    <2>4. RestTypes'
      BY <1>2, RestSame DEF ReportEvent
    <2> QED BY <2>3, <2>4, TypeParts
  <1>3. CASE TaskReports(m)
    <2>1. <<State(can[m], reason[m], now)>> \in Seq(MessageType)
      BY DEF State, MessageType, TypeOK
    <2>2. toHost' \in [Mcus -> Seq(MessageType)]
      BY <1>3, <2>1, SentAt DEF TaskReports
    <2>3. MachineTypes' /\ LineTypes'
      BY <1>3, <2>2 DEF TaskReports, MachineTypes, LineTypes, TypeOK
    <2>4. RestTypes'
      BY <1>3, RestSame DEF TaskReports
    <2> QED BY <2>3, <2>4, TypeParts
  <1>4. CASE TrsyncStart(m)
    <2>1. Runs(m, "trsync_start")
      BY <1>4 DEF TrsyncStart
    <2>2. CASE Halt(m)
      BY <2>1, <2>2, HaltTypes
    <2>3. CASE ~Halt(m)
      <3>1. Head(toMcu[m]).clock \in Times
        BY <2>1, RunsTypes
      <3> DEFINE t == Head(toMcu[m]).clock
      <3>2. /\ can' = [can EXCEPT ![m] = TRUE]
            /\ report' = [report EXCEPT ![m] = FALSE]
            /\ reason' = [reason EXCEPT ![m] = "zero"]
            /\ armed' = [armed EXCEPT ![m] = TRUE]
            /\ expire' = [expire EXCEPT ![m] = NoTime]
            /\ nextReport' = [nextReport EXCEPT ![m] = t]
            /\ UNCHANGED <<halted, endstop, stopTime, toHost>>
        BY <1>4, <2>3 DEF TrsyncStart
      <3> HIDE DEF t
      <3>3. MachineTypes'
        BY <1>0, <3>1, <3>2 DEF MachineTypes, TypeOK, t
      <3>4. LineTypes'
        BY <2>1, <3>2, RunsTypes DEF LineTypes, TypeOK
      <3>5. RestTypes'
        BY <2>1, RestSame DEF Runs
      <3> QED BY <3>3, <3>4, <3>5, TypeParts
    <2> QED BY <2>2, <2>3
  <1>5. CASE TrsyncSetTimeout(m)
    <2>1. Runs(m, "trsync_set_timeout")
      BY <1>5 DEF TrsyncSetTimeout
    <2>2. CASE Halt(m)
      BY <2>1, <2>2, HaltTypes
    <2>3. CASE ~Halt(m)
      <3>1. Head(toMcu[m]).clock \in Times
        BY <2>1, RunsTypes
      <3>2. /\ expire' \in [Mcus -> Times]
            /\ UNCHANGED <<can, report, reason, armed, nextReport, halted,
                           endstop, stopTime, toHost>>
        BY <1>5, <2>3, <3>1 DEF TrsyncSetTimeout, TypeOK
      <3>3. MachineTypes'
        BY <3>2 DEF MachineTypes, TypeOK
      <3>4. LineTypes'
        BY <2>1, <3>2, RunsTypes DEF LineTypes, TypeOK
      <3>5. RestTypes'
        BY <2>1, RestSame DEF Runs
      <3> QED BY <3>3, <3>4, <3>5, TypeParts
    <2> QED BY <2>2, <2>3
  <1>6. CASE TrsyncTrigger(m)
    <2>1. PICK q \in {"trsync_trigger", "query"} : Runs(m, q)
      BY <1>6 DEF TrsyncTrigger
    <2>2. can' \in [Mcus -> BOOLEAN] /\ reason' \in [Mcus -> Reasons]
          /\ armed' \in [Mcus -> BOOLEAN] /\ stopTime' \in [Mcus -> Times]
      BY <1>6, <2>1, RunsTypes, DoTriggerTypes DEF TrsyncTrigger
    <2> DEFINE done == IF Head(toMcu[m]).cmd = "query" THEN <<Done>> ELSE <<>>
               s == <<State(FALSE, reason'[m], 0)>> \o done
    <2>3. s \in Seq(MessageType)
      <3>1. State(FALSE, reason'[m], 0) \in MessageType /\ Done \in MessageType
        BY <2>2 DEF State, Done, MessageType, Reasons
      <3>2. /\ \A a \in MessageType : <<a>> \in Seq(MessageType)
            /\ <<>> \in Seq(MessageType)
        OBVIOUS
      <3>3. done \in Seq(MessageType)
        BY <3>1, <3>2
      <3> HIDE DEF done
      <3> QED BY <3>1, <3>2, <3>3, ConcatProperties
    <2>4. toHost' = Sent(m, s)
      BY <1>6 DEF TrsyncTrigger
    <2> HIDE DEF s
    <2>5. toHost' \in [Mcus -> Seq(MessageType)]
      BY <2>3, <2>4, SentAt
    <2>6. /\ report' \in [Mcus -> BOOLEAN] /\ expire' \in [Mcus -> Times]
          /\ nextReport' \in [Mcus -> Times] /\ UNCHANGED <<halted, endstop>>
      BY <1>0, <1>6 DEF TrsyncTrigger, TypeOK
    <2>7. MachineTypes'
      BY <2>2, <2>6 DEF MachineTypes, TypeOK
    <2>8. LineTypes'
      BY <2>1, <2>5, RunsTypes DEF LineTypes
    <2>9. RestTypes'
      BY <2>1, RestSame DEF Runs
    <2> QED BY <2>7, <2>8, <2>9, TypeParts
  <1> QED BY <1>1, <1>2, <1>3, <1>4, <1>5, <1>6 DEF McuStep

LEMMA EndstopTypes ==
    ASSUME TypeOK, EndstopEvent \/ EndstopHome \/ EndstopOff
    PROVE  TypeOK'
  <1>0. NoTime \in Times /\ "hit" \in Reasons /\ Primary \in Mcus
    BY TimesAre, SyncAssumption DEF Reasons
  <1>1. CASE EndstopEvent
    <2>1. /\ can' \in [Mcus -> BOOLEAN] /\ reason' \in [Mcus -> Reasons]
          /\ armed' \in [Mcus -> BOOLEAN] /\ stopTime' \in [Mcus -> Times]
      BY <1>0, <1>1, DoTriggerTypes DEF EndstopEvent
    <2>2. MachineTypes' /\ LineTypes'
      BY <1>0, <1>1, <2>1 DEF EndstopEvent, MachineTypes, LineTypes, TypeOK
    <2>3. RestTypes'
      BY <1>1, RestSame DEF EndstopEvent
    <2> QED BY <2>2, <2>3, TypeParts
  <1>2. CASE EndstopHome \/ EndstopOff
    <2>1. PICK c : Runs(Primary, c)
      BY <1>2 DEF EndstopHome, EndstopOff
    <2>2. CASE Halt(Primary)
      BY <1>0, <2>1, <2>2, HaltTypes
    <2>3. CASE ~Halt(Primary)
      <3>1. Head(toMcu[Primary]).clock \in Times
        BY <1>0, <2>1, RunsTypes
      <3>2. /\ endstop' \in Times
            /\ UNCHANGED <<can, report, reason, armed, expire, nextReport,
                           halted, stopTime, toHost>>
        BY <1>0, <1>2, <2>3, <3>1 DEF EndstopHome, EndstopOff
      <3>3. MachineTypes'
        BY <3>2 DEF MachineTypes, TypeOK
      <3>4. LineTypes'
        BY <1>0, <2>1, <3>2, RunsTypes, SMTT(30) DEF LineTypes, TypeOK
      <3>5. RestTypes'
        BY <2>1, RestSame DEF Runs
      <3> QED BY <3>3, <3>4, <3>5, TypeParts
    <2> QED BY <2>2, <2>3
  <1> QED BY <1>1, <1>2

LEMMA HandleTypes ==
    ASSUME TypeOK, NEW m \in Mcus, HandleState(m)
    PROVE  TypeOK'
  <1> DEFINE msg == Head(toHost[m])
             status == [lastStatus EXCEPT ![m] = msg.clock]
             posts == [o \in Mcus |-> Dispatched(msg, status)[o]
                         \o (IF o = m /\ PastEnd(m, msg) THEN <<Trigger("end")>>
                             ELSE <<>>)]
  <1>1. toHost[m] \in Seq(MessageType) /\ toHost[m] # <<>>
    BY DEF HandleState, TypeOK
  <1>2. Tail(toHost[m]) \in Seq(MessageType) /\ msg \in MessageType
    BY <1>1, TailOf
  <1>3. status \in [Mcus -> Nat]
    BY <1>2 DEF TypeOK, MessageType
  <1>4. posts \in [Mcus -> Seq(CommandType)]
    <2>1. Trigger("end") \in CommandType
      BY CommandTypes DEF Reasons
    <2>2. Dispatched(msg, status) \in [Mcus -> Seq(CommandType)]
      BY <1>2, <1>3, DispatchedTypes
    <2> HIDE DEF msg, status
    <2>3. \A o \in Mcus : /\ Dispatched(msg, status)[o] \in Seq(CommandType)
                          /\ <<Trigger("end")>> \in Seq(CommandType)
                          /\ <<>> \in Seq(CommandType)
      BY <2>1, <2>2
    <2> QED BY <2>3, ConcatProperties
  <1>5. toMcu' = Posted(posts)
    BY DEF HandleState
  <1>6. toMcu' \in [Mcus -> Seq(CommandType)]
    <2> HIDE DEF posts
    <2> QED BY <1>4, <1>5, PostedAt
  <1>7. /\ toHost' \in [Mcus -> Seq(MessageType)]
        /\ canDispatch' \in BOOLEAN /\ complete' \in BOOLEAN
        /\ homeEnd' \in Times /\ answer' \in Reasons \cup {None}
    BY <1>2, TimesAre DEF HandleState, TypeOK, MessageType
  <1>8. lastStatus' \in [Mcus -> Nat] /\ expireClock' \in [Mcus -> Nat]
    <2>1. \A o \in Mcus : ExpireFor(o, status) \in Nat
      BY <1>3, Oldest
    <2>2. CASE Dispatching /\ msg.can
      <3>1. /\ lastStatus' = status
            /\ expireClock' = [o \in Mcus |-> IF Extends(o, status)
                                              THEN ExpireFor(o, status)
                                              ELSE expireClock[o]]
        BY <2>2 DEF HandleState
      <3> HIDE DEF status
      <3> QED BY <1>3, <2>1, <3>1 DEF TypeOK
    <2>3. CASE ~(Dispatching /\ msg.can)
      BY <2>3 DEF HandleState, TypeOK
    <2> QED BY <2>2, <2>3
  <1> QED BY <1>6, <1>7, <1>8 DEF HandleState, TypeOK, mcuVars, faultVars

LEMMA HostTypes ==
    ASSUME TypeOK, Host
    PROVE  TypeOK'
  <1>0. \A p \in Mcus : \A c \in CommandType :
          Only(p, <<c>>) \in [Mcus -> Seq(CommandType)]
    BY DEF Only
  <1>1. CASE HomeStart
    <2>1. now + Lead \in Nat /\ now + Lead + Expire \in Nat
      BY SyncAssumption DEF TypeOK
    <2> DEFINE posts == [m \in Mcus |-> <<Start(now + Lead),
                                          SetTimeout(now + Lead + Expire)>>]
    <2>2. posts \in [Mcus -> Seq(CommandType)]
      BY <2>1, CommandTypes
    <2>3. toMcu' \in [Mcus -> Seq(CommandType)]
      <3> HIDE DEF posts
      <3>1. toMcu' = Posted(posts)
        BY <1>1 DEF HomeStart, posts
      <3> QED BY <2>2, <3>1, PostedAt
    <2>4. session + 1 \in Nat /\ NoTime \in Times
      BY TimesAre DEF TypeOK
    <2>5. lastStatus' \in [Mcus -> Nat] /\ expireClock' \in [Mcus -> Nat]
          /\ start' \in Nat /\ session' \in Nat /\ homeEnd' \in Times
          /\ complete' \in BOOLEAN /\ res' \in [Mcus -> Reasons \cup {None}]
          /\ result' = None /\ phase' = "started"
          /\ stopTime' \in [Mcus -> Times]
      BY <1>1, <2>1, <2>4 DEF HomeStart
    <2> QED BY <1>1, <2>3, <2>5 DEF HomeStart, TypeOK, faultVars
  <1>2. CASE TrdispatchStart
    <2>1. Home(start) \in CommandType
      BY CommandTypes DEF TypeOK
    <2>2. toMcu' \in [Mcus -> Seq(CommandType)]
      BY <1>0, <1>2, <2>1, PostedAt, SyncAssumption DEF TrdispatchStart
    <2> QED BY <1>2, <2>2 DEF TrdispatchStart, TypeOK, mcuVars, faultVars
  <1>3. CASE SetHomeEndTime
    <2>1. start + Move \in Times
      BY TimesAre, SyncAssumption DEF TypeOK
    <2> QED BY <1>3, <2>1
        DEF SetHomeEndTime, TypeOK, mcuVars, dispatchVars, faultVars
  <1>4. CASE TrdispatchStop
    <2>1. Unhome \in CommandType
      BY CommandTypes, 0 \in Nat
    <2>2. toMcu' \in [Mcus -> Seq(CommandType)]
      BY <1>0, <1>4, <2>1, PostedAt, SyncAssumption DEF TrdispatchStop
    <2> QED BY <1>4, <2>2 DEF TrdispatchStop, TypeOK, mcuVars, faultVars
  <1>5. CASE HomeWaitReturns
    BY <1>5 DEF HomeWaitReturns, Verdict, TypeOK, mcuVars, dispatchVars, faultVars
  <1>6. ASSUME NEW m \in Mcus, Ask(m)
        PROVE  TypeOK'
    <2>1. Query \in CommandType
      BY CommandTypes, 0 \in Nat
    <2>2. toMcu' \in [Mcus -> Seq(CommandType)]
      BY <1>0, <1>6, <2>1, PostedAt DEF Ask
    <2> QED BY <1>6, <2>2 DEF Ask, TypeOK, mcuVars, dispatchVars, faultVars
  <1>7. ASSUME NEW m \in Mcus, Completed(m)
        PROVE  TypeOK'
    <2>1. Query \in CommandType
      BY CommandTypes, 0 \in Nat
    <2>2. Posted(Only(m, <<Query>>)) \in [Mcus -> Seq(CommandType)]
      BY <1>0, <1>7, <2>1, PostedAt
    <2>3. toMcu' \in [Mcus -> Seq(CommandType)]
      BY <1>7, <2>2 DEF Completed, TypeOK
    <2>4. Tail(toHost[m]) \in Seq(MessageType)
      BY <1>7, TailOf DEF Completed, TypeOK
    <2>5. toHost' \in [Mcus -> Seq(MessageType)]
      BY <1>7, <2>4 DEF Completed, TypeOK
    <2>6. /\ res' \in [Mcus -> Reasons \cup {None}]
          /\ asking' \in Mcus \cup {None}
      BY <1>7, ZenonT(40) DEF Completed, TypeOK
    <2>7. /\ phase' \in {"idle", "started", "moving", "waiting", "stopping",
                         "failed"}
      BY <1>7 DEF Completed, TypeOK
    <2> QED BY <1>7, <2>3, <2>5, <2>6, <2>7
        DEF Completed, TypeOK, mcuVars, dispatchVars, faultVars
  <1> QED BY <1>1, <1>2, <1>3, <1>4, <1>5, <1>6, <1>7, HandleTypes DEF Host

LEMMA FaultTypes ==
    ASSUME TypeOK, Fault \/ Tick
    PROVE  TypeOK'
  <1> USE DEF mcuVars, dispatchVars, hostVars
  <1>0. now \in Times
    BY TimesAre DEF TypeOK
  <1>1. ASSUME NEW m \in Mcus, Lose(m)
        PROVE  TypeOK'
    <2>1. Tail(toHost[m]) \in Seq(MessageType)
      BY <1>1, TailOf DEF Lose, TypeOK
    <2>2. toHost' \in [Mcus -> Seq(MessageType)] /\ lost' \in Nat
      BY <1>1, <2>1 DEF Lose, TypeOK
    <2> QED BY <1>1, <2>2, SMTT(30) DEF Lose, TypeOK
  <1>2. ASSUME NEW m \in Mcus, CutLink(m)
        PROVE  TypeOK'
    BY <1>0, <1>2, SMTT(30) DEF CutLink, TypeOK
  <1>3. CASE HostCrash
    BY <1>0, <1>3, SMTT(30) DEF HostCrash, TypeOK
  <1>4. CASE Tick
    BY <1>4 DEF Tick, TypeOK, faultVars
  <1> QED BY <1>1, <1>2, <1>3, <1>4 DEF Fault

LEMMA NextTypes == TypeOK /\ [Next]_vars => TypeOK'
  <1>1. TypeOK /\ UNCHANGED vars => TypeOK'
    BY DEF vars, mcuVars, dispatchVars, hostVars, faultVars, TypeOK
  <1> QED BY <1>1, McuTypes, EndstopTypes, HostTypes, FaultTypes DEF Next

LEMMA InitTypes ==
    ASSUME Init
    PROVE  TypeOK
  <1>1. <<>> \in Seq(CommandType) /\ <<>> \in Seq(MessageType)
    OBVIOUS
  <1>2. NoTime \in Times
    BY TimesAre
  <1>3. /\ reason \in [Mcus -> Reasons] /\ res \in [Mcus -> Reasons \cup {None}]
    <2>1. "zero" \in Reasons
      BY DEF Reasons
    <2>2. reason = [m \in Mcus |-> "zero"] /\ res = [m \in Mcus |-> None]
      BY DEF Init
    <2> QED BY <2>1, <2>2
  <1>4. /\ expire \in [Mcus -> Times] /\ nextReport \in [Mcus -> Times]
        /\ stopTime \in [Mcus -> Times] /\ cutTime \in [Mcus -> Times]
        /\ endstop \in Times /\ homeEnd \in Times /\ crashTime \in Times
    <2>1. /\ expire = [m \in Mcus |-> NoTime]
          /\ nextReport = [m \in Mcus |-> NoTime]
          /\ stopTime = [m \in Mcus |-> NoTime]
          /\ cutTime = [m \in Mcus |-> NoTime]
          /\ endstop = NoTime /\ homeEnd = NoTime /\ crashTime = NoTime
      BY DEF Init
    <2> QED BY <1>2, <2>1
  <1>5. /\ can = [m \in Mcus |-> FALSE] /\ report = [m \in Mcus |-> FALSE]
        /\ armed = [m \in Mcus |-> FALSE] /\ halted = [m \in Mcus |-> FALSE]
        /\ toMcu = [m \in Mcus |-> <<>>] /\ toHost = [m \in Mcus |-> <<>>]
        /\ lastStatus = [m \in Mcus |-> 0] /\ expireClock = [m \in Mcus |-> 0]
    BY DEF Init
  <1>6. /\ can \in [Mcus -> BOOLEAN] /\ report \in [Mcus -> BOOLEAN]
        /\ armed \in [Mcus -> BOOLEAN] /\ halted \in [Mcus -> BOOLEAN]
        /\ toMcu \in [Mcus -> Seq(CommandType)]
        /\ toHost \in [Mcus -> Seq(MessageType)]
        /\ lastStatus \in [Mcus -> Nat] /\ expireClock \in [Mcus -> Nat]
    BY <1>1, <1>5
  <1>7. /\ now = 0 /\ cut = {} /\ active = FALSE /\ canDispatch = FALSE
        /\ phase = "idle" /\ start = 0 /\ complete = FALSE
        /\ asking = None /\ answer = None /\ result = None
        /\ session = 0 /\ lost = 0
    BY DEF Init
  <1> QED BY <1>3, <1>4, <1>6, <1>7 DEF TypeOK

(* The types of the variables, for all values of the constants.            *)
THEOREM TypeCorrect == Spec => []TypeOK
  BY InitTypes, NextTypes, PTL DEF Spec
-----------------------------------------------------------------------------
(* What a step leaves alone.                                               *)

Local(m) == QueueInv(m) /\ DoneInv(m) /\ LifeInv(m) /\ ReasonInv(m)
Clocks(m) == StatusInv(m) /\ TimeoutInv(m) /\ StopInv(m)

(* A controller and its line are as before.                                *)
Same(o) ==
    /\ can'[o] = can[o] /\ report'[o] = report[o] /\ reason'[o] = reason[o]
    /\ armed'[o] = armed[o] /\ expire'[o] = expire[o]
    /\ nextReport'[o] = nextReport[o] /\ halted'[o] = halted[o]
    /\ stopTime'[o] = stopTime[o]
    /\ toMcu'[o] = toMcu[o] /\ toHost'[o] = toHost[o]
    /\ o = Primary => endstop' = endstop

LEMMA LocalKept ==
    ASSUME NEW o \in Mcus, Local(o), Same(o),
           o \in cut <=> o \in cut',
           asking = o <=> asking' = o,
           asking = o => answer' = answer,
           phase = "idle" <=> phase' = "idle",
           res'[o] = res[o],
           lost' = 0 => lost = 0
    PROVE  Local(o)'
  <1>1. Quiet(o)' <=> Quiet(o)
    BY DEF Same, Quiet
  <1>2. Waits(o)' <=> Waits(o)
    BY DEF Same, Waits
  <1>3. Stopped(o)' <=> Stopped(o)
    BY DEF Same, Stopped
  <1>4. QueueInv(o)'
    BY <1>1, <1>2 DEF Local, QueueInv, Same
  <1>5. DoneInv(o)'
    BY <1>1, <1>3 DEF Local, DoneInv, Same
  <1>6. LifeInv(o)'
    BY <1>2, <1>3 DEF Local, LifeInv, Same
  <1>7. ReasonInv(o)'
    <2>1. \A i \in 1..Len(toHost[o]) : toHost[o][i].done => asking = o
      BY DEF Local, DoneInv
    <2> QED BY <2>1 DEF Local, ReasonInv, Tells, Same
  <1> QED BY <1>4, <1>5, <1>6, <1>7 DEF Local

(* Limits never move back: what has stopped or failed up to now is frozen. *)
LEMMA LimitsKept ==
    ASSUME TypeOK, TypeOK', start' = start, now' = now,
           \A a \in Mcus : stopTime'[a] = stopTime[a] \/ stopTime'[a] = now,
           cut \subseteq cut',
           \A a \in cut : cutTime'[a] = cutTime[a],
           \A a \in cut' \ cut : cutTime'[a] = now,
           crashTime' = crashTime \/ crashTime' = now
    PROVE  \A b \in Mcus : \A t \in Int :
             /\ Before(b, t) => Before(b, t)'
             /\ Within(b, t) => Within(b, t)'
  <1>1. /\ start \in Nat /\ now \in Nat /\ Expire \in Nat
        /\ cut \subseteq Mcus /\ cut' \subseteq Mcus
        /\ \A a \in Mcus : /\ stopTime[a] \in Times /\ cutTime[a] \in Times
                           /\ stopTime'[a] \in Times /\ cutTime'[a] \in Times
    BY SyncAssumption DEF TypeOK
  <1>2. TypeOK => crashTime \in Times
    BY DEF TypeOK
  <1>3. \A t : Late(t)' = Late(t)
    BY DEF Late
  <1>4. /\ \A a \in Mcus : Stopped(a)' =>
             \/ Stopped(a) /\ stopTime'[a] = stopTime[a]
             \/ stopTime'[a] = now
        /\ \A a \in cut' : \/ a \in cut /\ cutTime'[a] = cutTime[a]
                           \/ cutTime'[a] = now
        /\ ~HostUp' => \/ ~HostUp /\ crashTime' = crashTime
                       \/ crashTime' = now
    BY DEF Stopped, HostUp
  <1> SUFFICES ASSUME NEW b \in Mcus, NEW t \in Int
               PROVE  /\ Before(b, t) => Before(b, t)'
                      /\ Within(b, t) => Within(b, t)'
    OBVIOUS
  <1>5. ASSUME Before(b, t) PROVE Before(b, t)'
    <2>1. /\ t <= Late(now)
          /\ Stopped(b)' => t <= Late(stopTime'[b])
          /\ b \in cut' => t <= Late(cutTime'[b])
          /\ ~HostUp' => t <= Late(crashTime')
      BY <1>4, <1>5 DEF Before
    <2> QED BY <1>3, <2>1 DEF Before, Late
  <1>6. ASSUME Within(b, t) PROVE Within(b, t)'
    <2>1. /\ t <= Late(now) + Expire
          /\ \A a \in Mcus \ {b} : Stopped(a)' => t <= Late(stopTime'[a]) + Expire
          /\ \A a \in cut' : t <= Late(cutTime'[a]) + Expire
          /\ ~HostUp' => t <= Late(crashTime') + Expire
      BY <1>4, <1>6 DEF Within
    <2> QED BY <1>3, <2>1 DEF Within, Late
  <1> QED BY <1>5, <1>6

(* A step of the controller m.                                             *)
McuChange(m) ==
    /\ \A o \in Mcus \ {m} : Same(o)
    /\ stopTime'[m] = stopTime[m] \/ stopTime'[m] = now
    /\ halted[m] => halted'[m]
    /\ UNCHANGED <<now, dispatchVars, hostVars, faultVars>>

(* When m stops now, it is not too late.                                   *)
InTime(m) ==
    \A a \in Mcus \ {m} : Stopped(a) => now <= Late(stopTime[a]) + Expire

LEMMA StopTimes ==
    ASSUME TypeOK, NEW a \in Mcus
    PROVE  /\ stopTime[a] \in Int /\ now \in Nat /\ start \in Nat
           /\ Expire \in Nat /\ NoTime \in Int /\ NoTime < 0
           /\ Late(stopTime[a]) \in Int /\ stopTime[a] <= Late(stopTime[a])
           /\ now <= Late(now)
  <1>1. stopTime[a] \in Times /\ now \in Nat /\ start \in Nat
    BY DEF TypeOK
  <1>2. stopTime[a] \in Int /\ NoTime \in Int /\ NoTime < 0
    <2>1. stopTime[a] \in Int
      BY <1>1, TimesAre
    <2> QED BY <2>1 DEF NoTime
  <1> QED BY <1>1, <1>2, SyncAssumption DEF Late

LEMMA McuStepKeeps ==
    ASSUME IInv, TypeOK', NEW m \in Mcus, McuChange(m),
           Local(m)', EndstopInv',
           stopTime'[m] = stopTime[m] \/ halted'[m] \/ InTime(m),
           expire'[m] # NoTime => /\ now <= expire'[m]
                                  /\ Within(m, expire'[m]),
           \A i \in 1..Len(toMcu'[m]) :
             toMcu'[m][i].cmd = "trsync_set_timeout" =>
               Within(m, toMcu'[m][i].clock),
           \A i \in 1..Len(toHost'[m]) :
             toHost'[m][i].can => Before(m, toHost'[m][i].clock)
    PROVE  IInv'
  <1>0. /\ now' = now /\ active' = active /\ canDispatch' = canDispatch
        /\ lastStatus' = lastStatus /\ expireClock' = expireClock
        /\ phase' = phase /\ start' = start /\ homeEnd' = homeEnd
        /\ complete' = complete /\ asking' = asking /\ answer' = answer
        /\ res' = res /\ result' = result /\ session' = session
        /\ cut' = cut /\ cutTime' = cutTime /\ crashTime' = crashTime
        /\ lost' = lost
    BY DEF McuChange, dispatchVars, hostVars, faultVars
  <1>1. TypeOK /\ HostInv
        /\ \A o \in Mcus : Local(o) /\ Clocks(o)
    BY DEF IInv, Local, Clocks
  <1>2. \A o \in Mcus \ {m} : Same(o)
    BY DEF McuChange
  <1>3. \A a \in Mcus : stopTime'[a] = stopTime[a] \/ stopTime'[a] = now
    BY <1>2 DEF McuChange, Same
  <1>4. \A o \in Mcus : Stopped(o) => Stopped(o)'
    BY <1>1, <1>3, StopTimes DEF Stopped
  <1>5. HostInv'
    BY <1>0, <1>1, <1>4 DEF HostInv
  <1>6. \A o \in Mcus : Local(o)'
    <2> SUFFICES ASSUME NEW o \in Mcus \ {m}
                 PROVE  Local(o)'
      OBVIOUS
    <2>1. Same(o) /\ Local(o)
      BY <1>1, <1>2
    <2> QED BY <1>0, <2>1, LocalKept
  <1>7. \A b \in Mcus : \A t \in Int :
          /\ Before(b, t) => Before(b, t)'
          /\ Within(b, t) => Within(b, t)'
    BY <1>0, <1>1, <1>3, LimitsKept
  <1>8. \A o \in Mcus :
          /\ lastStatus[o] \in Int /\ expire'[o] \in Int
          /\ \A i \in 1..Len(toMcu'[o]) : toMcu'[o][i].clock \in Int
          /\ \A i \in 1..Len(toHost'[o]) : toHost'[o][i].clock \in Int
    <2> SUFFICES ASSUME NEW o \in Mcus
                 PROVE  /\ lastStatus[o] \in Int /\ expire'[o] \in Int
                        /\ \A i \in 1..Len(toMcu'[o]) : toMcu'[o][i].clock \in Int
                        /\ \A i \in 1..Len(toHost'[o]) : toHost'[o][i].clock \in Int
      OBVIOUS
    <2>1. lastStatus[o] \in Nat
      BY <1>1 DEF TypeOK
    <2>2. expire'[o] \in Times /\ toMcu'[o] \in Seq(CommandType)
          /\ toHost'[o] \in Seq(MessageType)
      BY DEF TypeOK
    <2>3. /\ \A i \in 1..Len(toMcu'[o]) : toMcu'[o][i] \in CommandType
          /\ \A i \in 1..Len(toHost'[o]) : toHost'[o][i] \in MessageType
      BY <2>2, ElementOfSeq
    <2> QED BY <2>1, <2>2, <2>3, TimesAre DEF CommandType, MessageType
  <1>9. ASSUME NEW o \in Mcus
        PROVE  StatusInv(o)'
    <2>1. /\ Before(o, lastStatus[o])
          /\ \A i \in 1..Len(toHost'[o]) :
               toHost'[o][i].can => Before(o, toHost'[o][i].clock)
      BY <1>1, <1>2 DEF Clocks, StatusInv, Same
    <2> QED BY <1>0, <1>7, <1>8, <2>1 DEF StatusInv
  <1>10. ASSUME NEW o \in Mcus
         PROVE  TimeoutInv(o)'
    <2>1. /\ expire'[o] # NoTime => now <= expire'[o] /\ Within(o, expire'[o])
          /\ \A i \in 1..Len(toMcu'[o]) :
               toMcu'[o][i].cmd = "trsync_set_timeout" =>
                 Within(o, toMcu'[o][i].clock)
      BY <1>1, <1>2 DEF Clocks, TimeoutInv, Same
    <2> QED BY <1>0, <1>7, <1>8, <2>1 DEF TimeoutInv
  <1>11. ASSUME NEW o \in Mcus
         PROVE  StopInv(o)'
    <2>1. \A a \in Mcus : /\ stopTime[a] \in Int /\ now \in Nat
                          /\ Expire \in Nat /\ Late(stopTime[a]) \in Int
                          /\ now <= Late(now) /\ Late(now) \in Int
                          /\ NoTime < 0 /\ NoTime \in Int
      BY <1>1, StopTimes DEF Late
    <2>2. /\ Stopped(o) => stopTime[o] <= now
          /\ Stopped(o) /\ ~halted[o] =>
               \A a \in Mcus \ {o} :
                 Stopped(a) => stopTime[o] <= Late(stopTime[a]) + Expire
      BY <1>1 DEF Clocks, StopInv
    <2>3. halted[o] => halted'[o]
      BY <1>2 DEF McuChange, Same
    <2>4. \/ stopTime'[o] = stopTime[o]
          \/ stopTime'[o] = now /\ (halted'[o] \/ InTime(o))
      BY <1>2, <1>3 DEF Same
    <2>5. \A t : Late(t)' = Late(t)
      BY <1>0 DEF Late
    <2>6. ASSUME Stopped(o)'
          PROVE  stopTime'[o] <= now'
      BY <1>0, <2>1, <2>2, <2>4, <2>6 DEF Stopped
    <2>7. ASSUME Stopped(o)', ~halted'[o], NEW a \in Mcus \ {o}, Stopped(a)'
          PROVE  stopTime'[o] <= Late(stopTime'[a]) + Expire
      <3>1. stopTime'[o] <= now
        BY <1>0, <2>6, <2>7
      <3>2. stopTime'[o] \in Int
        BY <2>1, <2>4
      <3>3. CASE stopTime'[a] = now
        BY <2>1, <3>1, <3>2, <3>3
      <3>4. CASE stopTime'[a] = stopTime[a] /\ stopTime'[o] = now
        BY <2>4, <2>2, <2>3, <2>7, <3>4 DEF InTime, Stopped
      <3>5. CASE stopTime'[a] = stopTime[a] /\ stopTime'[o] = stopTime[o]
        BY <2>2, <2>3, <2>7, <3>5 DEF Stopped
      <3> QED BY <1>3, <2>4, <3>3, <3>4, <3>5
    <2> QED BY <2>5, <2>6, <2>7 DEF StopInv
  <1> QED BY <1>5, <1>6, <1>9, <1>10, <1>11 DEF IInv, Local
-----------------------------------------------------------------------------
(* The steps of the controllers.                                           *)

(* What is true of one controller, in the terms of its own line.           *)
LEMMA FactsAt ==
    ASSUME IInv, NEW m \in Mcus
    PROVE  /\ TypeOK /\ HostInv /\ EndstopInv /\ Local(m) /\ Clocks(m)
           /\ \A o \in Mcus : Local(o) /\ Clocks(o)
           /\ can[m] \in BOOLEAN /\ report[m] \in BOOLEAN
           /\ armed[m] \in BOOLEAN /\ halted[m] \in BOOLEAN
           /\ reason[m] \in Reasons /\ stopTime[m] \in Times
           /\ toMcu[m] \in Seq(CommandType) /\ Len(toMcu[m]) \in Nat
           /\ toHost[m] \in Seq(MessageType) /\ Len(toHost[m]) \in Nat
           /\ toMcu[m] # <<>> <=> Len(toMcu[m]) > 0
           /\ toHost[m] # <<>> <=> Len(toHost[m]) > 0
           /\ now \in Nat /\ now # NoTime
  <1>1. /\ TypeOK /\ HostInv /\ EndstopInv
        /\ \A o \in Mcus : Local(o) /\ Clocks(o)
    BY DEF IInv, Local, Clocks
  <1>2. /\ can[m] \in BOOLEAN /\ report[m] \in BOOLEAN
        /\ armed[m] \in BOOLEAN /\ halted[m] \in BOOLEAN
        /\ reason[m] \in Reasons /\ stopTime[m] \in Times
        /\ toMcu[m] \in Seq(CommandType) /\ toHost[m] \in Seq(MessageType)
        /\ now \in Nat
    BY <1>1 DEF TypeOK
  <1>3. /\ Len(toMcu[m]) \in Nat /\ Len(toHost[m]) \in Nat
        /\ toMcu[m] # <<>> <=> Len(toMcu[m]) > 0
        /\ toHost[m] # <<>> <=> Len(toHost[m]) > 0
    BY <1>2, EmptySeq
  <1> QED BY <1>1, <1>2, <1>3, TimesAre

LEMMA DoTriggerAt ==
    ASSUME TypeOK, NEW m \in Mcus, NEW r \in Reasons, DoTrigger(m, r)
    PROVE  /\ \A o \in Mcus \ {m} :
                /\ can'[o] = can[o] /\ reason'[o] = reason[o]
                /\ armed'[o] = armed[o] /\ stopTime'[o] = stopTime[o]
           /\ can[m] => /\ ~can'[m] /\ reason'[m] = r /\ ~armed'[m]
                        /\ stopTime'[m] = now
           /\ ~can[m] => /\ ~can'[m] /\ reason'[m] = reason[m]
                         /\ armed'[m] = armed[m] /\ stopTime'[m] = stopTime[m]
           /\ stopTime'[m] = stopTime[m] \/ stopTime'[m] = now
  BY DEF DoTrigger, TypeOK

(* A controller that runs with its timeout set stops in time.              *)
LEMMA GuardedInTime ==
    ASSUME IInv, NEW m \in Mcus, expire[m] # NoTime
    PROVE  InTime(m)
  <1>1. TypeOK /\ TimeoutInv(m)
    BY DEF IInv
  <1>2. expire[m] \in Int
    BY <1>1, TimesAre DEF TypeOK
  <1>3. now <= expire[m] /\ Within(m, expire[m])
    BY <1>1 DEF TimeoutInv
  <1>4. \A a \in Mcus : now \in Nat /\ Expire \in Nat /\ Late(stopTime[a]) \in Int
    BY <1>1, StopTimes
  <1> QED BY <1>2, <1>3, <1>4 DEF InTime, Within

(* A timer of m stops it.                                                  *)
LEMMA InterruptLocal ==
    ASSUME IInv, NEW m \in Mcus, TypeOK',
           ~Quiet(m),
           NEW r \in Reasons, DoTrigger(m, r),
           toMcu'[m] = toMcu[m], toHost'[m] = toHost[m],
           halted'[m] = halted[m],
           UNCHANGED <<hostVars, faultVars>>
    PROVE  Local(m)'
  <1>0. /\ phase' = phase /\ asking' = asking /\ answer' = answer
        /\ res' = res /\ cut' = cut /\ lost' = lost
    BY DEF hostVars, faultVars
  <1>1. /\ Local(m) /\ TypeOK /\ stopTime[m] \in Times
        /\ can[m] \in BOOLEAN /\ now # NoTime
    BY FactsAt
  <1>2. ~Waits(m) /\ ~Waits(m)'
    BY <1>1 DEF Local, QueueInv, Waits
  <1>3. /\ res[m] = None /\ phase # "idle"
        /\ \A i \in 1..Len(toHost[m]) : ~toHost[m][i].done
    BY <1>1 DEF Local, DoneInv
  <1>4. Stopped(m) => Stopped(m)'
    BY <1>1, DoTriggerAt DEF Stopped
  <1>5. QueueInv(m)'
    BY <1>0, <1>1, <1>2 DEF Local, QueueInv
  <1>6. DoneInv(m)'
    BY <1>0, <1>1, <1>3, <1>4 DEF Local, DoneInv
  <1>7. LifeInv(m)'
    <2>1. ~can'[m] /\ ~armed'[m]
      BY <1>1, DoTriggerAt DEF Local, LifeInv
    <2>2. ~Stopped(m)' => ~Stopped(m) /\ ~can[m]
      BY <1>1, DoTriggerAt DEF Stopped
    <2> QED BY <1>0, <1>1, <1>2, <2>1, <2>2 DEF Local, LifeInv
  <1>8. ReasonInv(m)'
    <2>1. CASE ~can[m]
      BY <1>0, <1>1, <1>3, <2>1, DoTriggerAt DEF Local, ReasonInv, Tells
    <2>2. CASE can[m]
      <3>1. reason[m] = "zero"
        BY <1>1, <2>2 DEF Local, LifeInv
      <3> QED BY <1>0, <1>1, <1>3, <3>1 DEF Local, ReasonInv, Tells
    <2> QED BY <2>1, <2>2
  <1> QED BY <1>5, <1>6, <1>7, <1>8 DEF Local

LEMMA ExpireKeeps ==
    ASSUME IInv, NEW m \in Mcus, ExpireEvent(m)
    PROVE  IInv'
  <1>0. TypeOK'
    BY McuTypes DEF IInv, McuStep
  <1>1. TypeOK /\ Local(m) /\ Clocks(m) /\ EndstopInv
    BY FactsAt
  <1>2. expire[m] # NoTime /\ DoTrigger(m, "timeout") /\ "timeout" \in Reasons
    BY DEF ExpireEvent, Reasons
  <1>3. /\ expire'[m] = NoTime /\ \A o \in Mcus \ {m} : expire'[o] = expire[o]
        /\ \A o \in Mcus \ {m} : report'[o] = report[o]
        /\ UNCHANGED <<now, nextReport, halted, endstop, toMcu, toHost,
                       dispatchVars, hostVars, faultVars>>
    BY <1>1 DEF ExpireEvent, TypeOK
  <1>4. Local(m)'
    BY <1>0, <1>2, <1>3, InterruptLocal DEF Quiet
  <1>5. McuChange(m)
    BY <1>1, <1>2, <1>3, DoTriggerAt DEF McuChange, Same
  <1>6. EndstopInv'
    BY <1>1, <1>3 DEF EndstopInv, hostVars, faultVars
  <1>7. InTime(m)
    BY <1>2, GuardedInTime
  <1> QED BY <1>0, <1>1, <1>3, <1>4, <1>5, <1>6, <1>7, McuStepKeeps
      DEF Clocks, TimeoutInv, StatusInv

LEMMA ReportKeeps ==
    ASSUME IInv, NEW m \in Mcus, ReportEvent(m)
    PROVE  IInv'
  <1>0. TypeOK'
    BY McuTypes DEF IInv, McuStep
  <1>1. TypeOK /\ Local(m) /\ Clocks(m) /\ EndstopInv
    BY FactsAt
  <1>2. nextReport[m] # NoTime
    BY DEF ReportEvent
  <1>3. /\ \A o \in Mcus \ {m} : nextReport'[o] = nextReport[o]
        /\ \A o \in Mcus \ {m} : report'[o] = report[o]
        /\ UNCHANGED <<now, can, reason, armed, expire, halted, endstop,
                       stopTime, toMcu, toHost, dispatchVars, hostVars,
                       faultVars>>
    BY <1>1 DEF ReportEvent, TypeOK
  <1>4. /\ phase' = phase /\ asking' = asking /\ answer' = answer
        /\ res' = res /\ cut' = cut /\ lost' = lost
    BY <1>3 DEF hostVars, faultVars
  <1>5. Local(m)'
    <2>1. ~Quiet(m)
      BY <1>2 DEF Quiet
    <2>2. ~Waits(m) /\ ~Waits(m)'
      BY <1>1, <1>3, <2>1 DEF Local, QueueInv, Waits
    <2>3. /\ res[m] = None /\ phase # "idle"
          /\ \A i \in 1..Len(toHost[m]) : ~toHost[m][i].done
      BY <1>1, <2>1 DEF Local, DoneInv
    <2>4. QueueInv(m)'
      BY <1>1, <1>3, <1>4, <2>2 DEF Local, QueueInv
    <2>5. DoneInv(m)'
      BY <1>1, <1>3, <1>4, <2>3 DEF Local, DoneInv, Stopped
    <2>6. LifeInv(m)'
      BY <1>1, <1>3, <1>4, <2>2 DEF Local, LifeInv, Stopped
    <2>7. ReasonInv(m)'
      BY <1>1, <1>3, <1>4 DEF Local, ReasonInv, Tells
    <2> QED BY <2>4, <2>5, <2>6, <2>7 DEF Local
  <1>6. McuChange(m)
    BY <1>3 DEF McuChange, Same
  <1>7. EndstopInv'
    BY <1>1, <1>3, <1>4 DEF EndstopInv
  <1> QED BY <1>0, <1>1, <1>3, <1>5, <1>6, <1>7, McuStepKeeps
      DEF Clocks, TimeoutInv, StatusInv

LEMMA EndstopEventKeeps ==
    ASSUME IInv, EndstopEvent
    PROVE  IInv'
  <1> DEFINE m == Primary
  <1>0. TypeOK' /\ m \in Mcus
    BY EndstopTypes, SyncAssumption DEF IInv
  <1>1. TypeOK /\ Local(m) /\ Clocks(m) /\ EndstopInv
    BY <1>0, FactsAt
  <1>2. endstop # NoTime /\ DoTrigger(m, "hit") /\ "hit" \in Reasons
    BY DEF EndstopEvent, Reasons
  <1>3. /\ endstop' = NoTime
        /\ \A o \in Mcus \ {m} : report'[o] = report[o]
        /\ UNCHANGED <<now, expire, nextReport, halted, toMcu, toHost,
                       dispatchVars, hostVars, faultVars>>
    BY <1>0, <1>1 DEF EndstopEvent, TypeOK
  <1>4. Local(m)'
    BY <1>0, <1>2, <1>3, InterruptLocal DEF Quiet
  <1>5. McuChange(m)
    BY <1>0, <1>1, <1>2, <1>3, DoTriggerAt DEF McuChange, Same
  <1>6. EndstopInv'
    BY <1>1, <1>3 DEF EndstopInv, hostVars, faultVars
  <1>7. stopTime'[m] = stopTime[m] \/ InTime(m)
    <2>1. can[m] => expire[m] # NoTime
      BY <1>1, <1>2 DEF Local, LifeInv
    <2> QED BY <1>0, <1>1, <1>2, <2>1, GuardedInTime, DoTriggerAt
  <1> HIDE DEF m
  <1> QED BY <1>0, <1>1, <1>3, <1>4, <1>5, <1>6, <1>7, McuStepKeeps
      DEF Clocks, TimeoutInv, StatusInv
-----------------------------------------------------------------------------
(* Commands.                                                               *)

(* A controller takes the next command c from its line.                    *)
LEMMA RunsAt ==
    ASSUME IInv, NEW m \in Mcus, NEW c, Runs(m, c)
    PROVE  /\ Len(toMcu[m]) \in Nat /\ 1 \in 1..Len(toMcu[m])
           /\ toMcu[m][1].cmd = c /\ Head(toMcu[m]) = toMcu[m][1]
           /\ toMcu[m][1].clock \in Nat /\ toMcu[m][1].reason \in Reasons
           /\ Len(toMcu'[m]) \in Nat /\ Len(toMcu'[m]) = Len(toMcu[m]) - 1
           /\ \A i \in 1..Len(toMcu'[m]) : /\ i + 1 \in 1..Len(toMcu[m])
                                           /\ toMcu'[m][i] = toMcu[m][i+1]
           /\ toMcu'[m] = <<>> <=> Len(toMcu[m]) = 1
           /\ \A o \in Mcus \ {m} : toMcu'[o] = toMcu[o]
           /\ m \notin cut /\ ~halted[m] /\ res[m] = None /\ phase # "idle"
           /\ \A i \in 1..Len(toHost[m]) : ~toHost[m][i].done
           /\ ~Waits(m)'
           /\ \A i \in 1..Len(toMcu'[m]) :
                 /\ toMcu'[m][i].cmd # "trsync_start"
                 /\ toMcu'[m][i].cmd = "query" =>
                      i = Len(toMcu'[m]) /\ asking = m
                 /\ toMcu'[m][i].cmd = "trsync_set_timeout" =>
                      Within(m, toMcu'[m][i].clock)
           /\ UNCHANGED <<now, dispatchVars, hostVars, faultVars>>
  <1>1. /\ TypeOK /\ Local(m) /\ Clocks(m) /\ toMcu[m] \in Seq(CommandType)
    BY FactsAt
  <1>2. toMcu[m] # <<>> /\ Head(toMcu[m]).cmd = c /\ ~halted[m]
        /\ toMcu' = [toMcu EXCEPT ![m] = Tail(@)]
        /\ UNCHANGED <<now, dispatchVars, hostVars, faultVars>>
    BY DEF Runs
  <1>3. /\ toMcu'[m] = Tail(toMcu[m])
        /\ \A o \in Mcus \ {m} : toMcu'[o] = toMcu[o]
    BY <1>1, <1>2 DEF TypeOK
  <1>4. /\ Len(toMcu[m]) \in Nat /\ 1 \in 1..Len(toMcu[m])
        /\ Head(toMcu[m]) = toMcu[m][1] /\ toMcu[m][1] \in CommandType
        /\ Len(toMcu'[m]) \in Nat /\ Len(toMcu'[m]) = Len(toMcu[m]) - 1
        /\ \A i \in 1..Len(toMcu'[m]) : /\ i + 1 \in 1..Len(toMcu[m])
                                        /\ toMcu'[m][i] = toMcu[m][i+1]
        /\ toMcu'[m] = <<>> <=> Len(toMcu[m]) = 1
    <2> DEFINE s == toMcu[m]
    <2>1. s \in Seq(CommandType) /\ s # <<>>
      BY <1>1, <1>2
    <2> HIDE DEF s
    <2>2. /\ Len(s) \in Nat /\ 1 \in 1..Len(s)
          /\ Head(s) = s[1] /\ s[1] \in CommandType
          /\ Len(Tail(s)) \in Nat /\ Len(Tail(s)) = Len(s) - 1
          /\ \A i \in 1..Len(Tail(s)) : /\ i + 1 \in 1..Len(s)
                                        /\ Tail(s)[i] = s[i+1]
          /\ Tail(s) = <<>> <=> Len(s) = 1
      BY <2>1, TailOf
    <2> QED BY <1>3, <2>2 DEF s
  <1>5. toMcu[m][1].clock \in Nat /\ toMcu[m][1].reason \in Reasons
    BY <1>4 DEF CommandType
  <1>6. m \notin cut
    BY <1>1, <1>2 DEF Local, QueueInv
  <1>7. /\ res[m] = None /\ phase # "idle"
        /\ \A i \in 1..Len(toHost[m]) : ~toHost[m][i].done
    BY <1>1, <1>2 DEF Local, DoneInv
  <1>8. \A i \in 1..Len(toMcu[m]) :
          /\ toMcu[m][i].cmd = "trsync_start" => i = 1
          /\ toMcu[m][i].cmd = "query" => i = Len(toMcu[m]) /\ asking = m
          /\ toMcu[m][i].cmd = "trsync_set_timeout" =>
               Within(m, toMcu[m][i].clock)
    BY <1>1 DEF Local, QueueInv, Clocks, TimeoutInv
  <1>9. \A i \in 1..Len(toMcu'[m]) :
          /\ toMcu'[m][i].cmd # "trsync_start"
          /\ toMcu'[m][i].cmd = "query" => i = Len(toMcu'[m]) /\ asking = m
          /\ toMcu'[m][i].cmd = "trsync_set_timeout" =>
               Within(m, toMcu'[m][i].clock)
    <2> TAKE i \in 1..Len(toMcu'[m])
    <2>1. /\ i + 1 \in 1..Len(toMcu[m]) /\ toMcu'[m][i] = toMcu[m][i+1]
          /\ i + 1 # 1 /\ (i + 1 = Len(toMcu[m]) => i = Len(toMcu'[m]))
      BY <1>4
    <2> QED BY <1>8, <2>1
  <1>10. ~Waits(m)'
    <2>1. toMcu'[m] # <<>> => 1 \in 1..Len(toMcu'[m])
      BY <1>4
    <2> QED BY <1>9, <2>1 DEF Waits
  <1> QED BY <1>2, <1>3, <1>4, <1>5, <1>6, <1>7, <1>9, <1>10

(* The queue of a controller that has taken a command.                     *)
LEMMA RunsQueue ==
    ASSUME IInv, NEW m \in Mcus, NEW c, Runs(m, c)
    PROVE  QueueInv(m)'
  <1>1. asking' = asking /\ cut' = cut
    BY RunsAt DEF hostVars, faultVars
  <1>2. /\ m \notin cut /\ ~Waits(m)'
        /\ \A i \in 1..Len(toMcu'[m]) :
             /\ toMcu'[m][i].cmd # "trsync_start"
             /\ toMcu'[m][i].cmd = "query" => i = Len(toMcu'[m]) /\ asking = m
    BY RunsAt
  <1> QED BY <1>1, <1>2 DEF QueueInv

(* The endstop of Primary, when m takes a command other than the two for   *)
(* the endstop.                                                            *)
LEMMA RunsEndstop ==
    ASSUME IInv, NEW m \in Mcus, NEW c, Runs(m, c),
           m # Primary => endstop' = endstop,
           endstop' = endstop \/ endstop' = NoTime \/ c = "endstop_home",
           c # "endstop_off" \/ endstop' = NoTime
    PROVE  EndstopInv'
  <1>1. EndstopInv /\ phase' = phase /\ cut' = cut
    BY RunsAt, FactsAt DEF hostVars, faultVars
  <1> SUFFICES ASSUME phase = "stopping", Primary \notin cut
               PROVE  EndstopInv'
    BY <1>1 DEF EndstopInv
  <1>2. CASE m # Primary
    <2>1. toMcu'[Primary] = toMcu[Primary]
      BY <1>2, RunsAt, SyncAssumption
    <2> QED BY <1>1, <1>2, <2>1 DEF EndstopInv
  <1>3. CASE m = Primary
    <2> DEFINE q == toMcu[Primary]
               r == toMcu'[Primary]
    <2>1. /\ q[1].cmd = c /\ Len(q) \in Nat /\ 1 \in 1..Len(q)
          /\ Len(r) \in Nat /\ Len(r) = Len(q) - 1
          /\ \A i \in 1..Len(r) : i + 1 \in 1..Len(q) /\ r[i] = q[i+1]
      BY <1>3, RunsAt
    <2>2. \/ /\ endstop = NoTime
             /\ \A i \in 1..Len(q) : q[i].cmd # "endstop_home"
          \/ \E j \in 1..Len(q) :
               /\ q[j].cmd = "endstop_off"
               /\ \A i \in j..Len(q) : q[i].cmd # "endstop_home"
      BY <1>1 DEF EndstopInv
    <2> HIDE DEF q, r
    <2>3. CASE /\ endstop = NoTime
               /\ \A i \in 1..Len(q) : q[i].cmd # "endstop_home"
      <3>1. endstop' = NoTime
        BY <2>1, <2>3
      <3>2. \A i \in 1..Len(r) : r[i].cmd # "endstop_home"
        BY <2>1, <2>3
      <3> QED BY <3>1, <3>2 DEF EndstopInv, r
    <2>4. ASSUME NEW j \in 1..Len(q), q[j].cmd = "endstop_off",
                 \A i \in j..Len(q) : q[i].cmd # "endstop_home"
          PROVE  EndstopInv'
      <3>1. CASE j = 1
        <4>1. endstop' = NoTime
          BY <2>1, <2>4, <3>1
        <4>2. \A i \in 1..Len(r) : r[i].cmd # "endstop_home"
          BY <2>1, <2>4, <3>1
        <4> QED BY <4>1, <4>2 DEF EndstopInv, r
      <3>2. CASE j > 1
        <4>1. j - 1 \in 1..Len(r) /\ r[j-1] = q[j]
          BY <2>1, <3>2
        <4>2. \A i \in (j-1)..Len(r) : r[i].cmd # "endstop_home"
          BY <2>1, <2>4, <3>2
        <4> QED BY <2>4, <4>1, <4>2 DEF EndstopInv, r
      <3> QED BY <2>1, <3>1, <3>2
    <2> QED BY <2>2, <2>3, <2>4
  <1> QED BY <1>2, <1>3

LEMMA HaltKeeps ==
    ASSUME IInv, NEW m \in Mcus, NEW c, Runs(m, c), Halt(m), TypeOK',
           c # "endstop_off"
    PROVE  IInv'
  <1>1. TypeOK /\ Local(m) /\ Clocks(m) /\ stopTime[m] \in Times /\ now # NoTime
    BY FactsAt
  <1>2. /\ can'[m] = FALSE /\ report'[m] = FALSE /\ reason'[m] = "zero"
        /\ armed'[m] = FALSE /\ expire'[m] = NoTime /\ nextReport'[m] = NoTime
        /\ halted'[m] = TRUE /\ toHost' = toHost
        /\ m = Primary => endstop' = NoTime
        /\ m # Primary => endstop' = endstop
        /\ stopTime'[m] = IF stopTime[m] = NoTime THEN now ELSE stopTime[m]
    BY <1>1 DEF Halt, TypeOK
  <1>3. \A o \in Mcus \ {m} :
          /\ can'[o] = can[o] /\ report'[o] = report[o] /\ reason'[o] = reason[o]
          /\ armed'[o] = armed[o] /\ expire'[o] = expire[o]
          /\ nextReport'[o] = nextReport[o] /\ halted'[o] = halted[o]
          /\ stopTime'[o] = stopTime[o] /\ toMcu'[o] = toMcu[o]
    BY <1>1, RunsAt DEF Halt, TypeOK
  <1>4. Stopped(m)'
    BY <1>1, <1>2 DEF Stopped
  <1>5. /\ res'[m] = None /\ phase' # "idle" /\ lost' = lost
        /\ \A i \in 1..Len(toHost'[m]) : ~toHost'[m][i].done
        /\ UNCHANGED <<now, dispatchVars, hostVars, faultVars>>
    BY <1>2, RunsAt DEF hostVars, faultVars
  <1>6. Local(m)'
    <2>1. QueueInv(m)'
      BY RunsQueue
    <2>2. DoneInv(m)'
      BY <1>4, <1>5 DEF DoneInv
    <2>3. LifeInv(m)'
      BY <1>2, <1>4 DEF LifeInv
    <2>4. ReasonInv(m)'
      BY <1>2, <1>5 DEF ReasonInv, Tells, None
    <2> QED BY <2>1, <2>2, <2>3, <2>4 DEF Local
  <1>7. McuChange(m)
    BY <1>2, <1>3, <1>5 DEF McuChange, Same
  <1>8. EndstopInv'
    BY <1>2, RunsEndstop
  <1>9. \A i \in 1..Len(toHost'[m]) :
          toHost'[m][i].can => Before(m, toHost'[m][i].clock)
    BY <1>1, <1>2 DEF Clocks, StatusInv
  <1>10. \A i \in 1..Len(toMcu'[m]) :
           toMcu'[m][i].cmd = "trsync_set_timeout" =>
             Within(m, toMcu'[m][i].clock)
    BY RunsAt
  <1> QED BY <1>2, <1>6, <1>7, <1>8, <1>9, <1>10, McuStepKeeps

LEMMA StartKeeps ==
    ASSUME IInv, NEW m \in Mcus, TrsyncStart(m)
    PROVE  IInv'
  <1>0. TypeOK' /\ Runs(m, "trsync_start")
    BY McuTypes DEF IInv, McuStep, TrsyncStart
  <1>h. CASE Halt(m)
    BY <1>0, <1>h, HaltKeeps
  <1>n. CASE ~Halt(m)
    <2>1. TypeOK /\ Local(m) /\ Clocks(m)
      BY FactsAt
    <2>2. /\ can' = [can EXCEPT ![m] = TRUE]
          /\ report' = [report EXCEPT ![m] = FALSE]
          /\ reason' = [reason EXCEPT ![m] = "zero"]
          /\ armed' = [armed EXCEPT ![m] = TRUE]
          /\ expire' = [expire EXCEPT ![m] = NoTime]
          /\ nextReport' = [nextReport EXCEPT ![m] = Head(toMcu[m]).clock]
          /\ UNCHANGED <<halted, endstop, stopTime, toHost>>
      BY <1>n DEF TrsyncStart
    <2>3. /\ can'[m] = TRUE /\ reason'[m] = "zero" /\ armed'[m] = TRUE
          /\ expire'[m] = NoTime
      BY <2>1, <2>2 DEF TypeOK
    <2>4. \A o \in Mcus \ {m} :
            /\ can'[o] = can[o] /\ report'[o] = report[o]
            /\ reason'[o] = reason[o] /\ armed'[o] = armed[o]
            /\ expire'[o] = expire[o] /\ nextReport'[o] = nextReport[o]
      BY <2>1, <2>2 DEF TypeOK
    <2>5. Waits(m)
      BY <1>0, RunsAt DEF Waits
    <2>6. /\ Quiet(m) /\ toHost[m] = <<>> /\ stopTime[m] = NoTime
          /\ Len(toMcu[m]) >= 2 /\ toMcu[m][2].cmd = "trsync_set_timeout"
          /\ asking = m => answer = None
      BY <2>1, <2>5 DEF Local, QueueInv
    <2>7. toMcu'[m] # <<>> /\ toMcu'[m][1].cmd = "trsync_set_timeout"
      <3>1. Len(toMcu'[m]) \in Nat /\ Len(toMcu'[m]) >= 1
            /\ toMcu'[m] # <<>> /\ Len(toMcu[m]) \in Nat
        BY <1>0, <2>6, RunsAt
      <3>2. toMcu'[m][1] = toMcu[m][2]
        BY <1>0, <3>1, RunsAt
      <3> QED BY <2>6, <3>1, <3>2
    <2>8. /\ res'[m] = None /\ phase' # "idle" /\ asking' = asking
          /\ answer' = answer
          /\ UNCHANGED <<now, dispatchVars, hostVars, faultVars>>
      BY <1>0, RunsAt DEF hostVars
    <2>9. Local(m)'
      <3>1. QueueInv(m)'
        BY <1>0, RunsQueue
      <3>2. DoneInv(m)'
        BY <2>2, <2>6, <2>8 DEF DoneInv
      <3>3. LifeInv(m)'
        BY <2>2, <2>3, <2>6, <2>7 DEF LifeInv, Quiet, Stopped
      <3>4. ReasonInv(m)'
        BY <2>2, <2>6, <2>8 DEF ReasonInv, Tells, None
      <3> QED BY <3>1, <3>2, <3>3, <3>4 DEF Local
    <2>10. McuChange(m)
      BY <1>0, <2>2, <2>4, <2>8, RunsAt DEF McuChange, Same
    <2>11. EndstopInv'
      BY <1>0, <2>2, RunsEndstop
    <2>12. toHost'[m] = <<>> /\ Len(toHost'[m]) = 0 /\ stopTime'[m] = stopTime[m]
      BY <2>2, <2>6
    <2> QED BY <1>0, <2>3, <2>9, <2>10, <2>11, <2>12, McuStepKeeps, RunsAt
  <1> QED BY <1>h, <1>n

LEMMA SetTimeoutKeeps ==
    ASSUME IInv, NEW m \in Mcus, TrsyncSetTimeout(m)
    PROVE  IInv'
  <1>0. TypeOK' /\ Runs(m, "trsync_set_timeout")
    BY McuTypes DEF IInv, McuStep, TrsyncSetTimeout
  <1>h. CASE Halt(m)
    BY <1>0, <1>h, HaltKeeps
  <1>n. CASE ~Halt(m)
    <2>1. TypeOK /\ Local(m) /\ Clocks(m)
      BY FactsAt
    <2> DEFINE t == toMcu[m][1].clock
    <2>2. /\ Head(toMcu[m]) = toMcu[m][1] /\ t \in Nat /\ Within(m, t)
          /\ ~Waits(m)
      BY <1>0, <2>1, RunsAt DEF Clocks, TimeoutInv, Waits
    <2>3. /\ UNCHANGED <<can, report, reason, armed, nextReport, halted,
                         endstop, stopTime, toHost>>
          /\ \/ can[m] /\ t >= now /\ expire' = [expire EXCEPT ![m] = t]
             \/ ~can[m] /\ expire' = expire
      BY <1>n, <2>2 DEF TrsyncSetTimeout
    <2>4. /\ \A o \in Mcus \ {m} : expire'[o] = expire[o]
          /\ \/ can[m] /\ t >= now /\ expire'[m] = t
             \/ ~can[m] /\ expire'[m] = expire[m]
      BY <2>1, <2>3 DEF TypeOK
    <2>5. /\ res'[m] = None /\ phase' = phase /\ phase' # "idle"
          /\ asking' = asking /\ answer' = answer /\ lost' = lost /\ cut' = cut
          /\ \A i \in 1..Len(toHost'[m]) : ~toHost'[m][i].done
          /\ UNCHANGED <<now, dispatchVars, hostVars, faultVars>>
      BY <1>0, <2>3, RunsAt DEF hostVars, faultVars
    <2>6. t # NoTime
      BY <2>2, TimesAre
    <2> HIDE DEF t
    <2>7. Local(m)'
      <3>1. QueueInv(m)'
        BY <1>0, RunsQueue
      <3>2. DoneInv(m)'
        BY <2>1, <2>3, <2>5 DEF Local, DoneInv, Stopped
      <3>3. LifeInv(m)'
        BY <1>0, <2>1, <2>2, <2>3, <2>4, <2>5, <2>6, RunsAt
           DEF Local, LifeInv, Stopped
      <3>4. ReasonInv(m)'
        <4>1. res' = res
          BY <2>5 DEF hostVars
        <4> QED BY <2>1, <2>3, <2>5, <4>1 DEF Local, ReasonInv, Tells
      <3> QED BY <3>1, <3>2, <3>3, <3>4 DEF Local
    <2>8. McuChange(m)
      BY <1>0, <2>3, <2>4, <2>5, RunsAt DEF McuChange, Same
    <2>9. EndstopInv'
      BY <1>0, <2>3, RunsEndstop
    <2>10. expire'[m] # NoTime => now <= expire'[m] /\ Within(m, expire'[m])
      <3>1. now \in Nat
        BY <2>1 DEF TypeOK
      <3> QED BY <2>1, <2>2, <2>4, <3>1 DEF Clocks, TimeoutInv
    <2>11. \A i \in 1..Len(toHost'[m]) :
             toHost'[m][i].can => Before(m, toHost'[m][i].clock)
      BY <2>1, <2>3 DEF Clocks, StatusInv
    <2>12. stopTime'[m] = stopTime[m]
      BY <2>3
    <2> QED BY <1>0, <2>7, <2>8, <2>9, <2>10, <2>11, <2>12, McuStepKeeps, RunsAt
  <1> QED BY <1>h, <1>n

(* Messages that m sends, after those on the line.                         *)
LEMMA SendsAt ==
    ASSUME IInv, NEW m \in Mcus, NEW msgs \in Seq(MessageType),
           toHost' = Sent(m, msgs)
    PROVE  /\ \A o \in Mcus \ {m} : toHost'[o] = toHost[o]
           /\ Len(toHost[m]) \in Nat /\ Len(msgs) \in Nat
           /\ \/ Len(toHost'[m]) = Len(toHost[m])
              \/ /\ m \notin cut /\ HostUp
                 /\ Len(toHost'[m]) = Len(toHost[m]) + Len(msgs)
           /\ \A i \in 1..Len(toHost[m]) : toHost'[m][i] = toHost[m][i]
           /\ \A i \in 1..Len(toHost'[m]) :
                i \notin 1..Len(toHost[m]) =>
                  /\ i - Len(toHost[m]) \in 1..Len(msgs)
                  /\ toHost'[m][i] = msgs[i - Len(toHost[m])]
                  /\ m \notin cut /\ HostUp
                  /\ Len(toHost'[m]) = Len(toHost[m]) + Len(msgs)
           /\ m \in cut => toHost'[m] = toHost[m]
  <1>1. /\ TypeOK /\ toHost[m] \in Seq(MessageType)
        /\ Len(toHost[m]) \in Nat /\ Len(msgs) \in Nat
    BY FactsAt, LenProperties
  <1>2. \A o \in Mcus \ {m} : toHost'[o] = toHost[o]
    BY <1>1, SentAt
  <1>3. CASE ~Heard(m)
    BY <1>1, <1>2, <1>3, SentAt
  <1>4. CASE Heard(m)
    <2>1. toHost'[m] = toHost[m] \o msgs /\ m \notin cut /\ HostUp
      BY <1>1, <1>4, SentAt DEF Heard
    <2> DEFINE s == toHost[m]
    <2>2. /\ Len(s \o msgs) \in Nat /\ Len(s \o msgs) = Len(s) + Len(msgs)
          /\ \A i \in 1..Len(s) : (s \o msgs)[i] = s[i]
          /\ \A i \in 1..Len(s \o msgs) :
               i \notin 1..Len(s) => /\ (s \o msgs)[i] = msgs[i - Len(s)]
                                     /\ i - Len(s) \in 1..Len(msgs)
      <3>1. s \in Seq(MessageType)
        BY <1>1
      <3> HIDE DEF s
      <3> QED BY <3>1, ConcatOf
    <2> QED BY <1>1, <1>2, <2>1, <2>2
  <1> QED BY <1>3, <1>4

LEMMA TaskKeeps ==
    ASSUME IInv, NEW m \in Mcus, TaskReports(m)
    PROVE  IInv'
  <1>0. TypeOK'
    BY McuTypes DEF IInv, McuStep
  <1>1. TypeOK /\ Local(m) /\ Clocks(m) /\ EndstopInv
    BY FactsAt
  <1> DEFINE msg == State(can[m], reason[m], now)
             new == <<msg>>
             L == Len(toHost[m])
  <1>2. new \in Seq(MessageType) /\ Len(new) = 1 /\ new[1] = msg
        /\ msg.done = FALSE /\ msg.can = can[m] /\ msg.reason = reason[m]
        /\ msg.clock = now
    BY <1>1 DEF State, MessageType, TypeOK
  <1>3. /\ report[m] /\ toHost' = Sent(m, new)
        /\ \A o \in Mcus \ {m} : report'[o] = report[o]
        /\ UNCHANGED <<now, can, reason, armed, expire, nextReport, halted,
                       endstop, stopTime, toMcu, dispatchVars, hostVars,
                       faultVars>>
    BY <1>1 DEF TaskReports, TypeOK
  <1>4. /\ phase' = phase /\ asking' = asking /\ answer' = answer
        /\ res' = res /\ cut' = cut /\ lost' = lost
    BY <1>3 DEF hostVars, faultVars
  <1> HIDE DEF new, msg
  <1>5. /\ \A o \in Mcus \ {m} : toHost'[o] = toHost[o]
        /\ L \in Nat
        /\ \A i \in 1..L : toHost'[m][i] = toHost[m][i]
        /\ \A i \in 1..Len(toHost'[m]) :
             i \notin 1..L => /\ i = L + 1 /\ toHost'[m][i] = msg
                              /\ m \notin cut /\ HostUp
                              /\ Len(toHost'[m]) = L + 1
        /\ Len(toHost'[m]) = L \/ Len(toHost'[m]) = L + 1
        /\ m \in cut => toHost'[m] = toHost[m]
    <2>1. /\ \A o \in Mcus \ {m} : toHost'[o] = toHost[o]
          /\ L \in Nat
          /\ Len(toHost'[m]) = L \/ Len(toHost'[m]) = L + Len(new)
          /\ \A i \in 1..L : toHost'[m][i] = toHost[m][i]
          /\ \A i \in 1..Len(toHost'[m]) :
               i \notin 1..L =>
                  /\ i - L \in 1..Len(new) /\ toHost'[m][i] = new[i - L]
                  /\ Len(toHost'[m]) = L + Len(new)
                  /\ m \notin cut /\ HostUp
          /\ m \in cut => toHost'[m] = toHost[m]
      BY <1>2, <1>3, SendsAt, SMTT(30)
    <2> HIDE DEF L
    <2>2. ASSUME NEW i \in 1..Len(toHost'[m]), i \notin 1..L
          PROVE  i = L + 1 /\ toHost'[m][i] = msg
      <3>1. i - L \in 1..1 /\ toHost'[m][i] = new[i - L] /\ i \in Int
        BY <1>2, <2>1, <2>2
      <3>2. i - L = 1 /\ i = L + 1
        BY <2>1, <3>1
      <3> QED BY <1>2, <3>1, <3>2
    <2> QED BY <1>2, <2>1, <2>2
  <1> HIDE DEF L
  <1>6. /\ ~Waits(m) /\ ~Waits(m)'
    <2>1. ~Waits(m)
      BY <1>1, <1>3 DEF Local, QueueInv, Quiet
    <2> QED BY <1>3, <2>1 DEF Waits
  <1>7. /\ res[m] = None /\ phase # "idle"
        /\ \A i \in 1..L : ~toHost[m][i].done
    BY <1>1, <1>3 DEF Local, DoneInv, Quiet, L
  <1>8. \A i \in 1..Len(toHost'[m]) :
          i \in 1..L \/ (i = L + 1 /\ toHost'[m][i] = msg /\ m \notin cut /\ HostUp)
    BY <1>5
  <1>9. Local(m)'
    <2>1. QueueInv(m)'
      BY <1>1, <1>3, <1>4, <1>5, <1>6 DEF Local, QueueInv
    <2>2. DoneInv(m)'
      <3>1. m \notin cut /\ ~can[m] => Stopped(m)
        BY <1>1, <1>6, <1>7 DEF Local, LifeInv
      <3>2. \A i \in 1..L : ~toHost[m][i].can => Stopped(m)
        BY <1>1 DEF Local, DoneInv, L
      <3>3. \A i \in 1..Len(toHost'[m]) :
              ~toHost'[m][i].done /\ (~toHost'[m][i].can => Stopped(m))
        BY <1>2, <1>5, <1>7, <1>8, <3>1, <3>2
      <3>4. Stopped(m)' <=> Stopped(m)
        BY <1>3 DEF Stopped
      <3> QED BY <1>4, <1>7, <3>3, <3>4 DEF DoneInv
    <2>3. LifeInv(m)'
      BY <1>1, <1>3, <1>4, <1>6 DEF Local, LifeInv, Stopped
    <2>4. ReasonInv(m)'
      <3>1. ~halted[m] => \A i \in 1..L :
              toHost[m][i].reason \in {None, "zero", reason[m]}
        BY <1>1 DEF Local, ReasonInv, Tells, L
      <3>2. ~halted[m] => \A i \in 1..Len(toHost'[m]) :
              toHost'[m][i].reason \in {None, "zero", reason[m]}
        BY <1>2, <1>5, <1>8, <3>1
      <3>3. \A i \in 1..Len(toHost'[m]) : ~toHost'[m][i].done
        BY <1>2, <1>5, <1>7, <1>8
      <3> QED BY <1>1, <1>3, <1>4, <3>2, <3>3 DEF Local, ReasonInv, Tells
    <2> QED BY <2>1, <2>2, <2>3, <2>4 DEF Local
  <1>10. McuChange(m)
    BY <1>3, <1>5 DEF McuChange, Same
  <1>11. EndstopInv'
    BY <1>1, <1>3, <1>4 DEF EndstopInv
  <1>12. \A i \in 1..Len(toHost'[m]) :
           toHost'[m][i].can => Before(m, toHost'[m][i].clock)
    <2>1. can[m] /\ m \notin cut /\ HostUp => Before(m, now)
      BY <1>1, StopTimes DEF Local, LifeInv, Before, Stopped, Late
    <2>2. \A i \in 1..L : toHost[m][i].can => Before(m, toHost[m][i].clock)
      BY <1>1 DEF Clocks, StatusInv, L
    <2> QED BY <1>2, <1>5, <1>8, <2>1, <2>2
  <1> QED BY <1>0, <1>1, <1>3, <1>9, <1>10, <1>11, <1>12, McuStepKeeps
      DEF Clocks, TimeoutInv

LEMMA TriggerKeeps ==
    ASSUME IInv, NEW m \in Mcus, TrsyncTrigger(m)
    PROVE  IInv'
  <1>0. TypeOK'
    BY McuTypes DEF IInv, McuStep
  <1>1. TypeOK /\ Local(m) /\ Clocks(m) /\ EndstopInv
        /\ stopTime[m] \in Times /\ can[m] \in BOOLEAN /\ now # NoTime
    BY FactsAt
  <1>2. PICK c \in {"trsync_trigger", "query"} : Runs(m, c)
    BY DEF TrsyncTrigger
  <1> DEFINE r == Head(toMcu[m]).reason
             msg == State(FALSE, reason'[m], 0)
             done == IF c = "query" THEN <<Done>> ELSE <<>>
             new == <<msg>> \o done
             L == Len(toHost[m])
  <1>3. r \in Reasons /\ Head(toMcu[m]).cmd = c
    BY <1>2, RunsAt
  <1>4. /\ DoTrigger(m, r) /\ toHost' = Sent(m, new)
        /\ expire'[m] = NoTime /\ nextReport'[m] = NoTime /\ report'[m] = FALSE
        /\ \A o \in Mcus \ {m} :
             /\ report'[o] = report[o] /\ expire'[o] = expire[o]
             /\ nextReport'[o] = nextReport[o]
        /\ UNCHANGED <<halted, endstop>>
    BY <1>1, <1>3 DEF TrsyncTrigger, TypeOK
  <1>5. /\ msg.done = FALSE /\ msg.can = FALSE /\ msg.reason = reason'[m]
        /\ Done.done = TRUE /\ Done.can = FALSE /\ Done.reason = "zero"
        /\ msg \in MessageType /\ Done \in MessageType
    BY <1>0 DEF State, Done, MessageType, TypeOK, Reasons
  <1>6. /\ new \in Seq(MessageType)
        /\ new[1] = msg
        /\ c = "query" => Len(new) = 2 /\ new[2] = Done
        /\ c # "query" => Len(new) = 1
    <2> HIDE DEF msg
    <2>1. <<msg>> \in Seq(MessageType) /\ <<Done>> \in Seq(MessageType)
          /\ <<>> \in Seq(MessageType)
      BY <1>5
    <2> QED BY <2>1, ConcatProperties
  <1> HIDE DEF new, msg, r, done
  <1>7. /\ \A o \in Mcus \ {m} : toHost'[o] = toHost[o]
        /\ L \in Nat
        /\ \A i \in 1..L : toHost'[m][i] = toHost[m][i]
        /\ \A i \in 1..Len(toHost'[m]) :
             i \notin 1..L =>
               /\ \/ i = L + 1 /\ toHost'[m][i] = msg
                  \/ /\ i = L + 2 /\ toHost'[m][i] = Done /\ c = "query"
                     /\ Len(toHost'[m]) = L + 2
               /\ Len(toHost'[m]) = L + 1 \/ Len(toHost'[m]) = L + 2
    <2>1. /\ \A o \in Mcus \ {m} : toHost'[o] = toHost[o]
          /\ L \in Nat
          /\ \A i \in 1..L : toHost'[m][i] = toHost[m][i]
          /\ \A i \in 1..Len(toHost'[m]) :
               i \notin 1..L =>
                  /\ i - L \in 1..Len(new) /\ toHost'[m][i] = new[i - L]
                  /\ Len(toHost'[m]) = L + Len(new)
      BY <1>4, <1>6, SendsAt
    <2> HIDE DEF L
    <2>2. ASSUME NEW i \in 1..Len(toHost'[m]), i \notin 1..L
          PROVE  /\ \/ i = L + 1 /\ toHost'[m][i] = msg
                    \/ /\ i = L + 2 /\ toHost'[m][i] = Done /\ c = "query"
                       /\ Len(toHost'[m]) = L + 2
                 /\ Len(toHost'[m]) = L + 1 \/ Len(toHost'[m]) = L + 2
      <3>1. /\ i - L \in 1..Len(new) /\ toHost'[m][i] = new[i - L] /\ i \in Int
            /\ Len(toHost'[m]) = L + Len(new)
        BY <2>1, <2>2
      <3>2. i - L = 1 \/ (i - L = 2 /\ c = "query")
        <4>1. i - L \in Int
          BY <2>1, <3>1
        <4>2. Len(new) = 1 \/ (Len(new) = 2 /\ c = "query")
          BY <1>6
        <4> QED BY <3>1, <4>1, <4>2
      <3>3. CASE i - L = 1
        <4>1. i = L + 1 /\ toHost'[m][i] = msg
          BY <1>6, <2>1, <3>1, <3>3
        <4>2. Len(new) = 1 \/ Len(new) = 2
          BY <1>6
        <4> QED BY <3>1, <4>1, <4>2
      <3>4. CASE i - L = 2 /\ c = "query"
        <4>1. i = L + 2 /\ toHost'[m][i] = Done /\ Len(new) = 2
          BY <1>6, <2>1, <3>1, <3>4
        <4> QED BY <3>1, <3>4, <4>1
      <3> QED BY <3>2, <3>3, <3>4
    <2> QED BY <2>1, <2>2
  <1>8. /\ m \notin cut /\ ~halted[m] /\ res[m] = None /\ phase # "idle"
        /\ \A i \in 1..L : ~toHost[m][i].done
        /\ ~Waits(m)' /\ ~Waits(m)
        /\ c = "query" => toMcu'[m] = <<>> /\ asking = m
        /\ UNCHANGED <<now, dispatchVars, hostVars, faultVars>>
    <2>1. ~Waits(m)
      BY <1>2, RunsAt DEF Waits
    <2>2. c = "query" => Len(toMcu[m]) = 1 /\ asking = m
      BY <1>1, <1>2, RunsAt DEF Local, QueueInv
    <2> QED BY <1>2, <2>1, <2>2, RunsAt
  <1>9. /\ phase' = phase /\ asking' = asking /\ answer' = answer
        /\ res' = res /\ cut' = cut /\ lost' = lost /\ now' = now
    BY <1>8 DEF hostVars, faultVars
  <1>10. Stopped(m)' /\ ~can'[m] /\ ~armed'[m] /\ Quiet(m)' \in BOOLEAN
    <2>1. ~can[m] => Stopped(m)
      BY <1>1, <1>8 DEF Local, LifeInv
    <2>2. ~armed'[m] /\ ~can'[m]
      BY <1>1, <1>3, <1>4, DoTriggerAt DEF Local, LifeInv
    <2> QED BY <1>1, <1>3, <1>4, <2>1, <2>2, DoTriggerAt DEF Stopped, Quiet
  <1>11. c = "query" => Quiet(m)'
    <2>1. ASSUME c = "query", m = Primary
          PROVE  endstop = NoTime
      <3>1. phase = "stopping" /\ Primary \notin cut
        BY <1>1, <1>8, <2>1, FactsAt, SyncAssumption DEF HostInv, None
      <3>2. Len(toMcu[m]) = 1 /\ toMcu[m][1].cmd = "query"
        BY <1>1, <1>2, <2>1, RunsAt DEF Local, QueueInv
      <3> QED BY <1>1, <2>1, <3>1, <3>2 DEF EndstopInv
    <2> QED BY <1>4, <1>10, <2>1 DEF Quiet
  <1>12. can[m] => expire[m] # NoTime
    <2>1. toMcu[m][1].cmd # "trsync_set_timeout"
      BY <1>2, RunsAt
    <2> QED BY <1>1, <1>8, <2>1 DEF Local, LifeInv
  <1>13. Local(m)'
    <2>1. QueueInv(m)'
      BY <1>2, RunsQueue
    <2>2. DoneInv(m)'
      <3>1. \A i \in 1..Len(toHost'[m]) :
              toHost'[m][i].done => i = Len(toHost'[m]) /\ c = "query"
        BY <1>5, <1>7, <1>8
      <3> QED BY <1>4, <1>8, <1>9, <1>10, <1>11, <3>1 DEF DoneInv
    <2>3. LifeInv(m)'
      BY <1>10 DEF LifeInv
    <2>4. ReasonInv(m)'
      <3>1. \A i \in 1..L : toHost[m][i].reason \in {None, "zero", reason[m]}
        BY <1>1, <1>8 DEF Local, ReasonInv, Tells, L
      <3>2. asking = m => answer \in {None, "zero", reason[m]}
        BY <1>1, <1>8 DEF Local, ReasonInv, Tells
      <3>3. reason[m] = "zero" \/ reason'[m] = reason[m]
        BY <1>1, <1>3, <1>4, DoTriggerAt DEF Local, LifeInv
      <3>4. \A i \in 1..Len(toHost'[m]) :
              toHost'[m][i].reason \in {None, "zero", reason'[m]}
        BY <1>5, <1>7, <3>1, <3>3
      <3>5. \A i \in 1..Len(toHost'[m]) :
              toHost'[m][i].done => i > 1 /\ toHost'[m][i-1] = msg
        <4> SUFFICES ASSUME NEW i \in 1..Len(toHost'[m]), toHost'[m][i].done
                     PROVE  i > 1 /\ toHost'[m][i-1] = msg
          OBVIOUS
        <4>1. i = L + 2 /\ Len(toHost'[m]) = L + 2
          BY <1>5, <1>7, <1>8
        <4>2. L + 1 \in 1..Len(toHost'[m]) /\ L + 1 \notin 1..L
              /\ L + 1 # L + 2 /\ i - 1 = L + 1 /\ i > 1
          BY <1>7, <4>1
        <4>3. toHost'[m][L + 1] = msg
          BY <1>7, <4>2
        <4> QED BY <4>2, <4>3
      <3> QED BY <1>5, <1>8, <1>9, <3>2, <3>3, <3>4, <3>5 DEF ReasonInv, Tells, None
    <2> QED BY <2>1, <2>2, <2>3, <2>4 DEF Local
  <1>14. McuChange(m)
    <2>1. \A o \in Mcus \ {m} : toMcu'[o] = toMcu[o]
      BY <1>2, RunsAt
    <2> QED BY <1>1, <1>3, <1>4, <1>7, <1>8, <2>1, DoTriggerAt
        DEF McuChange, Same
  <1>15. EndstopInv'
    BY <1>2, <1>4, RunsEndstop
  <1>16. stopTime'[m] = stopTime[m] \/ InTime(m)
    BY <1>1, <1>3, <1>4, <1>12, DoTriggerAt, GuardedInTime
  <1>17. \A i \in 1..Len(toHost'[m]) :
           toHost'[m][i].can => Before(m, toHost'[m][i].clock)
    <2>1. \A i \in 1..L : toHost[m][i].can => Before(m, toHost[m][i].clock)
      BY <1>1 DEF Clocks, StatusInv, L
    <2> QED BY <1>5, <1>7, <2>1
  <1>18. \A i \in 1..Len(toMcu'[m]) :
           toMcu'[m][i].cmd = "trsync_set_timeout" =>
             Within(m, toMcu'[m][i].clock)
    BY <1>2, RunsAt
  <1> QED BY <1>0, <1>4, <1>13, <1>14, <1>15, <1>16, <1>17, <1>18, McuStepKeeps

LEMMA EndstopCommandKeeps ==
    ASSUME IInv, EndstopHome \/ EndstopOff
    PROVE  IInv'
  <1> DEFINE m == Primary
  <1>0. TypeOK' /\ m \in Mcus
    BY EndstopTypes, SyncAssumption DEF IInv
  <1>1. TypeOK /\ Local(m) /\ Clocks(m)
    BY <1>0, FactsAt
  <1>h. CASE EndstopHome /\ Halt(m)
    BY <1>0, <1>h, HaltKeeps DEF EndstopHome
  <1>n. CASE ~(EndstopHome /\ Halt(m))
    <2>1. PICK c \in {"endstop_home", "endstop_off"} :
            /\ Runs(m, c)
            /\ c = "endstop_off" => endstop' = NoTime
            /\ UNCHANGED <<can, report, reason, armed, expire, nextReport,
                           halted, stopTime, toHost>>
      BY <1>n DEF EndstopHome, EndstopOff
    <2> HIDE DEF m
    <2>2. /\ res'[m] = None /\ phase' = phase /\ phase' # "idle"
          /\ asking' = asking /\ answer' = answer /\ lost' = lost /\ cut' = cut
          /\ res' = res
          /\ \A i \in 1..Len(toHost'[m]) : ~toHost'[m][i].done
          /\ UNCHANGED <<now, dispatchVars, hostVars, faultVars>>
      BY <1>0, <2>1, RunsAt DEF hostVars, faultVars
    <2>3. toMcu[m][1].cmd = c /\ m \notin cut /\ ~Waits(m)
      BY <1>0, <2>1, RunsAt DEF Waits
    <2>4. can[m] => expire[m] # NoTime
      BY <1>1, <2>1, <2>3 DEF Local, LifeInv
    <2>5. Local(m)'
      <3>1. QueueInv(m)'
        BY <1>0, <2>1, RunsQueue
      <3>2. DoneInv(m)'
        BY <1>1, <2>1, <2>2 DEF Local, DoneInv, Stopped
      <3>3. LifeInv(m)'
        BY <1>1, <2>1, <2>2, <2>3, <2>4 DEF Local, LifeInv, Stopped
      <3>4. ReasonInv(m)'
        BY <1>1, <2>1, <2>2 DEF Local, ReasonInv, Tells
      <3> QED BY <3>1, <3>2, <3>3, <3>4 DEF Local
    <2>6. McuChange(m)
      <3>1. \A o \in Mcus \ {m} : toMcu'[o] = toMcu[o]
        BY <1>0, <2>1, RunsAt
      <3> QED BY <2>1, <2>2, <3>1 DEF McuChange, Same, m
    <2>7. EndstopInv'
      BY <1>0, <2>1, RunsEndstop DEF m
    <2>8. /\ expire'[m] # NoTime => now <= expire'[m] /\ Within(m, expire'[m])
          /\ \A i \in 1..Len(toHost'[m]) :
               toHost'[m][i].can => Before(m, toHost'[m][i].clock)
          /\ stopTime'[m] = stopTime[m]
      BY <1>1, <2>1 DEF Clocks, TimeoutInv, StatusInv
    <2>9. \A i \in 1..Len(toMcu'[m]) :
            toMcu'[m][i].cmd = "trsync_set_timeout" =>
              Within(m, toMcu'[m][i].clock)
      BY <1>0, <2>1, RunsAt
    <2> QED BY <1>0, <2>5, <2>6, <2>7, <2>8, <2>9, McuStepKeeps
  <1> QED BY <1>h, <1>n
-----------------------------------------------------------------------------
(* The steps of the host and the faults.                                   *)

(* The line to o has at most new commands at its end.                      *)
Extended(o) ==
    /\ Len(toMcu'[o]) \in Nat /\ Len(toMcu'[o]) >= Len(toMcu[o])
    /\ \A i \in 1..Len(toMcu[o]) : toMcu'[o][i] = toMcu[o][i]
    /\ \A i \in 1..Len(toMcu'[o]) : i \notin 1..Len(toMcu[o]) =>
         /\ o \notin cut /\ asking # o /\ res[o] = None /\ phase # "idle"
         /\ toMcu'[o][i].cmd \notin {"trsync_start", "query"}

(* The first d messages of the line from o are gone.                       *)
Shifted(o, d) ==
    /\ d = 0 \/ (d = 1 /\ Len(toHost[o]) >= 1 /\ ~toHost[o][1].done)
    /\ Len(toHost'[o]) \in Nat /\ Len(toHost'[o]) = Len(toHost[o]) - d
    /\ \A i \in 1..Len(toHost'[o]) : toHost'[o][i] = toHost[o][i+d]

LEMMA QueuesTyped ==
    ASSUME TypeOK', NEW o \in Mcus
    PROVE  /\ Len(toMcu'[o]) \in Nat /\ Len(toHost'[o]) \in Nat
           /\ toMcu'[o] = <<>> <=> Len(toMcu'[o]) = 0
           /\ toHost'[o] = <<>> <=> Len(toHost'[o]) = 0
  <1>1. toMcu'[o] \in Seq(CommandType) /\ toHost'[o] \in Seq(MessageType)
    BY DEF TypeOK
  <1> QED BY <1>1, EmptySeq

LEMMA LineKept ==
    ASSUME IInv, TypeOK', NEW o \in Mcus, NEW d, UNCHANGED mcuVars,
           Extended(o), Shifted(o, d),
           cut' = cut, asking' = asking, phase = "idle" <=> phase' = "idle",
           res'[o] = res[o], lost' = 0 => lost = 0,
           asking = o /\ d = 0 => answer' = answer,
           asking = o /\ d = 1 => \/ answer' = toHost[o][1].reason
                                  \/ answer' = answer /\ lost' # 0
    PROVE  Local(o)'
  <1>1. /\ Local(o) /\ Len(toMcu[o]) \in Nat /\ Len(toHost[o]) \in Nat
        /\ toMcu[o] # <<>> <=> Len(toMcu[o]) > 0
        /\ toHost[o] # <<>> <=> Len(toHost[o]) > 0
    BY FactsAt
  <1>2. /\ Len(toMcu'[o]) \in Nat /\ Len(toHost'[o]) \in Nat
        /\ toMcu'[o] = <<>> <=> Len(toMcu'[o]) = 0
        /\ toHost'[o] = <<>> <=> Len(toHost'[o]) = 0
    BY QueuesTyped
  <1>3. /\ UNCHANGED <<can, report, reason, armed, expire, nextReport, halted,
                       endstop, stopTime>>
        /\ Quiet(o)' <=> Quiet(o)
        /\ Stopped(o)' <=> Stopped(o)
    BY DEF mcuVars, Quiet, Stopped
  <1>4. d \in {0, 1} /\ (d = 1 => Len(toHost[o]) >= 1)
    BY DEF Shifted
  <1>5. /\ toHost[o] = <<>> => toHost'[o] = <<>> /\ d = 0
        /\ \A i \in 1..Len(toHost'[o]) :
             /\ i + d \in 1..Len(toHost[o]) /\ toHost'[o][i] = toHost[o][i+d]
             /\ i + d = Len(toHost[o]) <=> i = Len(toHost'[o])
    BY <1>1, <1>2, <1>4 DEF Shifted
  <1>6. /\ toMcu[o] # <<>> => toMcu'[o] # <<>> /\ toMcu'[o][1] = toMcu[o][1]
        /\ \/ o \in cut \/ asking = o \/ res[o] # None \/ phase = "idle"
           => Len(toMcu'[o]) = Len(toMcu[o])
    <2>1. ASSUME o \in cut \/ asking = o \/ res[o] # None \/ phase = "idle",
                 Len(toMcu'[o]) # Len(toMcu[o])
          PROVE  FALSE
      <3>1. /\ Len(toMcu[o]) + 1 \in 1..Len(toMcu'[o])
            /\ Len(toMcu[o]) + 1 \notin 1..Len(toMcu[o])
        BY <1>1, <1>2, <2>1 DEF Extended
      <3> QED BY <2>1, <3>1 DEF Extended
    <2>2. toMcu[o] # <<>> => toMcu'[o] # <<>> /\ toMcu'[o][1] = toMcu[o][1]
      BY <1>1, <1>2 DEF Extended
    <2> QED BY <2>1, <2>2
  <1>7. Waits(o)' <=> Waits(o)
    <2>1. CASE toMcu[o] # <<>>
      BY <1>6, <2>1 DEF Waits
    <2>2. CASE toMcu[o] = <<>>
      <3>1. toMcu'[o] # <<>> => toMcu'[o][1].cmd # "trsync_start"
        BY <1>1, <1>2, <2>2 DEF Extended
      <3> QED BY <2>2, <3>1 DEF Waits
    <2> QED BY <2>1, <2>2
  <1>8. QueueInv(o)'
    <2>1. o \in cut => toMcu'[o] = <<>> /\ toHost'[o] = <<>>
      BY <1>1, <1>2, <1>5, <1>6 DEF Local, QueueInv
    <2>2. ASSUME NEW i \in 1..Len(toMcu'[o])
          PROVE  /\ toMcu'[o][i].cmd = "trsync_start" => i = 1
                 /\ toMcu'[o][i].cmd = "query" => i = Len(toMcu'[o]) /\ asking = o
      <3>1. CASE i \in 1..Len(toMcu[o])
        <4>1. toMcu'[o][i] = toMcu[o][i]
          BY <3>1 DEF Extended
        <4> QED BY <1>1, <1>6, <3>1, <4>1 DEF Local, QueueInv
      <3>2. CASE i \notin 1..Len(toMcu[o])
        BY <3>2 DEF Extended
      <3> QED BY <3>1, <3>2
    <2>3. ASSUME Waits(o)
          PROVE  /\ Quiet(o) /\ toHost'[o] = <<>> /\ stopTime[o] = NoTime
                 /\ Len(toMcu'[o]) >= 2
                 /\ toMcu'[o][2].cmd = "trsync_set_timeout"
                 /\ asking = o => answer' = None
      <3>1. /\ Quiet(o) /\ toHost[o] = <<>> /\ stopTime[o] = NoTime
            /\ Len(toMcu[o]) >= 2 /\ toMcu[o][2].cmd = "trsync_set_timeout"
            /\ asking = o => answer = None
        BY <1>1, <2>3 DEF Local, QueueInv
      <3>2. toMcu'[o][2] = toMcu[o][2] /\ Len(toMcu'[o]) >= 2
        BY <1>1, <1>2, <3>1 DEF Extended
      <3> QED BY <1>5, <3>1, <3>2
    <2> QED BY <1>3, <1>7, <2>1, <2>2, <2>3 DEF QueueInv
  <1>9. DoneInv(o)'
    <2>1. \A i \in 1..Len(toHost'[o]) :
            /\ toHost'[o][i].done =>
                 /\ i = Len(toHost'[o]) /\ asking = o /\ toMcu[o] = <<>>
                 /\ Quiet(o) /\ Stopped(o) /\ ~halted[o]
            /\ ~toHost'[o][i].can => Stopped(o)
      BY <1>1, <1>5 DEF Local, DoneInv
    <2>2. asking = o /\ toMcu[o] = <<>> => toMcu'[o] = <<>>
      BY <1>1, <1>2, <1>6
    <2>3. res[o] # None \/ phase = "idle" =>
            toMcu'[o] = <<>> /\ toHost'[o] = <<>> /\ Quiet(o)
      BY <1>1, <1>2, <1>5, <1>6 DEF Local, DoneInv
    <2>4. res[o] # None => Stopped(o) /\ ~halted[o]
      BY <1>1 DEF Local, DoneInv
    <2> QED BY <1>3, <2>1, <2>2, <2>3, <2>4 DEF DoneInv
  <1>10. LifeInv(o)'
    BY <1>1, <1>3, <1>6, <1>7 DEF Local, LifeInv
  <1>11. ReasonInv(o)'
    <2>1. ~halted[o] =>
            /\ \A i \in 1..Len(toHost[o]) :
                 toHost[o][i].reason \in {None, "zero", reason[o]}
            /\ asking = o => answer \in {None, "zero", reason[o]}
      BY <1>1 DEF Local, ReasonInv, Tells
    <2>2. ~halted[o] =>
            /\ \A i \in 1..Len(toHost'[o]) :
                 toHost'[o][i].reason \in {None, "zero", reason[o]}
            /\ asking = o => answer' \in {None, "zero", reason[o]}
      <3>1. d = 1 => 1 \in 1..Len(toHost[o])
        BY <1>1, <1>4
      <3> QED BY <1>4, <1>5, <2>1, <3>1
    <2>3. ASSUME lost' = 0, NEW i \in 1..Len(toHost'[o]), toHost'[o][i].done
          PROVE  /\ i = 1 => answer' = reason[o]
                 /\ i > 1 => toHost'[o][i-1].reason = reason[o]
      <3>1. /\ asking = o /\ i + d \in 1..Len(toHost[o])
            /\ toHost[o][i+d].done
        BY <1>1, <1>5, <2>3 DEF Local, DoneInv
      <3>2. /\ i + d = 1 => answer = reason[o]
            /\ i + d > 1 => toHost[o][(i+d)-1].reason = reason[o]
        BY <1>1, <2>3, <3>1 DEF Local, ReasonInv, Tells
      <3>3. CASE i = 1
        <4>1. CASE d = 0
          BY <3>1, <3>2, <3>3, <4>1
        <4>2. CASE d = 1
          <5>1. (i + d) - 1 = 1 /\ i + d > 1
            BY <3>3, <4>2
          <5> QED BY <2>3, <3>1, <3>2, <3>3, <4>2, <5>1
        <4> QED BY <1>4, <4>1, <4>2
      <3>4. CASE i > 1
        <4>1. /\ i - 1 \in 1..Len(toHost'[o]) /\ (i - 1) + d = (i + d) - 1
              /\ i + d > 1
          BY <1>2, <1>4, <3>4
        <4>2. toHost'[o][i-1] = toHost[o][(i-1)+d]
          BY <1>5, <4>1
        <4> QED BY <3>2, <3>4, <4>1, <4>2
      <3> QED BY <3>3, <3>4
    <2>4. /\ res'[o] \in {None, "zero", reason[o]}
          /\ lost' = 0 => (res'[o] # None => res'[o] = reason[o])
      BY <1>1 DEF Local, ReasonInv, Tells
    <2> QED BY <1>3, <2>2, <2>3, <2>4 DEF ReasonInv, Tells
  <1> QED BY <1>8, <1>9, <1>10, <1>11 DEF Local

LEMMA ClocksKept ==
    ASSUME IInv, TypeOK', now' = now, start' = start, UNCHANGED mcuVars,
           cut \subseteq cut',
           \A a \in cut : cutTime'[a] = cutTime[a],
           \A a \in cut' \ cut : cutTime'[a] = now,
           crashTime' = crashTime \/ crashTime' = now,
           \A o \in Mcus :
             /\ Before(o, lastStatus'[o])
             /\ \A i \in 1..Len(toHost'[o]) :
                  toHost'[o][i].can => Before(o, toHost'[o][i].clock)
             /\ \A i \in 1..Len(toMcu'[o]) :
                  toMcu'[o][i].cmd = "trsync_set_timeout" =>
                    Within(o, toMcu'[o][i].clock)
    PROVE  \A o \in Mcus : Clocks(o)'
  <1>1. TypeOK /\ \A o \in Mcus : Clocks(o)
    BY DEF IInv, Clocks
  <1>2. UNCHANGED <<can, report, reason, armed, expire, nextReport, halted,
                    endstop, stopTime>>
    BY DEF mcuVars
  <1>3. \A b \in Mcus : \A t \in Int :
          /\ Before(b, t) => Before(b, t)'
          /\ Within(b, t) => Within(b, t)'
    BY <1>1, <1>2, LimitsKept
  <1> SUFFICES ASSUME NEW o \in Mcus
               PROVE  Clocks(o)'
    OBVIOUS
  <1>4. /\ lastStatus'[o] \in Int /\ expire'[o] \in Int
        /\ \A i \in 1..Len(toMcu'[o]) : toMcu'[o][i].clock \in Int
        /\ \A i \in 1..Len(toHost'[o]) : toHost'[o][i].clock \in Int
    <2>1. lastStatus'[o] \in Nat /\ expire'[o] \in Times
          /\ toMcu'[o] \in Seq(CommandType) /\ toHost'[o] \in Seq(MessageType)
      BY DEF TypeOK
    <2>2. /\ \A i \in 1..Len(toMcu'[o]) : toMcu'[o][i] \in CommandType
          /\ \A i \in 1..Len(toHost'[o]) : toHost'[o][i] \in MessageType
      BY <2>1, ElementOfSeq
    <2> QED BY <2>1, <2>2, TimesAre DEF CommandType, MessageType
  <1>5. StatusInv(o)'
    BY <1>3, <1>4 DEF StatusInv
  <1>6. TimeoutInv(o)'
    <2>1. expire'[o] # NoTime => now <= expire'[o] /\ Within(o, expire'[o])
      BY <1>1, <1>2 DEF Clocks, TimeoutInv
    <2> QED BY <1>3, <1>4, <2>1 DEF TimeoutInv
  <1>7. StopInv(o)'
    <2>1. \A t : Late(t)' = Late(t)
      BY DEF Late
    <2>2. \A a : Stopped(a)' <=> Stopped(a)
      BY <1>2 DEF Stopped
    <2> QED BY <1>1, <1>2, <2>1, <2>2 DEF Clocks, StopInv
  <1> QED BY <1>5, <1>6, <1>7 DEF Clocks
(* The commands that the host adds to the line to o.                       *)
LEMMA PostsAt ==
    ASSUME TypeOK, NEW msgs \in [Mcus -> Seq(CommandType)],
           toMcu' = Posted(msgs), NEW o \in Mcus
    PROVE  /\ Len(toMcu[o]) \in Nat /\ Len(toMcu'[o]) \in Nat
           /\ Len(toMcu'[o]) >= Len(toMcu[o])
           /\ \A i \in 1..Len(toMcu[o]) : toMcu'[o][i] = toMcu[o][i]
           /\ \A i \in 1..Len(toMcu'[o]) : i \notin 1..Len(toMcu[o]) =>
                /\ o \notin cut /\ msgs[o] # <<>>
                /\ i - Len(toMcu[o]) \in 1..Len(msgs[o])
                /\ toMcu'[o][i] = msgs[o][i - Len(toMcu[o])]
                /\ Len(toMcu'[o]) = Len(toMcu[o]) + Len(msgs[o])
           /\ o \in cut \/ msgs[o] = <<>> => toMcu'[o] = toMcu[o]
           /\ o \notin cut =>
                /\ Len(toMcu'[o]) = Len(toMcu[o]) + Len(msgs[o])
                /\ toMcu'[o] = toMcu[o] \o msgs[o]
  <1>1. /\ toMcu[o] \in Seq(CommandType) /\ msgs[o] \in Seq(CommandType)
        /\ Len(toMcu[o]) \in Nat /\ Len(msgs[o]) \in Nat
    BY LenProperties DEF TypeOK
  <1>2. CASE o \in cut
    <2>1. toMcu'[o] = toMcu[o]
      BY <1>2, PostedAt
    <2> QED BY <1>1, <1>2, <2>1
  <1>3. CASE o \notin cut
    <2>1. toMcu'[o] = toMcu[o] \o msgs[o]
      BY <1>3, PostedAt
    <2> DEFINE s == toMcu[o]
               t == msgs[o]
    <2>2. s \in Seq(CommandType) /\ t \in Seq(CommandType)
      BY <1>1
    <2>3. /\ Len(s) \in Nat /\ Len(t) \in Nat
          /\ Len(s \o t) \in Nat /\ Len(s \o t) = Len(s) + Len(t)
          /\ \A i \in 1..Len(s) : (s \o t)[i] = s[i]
          /\ \A i \in 1..Len(s \o t) :
               i \notin 1..Len(s) => /\ (s \o t)[i] = t[i - Len(s)]
                                     /\ i - Len(s) \in 1..Len(t)
          /\ t = <<>> => s \o t = s
          /\ t = <<>> => Len(t) = 0
      <3> HIDE DEF s, t
      <3> QED BY <2>2, ConcatOf, ConcatEmptySeq, EmptySeq
    <2>4. toMcu'[o] = s \o t
      BY <2>1
    <2>5. \A i \in 1..Len(s \o t) : i \notin 1..Len(s) => t # <<>>
      BY <2>3
    <2> QED BY <1>3, <2>1, <2>3, <2>4, <2>5
  <1> QED BY <1>2, <1>3

(* A single command for one controller.                                    *)
LEMMA OnlyPosts ==
    ASSUME TypeOK, NEW p \in Mcus, NEW c \in CommandType,
           toMcu' = Posted(Only(p, <<c>>))
    PROVE  /\ \A o \in Mcus \ {p} : toMcu'[o] = toMcu[o]
           /\ p \in cut => toMcu'[p] = toMcu[p]
           /\ p \notin cut =>
                /\ Len(toMcu[p]) \in Nat
                /\ Len(toMcu'[p]) = Len(toMcu[p]) + 1
                /\ \A i \in 1..Len(toMcu[p]) : toMcu'[p][i] = toMcu[p][i]
                /\ toMcu'[p][Len(toMcu[p]) + 1] = c
  <1> DEFINE msgs == Only(p, <<c>>)
  <1>1. /\ msgs \in [Mcus -> Seq(CommandType)]
        /\ msgs[p] = <<c>> /\ \A o \in Mcus \ {p} : msgs[o] = <<>>
    BY DEF Only
  <1> HIDE DEF msgs
  <1>2. toMcu' = Posted(msgs)
    BY DEF msgs
  <1>3. /\ \A o \in Mcus \ {p} : toMcu'[o] = toMcu[o]
        /\ p \in cut => toMcu'[p] = toMcu[p]
    BY <1>1, <1>2, PostsAt
  <1>4. ASSUME p \notin cut
        PROVE  /\ Len(toMcu[p]) \in Nat
               /\ Len(toMcu'[p]) = Len(toMcu[p]) + 1
               /\ \A i \in 1..Len(toMcu[p]) : toMcu'[p][i] = toMcu[p][i]
               /\ toMcu'[p][Len(toMcu[p]) + 1] = c
    <2>1. toMcu'[p] = toMcu[p] \o <<c>>
      <3>1. toMcu'[p] = toMcu[p] \o msgs[p]
        BY <1>1, <1>2, <1>4, PostedAt
      <3> QED BY <1>1, <3>1
    <2>2. toMcu[p] \in Seq(CommandType)
      BY DEF TypeOK
    <2> DEFINE s == toMcu[p]
               t == <<c>>
    <2>3. s \in Seq(CommandType) /\ t \in Seq(CommandType) /\ toMcu'[p] = s \o t
          /\ Len(t) = 1 /\ t[1] = c
      BY <2>1, <2>2
    <2>4. /\ Len(s) \in Nat /\ Len(s \o t) = Len(s) + 1
          /\ \A i \in 1..Len(s) : (s \o t)[i] = s[i]
          /\ (s \o t)[Len(s) + 1] = t[1]
      <3> HIDE DEF s, t
      <3>1. /\ Len(s) \in Nat /\ Len(s \o t) = Len(s) + Len(t)
            /\ \A i \in 1..Len(s) : (s \o t)[i] = s[i]
            /\ \A i \in 1..Len(s \o t) :
                 i \notin 1..Len(s) => /\ (s \o t)[i] = t[i - Len(s)]
                                       /\ i - Len(s) \in 1..Len(t)
        <4> HIDE <2>1, <2>2
        <4>1. s \in Seq(CommandType) /\ t \in Seq(CommandType)
          BY <2>3
        <4> QED BY <4>1, ConcatOf
      <3>2. /\ Len(s) + 1 \in 1..Len(s \o t) /\ Len(s) + 1 \notin 1..Len(s)
            /\ (Len(s) + 1) - Len(s) = 1
        BY <2>3, <3>1
      <3>3. (s \o t)[Len(s) + 1] = t[(Len(s) + 1) - Len(s)]
        BY <3>1, <3>2
      <3> QED BY <2>3, <3>1, <3>2, <3>3
    <2> QED BY <2>3, <2>4
  <1> QED BY <1>3, <1>4

(* The clocks, when nothing new is said about them.                        *)
LEMMA ClocksSame ==
    ASSUME IInv, TypeOK', now' = now, start' = start, UNCHANGED mcuVars,
           lastStatus' = lastStatus,
           cut \subseteq cut',
           \A a \in cut : cutTime'[a] = cutTime[a],
           \A a \in cut' \ cut : cutTime'[a] = now,
           crashTime' = crashTime \/ crashTime' = now,
           \A o \in Mcus :
             /\ \A i \in 1..Len(toHost'[o]) : \E j \in 1..Len(toHost[o]) :
                  toHost'[o][i] = toHost[o][j]
             /\ \A i \in 1..Len(toMcu'[o]) :
                  toMcu'[o][i].cmd = "trsync_set_timeout" =>
                    \E j \in 1..Len(toMcu[o]) : toMcu'[o][i] = toMcu[o][j]
    PROVE  \A o \in Mcus : Clocks(o)'
  <1>1. \A o \in Mcus :
          /\ Before(o, lastStatus[o])
          /\ \A j \in 1..Len(toHost[o]) :
               toHost[o][j].can => Before(o, toHost[o][j].clock)
          /\ \A j \in 1..Len(toMcu[o]) :
               toMcu[o][j].cmd = "trsync_set_timeout" =>
                 Within(o, toMcu[o][j].clock)
    BY DEF IInv, StatusInv, TimeoutInv
  <1>2. \A o \in Mcus :
          /\ Before(o, lastStatus'[o])
          /\ \A i \in 1..Len(toHost'[o]) :
               toHost'[o][i].can => Before(o, toHost'[o][i].clock)
          /\ \A i \in 1..Len(toMcu'[o]) :
               toMcu'[o][i].cmd = "trsync_set_timeout" =>
                 Within(o, toMcu'[o][i].clock)
    <2> TAKE o \in Mcus
    <2>1. Before(o, lastStatus'[o])
      BY <1>1
    <2>2. ASSUME NEW i \in 1..Len(toHost'[o]), toHost'[o][i].can
          PROVE  Before(o, toHost'[o][i].clock)
      <3>1. PICK j \in 1..Len(toHost[o]) : toHost'[o][i] = toHost[o][j]
        OBVIOUS
      <3> QED BY <1>1, <2>2, <3>1
    <2>3. ASSUME NEW i \in 1..Len(toMcu'[o]),
                 toMcu'[o][i].cmd = "trsync_set_timeout"
          PROVE  Within(o, toMcu'[o][i].clock)
      <3>1. PICK j \in 1..Len(toMcu[o]) : toMcu'[o][i] = toMcu[o][j]
        BY <2>3
      <3> QED BY <1>1, <2>3, <3>1
    <2> QED BY <2>1, <2>2, <2>3
  <1> QED BY <1>2, ClocksKept

(* The host sends one command that is neither a trsync_start nor a query.  *)
LEMMA PostKeeps ==
    ASSUME IInv, TypeOK', NEW p \in Mcus, NEW c \in CommandType,
           toMcu' = Posted(Only(p, <<c>>)), UNCHANGED toHost,
           c.cmd \notin {"trsync_start", "query", "trsync_set_timeout"},
           asking = None, res[p] = None, phase # "idle", phase' # "idle",
           UNCHANGED <<now, start, mcuVars, faultVars, lastStatus, asking,
                       answer, res>>,
           HostInv', EndstopInv'
    PROVE  IInv'
  <1>0. /\ cut' = cut /\ cutTime' = cutTime /\ crashTime' = crashTime
        /\ lost' = lost
    BY DEF faultVars
  <1>1. TypeOK /\ \A o \in Mcus : Len(toMcu[o]) \in Nat /\ Len(toHost[o]) \in Nat
    BY FactsAt, SyncAssumption
  <1>2. /\ \A o \in Mcus \ {p} : toMcu'[o] = toMcu[o]
        /\ p \in cut => toMcu'[p] = toMcu[p]
        /\ p \notin cut =>
             /\ Len(toMcu'[p]) = Len(toMcu[p]) + 1
             /\ \A i \in 1..Len(toMcu[p]) : toMcu'[p][i] = toMcu[p][i]
             /\ toMcu'[p][Len(toMcu[p]) + 1] = c
    BY <1>1, OnlyPosts
  <1>3. \A i \in 1..Len(toMcu'[p]) : i \notin 1..Len(toMcu[p]) =>
          p \notin cut /\ toMcu'[p][i] = c
    BY <1>1, <1>2
  <1>4. ASSUME NEW o \in Mcus
        PROVE  Extended(o)
    <2>1. CASE o # p
      BY <1>1, <1>2, <2>1 DEF Extended
    <2>2. CASE o = p
      <3>1. asking # p
        BY SyncAssumption
      <3>2. Len(toMcu'[p]) \in Nat /\ Len(toMcu'[p]) >= Len(toMcu[p])
        BY <1>1, <1>2
      <3>3. \A i \in 1..Len(toMcu[p]) : toMcu'[p][i] = toMcu[p][i]
        BY <1>2
      <3> QED BY <1>3, <2>2, <3>1, <3>2, <3>3 DEF Extended
    <2> QED BY <2>1, <2>2
  <1>5. ASSUME NEW o \in Mcus
        PROVE  Local(o)'
    <2>1. Shifted(o, 0)
      BY <1>1 DEF Shifted
    <2>2. asking # o
      BY SyncAssumption
    <2> QED BY <1>0, <1>4, <2>1, <2>2, LineKept
  <1>6. \A o \in Mcus : Clocks(o)'
    <2>1. ASSUME NEW o \in Mcus, NEW i \in 1..Len(toMcu'[o]),
                 toMcu'[o][i].cmd = "trsync_set_timeout"
          PROVE  \E j \in 1..Len(toMcu[o]) : toMcu'[o][i] = toMcu[o][j]
      BY <1>2, <1>3, <2>1
    <2> QED BY <1>0, <2>1, ClocksSame
  <1> QED BY <1>5, <1>6 DEF IInv, Local, Clocks

(* The lines stay as they are.                                             *)
LEMMA IdleKeeps ==
    ASSUME IInv, TypeOK', UNCHANGED <<toMcu, toHost>>,
           phase # "idle", phase' # "idle",
           UNCHANGED <<now, start, mcuVars, faultVars, lastStatus, asking,
                       answer, res>>,
           HostInv', EndstopInv'
    PROVE  IInv'
  <1>0. /\ cut' = cut /\ cutTime' = cutTime /\ crashTime' = crashTime
        /\ lost' = lost
    BY DEF faultVars
  <1>1. ASSUME NEW o \in Mcus
        PROVE  Local(o)'
    <2>1. Local(o)
      BY FactsAt
    <2>2. Same(o)
      BY DEF Same, mcuVars
    <2> QED BY <1>0, <2>1, <2>2, LocalKept
  <1>2. \A o \in Mcus : Clocks(o)'
    BY <1>0, ClocksSame
  <1> QED BY <1>1, <1>2 DEF IInv, Local, Clocks

LEMMA DispatchStartKeeps ==
    ASSUME IInv, TrdispatchStart
    PROVE  IInv'
  <1>0. TypeOK' /\ TypeOK /\ HostInv
    BY HostTypes DEF IInv, Host
  <1>1. Home(start) \in CommandType /\ Home(start).cmd = "endstop_home"
    BY <1>0, CommandTypes DEF TypeOK, Home, Command
  <1>2. /\ asking = None /\ \A m \in Mcus : res[m] = None
        /\ complete => \E m \in Mcus : Stopped(m)
    BY <1>0 DEF TrdispatchStart, HostInv
  <1>3. UNCHANGED <<now, start, mcuVars, faultVars, lastStatus, asking, answer,
                    res, toHost, complete, result, stopTime>>
    BY DEF TrdispatchStart, mcuVars
  <1>4. /\ phase = "started" /\ phase' = "moving" /\ canDispatch' = TRUE
        /\ toMcu' = Posted(Only(Primary, <<Home(start)>>))
    BY DEF TrdispatchStart
  <1>5. HostInv'
    BY <1>2, <1>3, <1>4 DEF HostInv, Stopped
  <1>6. EndstopInv'
    BY <1>4 DEF EndstopInv
  <1> QED BY <1>0, <1>1, <1>2, <1>3, <1>4, <1>5, <1>6, PostKeeps, SyncAssumption

LEMMA HomeEndKeeps ==
    ASSUME IInv, SetHomeEndTime
    PROVE  IInv'
  <1>0. TypeOK' /\ TypeOK /\ HostInv
    BY HostTypes DEF IInv, Host
  <1>1. UNCHANGED <<now, start, mcuVars, faultVars, lastStatus, asking, answer,
                    res, toMcu, toHost, complete, result, stopTime, canDispatch,
                    active>>
    BY DEF SetHomeEndTime, mcuVars, dispatchVars
  <1>2. phase = "moving" /\ phase' = "waiting"
    BY DEF SetHomeEndTime
  <1>3. HostInv'
    BY <1>0, <1>1, <1>2 DEF HostInv, Stopped
  <1>4. EndstopInv'
    BY <1>2 DEF EndstopInv
  <1> QED BY <1>0, <1>1, <1>2, <1>3, <1>4, IdleKeeps

LEMMA DispatchStopKeeps ==
    ASSUME IInv, TrdispatchStop
    PROVE  IInv'
  <1>0. TypeOK' /\ TypeOK /\ HostInv /\ Primary \in Mcus
    BY HostTypes, SyncAssumption DEF IInv, Host
  <1>1. Unhome \in CommandType /\ Unhome.cmd = "endstop_off"
    BY CommandTypes, 0 \in Nat DEF Unhome, Command
  <1>2. asking = None /\ \A m \in Mcus : res[m] = None
    BY <1>0 DEF TrdispatchStop, HostInv
  <1>3. UNCHANGED <<now, start, mcuVars, faultVars, lastStatus, asking, answer,
                    res, toHost, complete, result, stopTime, endstop, cut>>
    BY DEF TrdispatchStop, mcuVars, faultVars
  <1>4. /\ phase = "waiting" /\ phase' = "stopping" /\ active' = FALSE
        /\ toMcu' = Posted(Only(Primary, <<Unhome>>))
    BY DEF TrdispatchStop
  <1>5. HostInv'
    BY <1>2, <1>3, <1>4 DEF HostInv
  <1>6. EndstopInv'
    <2> SUFFICES ASSUME Primary \notin cut
                 PROVE  EndstopInv'
      BY <1>3 DEF EndstopInv
    <2> DEFINE j == Len(toMcu[Primary]) + 1
    <2>1. /\ Len(toMcu[Primary]) \in Nat /\ Len(toMcu'[Primary]) = j
          /\ toMcu'[Primary][j] = Unhome
      BY <1>0, <1>1, <1>4, OnlyPosts
    <2>2. /\ j \in 1..Len(toMcu'[Primary])
          /\ \A i \in j..Len(toMcu'[Primary]) : i = j
      BY <2>1
    <2>3. /\ toMcu'[Primary][j].cmd = "endstop_off"
          /\ \A i \in j..Len(toMcu'[Primary]) :
               toMcu'[Primary][i].cmd # "endstop_home"
      BY <1>1, <2>1, <2>2
    <2> HIDE DEF j
    <2> QED BY <2>2, <2>3 DEF EndstopInv
  <1> QED BY <1>0, <1>1, <1>2, <1>3, <1>4, <1>5, <1>6, PostKeeps

LEMMA EndstopExtended ==
    ASSUME TypeOK, EndstopInv, phase' = phase, cut' = cut, endstop' = endstop,
           Len(toMcu'[Primary]) \in Nat,
           Len(toMcu'[Primary]) >= Len(toMcu[Primary]),
           \A i \in 1..Len(toMcu[Primary]) :
             toMcu'[Primary][i] = toMcu[Primary][i],
           \A i \in 1..Len(toMcu'[Primary]) : i \notin 1..Len(toMcu[Primary])
             => toMcu'[Primary][i].cmd # "endstop_home"
    PROVE  EndstopInv'
  <1> DEFINE q == toMcu[Primary]
             r == toMcu'[Primary]
  <1>0. Len(q) \in Nat /\ Len(r) \in Nat /\ Len(r) >= Len(q)
    BY SyncAssumption, LenProperties DEF TypeOK
  <1>1. CASE /\ endstop = NoTime
             /\ \A i \in 1..Len(q) : q[i].cmd # "endstop_home"
    <2>1. \A i \in 1..Len(r) : r[i].cmd # "endstop_home"
      BY <1>1
    <2> QED BY <1>1, <2>1 DEF EndstopInv
  <1>2. CASE \E j \in 1..Len(q) :
               /\ q[j].cmd = "endstop_off"
               /\ \A i \in j..Len(q) : q[i].cmd # "endstop_home"
    <2>1. PICK j \in 1..Len(q) :
            /\ q[j].cmd = "endstop_off"
            /\ \A i \in j..Len(q) : q[i].cmd # "endstop_home"
      BY <1>2
    <2>2. j \in 1..Len(r) /\ r[j].cmd = "endstop_off"
      BY <1>0, <2>1
    <2>3. ASSUME NEW i \in j..Len(r)
          PROVE  r[i].cmd # "endstop_home"
      <3>1. i \in 1..Len(r) /\ (i \in 1..Len(q) => i \in j..Len(q))
        BY <1>0, <2>1, <2>2
      <3> QED BY <2>1, <3>1
    <2> QED BY <2>2, <2>3 DEF EndstopInv
  <1>3. CASE ~(phase = "stopping" /\ Primary \notin cut)
    BY <1>3 DEF EndstopInv
  <1> QED BY <1>1, <1>2, <1>3 DEF EndstopInv

LEMMA AskKeeps ==
    ASSUME IInv, NEW m \in Mcus, Ask(m)
    PROVE  IInv'
  <1>0. /\ TypeOK' /\ TypeOK /\ HostInv /\ EndstopInv /\ Local(m)
        /\ Len(toMcu[m]) \in Nat /\ Len(toHost[m]) \in Nat
        /\ toMcu[m] # <<>> <=> Len(toMcu[m]) > 0
        /\ toMcu'[m] # <<>> <=> Len(toMcu'[m]) > 0
    <2>1. TypeOK'
      BY HostTypes DEF IInv, Host
    <2> QED BY <2>1, FactsAt, QueuesTyped
  <1>1. Query \in CommandType /\ Query.cmd = "query"
    BY CommandTypes, 0 \in Nat DEF Query, Command
  <1>2. /\ phase = "stopping" /\ asking = None /\ res[m] = None
        /\ asking' = m /\ answer' = None
        /\ toMcu' = Posted(Only(m, <<Query>>))
        /\ UNCHANGED <<now, mcuVars, toHost, lastStatus, active, canDispatch,
                       phase, start, complete, res, result, cut, cutTime,
                       crashTime, lost>>
    BY DEF Ask, dispatchVars, faultVars
  <1>3. UNCHANGED <<can, report, reason, armed, expire, nextReport, halted,
                    endstop, stopTime>>
    BY <1>2 DEF mcuVars
  <1>4. /\ \A o \in Mcus \ {m} : toMcu'[o] = toMcu[o]
        /\ m \in cut => toMcu'[m] = toMcu[m]
        /\ m \notin cut =>
             /\ Len(toMcu'[m]) = Len(toMcu[m]) + 1
             /\ \A i \in 1..Len(toMcu[m]) : toMcu'[m][i] = toMcu[m][i]
             /\ toMcu'[m][Len(toMcu[m]) + 1] = Query
    BY <1>0, <1>1, <1>2, OnlyPosts
  <1>5. \A i \in 1..Len(toMcu'[m]) :
          \/ i \in 1..Len(toMcu[m]) /\ toMcu'[m][i] = toMcu[m][i]
          \/ toMcu'[m][i] = Query /\ i = Len(toMcu'[m]) /\ m \notin cut
    BY <1>0, <1>4
  <1>6. /\ toMcu[m] # <<>> => toMcu'[m] # <<>> /\ toMcu'[m][1] = toMcu[m][1]
        /\ Len(toMcu'[m]) >= Len(toMcu[m])
    BY <1>0, <1>4
  <1>7. Waits(m)' <=> Waits(m)
    <2>1. CASE toMcu[m] # <<>>
      BY <1>6, <2>1 DEF Waits
    <2>2. CASE toMcu[m] = <<>>
      BY <1>0, <1>1, <1>5, <2>2 DEF Waits
    <2> QED BY <2>1, <2>2
  <1>8. \A o \in Mcus \ {m} : Local(o)'
    <2> TAKE o \in Mcus \ {m}
    <2>1. Local(o) /\ Same(o)
      BY <1>2, <1>3, <1>4, FactsAt DEF Same
    <2>2. asking # o /\ asking' # o
      BY <1>2, SyncAssumption
    <2> QED BY <1>2, <2>1, <2>2, LocalKept
  <1>9. asking # m /\ \A i \in 1..Len(toHost[m]) : ~toHost[m][i].done
    <2>1. asking # m
      BY <1>2, SyncAssumption
    <2> QED BY <1>0, <2>1 DEF Local, DoneInv
  <1>10. Local(m)'
    <2>1. QueueInv(m)'
      <3>1. m \in cut => toMcu'[m] = <<>> /\ toHost[m] = <<>>
        BY <1>0, <1>4 DEF Local, QueueInv
      <3>2. \A i \in 1..Len(toMcu'[m]) :
              /\ toMcu'[m][i].cmd = "trsync_start" => i = 1
              /\ toMcu'[m][i].cmd = "query" => i = Len(toMcu'[m])
        BY <1>0, <1>1, <1>5, <1>9 DEF Local, QueueInv
      <3>3. Waits(m) => /\ Quiet(m) /\ toHost[m] = <<>> /\ stopTime[m] = NoTime
                        /\ Len(toMcu'[m]) >= 2
                        /\ toMcu'[m][2].cmd = "trsync_set_timeout"
        <4>1. Waits(m) => /\ Quiet(m) /\ toHost[m] = <<>>
                          /\ stopTime[m] = NoTime /\ Len(toMcu[m]) >= 2
                          /\ toMcu[m][2].cmd = "trsync_set_timeout"
          BY <1>0 DEF Local, QueueInv
        <4>2. Len(toMcu[m]) >= 2 => Len(toMcu'[m]) >= 2
                                     /\ toMcu'[m][2] = toMcu[m][2]
          BY <1>0, <1>4
        <4> QED BY <4>1, <4>2
      <3>4. Quiet(m)' <=> Quiet(m)
        BY <1>3 DEF Quiet
      <3> QED BY <1>2, <1>3, <1>7, <3>1, <3>2, <3>3, <3>4 DEF QueueInv
    <2>2. DoneInv(m)'
      BY <1>0, <1>2, <1>3, <1>9 DEF Local, DoneInv, Stopped
    <2>3. LifeInv(m)'
      BY <1>0, <1>2, <1>3, <1>6, <1>7 DEF Local, LifeInv, Stopped
    <2>4. ReasonInv(m)'
      BY <1>0, <1>2, <1>3, <1>9 DEF Local, ReasonInv, Tells, None
    <2> QED BY <2>1, <2>2, <2>3, <2>4 DEF Local
  <1>11. HostInv'
    BY <1>0, <1>2, <1>3 DEF HostInv, Stopped
  <1>12. EndstopInv'
    <2>1. /\ Len(toMcu[Primary]) \in Nat /\ Len(toMcu'[Primary]) \in Nat
          /\ Len(toMcu'[Primary]) >= Len(toMcu[Primary])
          /\ \A i \in 1..Len(toMcu[Primary]) :
               toMcu'[Primary][i] = toMcu[Primary][i]
          /\ \A i \in 1..Len(toMcu'[Primary]) : i \notin 1..Len(toMcu[Primary])
               => toMcu'[Primary][i].cmd # "endstop_home"
      <3>1. Primary \in Mcus /\ Len(toMcu[Primary]) \in Nat
        BY SyncAssumption, FactsAt
      <3> QED BY <1>0, <1>1, <1>4, <1>5, <3>1
    <2> QED BY <1>0, <1>2, <1>3, <2>1, EndstopExtended
  <1>13. \A o \in Mcus : Clocks(o)'
    <2>1. ASSUME NEW o \in Mcus, NEW i \in 1..Len(toMcu'[o]),
                 toMcu'[o][i].cmd = "trsync_set_timeout"
          PROVE  \E j \in 1..Len(toMcu[o]) : toMcu'[o][i] = toMcu[o][j]
      BY <1>1, <1>4, <1>5, <2>1
    <2> QED BY <1>0, <1>2, <2>1, ClocksSame
  <1> QED BY <1>0, <1>8, <1>10, <1>11, <1>12, <1>13 DEF IInv, Local, Clocks

LEMMA ReturnKeeps ==
    ASSUME IInv, HomeWaitReturns
    PROVE  IInv'
  <1>0. TypeOK' /\ TypeOK /\ HostInv
    BY HostTypes DEF IInv, Host
  <1>1. /\ phase = "stopping" /\ phase' = "idle" /\ result' = Verdict
        /\ \A m \in Mcus : res[m] # None
        /\ UNCHANGED <<now, mcuVars, toMcu, toHost, lastStatus, active,
                       canDispatch, start, complete, asking, answer, res, cut,
                       cutTime, crashTime, lost>>
    BY DEF HomeWaitReturns, Answered, dispatchVars, faultVars
  <1>2. UNCHANGED <<can, report, reason, armed, expire, nextReport, halted,
                    endstop, stopTime>>
    BY <1>1 DEF mcuVars
  <1>3. asking = None /\ ~active
    BY <1>0, <1>1 DEF HostInv, TypeOK
  <1>4. ASSUME NEW o \in Mcus
        PROVE  Local(o)'
    <2>1. /\ Local(o) /\ Len(toMcu[o]) \in Nat /\ Len(toHost[o]) \in Nat
          /\ toMcu[o] # <<>> <=> Len(toMcu[o]) > 0
          /\ toHost[o] # <<>> <=> Len(toHost[o]) > 0
      BY FactsAt
    <2>2. /\ toMcu[o] = <<>> /\ toHost[o] = <<>> /\ Quiet(o)
          /\ Stopped(o) /\ ~halted[o] /\ res[o] # None
      BY <1>1, <2>1 DEF Local, DoneInv
    <2>3. Quiet(o)' /\ Stopped(o)' /\ ~Waits(o)'
      BY <1>1, <1>2, <2>2 DEF Quiet, Stopped, Waits
    <2>4. /\ \A i \in 1..Len(toMcu'[o]) : FALSE
          /\ \A i \in 1..Len(toHost'[o]) : FALSE
      BY <1>1, <2>1, <2>2
    <2>5. asking' # o
      BY <1>1, <1>3, SyncAssumption
    <2>6. QueueInv(o)'
      BY <1>1, <2>2, <2>3, <2>4 DEF QueueInv
    <2>7. DoneInv(o)'
      BY <1>1, <1>2, <2>2, <2>3, <2>4 DEF DoneInv
    <2>8. LifeInv(o)'
      BY <1>2, <2>2, <2>3 DEF LifeInv, Quiet
    <2>9. ReasonInv(o)'
      BY <1>1, <1>2, <2>1, <2>4, <2>5 DEF Local, ReasonInv, Tells
    <2> QED BY <2>6, <2>7, <2>8, <2>9 DEF Local
  <1>5. HostInv'
    <2>1. result' = "hit" => /\ res[Primary] = "hit"
                             /\ \A m \in Mcus : res[m] # "timeout"
      BY <1>1 DEF Verdict
    <2> QED BY <1>1, <1>3, <2>1 DEF HostInv
  <1>6. EndstopInv'
    BY <1>1 DEF EndstopInv
  <1>7. \A o \in Mcus : Clocks(o)'
    BY <1>0, <1>1, ClocksSame
  <1> QED BY <1>0, <1>4, <1>5, <1>6, <1>7 DEF IInv, Local, Clocks

LEMMA CompletedKeeps ==
    ASSUME IInv, NEW m \in Mcus, Completed(m)
    PROVE  IInv'
  <1>0. /\ TypeOK' /\ TypeOK /\ HostInv /\ EndstopInv /\ Local(m)
        /\ toHost[m] \in Seq(MessageType)
        /\ toMcu[m] # <<>> <=> Len(toMcu[m]) > 0
        /\ Len(toMcu'[m]) \in Nat /\ Len(toHost'[m]) \in Nat
        /\ toHost'[m] = <<>> <=> Len(toHost'[m]) = 0
    <2>1. TypeOK'
      BY HostTypes DEF IInv, Host
    <2> QED BY <2>1, FactsAt, QueuesTyped
  <1>1. /\ Heard(m) /\ toHost[m] # <<>> /\ Head(toHost[m]).done
        /\ toHost' = [toHost EXCEPT ![m] = Tail(@)]
        /\ UNCHANGED <<now, mcuVars, lastStatus, active, canDispatch, start,
                       complete, answer, result, cut, cutTime, crashTime, lost>>
    BY DEF Completed, dispatchVars, faultVars
  <1>2. UNCHANGED <<can, report, reason, armed, expire, nextReport, halted,
                    endstop, stopTime>>
    BY <1>1 DEF mcuVars
  <1>3. /\ 1 \in 1..Len(toHost[m]) /\ toHost[m][1].done
        /\ toHost'[m] = Tail(toHost[m]) /\ Len(toHost'[m]) = Len(toHost[m]) - 1
        /\ \A o \in Mcus \ {m} : toHost'[o] = toHost[o]
    <2>1. /\ 1 \in 1..Len(toHost[m]) /\ Head(toHost[m]) = toHost[m][1]
          /\ Len(Tail(toHost[m])) = Len(toHost[m]) - 1
      BY <1>0, <1>1, TailOf
    <2>2. /\ toHost'[m] = Tail(toHost[m])
          /\ \A o \in Mcus \ {m} : toHost'[o] = toHost[o]
      BY <1>0, <1>1 DEF TypeOK
    <2> QED BY <1>1, <2>1, <2>2
  <1>4. /\ Len(toHost[m]) = 1 /\ asking = m /\ toMcu[m] = <<>> /\ Quiet(m)
        /\ Stopped(m) /\ ~halted[m]
    BY <1>0, <1>3 DEF Local, DoneInv
  <1>5. toHost'[m] = <<>> /\ \A i \in 1..Len(toHost'[m]) : FALSE
    <2>1. Len(toHost'[m]) = 0
      BY <1>3, <1>4
    <2> QED BY <1>0, <2>1
  <1>6. /\ lost = 0 => answer = reason[m]
        /\ answer \in {None, "zero", reason[m]}
    BY <1>0, <1>3, <1>4 DEF Local, ReasonInv, Tells
  <1>7. phase = "stopping" /\ res[m] = None /\ ~active /\ m \notin cut
    BY <1>0, <1>1, <1>4, SyncAssumption DEF HostInv, Heard
  <1>8. Query \in CommandType /\ Query.cmd = "query"
    BY CommandTypes, 0 \in Nat DEF Query, Command
  <1>9. /\ \A o \in Mcus \ {m} : toMcu'[o] = toMcu[o] /\ res'[o] = res[o]
        /\ \/ /\ answer # None /\ res'[m] = answer /\ asking' = None
              /\ toMcu' = toMcu /\ phase' = "stopping"
           \/ /\ answer = None /\ res' = res /\ asking' = m
              /\ Len(toMcu'[m]) = 1 /\ toMcu'[m][1] = Query
              /\ phase' = "stopping"
           \/ /\ toMcu' = toMcu /\ res' = res /\ phase' = "failed"
              /\ asking' = None
    <2>1. CASE /\ answer # None
               /\ res' = [res EXCEPT ![m] = answer]
               /\ asking' = None
               /\ UNCHANGED <<toMcu, phase>>
      BY <1>0, <1>7, <2>1 DEF TypeOK
    <2>2. CASE /\ answer = None
               /\ toMcu' = Posted(Only(m, <<Query>>))
               /\ UNCHANGED <<res, asking, phase>>
      <3>1. Len(toMcu[m]) = 0
        BY <1>4
      <3>2. /\ \A o \in Mcus \ {m} : toMcu'[o] = toMcu[o]
            /\ Len(toMcu'[m]) = Len(toMcu[m]) + 1
            /\ toMcu'[m][Len(toMcu[m]) + 1] = Query
        BY <1>0, <1>7, <1>8, <2>2, OnlyPosts
      <3>3. Len(toMcu'[m]) = 1 /\ toMcu'[m][1] = Query
        BY <3>1, <3>2
      <3> QED BY <1>4, <1>7, <2>2, <3>2, <3>3
    <2>3. CASE /\ answer = None
               /\ phase' = "failed" /\ asking' = None
               /\ UNCHANGED <<toMcu, res>>
      BY <2>3
    <2> QED BY <2>1, <2>2, <2>3 DEF Completed
  <1>10. phase' # "idle" /\ (asking' = m \/ asking' = None) /\ None \notin Mcus
    BY <1>9, SyncAssumption
  <1>11. \A o \in Mcus \ {m} : Local(o)'
    <2> TAKE o \in Mcus \ {m}
    <2>1. Local(o) /\ Same(o)
      BY <1>2, <1>3, <1>9, FactsAt DEF Same
    <2>2. asking # o /\ asking' # o
      BY <1>4, <1>10
    <2> QED BY <1>1, <1>7, <1>9, <1>10, <2>1, <2>2, LocalKept
  <1>12. \A i \in 1..Len(toMcu'[m]) :
           toMcu'[m][i] = Query /\ i = Len(toMcu'[m]) /\ asking' = m
    <2>1. Len(toMcu[m]) = 0
      BY <1>4
    <2>2. \/ asking' = m /\ Len(toMcu'[m]) = 1 /\ toMcu'[m][1] = Query
          \/ toMcu' = toMcu
      BY <1>9
    <2>3. CASE toMcu' = toMcu
      BY <2>1, <2>3
    <2>4. CASE asking' = m /\ Len(toMcu'[m]) = 1 /\ toMcu'[m][1] = Query
      BY <2>4
    <2> QED BY <2>2, <2>3, <2>4
  <1>13. Quiet(m)' /\ Stopped(m)' /\ ~Waits(m)'
    <2>1. toMcu'[m] # <<>> => toMcu'[m][1] = Query
      BY <1>4, <1>9
    <2> QED BY <1>2, <1>4, <1>8, <2>1 DEF Quiet, Stopped, Waits
  <1>14. Local(m)'
    <2>1. QueueInv(m)'
      BY <1>1, <1>7, <1>8, <1>12, <1>13 DEF QueueInv
    <2>2. DoneInv(m)'
      <3>1. res'[m] # None => toMcu'[m] = <<>>
        BY <1>4, <1>7, <1>9
      <3> QED BY <1>2, <1>4, <1>5, <1>10, <1>13, <3>1 DEF DoneInv
    <2>3. LifeInv(m)'
      BY <1>2, <1>13 DEF LifeInv, Quiet
    <2>4. ReasonInv(m)'
      BY <1>1, <1>2, <1>5, <1>6, <1>7, <1>9, <1>10 DEF ReasonInv, Tells, None
    <2> QED BY <2>1, <2>2, <2>3, <2>4 DEF Local
  <1>15. HostInv'
    BY <1>1, <1>7, <1>9, <1>10 DEF HostInv
  <1>16. EndstopInv'
    <2>1. CASE m # Primary
      <3>1. toMcu'[Primary] = toMcu[Primary]
        BY <1>9, <2>1, SyncAssumption
      <3>2. endstop' = endstop /\ cut' = cut /\ phase = "stopping"
        BY <1>1, <1>2, <1>7
      <3> QED BY <1>0, <3>1, <3>2 DEF EndstopInv
    <2>2. CASE m = Primary
      <3>1. endstop' = NoTime
        BY <1>2, <1>4, <2>2 DEF Quiet
      <3> QED BY <1>8, <1>12, <2>2, <3>1 DEF EndstopInv
    <2> QED BY <2>1, <2>2
  <1>17. \A o \in Mcus : Clocks(o)'
    <2>1. ASSUME NEW o \in Mcus, NEW i \in 1..Len(toMcu'[o]),
                 toMcu'[o][i].cmd = "trsync_set_timeout"
          PROVE  \E j \in 1..Len(toMcu[o]) : toMcu'[o][i] = toMcu[o][j]
      BY <1>8, <1>9, <1>12, <2>1
    <2>2. ASSUME NEW o \in Mcus, NEW i \in 1..Len(toHost'[o])
          PROVE  \E j \in 1..Len(toHost[o]) : toHost'[o][i] = toHost[o][j]
      BY <1>3, <1>5, <2>2
    <2> QED BY <1>0, <1>1, <2>1, <2>2, ClocksSame
  <1> QED BY <1>0, <1>11, <1>14, <1>15, <1>16, <1>17 DEF IInv, Local, Clocks

LEMMA LoseKeeps ==
    ASSUME IInv, NEW m \in Mcus, Lose(m)
    PROVE  IInv'
  <1>0. /\ TypeOK' /\ TypeOK /\ HostInv /\ EndstopInv
        /\ toHost[m] \in Seq(MessageType) /\ lost \in Nat
    <2>1. TypeOK' /\ TypeOK
      BY FaultTypes DEF IInv, Fault
    <2> QED BY <2>1, FactsAt DEF TypeOK
  <1>1. /\ toHost[m] # <<>> /\ ~Head(toHost[m]).done /\ lost' = lost + 1
        /\ toHost' = [toHost EXCEPT ![m] = Tail(@)]
        /\ UNCHANGED <<now, mcuVars, toMcu, dispatchVars, hostVars, cut,
                       cutTime, crashTime>>
    BY DEF Lose
  <1>2. /\ phase' = phase /\ asking' = asking /\ answer' = answer
        /\ res' = res /\ complete' = complete /\ result' = result
        /\ start' = start /\ active' = active /\ canDispatch' = canDispatch
        /\ lastStatus' = lastStatus /\ endstop' = endstop
        /\ stopTime' = stopTime
    BY <1>1 DEF hostVars, dispatchVars, mcuVars
  <1>3. /\ Len(toHost[m]) >= 1 /\ ~toHost[m][1].done
        /\ toHost'[m] = Tail(toHost[m]) /\ Len(toHost'[m]) \in Nat
        /\ Len(toHost'[m]) = Len(toHost[m]) - 1
        /\ \A i \in 1..Len(toHost'[m]) : /\ toHost'[m][i] = toHost[m][i+1]
                                         /\ i + 1 \in 1..Len(toHost[m])
        /\ \A o \in Mcus \ {m} : toHost'[o] = toHost[o]
    <2>1. toHost'[m] = Tail(toHost[m])
          /\ \A o \in Mcus \ {m} : toHost'[o] = toHost[o]
      BY <1>0, <1>1 DEF TypeOK
    <2>2. /\ Len(toHost[m]) \in Nat /\ 1 \in 1..Len(toHost[m])
          /\ Head(toHost[m]) = toHost[m][1]
          /\ Len(Tail(toHost[m])) \in Nat
          /\ Len(Tail(toHost[m])) = Len(toHost[m]) - 1
          /\ \A i \in 1..Len(Tail(toHost[m])) :
               /\ Tail(toHost[m])[i] = toHost[m][i+1]
               /\ i + 1 \in 1..Len(toHost[m])
      BY <1>0, <1>1, TailOf
    <2>3. Len(toHost[m]) >= 1 /\ ~toHost[m][1].done
      BY <1>1, <2>2
    <2> QED BY <2>1, <2>2, <2>3
  <1>4. ASSUME NEW o \in Mcus
        PROVE  Local(o)'
    <2>1. Len(toMcu[o]) \in Nat /\ Len(toHost[o]) \in Nat
      BY FactsAt
    <2>2. Extended(o)
      BY <1>1, <2>1 DEF Extended
    <2>3. lost' # 0
      BY <1>0, <1>1
    <2>4. CASE o = m
      <3>1. Shifted(o, 1)
        BY <1>3, <2>4 DEF Shifted
      <3> QED BY <1>0, <1>1, <1>2, <2>2, <2>3, <3>1, LineKept
    <2>5. CASE o # m
      <3>1. Shifted(o, 0)
        BY <1>3, <2>1, <2>5 DEF Shifted
      <3> QED BY <1>0, <1>1, <1>2, <2>2, <2>3, <3>1, LineKept
    <2> QED BY <2>4, <2>5
  <1>5. HostInv'
    BY <1>0, <1>2 DEF HostInv, Stopped
  <1>6. EndstopInv'
    BY <1>0, <1>1, <1>2 DEF EndstopInv
  <1>7. \A o \in Mcus : Clocks(o)'
    <2>1. ASSUME NEW o \in Mcus, NEW i \in 1..Len(toHost'[o])
          PROVE  \E j \in 1..Len(toHost[o]) : toHost'[o][i] = toHost[o][j]
      BY <1>3, <2>1
    <2> QED BY <1>0, <1>1, <1>2, <2>1, ClocksSame
  <1> QED BY <1>0, <1>4, <1>5, <1>6, <1>7 DEF IInv, Local, Clocks

LEMMA CutKeeps ==
    ASSUME IInv, NEW m \in Mcus, CutLink(m)
    PROVE  IInv'
  <1>0. TypeOK' /\ TypeOK /\ HostInv /\ EndstopInv /\ Local(m)
    <2>1. TypeOK' /\ TypeOK
      BY FaultTypes DEF IInv, Fault
    <2> QED BY <2>1, FactsAt
  <1>1. /\ cut' = cut \cup {m} /\ m \notin cut
        /\ cutTime'[m] = now
        /\ \A a \in cut : cutTime'[a] = cutTime[a]
        /\ toMcu'[m] = <<>> /\ toHost'[m] = <<>>
        /\ \A o \in Mcus \ {m} : toMcu'[o] = toMcu[o] /\ toHost'[o] = toHost[o]
        /\ UNCHANGED <<now, mcuVars, dispatchVars, hostVars, crashTime, lost>>
    BY <1>0 DEF CutLink, TypeOK
  <1>2. /\ phase' = phase /\ asking' = asking /\ answer' = answer
        /\ res' = res /\ complete' = complete /\ result' = result
        /\ start' = start /\ active' = active /\ canDispatch' = canDispatch
        /\ lastStatus' = lastStatus
    BY <1>1 DEF hostVars, dispatchVars
  <1>3. UNCHANGED <<can, report, reason, armed, expire, nextReport, halted,
                    endstop, stopTime>>
    BY <1>1 DEF mcuVars
  <1>4. /\ \A i \in 1..Len(toMcu'[m]) : FALSE
        /\ \A i \in 1..Len(toHost'[m]) : FALSE
    <2>1. Len(toMcu'[m]) = 0 /\ Len(toHost'[m]) = 0
      BY <1>0, <1>1, QueuesTyped
    <2> QED BY <2>1
  <1>5. Local(m)'
    <2>1. (Quiet(m)' <=> Quiet(m)) /\ ~Waits(m)' /\ (Stopped(m)' <=> Stopped(m))
      BY <1>1, <1>3 DEF Quiet, Waits, Stopped
    <2>2. QueueInv(m)'
      BY <1>1, <1>4, <2>1 DEF QueueInv
    <2>3. DoneInv(m)'
      BY <1>0, <1>1, <1>2, <1>3, <1>4, <2>1 DEF Local, DoneInv
    <2>4. LifeInv(m)'
      BY <1>0, <1>1, <1>3 DEF Local, LifeInv
    <2>5. ReasonInv(m)'
      BY <1>0, <1>1, <1>2, <1>3, <1>4 DEF Local, ReasonInv, Tells
    <2> QED BY <2>2, <2>3, <2>4, <2>5 DEF Local
  <1>6. \A o \in Mcus \ {m} : Local(o)'
    <2> TAKE o \in Mcus \ {m}
    <2>1. Local(o) /\ Same(o)
      BY <1>1, <1>3, FactsAt DEF Same
    <2>2. o \in cut <=> o \in cut'
      BY <1>1
    <2> QED BY <1>1, <1>2, <2>1, <2>2, LocalKept
  <1>7. HostInv'
    BY <1>0, <1>2, <1>3 DEF HostInv, Stopped
  <1>8. EndstopInv'
    <2>1. CASE m = Primary
      BY <1>1, <2>1 DEF EndstopInv
    <2>2. CASE m # Primary
      <3>1. toMcu'[Primary] = toMcu[Primary] /\ (Primary \in cut <=> Primary \in cut')
        BY <1>1, <2>2, SyncAssumption
      <3> QED BY <1>0, <1>2, <1>3, <3>1 DEF EndstopInv
    <2> QED BY <2>1, <2>2
  <1>9. \A o \in Mcus : Clocks(o)'
    <2>1. /\ \A o \in Mcus : \A i \in 1..Len(toHost'[o]) :
               \E j \in 1..Len(toHost[o]) : toHost'[o][i] = toHost[o][j]
          /\ \A o \in Mcus : \A i \in 1..Len(toMcu'[o]) :
               \E j \in 1..Len(toMcu[o]) : toMcu'[o][i] = toMcu[o][j]
      BY <1>1, <1>4
    <2>2. cut \subseteq cut' /\ \A a \in cut' \ cut : cutTime'[a] = now
      BY <1>1
    <2> QED BY <1>0, <1>1, <1>2, <2>1, <2>2, ClocksSame
  <1> QED BY <1>0, <1>5, <1>6, <1>7, <1>8, <1>9 DEF IInv, Local, Clocks

LEMMA CrashKeeps ==
    ASSUME IInv, HostCrash
    PROVE  IInv'
  <1>0. TypeOK' /\ TypeOK /\ HostInv /\ EndstopInv
    BY FaultTypes DEF IInv, Fault
  <1>1. /\ crashTime' = now /\ \A o \in Mcus : toHost'[o] = <<>>
        /\ UNCHANGED <<now, mcuVars, toMcu, dispatchVars, hostVars, cut,
                       cutTime, lost>>
    BY DEF HostCrash
  <1>2. /\ phase' = phase /\ asking' = asking /\ answer' = answer
        /\ res' = res /\ complete' = complete /\ result' = result
        /\ start' = start /\ active' = active /\ canDispatch' = canDispatch
        /\ lastStatus' = lastStatus
    BY <1>1 DEF hostVars, dispatchVars
  <1>3. UNCHANGED <<can, report, reason, armed, expire, nextReport, halted,
                    endstop, stopTime>>
    BY <1>1 DEF mcuVars
  <1>4. \A o \in Mcus : \A i \in 1..Len(toHost'[o]) : FALSE
    <2> TAKE o \in Mcus
    <2>1. Len(toHost'[o]) = 0
      BY <1>0, <1>1, QueuesTyped
    <2> QED BY <2>1
  <1>5. ASSUME NEW o \in Mcus
        PROVE  Local(o)'
    <2>0. Local(o)
      BY FactsAt
    <2>1. (Quiet(o)' <=> Quiet(o)) /\ (Waits(o)' <=> Waits(o))
          /\ (Stopped(o)' <=> Stopped(o))
      BY <1>1, <1>3 DEF Quiet, Waits, Stopped
    <2>2. QueueInv(o)'
      BY <1>1, <1>2, <1>3, <2>0, <2>1 DEF Local, QueueInv
    <2>3. DoneInv(o)'
      BY <1>1, <1>2, <1>3, <1>4, <2>0, <2>1 DEF Local, DoneInv
    <2>4. LifeInv(o)'
      BY <1>1, <1>2, <1>3, <2>0, <2>1 DEF Local, LifeInv
    <2>5. ReasonInv(o)'
      BY <1>1, <1>2, <1>3, <1>4, <2>0 DEF Local, ReasonInv, Tells
    <2> QED BY <2>2, <2>3, <2>4, <2>5 DEF Local
  <1>6. HostInv'
    BY <1>0, <1>2, <1>3 DEF HostInv, Stopped
  <1>7. EndstopInv'
    BY <1>0, <1>1, <1>2, <1>3 DEF EndstopInv
  <1>8. \A o \in Mcus : Clocks(o)'
    BY <1>0, <1>1, <1>2, <1>4, ClocksSame
  <1> QED BY <1>0, <1>5, <1>6, <1>7, <1>8 DEF IInv, Local, Clocks

LEMMA TickKeeps ==
    ASSUME IInv, Tick
    PROVE  IInv'
  <1>0. TypeOK' /\ TypeOK /\ HostInv /\ EndstopInv
    BY FaultTypes DEF IInv
  <1>1. /\ now' = now + 1
        /\ \A m \in Mcus : expire[m] = NoTime \/ expire[m] > now
        /\ UNCHANGED <<mcuVars, toMcu, toHost, dispatchVars, hostVars,
                       faultVars>>
    BY DEF Tick
  <1>2. /\ phase' = phase /\ asking' = asking /\ answer' = answer
        /\ res' = res /\ complete' = complete /\ result' = result
        /\ start' = start /\ active' = active /\ canDispatch' = canDispatch
        /\ lastStatus' = lastStatus /\ cut' = cut /\ cutTime' = cutTime
        /\ crashTime' = crashTime /\ lost' = lost
    BY <1>1 DEF hostVars, dispatchVars, faultVars
  <1>3. UNCHANGED <<can, report, reason, armed, expire, nextReport, halted,
                    endstop, stopTime>>
    BY <1>1 DEF mcuVars
  <1>4. ASSUME NEW o \in Mcus
        PROVE  Local(o)'
    <2>1. Local(o) /\ Same(o)
      BY <1>1, <1>3, FactsAt DEF Same
    <2> QED BY <1>2, <2>1, LocalKept
  <1>5. HostInv'
    BY <1>0, <1>2, <1>3 DEF HostInv, Stopped
  <1>6. EndstopInv'
    BY <1>0, <1>1, <1>2, <1>3 DEF EndstopInv
  <1>7. now \in Nat /\ start \in Nat /\ Expire \in Nat
    BY <1>0, SyncAssumption DEF TypeOK
  <1>8. /\ \A t : Late(t)' = Late(t)
        /\ Late(now) <= Late(now + 1) /\ Late(now) \in Int
        /\ Late(now + 1) \in Int
    BY <1>2, <1>7 DEF Late
  <1>9. \A b \in Mcus : \A t \in Int :
          /\ Before(b, t) => Before(b, t)'
          /\ Within(b, t) => Within(b, t)'
    <2> TAKE b \in Mcus
    <2> TAKE t \in Int
    <2>1. /\ t <= Late(now) => t <= Late(now + 1)
          /\ t <= Late(now) + Expire => t <= Late(now + 1) + Expire
      BY <1>7, <1>8
    <2>2. (\A a : Stopped(a)' <=> Stopped(a)) /\ (HostUp' <=> HostUp)
      BY <1>2, <1>3 DEF Stopped, HostUp
    <2>4. ASSUME Before(b, t)
          PROVE  Before(b, t)'
      <3>1. /\ t <= Late(now + 1)
            /\ Stopped(b)' => t <= Late(stopTime[b])
            /\ b \in cut => t <= Late(cutTime[b])
            /\ ~HostUp' => t <= Late(crashTime)
        BY <2>1, <2>2, <2>4 DEF Before
      <3> QED BY <1>1, <1>2, <1>3, <3>1 DEF Before, Late
    <2>5. ASSUME Within(b, t)
          PROVE  Within(b, t)'
      <3>1. /\ t <= Late(now + 1) + Expire
            /\ \A a \in Mcus \ {b} :
                 Stopped(a)' => t <= Late(stopTime[a]) + Expire
            /\ \A a \in cut : t <= Late(cutTime[a]) + Expire
            /\ ~HostUp' => t <= Late(crashTime) + Expire
        BY <2>1, <2>2, <2>5 DEF Within
      <3> QED BY <1>1, <1>2, <1>3, <3>1 DEF Within, Late
    <2> QED BY <2>4, <2>5
  <1>10. ASSUME NEW o \in Mcus
         PROVE  Clocks(o)'
    <2>1. /\ Clocks(o)
          /\ toMcu[o] \in Seq(CommandType) /\ toHost[o] \in Seq(MessageType)
          /\ lastStatus[o] \in Int /\ expire[o] \in Int /\ stopTime[o] \in Int
      <3>1. lastStatus[o] \in Nat /\ expire[o] \in Times /\ stopTime[o] \in Times
        BY <1>0 DEF TypeOK
      <3> QED BY <3>1, FactsAt, TimesAre
    <2>2. /\ \A i \in 1..Len(toMcu[o]) : toMcu[o][i].clock \in Int
          /\ \A i \in 1..Len(toHost[o]) : toHost[o][i].clock \in Int
      <3>1. /\ \A i \in 1..Len(toMcu[o]) : toMcu[o][i] \in CommandType
            /\ \A i \in 1..Len(toHost[o]) : toHost[o][i] \in MessageType
        BY <2>1, ElementOfSeq
      <3> QED BY <3>1 DEF CommandType, MessageType
    <2>3. StatusInv(o)'
      BY <1>1, <1>2, <1>9, <2>1, <2>2 DEF Clocks, StatusInv
    <2>4. TimeoutInv(o)'
      <3>1. expire'[o] # NoTime => now' <= expire'[o] /\ Within(o, expire'[o])
        BY <1>1, <1>3, <1>7, <2>1 DEF Clocks, TimeoutInv
      <3>2. \A i \in 1..Len(toMcu'[o]) :
              toMcu'[o][i].cmd = "trsync_set_timeout" =>
                Within(o, toMcu'[o][i].clock)
        BY <1>1, <2>1 DEF Clocks, TimeoutInv
      <3>3. /\ expire'[o] \in Int
            /\ \A i \in 1..Len(toMcu'[o]) : toMcu'[o][i].clock \in Int
        BY <1>1, <1>3, <2>1, <2>2
      <3> QED BY <1>9, <3>1, <3>2, <3>3 DEF TimeoutInv
    <2>5. StopInv(o)'
      <3>1. \A a : Stopped(a)' <=> Stopped(a)
        BY <1>3 DEF Stopped
      <3>2. Stopped(o) => stopTime[o] <= now + 1
        BY <1>7, <2>1 DEF Clocks, StopInv
      <3> QED BY <1>1, <1>3, <1>8, <2>1, <3>1, <3>2 DEF Clocks, StopInv
    <2> QED BY <2>3, <2>4, <2>5 DEF Clocks
  <1> QED BY <1>0, <1>4, <1>5, <1>6, <1>10 DEF IInv, Local, Clocks

LEMMA HomeStartKeeps ==
    ASSUME IInv, HomeStart
    PROVE  IInv'
  <1>0. TypeOK' /\ TypeOK /\ HostInv
    BY HostTypes DEF IInv, Host
  <1> DEFINE t == now + Lead
             new == <<Start(t), SetTimeout(t + Expire)>>
             msgs == [m \in Mcus |-> new]
  <1>1. /\ phase = "idle" /\ phase' = "started" /\ start' = t
        /\ lastStatus' = [m \in Mcus |-> t]
        /\ toMcu' = Posted(msgs) /\ complete' = FALSE
        /\ res' = [m \in Mcus |-> None] /\ result' = None
        /\ stopTime' = [m \in Mcus |-> NoTime]
        /\ UNCHANGED <<now, can, report, reason, armed, expire, nextReport,
                       halted, endstop, toHost, active, canDispatch, asking,
                       answer, cut, cutTime, crashTime, lost>>
    BY DEF HomeStart, faultVars
  <1>2. /\ t \in Nat /\ t + Expire \in Nat /\ Expire \in Nat
    BY <1>0, SyncAssumption DEF TypeOK
  <1>3. /\ msgs \in [Mcus -> Seq(CommandType)]
        /\ \A o \in Mcus : msgs[o] = new
        /\ Len(new) = 2
        /\ new[1].cmd = "trsync_start" /\ new[2].cmd = "trsync_set_timeout"
        /\ new[2].clock = t + Expire
    <2>1. Start(t) \in CommandType /\ SetTimeout(t + Expire) \in CommandType
      BY <1>2, CommandTypes
    <2>2. /\ Start(t).cmd = "trsync_start"
          /\ SetTimeout(t + Expire).cmd = "trsync_set_timeout"
          /\ SetTimeout(t + Expire).clock = t + Expire
      BY DEF Start, SetTimeout, Command
    <2> QED BY <2>1, <2>2
  <1> HIDE DEF new, msgs
  <1>4. ~active /\ asking = None
    BY <1>0, <1>1 DEF HostInv, TypeOK
  <1>5. ASSUME NEW o \in Mcus
        PROVE  /\ toMcu[o] = <<>> /\ toHost[o] = <<>> /\ Quiet(o)
               /\ o \in cut => toMcu'[o] = <<>>
               /\ o \notin cut => toMcu'[o] = new
               /\ Len(toMcu[o]) = 0 /\ Len(toHost[o]) = 0
    <2>1. toMcu[o] = <<>> /\ toHost[o] = <<>> /\ Quiet(o)
      BY <1>1, FactsAt DEF Local, DoneInv
    <2>2. Len(toMcu[o]) = 0 /\ Len(toHost[o]) = 0
      BY <2>1, FactsAt
    <2>3. ASSUME o \in cut
          PROVE  toMcu'[o] = <<>>
      <3>1. toMcu'[o] = toMcu[o]
        BY <1>0, <1>1, <1>3, <2>3, PostsAt
      <3> QED BY <2>1, <3>1
    <2>4. ASSUME o \notin cut
          PROVE  toMcu'[o] = <<>> \o msgs[o]
      <3>1. toMcu'[o] = toMcu[o] \o msgs[o]
        BY <1>0, <1>1, <1>3, <2>4, PostedAt
      <3> QED BY <2>1, <3>1
    <2>5. <<>> \o msgs[o] = msgs[o]
      BY <1>3, ConcatEmptySeq
    <2> QED BY <1>3, <2>1, <2>2, <2>3, <2>4, <2>5
  <1>6. ASSUME NEW o \in Mcus
        PROVE  /\ \A i \in 1..Len(toHost'[o]) : FALSE
               /\ \A i \in 1..Len(toMcu'[o]) :
                    o \notin cut /\ (i = 1 \/ i = 2) /\ toMcu'[o][i] = new[i]
    <2>1. \A i \in 1..Len(toHost'[o]) : FALSE
      BY <1>1, <1>5
    <2>2. CASE o \in cut
      <3>1. Len(toMcu'[o]) = 0
        BY <1>5, <2>2, <1>0, QueuesTyped
      <3> QED BY <2>1, <3>1
    <2>3. CASE o \notin cut
      BY <1>3, <1>5, <2>1, <2>3
    <2> QED BY <2>2, <2>3
  <1>7. ASSUME NEW o \in Mcus
        PROVE  /\ o \in cut => ~Waits(o)'
               /\ o \notin cut => Waits(o)'
               /\ ~Stopped(o)' /\ Quiet(o)' /\ res'[o] = None /\ asking' # o
    <2>1. /\ ~Stopped(o)' /\ stopTime'[o] = NoTime
      BY <1>1 DEF Stopped
    <2>2. Quiet(o)'
      BY <1>1, <1>5 DEF Quiet
    <2>3. o \notin cut => toMcu'[o] # <<>>
      BY <1>0, <1>3, <1>5, QueuesTyped
    <2>4. /\ o \in cut => ~Waits(o)'
          /\ o \notin cut => Waits(o)'
      BY <1>3, <1>5, <2>3 DEF Waits
    <2> QED BY <1>1, <1>4, <2>1, <2>2, <2>4, SyncAssumption
  <1>8. ASSUME NEW o \in Mcus
        PROVE  Local(o)'
    <2>1. QueueInv(o)'
      <3>1. o \in cut => toMcu'[o] = <<>> /\ toHost'[o] = <<>>
        BY <1>1, <1>5
      <3>2. \A i \in 1..Len(toMcu'[o]) :
              /\ toMcu'[o][i].cmd = "trsync_start" => i = 1
              /\ toMcu'[o][i].cmd # "query"
        BY <1>3, <1>6
      <3>3. Waits(o)' => Len(toMcu'[o]) >= 2
                         /\ toMcu'[o][2].cmd = "trsync_set_timeout"
        BY <1>3, <1>5, <1>7
      <3>4. stopTime'[o] = NoTime /\ toHost'[o] = <<>>
        BY <1>1, <1>5
      <3> QED BY <1>1, <1>7, <3>1, <3>2, <3>3, <3>4 DEF QueueInv
    <2>2. DoneInv(o)'
      BY <1>1, <1>6, <1>7 DEF DoneInv
    <2>3. LifeInv(o)'
      BY <1>1, <1>7 DEF LifeInv, Quiet
    <2>4. ReasonInv(o)'
      BY <1>6, <1>7 DEF ReasonInv, Tells, None
    <2> QED BY <2>1, <2>2, <2>3, <2>4 DEF Local
  <1>9. ASSUME NEW o \in Mcus
        PROVE  Clocks(o)'
    <2>1. /\ start' = t /\ now' = now /\ t \in Nat /\ Expire \in Nat
          /\ now \in Nat /\ crashTime' \in Int
          /\ \A a \in cut' : cutTime'[a] \in Int
      <3>1. /\ crashTime' \in Times /\ cut' \subseteq Mcus /\ now \in Nat
            /\ \A a \in Mcus : cutTime'[a] \in Times
        BY <1>0 DEF TypeOK
      <3> QED BY <1>1, <1>2, <3>1, TimesAre
    <2>2. \A a \in Mcus : ~Stopped(a)'
      BY <1>7
    <2> HIDE DEF t
    <2>3. Before(o, start)'
      BY <2>1, <2>2 DEF Before, Late
    <2>4. Within(o, start + Expire)'
      <3>1. /\ start' + Expire <= Late(now)' + Expire
            /\ \A a \in cut' : start' + Expire <= Late(cutTime[a])' + Expire
            /\ start' + Expire <= Late(crashTime)' + Expire
        <4>1. /\ Late(now)' \in Int /\ start' <= Late(now)'
              /\ Late(crashTime)' \in Int /\ start' <= Late(crashTime)'
          BY <2>1 DEF Late
        <4>2. \A a \in cut' : /\ Late(cutTime[a])' \in Int
                              /\ start' <= Late(cutTime[a])'
          BY <2>1 DEF Late
        <4>3. start' \in Int /\ Expire \in Int
          BY <2>1
        <4> QED BY <4>1, <4>2, <4>3
      <3> QED BY <2>2, <3>1 DEF Within
    <2>5. StatusInv(o)'
      <3>1. lastStatus'[o] = start'
        BY <1>1
      <3> QED BY <1>6, <2>3, <3>1 DEF StatusInv
    <2>6. TimeoutInv(o)'
      <3>1. expire'[o] = NoTime
        BY <1>7 DEF Quiet
      <3>2. \A i \in 1..Len(toMcu'[o]) :
              toMcu'[o][i].cmd = "trsync_set_timeout" =>
                toMcu'[o][i].clock = start' + Expire
        BY <1>1, <1>3, <1>6
      <3> QED BY <2>4, <3>1, <3>2 DEF TimeoutInv
    <2>7. StopInv(o)'
      BY <2>2 DEF StopInv
    <2> QED BY <2>5, <2>6, <2>7 DEF Clocks
  <1>10. HostInv'
    BY <1>1, <1>4 DEF HostInv
  <1>11. EndstopInv'
    BY <1>1 DEF EndstopInv
  <1> QED BY <1>0, <1>8, <1>9, <1>10, <1>11 DEF IInv, Local, Clocks

(* A timeout that the dispatcher computes is no later than what the last   *)
(* reports of the other controllers allow.                                 *)
LEMMA NewTimeout ==
    ASSUME TypeOK, HostUp, NEW o \in Mcus \ cut,
           NEW status \in [Mcus -> Nat],
           \A a \in Mcus : Before(a, status[a])
    PROVE  Within(o, ExpireFor(o, status))
  <1> DEFINE E == ExpireFor(o, status)
  <1>1. /\ E \in Nat
        /\ \A a \in Others(o) : E <= status[a] + Expire
        /\ \A a \in Mcus \ {o} : E <= status[a] + Expire
    BY Oldest
  <1> HIDE DEF E
  <1>2. PICK p \in Others(o) : p \in Mcus
    BY DEF Others
  <1>3. /\ now \in Nat /\ start \in Nat /\ Expire \in Nat /\ cut \subseteq Mcus
        /\ \A a \in Mcus : /\ stopTime[a] \in Int /\ cutTime[a] \in Int
                           /\ status[a] \in Nat
    <2>1. /\ now \in Nat /\ start \in Nat /\ cut \subseteq Mcus
          /\ \A a \in Mcus : stopTime[a] \in Times /\ cutTime[a] \in Times
      BY DEF TypeOK
    <2> QED BY <2>1, TimesAre, SyncAssumption
  <1>4. \A u \in Int : Late(u) \in Int
    BY <1>3 DEF Late
  <1>5. E <= Late(now) + Expire
    <2>1. E <= status[p] + Expire /\ status[p] <= Late(now)
      BY <1>1, <1>2 DEF Before
    <2> QED BY <1>1, <1>2, <1>3, <1>4, <2>1
  <1>6. ASSUME NEW a \in Mcus \ {o}, Stopped(a)
        PROVE  E <= Late(stopTime[a]) + Expire
    <2>1. E <= status[a] + Expire /\ status[a] <= Late(stopTime[a])
      BY <1>1, <1>6 DEF Before
    <2> QED BY <1>1, <1>3, <1>4, <2>1
  <1>7. ASSUME NEW a \in cut
        PROVE  E <= Late(cutTime[a]) + Expire
    <2>1. a \in Mcus \ {o}
      BY <1>3
    <2>2. E <= status[a] + Expire /\ status[a] <= Late(cutTime[a])
      BY <1>1, <2>1 DEF Before
    <2> QED BY <1>1, <1>3, <1>4, <2>1, <2>2
  <1> QED BY <1>5, <1>6, <1>7 DEF Within, E

(* What a report of m makes the host send: stop or run on, and stop.       *)
Replies(m, msg, status) ==
    [o \in Mcus |-> Dispatched(msg, status)[o]
                      \o (IF o = m /\ PastEnd(m, msg) THEN <<Trigger("end")>>
                          ELSE <<>>)]

LEMMA RepliesAre ==
    ASSUME TypeOK, NEW m \in Mcus, NEW msg \in MessageType,
           NEW status \in [Mcus -> Nat]
    PROVE  LET posts == Replies(m, msg, status) IN
           /\ posts \in [Mcus -> Seq(CommandType)]
           /\ \A o \in Mcus : \A i \in 1..Len(posts[o]) :
                /\ posts[o][i].cmd \in {"trsync_trigger", "trsync_set_timeout"}
                /\ posts[o][i].cmd = "trsync_set_timeout" =>
                     /\ Dispatching /\ msg.can
                     /\ posts[o][i].clock = ExpireFor(o, status)
           /\ \A o \in Mcus : posts[o] # <<>> =>
                Dispatching \/ (o = m /\ Registered(m))
  <1> DEFINE posts == Replies(m, msg, status)
             X(o) == {c \in CommandType :
                        /\ c.cmd \in {"trsync_trigger", "trsync_set_timeout"}
                        /\ c.cmd = "trsync_set_timeout" =>
                             /\ Dispatching /\ msg.can
                             /\ c.clock = ExpireFor(o, status)}
  <1>1. \A o \in Mcus : ExpireFor(o, status) \in Nat
    BY Oldest
  <1>2. \A r \in Reasons \ {"hit"} :
          /\ Trigger(r) \in CommandType
          /\ Trigger(r).cmd = "trsync_trigger"
    <2>1. \A r : Trigger(r).cmd = "trsync_trigger"
      BY DEF Trigger, Command
    <2>2. \A r \in Reasons \ {"hit"} : Trigger(r) \in CommandType
      BY CommandTypes, 0 \in Nat
    <2> QED BY <2>1, <2>2
  <1>3. \A u \in Nat : /\ SetTimeout(u) \in CommandType
                       /\ SetTimeout(u).cmd = "trsync_set_timeout"
                       /\ SetTimeout(u).clock = u
    <2>1. \A u : /\ SetTimeout(u).cmd = "trsync_set_timeout"
                 /\ SetTimeout(u).clock = u
      BY DEF SetTimeout, Command
    <2>2. \A u \in Nat : SetTimeout(u) \in CommandType
      BY CommandTypes
    <2> QED BY <2>1, <2>2
  <1>4. ASSUME NEW o \in Mcus
        PROVE  /\ posts[o] \in Seq(X(o))
               /\ posts[o] # <<>> => Dispatching \/ (o = m /\ Registered(m))
    <2> DEFINE d == Dispatched(msg, status)[o]
               e == IF o = m /\ PastEnd(m, msg) THEN <<Trigger("end")>> ELSE <<>>
    <2>0. /\ \A S : <<>> \in Seq(S)
          /\ \A S : \A a \in S : <<a>> \in Seq(S)
      OBVIOUS
    <2>1. posts[o] = d \o e
      BY DEF Replies
    <2>2. "host" \in Reasons /\ "end" \in Reasons
      BY DEF Reasons
    <2>3. Trigger("host") \in X(o) /\ Trigger("end") \in X(o)
      BY <1>2, <2>2
    <2>4. ~Dispatching => d = <<>>
      BY DEF Dispatched
    <2>5. d \in Seq(X(o))
      <3>1. CASE ~Dispatching
        <4> HIDE DEF X, d
        <4> QED BY <2>0, <2>4, <3>1
      <3>2. CASE Dispatching /\ ~msg.can
        <4>1. d = <<Trigger("host")>>
          BY <3>2 DEF Dispatched
        <4> HIDE DEF X, d
        <4> QED BY <2>0, <2>3, <4>1
      <3>3. CASE Dispatching /\ msg.can
        <4>1. SetTimeout(ExpireFor(o, status)) \in X(o)
          BY <1>1, <1>3, <3>3
        <4>2. d = <<SetTimeout(ExpireFor(o, status))>> \/ d = <<>>
          BY <3>3 DEF Dispatched
        <4> HIDE DEF X, d
        <4> QED BY <2>0, <4>1, <4>2
      <3> QED BY <3>1, <3>2, <3>3
    <2>6. e \in Seq(X(o))
      <3>1. e = <<Trigger("end")>> \/ e = <<>>
        OBVIOUS
      <3> HIDE DEF X, e
      <3> QED BY <2>0, <2>3, <3>1
    <2>7. e # <<>> => o = m /\ Registered(m)
      BY DEF PastEnd
    <2> HIDE DEF d, e, X, posts
    <2>8. d \o e \in Seq(X(o)) /\ (d = <<>> /\ e = <<>> => d \o e = <<>>)
      BY <2>5, <2>6, ConcatProperties, ConcatEmptySeq
    <2> QED BY <2>1, <2>4, <2>7, <2>8
  <1>5. \A o \in Mcus : posts[o] \in Seq(CommandType)
    <2> TAKE o \in Mcus
    <2>1. X(o) \subseteq CommandType /\ posts[o] \in Seq(X(o))
      BY <1>4
    <2> HIDE DEF X, posts
    <2> QED BY <2>1, SeqMonotonic
  <1>6. posts \in [Mcus -> Seq(CommandType)]
    BY <1>5 DEF Replies
  <1>7. ASSUME NEW o \in Mcus, NEW i \in 1..Len(posts[o])
        PROVE  /\ posts[o][i].cmd \in {"trsync_trigger", "trsync_set_timeout"}
               /\ posts[o][i].cmd = "trsync_set_timeout" =>
                    /\ Dispatching /\ msg.can
                    /\ posts[o][i].clock = ExpireFor(o, status)
    <2>1. posts[o][i] \in X(o)
      <3>1. posts[o] \in Seq(X(o))
        BY <1>4
      <3> HIDE DEF X, posts
      <3> QED BY <3>1, ElementOfSeq
    <2> HIDE DEF posts
    <2> QED BY <2>1
  <1> HIDE DEF posts, X
  <1> QED BY <1>4, <1>6, <1>7 DEF posts

LEMMA HandleKeeps ==
    ASSUME IInv, NEW m \in Mcus, HandleState(m)
    PROVE  IInv'
  <1> DEFINE msg == Head(toHost[m])
             status == [lastStatus EXCEPT ![m] = msg.clock]
             posts == Replies(m, msg, status)
  <1>0. /\ TypeOK' /\ TypeOK /\ HostInv /\ EndstopInv /\ Local(m) /\ Clocks(m)
        /\ toHost[m] \in Seq(MessageType) /\ Primary \in Mcus
    <2>1. TypeOK' /\ TypeOK
      BY HostTypes DEF IInv, Host
    <2> QED BY <2>1, FactsAt, SyncAssumption
  <1>1. /\ HostUp /\ m \notin cut /\ toHost[m] # <<>> /\ ~msg.done
        /\ toHost' = [toHost EXCEPT ![m] = Tail(@)]
        /\ canDispatch' = (canDispatch /\ (active => msg.can))
        /\ \/ Dispatching /\ msg.can /\ lastStatus' = status
           \/ lastStatus' = lastStatus
        /\ complete' = (complete \/ (Registered(m) /\ ~msg.can))
        /\ answer' = IF asking = m THEN msg.reason ELSE answer
        /\ UNCHANGED <<now, mcuVars, active, phase, start, asking, res, result,
                       session, cut, cutTime, crashTime, lost>>
    BY DEF HandleState, Heard, faultVars
  <1>2. toMcu' = Posted(posts)
    BY DEF HandleState, Replies
  <1>3. /\ Len(toHost[m]) >= 1 /\ 1 \in 1..Len(toHost[m])
        /\ toHost[m][1] = msg /\ msg \in MessageType
        /\ Len(toHost'[m]) \in Nat /\ Len(toHost'[m]) = Len(toHost[m]) - 1
        /\ \A i \in 1..Len(toHost'[m]) : /\ toHost'[m][i] = toHost[m][i+1]
                                         /\ i + 1 \in 1..Len(toHost[m])
        /\ \A o \in Mcus \ {m} : toHost'[o] = toHost[o]
    <2>1. toHost'[m] = Tail(toHost[m])
          /\ \A o \in Mcus \ {m} : toHost'[o] = toHost[o]
      BY <1>0, <1>1 DEF TypeOK
    <2>2. /\ Len(toHost[m]) \in Nat /\ 1 \in 1..Len(toHost[m])
          /\ Head(toHost[m]) = toHost[m][1] /\ toHost[m][1] \in MessageType
          /\ Len(Tail(toHost[m])) \in Nat
          /\ Len(Tail(toHost[m])) = Len(toHost[m]) - 1
          /\ \A i \in 1..Len(Tail(toHost[m])) :
               /\ Tail(toHost[m])[i] = toHost[m][i+1]
               /\ i + 1 \in 1..Len(toHost[m])
      BY <1>0, <1>1, TailOf
    <2>3. Len(toHost[m]) >= 1
      BY <2>2
    <2> QED BY <2>1, <2>2, <2>3
  <1>4. status \in [Mcus -> Nat] /\ status[m] = msg.clock
        /\ \A o \in Mcus \ {m} : status[o] = lastStatus[o]
    BY <1>0, <1>3 DEF TypeOK, MessageType
  <1>5. /\ posts \in [Mcus -> Seq(CommandType)]
        /\ \A o \in Mcus : \A i \in 1..Len(posts[o]) :
             /\ posts[o][i].cmd \in {"trsync_trigger", "trsync_set_timeout"}
             /\ posts[o][i].cmd = "trsync_set_timeout" =>
                  /\ Dispatching /\ msg.can
                  /\ posts[o][i].clock = ExpireFor(o, status)
        /\ \A o \in Mcus : posts[o] # <<>> =>
             Dispatching \/ (o = m /\ Registered(m))
    <2> HIDE DEF status, msg
    <2> QED BY <1>0, <1>3, <1>4, RepliesAre
  <1> HIDE DEF posts, status, msg
  <1>6. \A o \in Mcus : posts[o] # <<>> =>
          phase # "idle" /\ asking # o /\ res[o] = None
    <2>1. Dispatching => /\ phase \in {"moving", "waiting"} /\ asking = None
                         /\ \A o \in Mcus : res[o] = None
      BY <1>0 DEF Dispatching, HostInv
    <2> QED BY <1>5, <2>1, SyncAssumption DEF Registered
  <1>7. ASSUME NEW o \in Mcus
        PROVE  /\ Len(toMcu[o]) \in Nat /\ Len(toMcu'[o]) \in Nat
               /\ Len(toMcu'[o]) >= Len(toMcu[o])
               /\ \A i \in 1..Len(toMcu[o]) : toMcu'[o][i] = toMcu[o][i]
               /\ \A i \in 1..Len(toMcu'[o]) : i \notin 1..Len(toMcu[o]) =>
                    /\ o \notin cut /\ posts[o] # <<>>
                    /\ toMcu'[o][i].cmd \in {"trsync_trigger",
                                             "trsync_set_timeout"}
                    /\ toMcu'[o][i].cmd = "trsync_set_timeout" =>
                         /\ Dispatching /\ msg.can
                         /\ toMcu'[o][i].clock = ExpireFor(o, status)
    <2>1. /\ Len(toMcu[o]) \in Nat /\ Len(toMcu'[o]) \in Nat
          /\ Len(toMcu'[o]) >= Len(toMcu[o])
          /\ \A i \in 1..Len(toMcu[o]) : toMcu'[o][i] = toMcu[o][i]
          /\ \A i \in 1..Len(toMcu'[o]) : i \notin 1..Len(toMcu[o]) =>
                /\ o \notin cut /\ posts[o] # <<>>
                /\ i - Len(toMcu[o]) \in 1..Len(posts[o])
                /\ toMcu'[o][i] = posts[o][i - Len(toMcu[o])]
                /\ Len(toMcu'[o]) = Len(toMcu[o]) + Len(posts[o])
      <3>1. posts \in [Mcus -> Seq(CommandType)]
        BY <1>5
      <3> QED BY <1>0, <1>2, <3>1, PostsAt
    <2>2. ASSUME NEW i \in 1..Len(toMcu'[o]), i \notin 1..Len(toMcu[o])
          PROVE  /\ o \notin cut /\ posts[o] # <<>>
                 /\ toMcu'[o][i].cmd \in {"trsync_trigger",
                                          "trsync_set_timeout"}
                 /\ toMcu'[o][i].cmd = "trsync_set_timeout" =>
                      /\ Dispatching /\ msg.can
                      /\ toMcu'[o][i].clock = ExpireFor(o, status)
      <3>1. /\ o \notin cut /\ posts[o] # <<>>
            /\ i - Len(toMcu[o]) \in 1..Len(posts[o])
            /\ toMcu'[o][i] = posts[o][i - Len(toMcu[o])]
        BY <2>1, <2>2
      <3> QED BY <1>5, <3>1
    <2> QED BY <2>1, <2>2
  <1>8. ASSUME NEW o \in Mcus
        PROVE  Local(o)'
    <2>1. Extended(o)
      BY <1>6, <1>7 DEF Extended
    <2>2. CASE o = m
      <3>1. Shifted(o, 1)
        BY <1>1, <1>3, <2>2 DEF Shifted
      <3> QED BY <1>0, <1>1, <1>3, <2>1, <2>2, <3>1, LineKept
    <2>3. CASE o # m
      <3>1. Len(toHost[o]) \in Nat
        BY FactsAt
      <3>2. Shifted(o, 0)
        BY <1>3, <2>3, <3>1 DEF Shifted
      <3> QED BY <1>0, <1>1, <2>1, <2>3, <3>2, LineKept
    <2> QED BY <2>2, <2>3
  <1>9. HostInv'
    <2>1. ~msg.can => Stopped(m)
      BY <1>0, <1>3 DEF Local, DoneInv
    <2>2. \A o : Stopped(o)' <=> Stopped(o)
      BY <1>1 DEF Stopped, mcuVars
    <2> QED BY <1>0, <1>1, <2>1, <2>2 DEF HostInv
  <1>10. EndstopInv'
    <2>1. endstop' = endstop /\ phase' = phase /\ cut' = cut
      BY <1>1 DEF mcuVars
    <2>2. \A i \in 1..Len(toMcu'[Primary]) : i \notin 1..Len(toMcu[Primary])
            => toMcu'[Primary][i].cmd # "endstop_home"
      BY <1>0, <1>7
    <2> QED BY <1>0, <1>7, <2>1, <2>2, EndstopExtended
  <1>11. \A o \in Mcus :
           /\ Before(o, lastStatus[o])
           /\ \A j \in 1..Len(toHost[o]) :
                toHost[o][j].can => Before(o, toHost[o][j].clock)
           /\ \A j \in 1..Len(toMcu[o]) :
                toMcu[o][j].cmd = "trsync_set_timeout" =>
                  Within(o, toMcu[o][j].clock)
    BY DEF IInv, StatusInv, TimeoutInv
  <1>12. msg.can => \A o \in Mcus : Before(o, status[o])
    <2>1. msg.can => Before(m, status[m])
      BY <1>3, <1>4, <1>11
    <2> QED BY <1>4, <1>11, <2>1
  <1>13. \A o \in Mcus : Clocks(o)'
    <2>1. ASSUME NEW o \in Mcus
          PROVE  /\ Before(o, lastStatus'[o])
                 /\ \A i \in 1..Len(toHost'[o]) :
                      toHost'[o][i].can => Before(o, toHost'[o][i].clock)
                 /\ \A i \in 1..Len(toMcu'[o]) :
                      toMcu'[o][i].cmd = "trsync_set_timeout" =>
                        Within(o, toMcu'[o][i].clock)
      <3>1. Before(o, lastStatus'[o])
        BY <1>1, <1>11, <1>12
      <3>2. ASSUME NEW i \in 1..Len(toHost'[o]), toHost'[o][i].can
            PROVE  Before(o, toHost'[o][i].clock)
        <4>1. PICK j \in 1..Len(toHost[o]) : toHost'[o][i] = toHost[o][j]
          BY <1>3
        <4> QED BY <1>11, <3>2, <4>1
      <3>3. ASSUME NEW i \in 1..Len(toMcu'[o]),
                   toMcu'[o][i].cmd = "trsync_set_timeout"
            PROVE  Within(o, toMcu'[o][i].clock)
        <4>1. CASE i \in 1..Len(toMcu[o])
          <5>1. toMcu'[o][i] = toMcu[o][i]
            BY <1>7, <4>1
          <5> QED BY <1>11, <3>3, <4>1, <5>1
        <4>2. CASE i \notin 1..Len(toMcu[o])
          <5>1. /\ o \notin cut /\ msg.can
                /\ toMcu'[o][i].clock = ExpireFor(o, status)
            BY <1>7, <3>3, <4>2
          <5>2. Within(o, ExpireFor(o, status))
            BY <1>0, <1>1, <1>4, <1>12, <5>1, NewTimeout
          <5> QED BY <5>1, <5>2
        <4> QED BY <4>1, <4>2
      <3> QED BY <3>1, <3>2, <3>3
    <2> QED BY <1>0, <1>1, <2>1, ClocksKept
  <1> QED BY <1>0, <1>8, <1>9, <1>10, <1>13 DEF IInv, Local, Clocks
-----------------------------------------------------------------------------
(* The invariant and the properties.                                       *)

LEMMA NextKeeps == IInv /\ [Next]_vars => IInv'
  <1>1. ASSUME IInv, UNCHANGED vars
        PROVE  IInv'
    <2>1. TypeOK'
      BY <1>1, NextTypes DEF IInv
    <2>2. UNCHANGED <<now, mcuVars, toMcu, toHost, dispatchVars, hostVars,
                      faultVars>>
      BY <1>1 DEF vars
    <2>3. /\ phase' = phase /\ asking' = asking /\ answer' = answer
          /\ res' = res /\ complete' = complete /\ result' = result
          /\ start' = start /\ active' = active /\ canDispatch' = canDispatch
          /\ lastStatus' = lastStatus /\ cut' = cut /\ cutTime' = cutTime
          /\ crashTime' = crashTime /\ lost' = lost
          /\ UNCHANGED <<can, report, reason, armed, expire, nextReport,
                         halted, endstop, stopTime>>
      BY <2>2 DEF mcuVars, dispatchVars, hostVars, faultVars
    <2>4. HostInv' /\ EndstopInv'
      BY <1>1, <2>2, <2>3 DEF IInv, HostInv, EndstopInv, Stopped
    <2>5. ASSUME NEW o \in Mcus
          PROVE  Local(o)'
      <3>1. Local(o) /\ Same(o)
        BY <1>1, <2>2, <2>3, FactsAt DEF Same
      <3> QED BY <2>3, <3>1, LocalKept
    <2>6. \A o \in Mcus : Clocks(o)'
      BY <1>1, <2>1, <2>2, <2>3, ClocksSame
    <2> QED BY <2>1, <2>4, <2>5, <2>6 DEF IInv, Local, Clocks
  <1>2. ASSUME IInv, NEW m \in Mcus, McuStep(m)
        PROVE  IInv'
    BY <1>2, ExpireKeeps, ReportKeeps, TaskKeeps, StartKeeps, SetTimeoutKeeps,
       TriggerKeeps DEF McuStep
  <1>3. ASSUME IInv, Host
        PROVE  IInv'
    BY <1>3, HomeStartKeeps, DispatchStartKeeps, HomeEndKeeps,
       DispatchStopKeeps, ReturnKeeps, HandleKeeps, AskKeeps, CompletedKeeps
       DEF Host
  <1>4. ASSUME IInv, Fault
        PROVE  IInv'
    BY <1>4, CrashKeeps, LoseKeeps, CutKeeps DEF Fault
  <1> QED BY <1>1, <1>2, <1>3, <1>4, EndstopEventKeeps, EndstopCommandKeeps,
             TickKeeps DEF Next

LEMMA InitKeeps == Init => IInv
  <1> SUFFICES ASSUME Init
               PROVE  IInv
    OBVIOUS
  <1>1. TypeOK
    BY InitTypes
  <1>2. /\ now = 0 /\ cut = {} /\ active = FALSE /\ phase = "idle"
        /\ start = 0 /\ asking = None /\ answer = None /\ result = None
        /\ endstop = NoTime /\ crashTime = NoTime
    BY DEF Init
  <1>3. \A m \in Mcus :
          /\ can[m] = FALSE /\ report[m] = FALSE /\ armed[m] = FALSE
          /\ expire[m] = NoTime /\ nextReport[m] = NoTime
          /\ toMcu[m] = <<>> /\ toHost[m] = <<>> /\ res[m] = None
          /\ stopTime[m] = NoTime /\ lastStatus[m] = 0
    BY DEF Init
  <1>4. \A m \in Mcus : /\ \A i \in 1..Len(toMcu[m]) : FALSE
                        /\ \A i \in 1..Len(toHost[m]) : FALSE
    BY <1>3
  <1>5. HostInv /\ EndstopInv
    BY <1>2 DEF HostInv, EndstopInv
  <1>6. ASSUME NEW m \in Mcus
        PROVE  QueueInv(m) /\ DoneInv(m) /\ LifeInv(m) /\ ReasonInv(m)
    <2>1. Quiet(m) /\ ~Waits(m) /\ ~Stopped(m) /\ asking # m
      BY <1>2, <1>3, SyncAssumption DEF Quiet, Waits, Stopped
    <2>2. None # "hit"
      BY DEF None
    <2>3. QueueInv(m) /\ DoneInv(m)
      BY <1>2, <1>3, <1>4, <2>1 DEF QueueInv, DoneInv
    <2>4. LifeInv(m)
      BY <1>2, <1>3, <2>1 DEF LifeInv
    <2>5. ReasonInv(m)
      BY <1>2, <1>3, <1>4, <2>1, <2>2 DEF ReasonInv, Tells
    <2> QED BY <2>3, <2>4, <2>5
  <1>7. ASSUME NEW m \in Mcus
        PROVE  StatusInv(m) /\ TimeoutInv(m) /\ StopInv(m)
    <2>1. ~Stopped(m) /\ HostUp
      BY <1>2, <1>3 DEF Stopped, HostUp
    <2>2. Before(m, 0)
      BY <1>2, <2>1 DEF Before, Late
    <2> QED BY <1>3, <1>4, <2>1, <2>2 DEF StatusInv, TimeoutInv, StopInv
  <1> QED BY <1>1, <1>5, <1>6, <1>7 DEF IInv

(* The inductive invariant: what is on the lines, what the host has heard   *)
(* and the limits of the clocks agree with what the controllers did.       *)
THEOREM Invariance == Spec => []IInv
  BY InitKeeps, NextKeeps, PTL DEF Spec

(* trdispatch.c and trsync.c: whatever the lines do, no controller is still *)
(* running Expire ticks after another one has stopped, a line has failed or *)
(* the host process has ended.                                             *)
THEOREM BoundedStop == Spec => []StopBound
  <1>1. IInv => StopBound
    <2> SUFFICES ASSUME IInv, NEW b \in Mcus, Guarded(b)
                 PROVE  /\ \A a \in Mcus \ {b} :
                             Stopped(a) => now <= Late(stopTime[a]) + Expire
                        /\ \A a \in cut : now <= Late(cutTime[a]) + Expire
                        /\ ~HostUp => now <= Late(crashTime) + Expire
      BY DEF StopBound
    <2>1. now <= expire[b] /\ Within(b, expire[b])
      BY DEF IInv, TimeoutInv, Guarded
    <2>2. /\ now \in Int /\ expire[b] \in Int /\ start \in Int /\ Expire \in Int
          /\ crashTime \in Int /\ cut \subseteq Mcus
          /\ \A a \in Mcus : stopTime[a] \in Int /\ cutTime[a] \in Int
      <3>1. /\ now \in Nat /\ expire[b] \in Times /\ start \in Nat
            /\ crashTime \in Times /\ cut \subseteq Mcus
            /\ \A a \in Mcus : stopTime[a] \in Times /\ cutTime[a] \in Times
        BY DEF IInv, TypeOK
      <3> QED BY <3>1, TimesAre, SyncAssumption
    <2>3. \A u \in Int : Late(u) + Expire \in Int
      BY <2>2 DEF Late
    <2>4. \A u \in Int : expire[b] <= Late(u) + Expire =>
                           now <= Late(u) + Expire
      BY <2>1, <2>2, <2>3
    <2> QED BY <2>1, <2>2, <2>4 DEF Within
  <1> QED BY <1>1, Invariance, PTL

(* MCU_endstop.home_wait: a hit that it returns was one, and by then every  *)
(* controller had stopped in time.                                         *)
THEOREM RealHit == Spec => []HitIsReal
  <1>1. IInv => HitIsReal
    <2> SUFFICES ASSUME IInv, phase = "idle", result = "hit"
                 PROVE  /\ reason[Primary] = "hit"
                        /\ \A m \in Mcus :
                             /\ stopTime[m] # NoTime
                             /\ stopTime[m] <= Late(stopTime[Primary]) + Expire
      BY DEF HitIsReal
    <2>1. res[Primary] = "hit" /\ \A m \in Mcus : res[m] # None
      BY DEF IInv, HostInv, None
    <2>2. reason[Primary] = "hit"
      BY <2>1, SyncAssumption DEF IInv, ReasonInv, Tells
    <2>3. ASSUME NEW m \in Mcus
          PROVE  /\ stopTime[m] # NoTime
                 /\ stopTime[m] <= Late(stopTime[Primary]) + Expire
      <3>1. /\ Stopped(m) /\ ~halted[m] /\ Stopped(Primary)
            /\ Primary \in Mcus
        BY <2>1, SyncAssumption DEF IInv, DoneInv
      <3>2. CASE m = Primary
        BY <3>1, <3>2, StopTimes DEF Stopped, IInv
      <3>3. CASE m # Primary
        BY <3>1, <3>3 DEF Stopped, IInv, StopInv
      <3> QED BY <3>2, <3>3
    <2> QED BY <2>2, <2>3
  <1> QED BY <1>1, Invariance, PTL

(* MCU_endstop.home_wait: it does not return a hit after a controller had   *)
(* a communication timeout, unless an answer was lost.                     *)
THEOREM ReportedTimeout == Spec => []TimeoutReported
  <1>1. IInv => TimeoutReported
    <2> SUFFICES ASSUME IInv, lost = 0, phase = "idle", result = "hit",
                        NEW m \in Mcus
                 PROVE  reason[m] # "timeout"
      BY DEF TimeoutReported
    <2>1. res[m] # None /\ res[m] # "timeout"
      BY DEF IInv, HostInv, None
    <2>2. res[m] = reason[m]
      BY <2>1 DEF IInv, ReasonInv, Tells
    <2> QED BY <2>1, <2>2
  <1> QED BY <1>1, Invariance, PTL

(* trsync_trigger and MCU_trsync.stop: between two moves no trigger is      *)
(* pending and no stepper is armed.                                        *)
THEOREM NothingArmed == Spec => []AllStopped
  <1>1. IInv => AllStopped
    BY DEF IInv, DoneInv, Quiet, AllStopped
  <1> QED BY <1>1, Invariance, PTL

(* handle_trsync_state and _handle_trsync_state: the host ends a move only  *)
(* when a controller has stopped in that move, however old a report is.    *)
THEOREM FreshTrigger == Spec => []NoStaleTrigger
  <1>1. IInv => NoStaleTrigger
    BY DEF IInv, HostInv, NoStaleTrigger
  <1> QED BY <1>1, Invariance, PTL
-----------------------------------------------------------------------------
(* home_wait hears of each controller, unless a report is lost.            *)

(* A step that takes nothing of it away.                                   *)
Kept(m) ==
    /\ halted[m] => halted'[m]
    /\ Waits(m) => Waits(m)'
    /\ nextReport[m] # NoTime => nextReport'[m] # NoTime
    /\ \A i \in 1..Len(toHost[m]) :
          i \in 1..Len(toHost'[m]) /\ toHost'[m][i] = toHost[m][i]

LEMMA KeptSignals ==
    ASSUME NEW m \in Mcus, Kept(m), Signals(m)
    PROVE  Signals(m)'
  BY DEF Kept, Signals

(* A step of o: what m shows stays, or m says that it has stopped.         *)
LEMMA OthersSignals ==
    ASSUME IInv, NEW m \in Mcus, NEW o \in Mcus \ {m}, McuStep(o)
    PROVE  Kept(m)
  <1>1. /\ halted \in [Mcus -> BOOLEAN] /\ nextReport \in [Mcus -> Times]
        /\ toMcu \in [Mcus -> Seq(CommandType)] /\ toHost \in [Mcus -> Seq(MessageType)]
    BY DEF IInv, TypeOK
  <1>2. \A msgs : Sent(o, msgs)[m] = toHost[m]
    BY <1>1 DEF Sent
  <1>3. halted'[m] = halted[m] /\ nextReport'[m] = nextReport[m]
        /\ toMcu'[m] = toMcu[m] /\ toHost'[m] = toHost[m]
    <2>1. CASE ExpireEvent(o) \/ ReportEvent(o)
      BY <1>1, <2>1 DEF ExpireEvent, ReportEvent
    <2>2. CASE TaskReports(o)
      BY <1>2, <2>2 DEF TaskReports
    <2>3. CASE TrsyncStart(o)
      BY <1>1, <2>3 DEF TrsyncStart, Halt, Runs
    <2>4. CASE TrsyncSetTimeout(o)
      BY <1>1, <2>4 DEF TrsyncSetTimeout, Halt, Runs
    <2>5. CASE TrsyncTrigger(o)
      BY <1>1, <1>2, <2>5 DEF TrsyncTrigger, Runs
    <2> QED BY <2>1, <2>2, <2>3, <2>4, <2>5 DEF McuStep
  <1> QED BY <1>3 DEF Kept, Waits

(* m takes a command other than trsync_trigger.                            *)
LEMMA CommandSignals ==
    ASSUME IInv, NEW m \in Mcus, NEW c, Runs(m, c), c # "trsync_start",
           halted[m] => halted'[m], halted'[m] \/ nextReport'[m] = nextReport[m],
           toHost' = toHost, Signals(m)
    PROVE  Signals(m)'
  <1>1. ~Waits(m)
    BY RunsAt DEF Waits
  <1> QED BY <1>1 DEF Signals

LEMMA McuSignals ==
    ASSUME IInv, NEW m \in Mcus, McuStep(m), HostUp, m \notin cut, Signals(m)
    PROVE  Signals(m)'
  <1>1. /\ halted \in [Mcus -> BOOLEAN] /\ nextReport \in [Mcus -> Times] /\ TypeOK
        /\ now \in Nat /\ NoTime \notin Nat
    BY TimesAre DEF IInv, TypeOK
  <1>2. CASE ExpireEvent(m)
    BY <1>2, KeptSignals DEF ExpireEvent, Kept, Waits
  <1>3. CASE ReportEvent(m)
    <2>1. nextReport'[m] = nextReport[m] + Report /\ nextReport[m] \in Nat
      BY <1>1, <1>3, TimesAre DEF ReportEvent
    <2>2. nextReport'[m] # NoTime
      BY <1>1, <2>1, SyncAssumption
    <2> QED BY <2>2 DEF Signals
  <1>4. CASE TaskReports(m)
    <2> DEFINE new == <<State(can[m], reason[m], now)>>
    <2>1. new \in Seq(MessageType) /\ toHost' = Sent(m, new)
      BY <1>1, <1>4 DEF TaskReports, State, MessageType, TypeOK
    <2> HIDE DEF new
    <2>2. \A i \in 1..Len(toHost[m]) :
             i \in 1..Len(toHost'[m]) /\ toHost'[m][i] = toHost[m][i]
      <3>1. /\ Len(toHost[m]) \in Nat /\ Len(new) \in Nat
            /\ \/ Len(toHost'[m]) = Len(toHost[m])
               \/ Len(toHost'[m]) = Len(toHost[m]) + Len(new)
            /\ \A i \in 1..Len(toHost[m]) : toHost'[m][i] = toHost[m][i]
        BY <2>1, SendsAt
      <3> QED BY <3>1
    <2> QED BY <1>4, <2>2, KeptSignals DEF TaskReports, Kept, Waits
  <1>5. CASE TrsyncStart(m)
    <2>1. halted'[m] \/ nextReport'[m] \in Nat
      BY <1>1, <1>5, RunsAt DEF TrsyncStart, Halt
    <2> QED BY <1>1, <2>1 DEF Signals
  <1>6. CASE TrsyncSetTimeout(m)
    BY <1>1, <1>6, CommandSignals DEF TrsyncSetTimeout, Halt
  <1>7. CASE TrsyncTrigger(m)
    <2> DEFINE L == Len(toHost[m])
               new == <<State(FALSE, reason'[m], 0)>>
                        \o (IF Head(toMcu[m]).cmd = "query" THEN <<Done>> ELSE <<>>)
    <2>1. TypeOK'
      BY <1>7, McuTypes DEF IInv, McuStep
    <2>2. State(FALSE, reason'[m], 0) \in MessageType /\ Done \in MessageType
      BY <2>1 DEF State, Done, MessageType, Reasons, TypeOK
    <2>3. new \in Seq(MessageType) /\ Len(new) >= 1 /\ ~new[1].can
      BY <2>2 DEF State
    <2>4. toHost' = [toHost EXCEPT ![m] = toHost[m] \o new] /\ toHost[m] \in Seq(MessageType)
      BY <1>1, <1>7 DEF TrsyncTrigger, Sent, Heard, TypeOK
    <2>5. toHost'[m] = toHost[m] \o new
      BY <1>1, <2>4 DEF TypeOK
    <2> HIDE DEF new
    <2>6. /\ L \in Nat /\ Len(new) \in Nat /\ Len(toHost'[m]) = L + Len(new)
          /\ \A i \in 1..Len(toHost'[m]) :
                i \notin 1..L => toHost'[m][i] = new[i - L]
      BY <2>3, <2>4, <2>5, ConcatOf
    <2> HIDE DEF L
    <2>7. L + 1 \in 1..Len(toHost'[m]) /\ toHost'[m][L + 1] = new[(L + 1) - L]
      BY <2>3, <2>6
    <2>8. (L + 1) - L = 1
      BY <2>6
    <2> QED BY <2>3, <2>7, <2>8 DEF Signals
  <1> QED BY <1>2, <1>3, <1>4, <1>5, <1>6, <1>7 DEF McuStep

LEMMA EndstopSignals ==
    ASSUME IInv, NEW m \in Mcus, EndstopEvent \/ EndstopHome \/ EndstopOff, Signals(m)
    PROVE  Signals(m)'
  <1>1. /\ halted \in [Mcus -> BOOLEAN] /\ nextReport \in [Mcus -> Times]
        /\ toMcu \in [Mcus -> Seq(CommandType)] /\ Primary \in Mcus
    BY SyncAssumption DEF IInv, TypeOK
  <1>2. CASE EndstopEvent
    BY <1>2, KeptSignals DEF EndstopEvent, Kept, Waits
  <1>3. CASE EndstopHome \/ EndstopOff
    <2>1. CASE m = Primary
      BY <1>1, <1>3, <2>1, CommandSignals DEF EndstopHome, EndstopOff, Halt
    <2>2. CASE m # Primary
      <3>1. halted'[m] = halted[m] /\ nextReport'[m] = nextReport[m]
            /\ toMcu'[m] = toMcu[m] /\ toHost' = toHost
        BY <1>1, <1>3, <2>2 DEF EndstopHome, EndstopOff, Halt, Runs
      <3> QED BY <3>1, KeptSignals DEF Kept, Waits
    <2> QED BY <2>1, <2>2
  <1> QED BY <1>2, <1>3

(* A command is added to a line: the oldest one stays.                     *)
LEMMA PostedKept ==
    ASSUME IInv, NEW m \in Mcus, NEW msgs \in [Mcus -> Seq(CommandType)],
           toMcu' = Posted(msgs), toHost' = toHost, UNCHANGED mcuVars
    PROVE  Kept(m)
  <1>1. /\ Len(toMcu[m]) \in Nat /\ Len(toMcu'[m]) \in Nat
        /\ Len(toMcu'[m]) >= Len(toMcu[m])
        /\ \A i \in 1..Len(toMcu[m]) : toMcu'[m][i] = toMcu[m][i]
    BY PostsAt DEF IInv
  <1>2. /\ toMcu[m] # <<>> <=> Len(toMcu[m]) > 0
        /\ toMcu'[m] # <<>> <=> Len(toMcu'[m]) > 0
    <2>1. toMcu[m] \in Seq(CommandType) /\ toMcu'[m] \in Seq(CommandType)
      BY PostedAt DEF IInv, TypeOK
    <2> QED BY <1>1, <2>1, EmptySeq
  <1>3. Waits(m) => Waits(m)'
    BY <1>1, <1>2 DEF Waits
  <1> QED BY <1>3 DEF Kept, mcuVars

(* The first commands of a move go to an empty line.                       *)
LEMMA StartSignals ==
    ASSUME IInv, NEW m \in Mcus \ cut, HomeStart
    PROVE  Signals(m)'
  <1> DEFINE t == now + Lead
             msgs == [o \in Mcus |-> <<Start(t), SetTimeout(t + Expire)>>]
  <1>1. phase = "idle" /\ toMcu' = Posted(msgs)
    BY DEF HomeStart
  <1>2. toMcu[m] = <<>>
    BY <1>1 DEF IInv, DoneInv
  <1>3. Start(t) \in CommandType /\ SetTimeout(t + Expire) \in CommandType
    <2>1. t \in Nat /\ t + Expire \in Nat
      BY SyncAssumption DEF IInv, TypeOK
    <2> QED BY <2>1, CommandTypes
  <1>4. msgs \in [Mcus -> Seq(CommandType)]
    BY <1>3
  <1>5. toMcu'[m] = toMcu[m] \o msgs[m]
    BY <1>1, <1>4, PostedAt DEF IInv
  <1>6. toMcu'[m] = <<Start(t), SetTimeout(t + Expire)>>
    BY <1>2, <1>5
  <1>7. toMcu'[m] # <<>> /\ toMcu'[m][1].cmd = "trsync_start"
    BY <1>6 DEF Start, Command
  <1> QED BY <1>7 DEF Signals, Waits

(* A report that says so completes _trigger_completion; others are handled *)
(* in their order.                                                         *)
LEMMA HandleSignals ==
    ASSUME IInv, NEW m \in Mcus \ cut, NEW o \in Mcus, HandleState(o), Listening,
           ~complete', Signals(m)
    PROVE  Signals(m)'
  <1> DEFINE msg == Head(toHost[o])
             status == [lastStatus EXCEPT ![o] = msg.clock]
  <1>1. /\ TypeOK /\ HostInv /\ toHost[o] # <<>> /\ toHost[o] \in Seq(MessageType)
        /\ UNCHANGED mcuVars /\ toHost' = [toHost EXCEPT ![o] = Tail(@)]
        /\ toMcu' = Posted(Replies(o, msg, status))
    BY DEF HandleState, IInv, TypeOK, Replies
  <1>2. /\ Head(toHost[o]) = toHost[o][1] /\ msg \in MessageType
        /\ Len(toHost[o]) \in Nat /\ Len(Tail(toHost[o])) = Len(toHost[o]) - 1
        /\ \A i \in 1..Len(Tail(toHost[o])) : Tail(toHost[o])[i] = toHost[o][i+1]
    BY <1>1, TailOf
  <1>3. status \in [Mcus -> Nat]
    BY <1>1, <1>2 DEF TypeOK, MessageType
  <1>4. Replies(o, msg, status) \in [Mcus -> Seq(CommandType)]
    BY <1>1, <1>2, <1>3, RepliesAre
  <1>5. Registered(o)
    <2>1. asking = None /\ res[o] = None /\ phase # "idle"
      BY <1>1 DEF HostInv, Listening
    <2> QED BY <2>1, SyncAssumption DEF Registered
  <1>6. msg.can
    <2>1. complete' = (complete \/ (Registered(o) /\ ~msg.can))
      BY DEF HandleState
    <2> QED BY <1>5, <2>1
  <1>7. halted'[m] = halted[m] /\ nextReport'[m] = nextReport[m]
    BY <1>1 DEF mcuVars
  <1>8. Waits(m) => Waits(m)'
    <2>1. /\ Len(toMcu[m]) \in Nat /\ Len(toMcu'[m]) \in Nat
          /\ Len(toMcu'[m]) >= Len(toMcu[m])
          /\ \A i \in 1..Len(toMcu[m]) : toMcu'[m][i] = toMcu[m][i]
      BY <1>1, <1>4, PostsAt
    <2>2. toMcu[m] \in Seq(CommandType) /\ toMcu'[m] \in Seq(CommandType)
      BY <1>1, <1>4, PostedAt DEF TypeOK
    <2>3. /\ toMcu[m] # <<>> <=> Len(toMcu[m]) > 0
          /\ toMcu'[m] # <<>> <=> Len(toMcu'[m]) > 0
      BY <2>1, <2>2, EmptySeq
    <2> QED BY <2>1, <2>3 DEF Waits
  <1>9. ASSUME NEW i \in 1..Len(toHost[m]), ~toHost[m][i].can
        PROVE  \E j \in 1..Len(toHost'[m]) : ~toHost'[m][j].can
    <2>1. CASE m # o
      BY <1>1, <1>9, <2>1 DEF TypeOK
    <2>2. CASE m = o
      <3>1. toHost'[m] = Tail(toHost[m])
        BY <1>1, <2>2 DEF TypeOK
      <3>2. i # 1
        BY <1>2, <1>6, <1>9, <2>2
      <3>3. i - 1 \in 1..Len(toHost'[m]) /\ toHost'[m][i - 1] = toHost[m][(i - 1) + 1]
        BY <1>2, <1>9, <2>2, <3>1, <3>2
      <3>4. (i - 1) + 1 = i
        BY <1>2
      <3> QED BY <1>9, <3>3, <3>4
    <2> QED BY <2>1, <2>2
  <1> QED BY <1>7, <1>8, <1>9 DEF Signals

LEMMA SignalsStep == IInv /\ EachIsHeard /\ [Next]_vars => EachIsHeard'
  <1> SUFFICES ASSUME IInv, EachIsHeard, [Next]_vars, lost' = 0, Listening',
                      NEW m \in Mcus, m \notin cut'
               PROVE  Signals(m)'
    BY DEF EachIsHeard
  <1>1. /\ TypeOK /\ HostInv /\ lost \in Nat /\ now \in Nat /\ NoTime \notin Nat
        /\ asking = None => \A i \in 1..Len(toHost[m]) : ~toHost[m][i].done
    BY TimesAre, SyncAssumption DEF IInv, TypeOK, DoneInv
  <1>2. CASE HomeStart
    <2>1. m \notin cut
      BY <1>2 DEF HomeStart, faultVars
    <2> QED BY <1>2, <2>1, StartSignals
  <1>3. ASSUME lost = 0, Listening, m \notin cut PROVE Signals(m)
    BY <1>3 DEF EachIsHeard
  <1>4. ASSUME NEW o \in Mcus, McuStep(o) PROVE Signals(m)'
    <2>1. UNCHANGED <<hostVars, faultVars>>
      BY <1>4 DEF McuStep, ExpireEvent, ReportEvent, TaskReports, TrsyncStart,
         TrsyncSetTimeout, TrsyncTrigger, Runs
    <2>2. lost = 0 /\ Listening /\ m \notin cut
      BY <2>1 DEF hostVars, faultVars, Listening, HostUp
    <2>3. CASE o = m
      BY <1>3, <1>4, <2>2, <2>3, McuSignals DEF Listening
    <2>4. CASE o # m
      BY <1>3, <1>4, <2>2, <2>4, OthersSignals, KeptSignals
    <2> QED BY <2>3, <2>4
  <1>5. CASE EndstopEvent \/ EndstopHome \/ EndstopOff
    <2>1. UNCHANGED <<hostVars, faultVars>>
      BY <1>5 DEF EndstopEvent, EndstopHome, EndstopOff, Runs
    <2>2. lost = 0 /\ Listening /\ m \notin cut
      BY <2>1 DEF hostVars, faultVars, Listening, HostUp
    <2> QED BY <1>3, <1>5, <2>2, EndstopSignals
  <1>6. CASE TrdispatchStart
    <2>1. lost = 0 /\ Listening /\ m \notin cut /\ UNCHANGED mcuVars /\ toHost' = toHost
      BY <1>6 DEF TrdispatchStart, faultVars, Listening, HostUp
    <2>2. Only(Primary, <<Home(start)>>) \in [Mcus -> Seq(CommandType)]
      <3>1. Home(start) \in CommandType
        BY <1>1, CommandTypes DEF TypeOK
      <3> QED BY <3>1 DEF Only
    <2>3. Kept(m)
      BY <1>6, <2>1, <2>2, PostedKept DEF TrdispatchStart
    <2> QED BY <1>3, <2>1, <2>3, KeptSignals
  <1>7. CASE SetHomeEndTime \/ Tick \/ UNCHANGED vars
    <2>1. lost = 0 /\ Listening /\ m \notin cut
      BY <1>7 DEF SetHomeEndTime, Tick, vars, hostVars, faultVars, Listening, HostUp
    <2>2. UNCHANGED <<mcuVars, toMcu, toHost>>
      BY <1>7 DEF SetHomeEndTime, Tick, vars
    <2>3. Kept(m)
      BY <2>2 DEF Kept, Waits, mcuVars
    <2> QED BY <1>3, <2>1, <2>3, KeptSignals
  <1>8. ASSUME NEW o \in Mcus, HandleState(o) PROVE Signals(m)'
    <2>1. lost = 0 /\ Listening /\ m \notin cut /\ ~complete'
      BY <1>8 DEF HandleState, faultVars, Listening, HostUp
    <2> QED BY <1>3, <1>8, <2>1, HandleSignals
  <1>9. ASSUME NEW o \in Mcus, CutLink(o) PROVE Signals(m)'
    <2>1. lost = 0 /\ Listening /\ m \notin cut /\ m # o /\ UNCHANGED mcuVars
          /\ toMcu'[m] = toMcu[m] /\ toHost'[m] = toHost[m]
      BY <1>1, <1>9 DEF CutLink, hostVars, Listening, HostUp, TypeOK
    <2>2. Kept(m)
      BY <2>1 DEF Kept, Waits, mcuVars
    <2> QED BY <1>3, <2>1, <2>2, KeptSignals
  <1>10. ~TrdispatchStop /\ ~HomeWaitReturns
    BY DEF TrdispatchStop, HomeWaitReturns, Listening
  <1>11. ASSUME NEW o \in Mcus PROVE ~Ask(o)
    BY DEF Ask, Listening
  <1>12. ASSUME NEW o \in Mcus PROVE ~Completed(o)
    <2> SUFFICES ASSUME Completed(o) PROVE FALSE
      OBVIOUS
    <2>1. toHost[o] \in Seq(MessageType) /\ toHost[o] # <<>> /\ Head(toHost[o]).done
      BY <1>1 DEF Completed, TypeOK
    <2>2. 1 \in 1..Len(toHost[o]) /\ toHost[o][1].done
      BY <2>1, TailOf
    <2>3. asking = o
      BY <2>2 DEF IInv, DoneInv
    <2>4. phase = "stopping"
      BY <1>1, <2>3, SyncAssumption DEF HostInv
    <2>5. phase' \in {phase, "failed"}
      BY DEF Completed
    <2> QED BY <2>4, <2>5 DEF Listening
  <1>13. ASSUME NEW o \in Mcus PROVE ~Lose(o)
    <2>1. lost + 1 # 0
      BY <1>1
    <2> QED BY <2>1 DEF Lose, Listening
  <1>14. ~HostCrash
    BY <1>1 DEF HostCrash, Listening, HostUp
  <1> QED BY <1>2, <1>4, <1>5, <1>6, <1>7, <1>8, <1>9, <1>10, <1>11, <1>12, <1>13, <1>14
      DEF Next, Host, Fault

(* MCU_trsync._handle_trsync_state and home_wait: while the host waits it   *)
(* hears of every controller, unless a report was lost.                    *)
THEOREM EachIsHeardHolds == Spec => []EachIsHeard
  <1>1. Init => EachIsHeard
    BY DEF Init, EachIsHeard, Listening
  <1> QED BY <1>1, SignalsStep, Invariance, PTL DEF Spec

(* It is a lost report, and nothing else, that leaves home_wait waiting:   *)
(* WaitEnds, which docs/Protocol.md wants, holds until one is lost.        *)
THEOREM WaitEndsUnlessLost == Spec => [](lost = 0 => WaitEnds)
  <1>1. IInv /\ EachIsHeard => (lost = 0 => WaitEnds)
    <2> SUFFICES ASSUME IInv, EachIsHeard, lost = 0, phase = "waiting", ~complete, HostUp,
                        cut = {}
                 PROVE  \E m \in Mcus : \/ nextReport[m] # NoTime \/ report[m] \/ halted[m]
                                        \/ toMcu[m] # <<>> \/ toHost[m] # <<>>
      BY DEF WaitEnds
    <2>1. Primary \in Mcus /\ Signals(Primary)
      BY SyncAssumption DEF EachIsHeard, Listening
    <2>2. toHost[Primary] # <<>> <=> Len(toHost[Primary]) > 0
      BY <2>1, FactsAt
    <2>3. \A i \in 1..Len(toHost[Primary]) : Len(toHost[Primary]) > 0
      BY <2>1, FactsAt
    <2> QED BY <2>1, <2>2, <2>3 DEF Signals, Waits
  <1> QED BY <1>1, EachIsHeardHolds, Invariance, PTL
-----------------------------------------------------------------------------
(* One homing move out of what all controllers do: HomingMove.             *)

LEMMA DoingSame ==
    ASSUME NEW o \in Mcus, can'[o] = can[o], halted'[o] = halted[o],
           reason'[o] = reason[o], stopTime'[o] = stopTime[o]
    PROVE  Doing(o)' = Doing(o)
  BY DEF Doing, Stopped

(* A step of one controller within a move.                                 *)
LEMMA OneStep ==
    ASSUME NEW m \in Mcus, phase # "idle", phase' = phase, result' = result,
           \A o \in Mcus \ {m} : Doing(o)' = Doing(o),
           \/ Doing(m)' = Doing(m)
           \/ Doing(m) = "still" /\ Doing(m)' = "moving"
           \/ Doing(m) = "moving" /\ Doing(m)' = "stopped"
           \/ Doing(m) = "moving" /\ Doing(m)' = "hit" /\ m = Primary
           \/ Doing(m)' = "shutdown"
    PROVE  [HomingMove!Next]_(HomingMove!vars)
  <1> DEFINE at == [o \in Mcus |-> Doing(o)]
  <1>1. at' = [at EXCEPT ![m] = Doing(m)']
    OBVIOUS
  <1>2. at[m] = Doing(m) /\ at \in [Mcus -> {Doing(o) : o \in Mcus}]
    OBVIOUS
  <1>3. ((phase # "idle") <=> (phase # "idle")') /\ phase # "idle"
    OBVIOUS
  <1>4. CASE Doing(m)' = Doing(m)
    <2>1. at' = at
      BY <1>4
    <2> QED BY <1>3, <2>1 DEF HomingMove!vars
  <1>5. CASE Doing(m) = "still" /\ Doing(m)' = "moving"
    BY <1>1, <1>2, <1>3, <1>5 DEF HomingMove!Next, HomingMove!Go
  <1>6. CASE Doing(m) = "moving" /\ Doing(m)' = "stopped"
    BY <1>1, <1>2, <1>3, <1>6 DEF HomingMove!Next, HomingMove!Stop, HomingMove!Halted
  <1>7. CASE Doing(m) = "moving" /\ Doing(m)' = "hit" /\ m = Primary
    BY <1>1, <1>2, <1>3, <1>7 DEF HomingMove!Next, HomingMove!Stop, HomingMove!Halted
  <1>8. CASE Doing(m)' = "shutdown"
    BY <1>1, <1>3, <1>8 DEF HomingMove!Next, HomingMove!Shutdown
  <1> QED BY <1>4, <1>5, <1>6, <1>7, <1>8

(* A step that leaves the controllers alone and the move open or closed.   *)
LEMMA NoStep ==
    ASSUME \A m \in Mcus : Doing(m)' = Doing(m),
           phase' = "idle" <=> phase = "idle", result' = result
    PROVE  [HomingMove!Next]_(HomingMove!vars)
  <1>1. [m \in Mcus |-> Doing(m)]' = [m \in Mcus |-> Doing(m)]
    OBVIOUS
  <1>2. (phase # "idle")' = (phase # "idle")
    OBVIOUS
  <1> QED BY <1>1, <1>2 DEF HomingMove!vars

LEMMA TriggerDoing ==
    ASSUME IInv, NEW m \in Mcus, NEW r \in Reasons, DoTrigger(m, r),
           r = "hit" => m = Primary, UNCHANGED halted
    PROVE  /\ \A o \in Mcus \ {m} : Doing(o)' = Doing(o)
           /\ \/ Doing(m)' = Doing(m)
              \/ Doing(m) = "moving" /\ Doing(m)' = "stopped"
              \/ Doing(m) = "moving" /\ Doing(m)' = "hit" /\ m = Primary
  <1>1. TypeOK /\ now # NoTime
    BY FactsAt
  <1>2. \A o \in Mcus \ {m} : Doing(o)' = Doing(o)
    BY <1>1, DoTriggerAt, DoingSame
  <1>3. CASE ~can[m] \/ halted[m]
    BY <1>1, <1>3, DoTriggerAt DEF Doing, Stopped
  <1>4. CASE can[m] /\ ~halted[m]
    BY <1>1, <1>4, DoTriggerAt DEF Doing, Stopped
  <1> QED BY <1>2, <1>3, <1>4

LEMMA HaltDoing ==
    ASSUME IInv, NEW m \in Mcus, Halt(m)
    PROVE  /\ \A o \in Mcus \ {m} : Doing(o)' = Doing(o)
           /\ Doing(m)' = "shutdown"
  <1>1. TypeOK
    BY DEF IInv
  <1>2. /\ halted'[m]
        /\ \A o \in Mcus \ {m} :
             /\ can'[o] = can[o] /\ halted'[o] = halted[o]
             /\ reason'[o] = reason[o] /\ stopTime'[o] = stopTime[o]
    BY <1>1 DEF Halt, TypeOK
  <1> QED BY <1>2, DoingSame DEF Doing

LEMMA McuMoves ==
    ASSUME IInv, NEW m \in Mcus, McuStep(m) \/ EndstopEvent \/ EndstopHome \/ EndstopOff
    PROVE  [HomingMove!Next]_(HomingMove!vars)
  <1>1. /\ TypeOK /\ Local(m) /\ Local(Primary) /\ Primary \in Mcus
        /\ "timeout" \in Reasons /\ "hit" \in Reasons
    BY FactsAt, SyncAssumption DEF Reasons
  <1>2. \A o \in Mcus : \A c : Runs(o, c) => phase # "idle" /\ phase' = phase /\ result' = result
    BY RunsAt DEF hostVars
  <1>3. \A o \in Mcus : UNCHANGED <<can, halted, reason, stopTime>> => Doing(o)' = Doing(o)
    BY DoingSame
  <1>4. CASE ExpireEvent(m)
    <2>1. phase # "idle" /\ phase' = phase /\ result' = result /\ UNCHANGED halted
      BY <1>1, <1>4 DEF ExpireEvent, Local, DoneInv, Quiet, hostVars
    <2> QED BY <1>1, <1>4, <2>1, TriggerDoing, OneStep DEF ExpireEvent
  <1>5. CASE EndstopEvent
    <2>1. phase # "idle" /\ phase' = phase /\ result' = result /\ UNCHANGED halted
      BY <1>1, <1>5 DEF EndstopEvent, Local, DoneInv, Quiet, hostVars
    <2> QED BY <1>1, <1>5, <2>1, TriggerDoing, OneStep DEF EndstopEvent
  <1>6. CASE ReportEvent(m) \/ TaskReports(m) \/ EndstopOff
    <2>1. UNCHANGED <<can, halted, reason, stopTime>> /\ phase' = phase /\ result' = result
      BY <1>6 DEF ReportEvent, TaskReports, EndstopOff, Runs, hostVars
    <2> QED BY <1>3, <2>1, NoStep
  <1>7. CASE TrsyncStart(m)
    <2>1. Runs(m, "trsync_start")
      BY <1>7 DEF TrsyncStart
    <2>2. CASE Halt(m)
      BY <1>2, <2>1, <2>2, HaltDoing, OneStep
    <2>3. CASE /\ can' = [can EXCEPT ![m] = TRUE]
               /\ reason' = [reason EXCEPT ![m] = "zero"]
               /\ UNCHANGED <<halted, stopTime>>
      <3>1. Waits(m) /\ ~halted[m]
        BY <2>1, RunsAt, FactsAt DEF Waits
      <3>2. ~can[m] /\ stopTime[m] = NoTime
        BY <1>1, <3>1 DEF Local, QueueInv, Quiet
      <3>3. Doing(m) = "still" /\ Doing(m)' = "moving"
        BY <1>1, <2>3, <3>1, <3>2 DEF Doing, Stopped, TypeOK
      <3>4. \A o \in Mcus \ {m} : Doing(o)' = Doing(o)
        BY <1>1, <2>3, DoingSame DEF TypeOK
      <3> QED BY <1>2, <2>1, <3>3, <3>4, OneStep
    <2> QED BY <1>7, <2>2, <2>3 DEF TrsyncStart
  <1>8. CASE TrsyncSetTimeout(m)
    <2>1. Runs(m, "trsync_set_timeout")
      BY <1>8 DEF TrsyncSetTimeout
    <2>2. CASE Halt(m)
      BY <1>2, <2>1, <2>2, HaltDoing, OneStep
    <2>3. CASE UNCHANGED <<can, halted, reason, stopTime>>
      BY <1>2, <1>3, <2>1, <2>3, NoStep
    <2> QED BY <1>8, <2>2, <2>3 DEF TrsyncSetTimeout
  <1>9. CASE EndstopHome
    <2>1. Runs(Primary, "endstop_home")
      BY <1>9 DEF EndstopHome
    <2>2. CASE Halt(Primary)
      BY <1>1, <1>2, <2>1, <2>2, HaltDoing, OneStep
    <2>3. CASE UNCHANGED <<can, halted, reason, stopTime>>
      BY <1>1, <1>2, <1>3, <2>1, <2>3, NoStep
    <2> QED BY <1>9, <2>2, <2>3 DEF EndstopHome
  <1>10. CASE TrsyncTrigger(m)
    <2>1. PICK q \in {"trsync_trigger", "query"} : Runs(m, q)
      BY <1>10 DEF TrsyncTrigger
    <2>2. Head(toMcu[m]) \in CommandType /\ Head(toMcu[m]).cmd = q
      <3>1. toMcu[m] \in Seq(CommandType) /\ toMcu[m] # <<>>
        BY <1>1, <2>1 DEF Runs, TypeOK
      <3> QED BY <2>1, <3>1, TailOf DEF Runs
    <2>3. Head(toMcu[m]).reason \in Reasons /\ Head(toMcu[m]).reason # "hit"
      BY <2>2 DEF CommandType
    <2>4. DoTrigger(m, Head(toMcu[m]).reason) /\ UNCHANGED halted
      BY <1>10 DEF TrsyncTrigger
    <2> QED BY <1>2, <2>1, <2>3, <2>4, TriggerDoing, OneStep
  <1> QED BY <1>4, <1>5, <1>6, <1>7, <1>8, <1>9, <1>10 DEF McuStep

LEMMA BeginMoves ==
    ASSUME IInv, HomeStart
    PROVE  HomingMove!Begin
  <1>1. phase = "idle" /\ phase' = "started" /\ result' = None
        /\ UNCHANGED <<can, halted, reason>>
        /\ stopTime' = [m \in Mcus |-> NoTime]
    BY DEF HomeStart
  <1>2. \A m \in Mcus : ~can[m] /\ halted[m] \in BOOLEAN
    BY <1>1 DEF IInv, DoneInv, Quiet, TypeOK
  <1>3. \A m \in Mcus : Doing(m) # "moving" /\ (Doing(m) = "shutdown" <=> halted[m])
    BY <1>2 DEF Doing
  <1>4. \A m \in Mcus : Doing(m)' = IF Doing(m) = "shutdown" THEN Doing(m) ELSE "still"
    <2> SUFFICES ASSUME NEW m \in Mcus
                 PROVE  Doing(m)' = IF Doing(m) = "shutdown" THEN Doing(m) ELSE "still"
      OBVIOUS
    <2>1. halted'[m] = halted[m] /\ can'[m] = can[m] /\ stopTime'[m] = NoTime
      BY <1>1
    <2> QED BY <1>2, <1>3, <2>1 DEF Doing, Stopped
  <1> QED BY <1>1, <1>3, <1>4 DEF HomingMove!Begin

LEMMA ReturnMoves ==
    ASSUME IInv, HomeWaitReturns
    PROVE  HomingMove!Return
  <1>1. phase = "stopping" /\ phase' = "idle" /\ result' = Verdict /\ UNCHANGED mcuVars
        /\ \A m \in Mcus : res[m] # None
    BY DEF HomeWaitReturns, Answered
  <1>2. \A m \in Mcus : /\ ~can[m] /\ Stopped(m) /\ ~halted[m]
                        /\ res[m] = "zero" \/ res[m] = reason[m]
    BY <1>1 DEF IInv, DoneInv, Quiet, ReasonInv, Tells
  <1>3. \A m \in Mcus : Doing(m) = IF reason[m] = "hit" THEN "hit" ELSE "stopped"
    BY <1>2 DEF Doing
  <1>4. \A m \in Mcus : Doing(m)' = Doing(m)
    BY <1>1, DoingSame DEF mcuVars
  <1>5. /\ Verdict \in HomingMove!Outcomes
        /\ Verdict = "hit" => Doing(Primary) = "hit"
        /\ Verdict = "timeout" => \E m \in Mcus : Doing(m) = "stopped"
    BY <1>2, <1>3, SyncAssumption DEF Verdict, HomingMove!Outcomes
  <1>6. \A m \in Mcus : Doing(m) \in HomingMove!Halted
    BY <1>3 DEF HomingMove!Halted
  <1> QED BY <1>1, <1>4, <1>5, <1>6, SyncAssumption DEF HomingMove!Return

LEMMA StepMoves == IInv /\ [Next]_vars => [HomingMove!Next]_(HomingMove!vars)
  <1> SUFFICES ASSUME IInv, [Next]_vars
               PROVE  [HomingMove!Next]_(HomingMove!vars)
    OBVIOUS
  <1>1. UNCHANGED mcuVars => \A m \in Mcus : Doing(m)' = Doing(m)
    BY DoingSame DEF mcuVars
  <1>2. ASSUME NEW m \in Mcus, McuStep(m) PROVE [HomingMove!Next]_(HomingMove!vars)
    BY <1>2, McuMoves
  <1>3. CASE EndstopEvent \/ EndstopHome \/ EndstopOff
    BY <1>3, McuMoves, SyncAssumption
  <1>4. CASE HomeStart
    BY <1>4, BeginMoves DEF HomingMove!Next
  <1>5. CASE HomeWaitReturns
    BY <1>5, ReturnMoves DEF HomingMove!Next
  <1>6. CASE TrdispatchStart \/ SetHomeEndTime \/ TrdispatchStop \/ Tick \/ HostCrash
             \/ UNCHANGED vars
    <2>1. UNCHANGED mcuVars /\ result' = result /\ (phase' = "idle" <=> phase = "idle")
      BY <1>6 DEF TrdispatchStart, SetHomeEndTime, TrdispatchStop, Tick, HostCrash, vars,
         hostVars
    <2> QED BY <1>1, <2>1, NoStep
  <1>7. ASSUME NEW m \in Mcus, HandleState(m) \/ Ask(m) \/ Lose(m) \/ CutLink(m)
        PROVE  [HomingMove!Next]_(HomingMove!vars)
    <2>1. UNCHANGED mcuVars /\ result' = result /\ phase' = phase
      BY <1>7 DEF HandleState, Ask, Lose, CutLink, hostVars
    <2> QED BY <1>1, <2>1, NoStep
  <1>8. ASSUME NEW m \in Mcus, Completed(m) PROVE [HomingMove!Next]_(HomingMove!vars)
    <2>1. toHost[m] \in Seq(MessageType) /\ toHost[m] # <<>> /\ Head(toHost[m]).done
      BY <1>8 DEF Completed, IInv, TypeOK
    <2>2. 1 \in 1..Len(toHost[m]) /\ toHost[m][1].done
      BY <2>1, TailOf
    <2>3. phase = "stopping"
      <3>1. asking = m
        BY <2>2 DEF IInv, DoneInv
      <3> QED BY <3>1, SyncAssumption DEF IInv, HostInv
    <2>4. UNCHANGED mcuVars /\ result' = result /\ phase' \in {phase, "failed"}
      BY <1>8 DEF Completed
    <2> QED BY <1>1, <2>3, <2>4, NoStep
  <1> QED BY <1>2, <1>3, <1>4, <1>5, <1>6, <1>7, <1>8 DEF Next, Host, Fault

(* trsync.c, trdispatch.c, home_start and home_wait implement HomingMove:   *)
(* one homing move out of many controllers, however many there are.        *)
THEOREM SyncIsOneMove == Spec => ImplementsMove
  <1>1. Init => HomingMove!Init
    BY DEF Init, HomingMove!Init, Doing, Stopped
  <1> QED BY <1>1, StepMoves, Invariance, PTL DEF Spec, ImplementsMove, HomingMove!Spec
=============================================================================
