------------------------- MODULE ReactorMutexProofs -------------------------
(***************************************************************************)
(* Proofs about the G-code mutex for any set of greenlets.                 *)
(***************************************************************************)
EXTENDS ReactorMutex, TLAPS

(* What popping the head of a queue without repetitions leaves behind. *)
LEMMA TailFacts ==
    ASSUME NEW S, NEW s \in Seq(S), s # <<>>,
           \A i, j \in 1..Len(s) : s[i] = s[j] => i = j
    PROVE  /\ Tail(s) \in Seq(S)
           /\ Len(Tail(s)) = Len(s) - 1
           /\ Head(s) = s[1] /\ 1 \in 1..Len(s) /\ Head(s) \in S
           /\ \A i \in 1..Len(Tail(s)) : Tail(s)[i] = s[i + 1]
           /\ \A i, j \in 1..Len(Tail(s)) : Tail(s)[i] = Tail(s)[j] => i = j
           /\ \A x : (\E i \in 1..Len(Tail(s)) : Tail(s)[i] = x)
                     <=> x # Head(s) /\ (\E i \in 1..Len(s) : s[i] = x)
<1>1. /\ Tail(s) \in Seq(S)
      /\ Len(Tail(s)) = Len(s) - 1
      /\ Head(s) = s[1] /\ 1 \in 1..Len(s) /\ Head(s) \in S
      /\ \A i \in 1..Len(Tail(s)) : Tail(s)[i] = s[i + 1]
  OBVIOUS
<1>2. \A i, j \in 1..Len(Tail(s)) : Tail(s)[i] = Tail(s)[j] => i = j
  <2> TAKE i, j \in 1..Len(Tail(s))
  <2>1. i + 1 \in 1..Len(s) /\ j + 1 \in 1..Len(s)
    BY <1>1
  <2> QED
    BY <1>1, <2>1
<1>3. ASSUME NEW x, NEW i \in 1..Len(Tail(s)), Tail(s)[i] = x
      PROVE  x # Head(s) /\ \E k \in 1..Len(s) : s[k] = x
  <2>1. i + 1 \in 1..Len(s) /\ s[i + 1] = x /\ i + 1 # 1
    BY <1>1, <1>3
  <2> QED
    BY <1>1, <2>1
<1>4. ASSUME NEW x, x # Head(s), NEW k \in 1..Len(s), s[k] = x
      PROVE  \E i \in 1..Len(Tail(s)) : Tail(s)[i] = x
  <2>1. k - 1 \in 1..Len(Tail(s)) /\ Tail(s)[k - 1] = x
    BY <1>1, <1>4
  <2> QED
    BY <2>1
<1> QED
  BY <1>1, <1>2, <1>3, <1>4

(* What appending a new element to such a queue gives. *)
LEMMA AppendFacts ==
    ASSUME NEW S, NEW s \in Seq(S), NEW e \in S,
           \A i \in 1..Len(s) : s[i] # e,
           \A i, j \in 1..Len(s) : s[i] = s[j] => i = j
    PROVE  /\ Append(s, e) \in Seq(S) /\ Append(s, e) # <<>>
           /\ s # <<>> => Head(Append(s, e)) = Head(s)
           /\ \A i, j \in 1..Len(Append(s, e)) :
                  Append(s, e)[i] = Append(s, e)[j] => i = j
           /\ \A x : (\E i \in 1..Len(Append(s, e)) : Append(s, e)[i] = x)
                     <=> x = e \/ (\E i \in 1..Len(s) : s[i] = x)
<1>1. /\ Append(s, e) \in Seq(S) /\ Append(s, e) # <<>>
      /\ Len(Append(s, e)) = Len(s) + 1
      /\ Append(s, e)[Len(s) + 1] = e
      /\ \A i \in 1..Len(s) : Append(s, e)[i] = s[i]
      /\ s # <<>> => Head(Append(s, e)) = Head(s)
  OBVIOUS
<1>2. \A i, j \in 1..Len(Append(s, e)) :
          Append(s, e)[i] = Append(s, e)[j] => i = j
  BY <1>1
<1>3. \A x : (\E i \in 1..Len(Append(s, e)) : Append(s, e)[i] = x)
             <=> x = e \/ (\E i \in 1..Len(s) : s[i] = x)
  BY <1>1
<1> QED
  BY <1>1, <1>2, <1>3
-----------------------------------------------------------------------------
(* Membership in the queue, now and after a step. *)
LEMMA InQueueMembers ==
    /\ \A x : x \in InQueue <=> \E i \in 1..Len(queue) : queue[i] = x
    /\ \A x : x \in InQueue' <=> \E i \in 1..Len(queue') : queue'[i] = x
BY DEF InQueue

(* The invariant holds initially. *)
LEMMA InitInv == Init => IInv
<1> SUFFICES ASSUME Init PROVE IInv
  OBVIOUS
<1> USE DEF Init
<1>1. TypeOK
  <2>1. queue \in Seq(Greenlets)
    OBVIOUS
  <2>2. pc \in [Greenlets -> {"outside", "queued", "inside"}]
    OBVIOUS
  <2>3. due \in SUBSET Greenlets
    OBVIOUS
  <2> QED
    BY <2>1, <2>2, <2>3 DEF TypeOK
<1>a. MutualExclusion
  BY DEF MutualExclusion
<1>2. HandOver /\ LockedIffOwned
  BY DEF HandOver, LockedIffOwned
<1>3. QueueExact
  BY DEF QueueExact, InQueue
<1> QED
  BY <1>1, <1>a, <1>2, <1>3 DEF IInv

(* Every step preserves the invariant.  The queue changes in EnterQueue and*)
(* WakeOwner only; the owner changes in EnterFree, WakeOwner and Exit.     *)
LEMMA StepInv == IInv /\ [Next]_vars => IInv'
<1> SUFFICES ASSUME IInv, [Next]_vars PROVE IInv'
  OBVIOUS
<1> USE DEF IInv, TypeOK, MutualExclusion, HandOver, LockedIffOwned,
            QueueExact, InQueue
<1>1. ASSUME NEW g \in Greenlets, EnterFree(g) PROVE IInv'
  BY <1>1 DEF EnterFree
<1>2. ASSUME NEW g \in Greenlets, EnterQueue(g) PROVE IInv'
  <2>1. \A i \in 1..Len(queue) : queue[i] # g
    BY <1>2 DEF EnterQueue
  <2>2. /\ queue' \in Seq(Greenlets) /\ queue' # <<>>
        /\ queue # <<>> => Head(queue') = Head(queue)
        /\ \A i, j \in 1..Len(queue') : queue'[i] = queue'[j] => i = j
        /\ \A x : (\E i \in 1..Len(queue') : queue'[i] = x)
                  <=> x = g \/ (\E i \in 1..Len(queue) : queue[i] = x)
    BY <1>2, <2>1, AppendFacts DEF EnterQueue
  <2>3. TypeOK' /\ MutualExclusion' /\ HandOver' /\ LockedIffOwned'
    BY <1>2, <2>2 DEF EnterQueue
  <2>4. QueueExact'
    BY <1>2, <2>2 DEF EnterQueue
  <2> QED
    BY <2>3, <2>4
<1>3. ASSUME NEW g \in Greenlets, WakeOwner(g) PROVE IInv'
  <2>1. queue # <<>> /\ queue' = Tail(queue) /\ Head(queue) = g
    BY <1>3 DEF WakeOwner
  <2>2. /\ queue' \in Seq(Greenlets)
        /\ \A i, j \in 1..Len(queue') : queue'[i] = queue'[j] => i = j
        /\ \A x : (\E i \in 1..Len(queue') : queue'[i] = x)
                  <=> x # g /\ (\E i \in 1..Len(queue) : queue[i] = x)
    BY <2>1, TailFacts
  <2>3. TypeOK' /\ MutualExclusion' /\ HandOver' /\ LockedIffOwned'
    BY <1>3, <2>2 DEF WakeOwner
  <2>4. \A h \in Greenlets : pc'[h] = "queued" <=> h # g /\ pc[h] = "queued"
    BY <1>3 DEF WakeOwner
  <2>5. \A h : h \in InQueue' <=> h # g /\ h \in InQueue
    <3>1. \A x : (\E i \in 1..Len(queue') : queue'[i] = x)
                <=> x # g /\ (\E i \in 1..Len(queue) : queue[i] = x)
      BY <2>2, Zenon
    <3> QED
      BY <3>1, InQueueMembers, Zenon
  <2>6. \A h \in Greenlets : pc[h] = "queued" <=> h \in InQueue
    OBVIOUS
  <2>7. \A h \in Greenlets : pc'[h] = "queued" <=> h \in InQueue'
    BY <2>4, <2>5, <2>6, Zenon
  <2>8. QueueExact'
    BY <2>2, <2>7
  <2> QED
    BY <2>3, <2>8
<1>4. ASSUME NEW g \in Greenlets, WakeInVain(g) PROVE IInv'
  BY <1>4 DEF WakeInVain
<1>5. ASSUME NEW g \in Greenlets, Exit(g) PROVE IInv'
  <2>1. CASE queue = <<>>
    <3>1. /\ isLocked' = FALSE /\ nextPending' = FALSE /\ queue' = queue
          /\ due' = due /\ pc' = [pc EXCEPT ![g] = "outside"]
      BY <1>5, <2>1 DEF Exit
    <3>2. \A h \in Greenlets : pc'[h] # "inside"
      BY <1>5, <3>1 DEF Exit
    <3>3. TypeOK' /\ MutualExclusion' /\ HandOver' /\ LockedIffOwned'
      BY <2>1, <3>1, <3>2
    <3>4. QueueExact'
      BY <1>5, <3>1 DEF Exit
    <3> QED
      BY <3>3, <3>4
  <2>2. CASE queue # <<>>
    <3>1. Head(queue) \in Greenlets
      BY <2>2
    <3> QED
      BY <1>5, <2>2, <3>1 DEF Exit
  <2> QED
    BY <2>1, <2>2
<1>6. ASSUME NEW g \in Greenlets, Nudge(g) PROVE IInv'
  BY <1>6 DEF Nudge
<1>7. CASE UNCHANGED vars
  BY <1>7 DEF vars
<1> QED
  BY <1>1, <1>2, <1>3, <1>4, <1>5, <1>6, <1>7 DEF Next

(* The inductive invariant holds in every reachable state. *)
THEOREM Invariance == Spec => []IInv
BY InitInv, StepInv, PTL DEF Spec

(* At most one greenlet runs G-code, for any number of greenlets and any   *)
(* interleaving of requests, wake-ups and releases.                        *)
THEOREM MutualExclusionHolds == Spec => []MutualExclusion
<1>1. IInv => MutualExclusion
  BY DEF IInv
<1> QED
  BY <1>1, Invariance, PTL

(* No greenlet goes inside past one that waits. *)
THEOREM NoOvertakingHolds == Spec => NoOvertaking
<1> DEFINE Fair(g) == pc[g] # "inside" /\ pc'[g] = "inside" /\ queue # <<>>
                          => Head(queue) = g
<1>1. ASSUME IInv, [Next]_vars PROVE [\A g \in Greenlets : Fair(g)]_vars
  <2> SUFFICES ASSUME NEW h \in Greenlets, Next PROVE Fair(h)
    BY <1>1
  <2> USE <1>1 DEF IInv, TypeOK, LockedIffOwned
  <2>1. ASSUME NEW g \in Greenlets, EnterFree(g) PROVE Fair(h)
    BY <2>1 DEF EnterFree
  <2>2. ASSUME NEW g \in Greenlets, EnterQueue(g) PROVE Fair(h)
    BY <2>2 DEF EnterQueue
  <2>3. ASSUME NEW g \in Greenlets, WakeOwner(g) PROVE Fair(h)
    BY <2>3 DEF WakeOwner
  <2>4. ASSUME NEW g \in Greenlets, WakeInVain(g) PROVE Fair(h)
    BY <2>4 DEF WakeInVain
  <2>5. ASSUME NEW g \in Greenlets, Exit(g) PROVE Fair(h)
    BY <2>5 DEF Exit
  <2>6. ASSUME NEW g \in Greenlets, Nudge(g) PROVE Fair(h)
    BY <2>6 DEF Nudge
  <2> QED
    BY <2>1, <2>2, <2>3, <2>4, <2>5, <2>6 DEF Next
<1> QED
  BY <1>1, Invariance, PTL DEF Spec, NoOvertaking
-----------------------------------------------------------------------------
(* The abstract holder is the greenlet inside, as there is only one; the   *)
(* abstract queue leaves out the greenlet the mutex has been handed to.    *)
HolderFacts ==
    /\ \A g \in Greenlets : pc[g] = "inside" => lockHolder = g
    /\ nextPending => /\ queue # <<>> /\ Head(queue) \in Greenlets
                      /\ lockHolder = Head(queue)
                      /\ lockWaiting = Tail(queue)
    /\ ~nextPending => lockWaiting = queue
    /\ ~isLocked => lockHolder = NoOne /\ lockWaiting = <<>>
    /\ isLocked => lockHolder \in Greenlets

LEMMA AbstractLock == IInv => HolderFacts
<1> SUFFICES ASSUME IInv PROVE HolderFacts
  OBVIOUS
<1> USE DEF IInv, TypeOK, HandOver, LockedIffOwned, lockHolder, lockWaiting
<1>1. ASSUME NEW g \in Greenlets, pc[g] = "inside"
      PROVE  lockHolder = g
  <2>1. \A h \in Greenlets : pc[h] = "inside" <=> h = g
    BY <1>1 DEF MutualExclusion
  <2>2. (CHOOSE h \in Greenlets : pc[h] = "inside") = g
    BY <2>1
  <2> QED
    BY <1>1, <2>2
<1>2. nextPending => queue # <<>> /\ Head(queue) \in Greenlets
  OBVIOUS
<1>3. isLocked => lockHolder \in Greenlets
  BY <1>1, <1>2
<1> QED
  BY <1>1, <1>2, <1>3 DEF HolderFacts

(* A greenlet in the abstract queue is parked in __enter__. *)
LEMMA AbstractQueued ==
    IInv => \A g \in Greenlets : g \in Lock!Queued => pc[g] = "queued"
<1> SUFFICES ASSUME IInv, NEW g \in Greenlets, g \in Lock!Queued
             PROVE  pc[g] = "queued"
  OBVIOUS
<1> USE DEF IInv, TypeOK, QueueExact, InQueue, HandOver
<1>1. \E i \in 1..Len(lockWaiting) : lockWaiting[i] = g
  BY DEF Lock!Queued
<1>2. CASE nextPending
  BY <1>1, <1>2, TailFacts DEF lockWaiting
<1>3. CASE ~nextPending
  BY <1>1, <1>3 DEF lockWaiting
<1> QED
  BY <1>2, <1>3

(* Every step of the reactor's mutex is a step of the FIFO lock or leaves  *)
(* it unchanged: waking up is a stutter, because the lock changed hands in *)
(* __exit__.                                                               *)
LEMMA StepRefines ==
    IInv /\ IInv' /\ [Next]_vars => [Lock!Next]_(Lock!lockVars)
<1> SUFFICES ASSUME IInv, IInv', [Next]_vars
             PROVE  Lock!Next \/ UNCHANGED <<lockHolder, lockWaiting>>
  BY DEF Lock!lockVars
<1> USE DEF IInv, TypeOK, HolderFacts
<1>0. HolderFacts /\ HolderFacts'
  BY AbstractLock, PTL
<1>1. ASSUME NEW g \in Greenlets, EnterFree(g) PROVE Lock!Acquire(g)
  BY <1>0, <1>1 DEF EnterFree, LockedIffOwned, Lock!Acquire
<1>2. ASSUME NEW g \in Greenlets, EnterQueue(g) PROVE Lock!Enqueue(g)
  <2>1. /\ isLocked /\ isLocked' /\ nextPending' = nextPending
        /\ queue' = Append(queue, g)
        /\ \A h \in Greenlets : pc'[h] = "inside" <=> pc[h] = "inside"
    BY <1>2 DEF EnterQueue
  <2>2. lockHolder # NoOne
    BY <1>0, <2>1, NoOneAssumption
  <2>3. /\ lockHolder' = lockHolder /\ lockHolder # g
        /\ lockWaiting' = Append(lockWaiting, g)
    <3>1. CASE nextPending
      <4>1. \A i \in 1..Len(queue) : queue[i] # g
        BY <1>2 DEF EnterQueue, QueueExact, InQueue
      <4>2. Head(queue) = queue[1] /\ 1 \in 1..Len(queue)
        BY <1>0, <3>1
      <4>3. /\ Head(Append(queue, g)) = Head(queue)
            /\ Tail(Append(queue, g)) = Append(Tail(queue), g)
        BY <1>0, <3>1
      <4> QED
        BY <1>0, <2>1, <3>1, <4>1, <4>2, <4>3
    <3>2. CASE ~nextPending
      <4>1. PICK h \in Greenlets : pc[h] = "inside"
        BY <2>1, <3>2 DEF LockedIffOwned
      <4>2. lockHolder = h /\ lockHolder' = h /\ h # g
        BY <1>0, <1>2, <2>1, <4>1 DEF EnterQueue
      <4> QED
        BY <1>0, <2>1, <3>2, <4>2
    <3> QED
      BY <3>1, <3>2
  <2>4. g \notin Lock!Queued
    BY <1>2, AbstractQueued DEF EnterQueue
  <2> QED
    BY <2>2, <2>3, <2>4 DEF Lock!Enqueue
<1>3. ASSUME NEW g \in Greenlets, WakeOwner(g)
      PROVE  UNCHANGED <<lockHolder, lockWaiting>>
  BY <1>0, <1>3 DEF WakeOwner
<1>4. ASSUME NEW g \in Greenlets, WakeInVain(g)
      PROVE  UNCHANGED <<lockHolder, lockWaiting>>
  BY <1>4 DEF WakeInVain, lockHolder, lockWaiting
<1>5. ASSUME NEW g \in Greenlets, Exit(g) PROVE Lock!Release(g)
  BY <1>0, <1>5 DEF Exit, HandOver, Lock!Release
<1>6. ASSUME NEW g \in Greenlets, Nudge(g)
      PROVE  UNCHANGED <<lockHolder, lockWaiting>>
  BY <1>6 DEF Nudge, lockHolder, lockWaiting
<1>7. CASE UNCHANGED vars
  BY <1>7 DEF vars, lockHolder, lockWaiting
<1> QED
  BY <1>1, <1>2, <1>3, <1>4, <1>5, <1>6, <1>7 DEF Next, Lock!Next

(* The reactor's mutex implements the FIFO lock: whatever holds of the     *)
(* abstract lock, PrintJob's use of it included, holds of the real one.    *)
THEOREM MutexImplementsLock == Spec => ImplementsLock
<1>1. Init => Lock!Init
  BY DEF Init, Lock!Init, lockHolder, lockWaiting
<1> QED
  BY <1>1, StepRefines, Invariance, PTL DEF Spec, ImplementsLock, Lock!Spec
=============================================================================
