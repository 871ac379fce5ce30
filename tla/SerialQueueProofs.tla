-------------------------- MODULE SerialQueueProofs --------------------------
(***************************************************************************)
(* Proofs about SerialQueue, for every number of commands and incidents,   *)
(* every first sequence number, and every SeqMod, MaxPending and Window    *)
(* that LinkAssumption allows.                                             *)
(*                                                                         *)
(* The argument: the next number of the controller lies between the two    *)
(* numbers of the host (NextInv), at most MaxPending < SeqMod apart        *)
(* (SentInv), and no frame under way is SeqMod or more behind (FramesInv:  *)
(* the line keeps order, so a frame is never followed by one more than     *)
(* MaxPending - 1 before it).  Hence equal low bits mean equal numbers,    *)
(* and since the block with a given number always carries the same command *)
(* the controller accepts each command once.                               *)
(***************************************************************************)
EXTENDS SerialQueue, SequenceTheorems, TLAPS

(* The command in block s is command s - Offset. *)
Offset == send_seq - 1 - built

(* sent_queue holds the blocks from receive_seq to send_seq - 1. *)
SentInv ==
    /\ receive_seq >= 1 /\ last_ack_seq <= receive_seq
    /\ Len(sent_queue) = send_seq - receive_seq
    /\ Len(sent_queue) <= built
    /\ Len(sent_queue) <= MaxPending
    /\ \A i \in 1..Len(sent_queue) :
         /\ sent_queue[i].seq = receive_seq + i - 1
         /\ sent_queue[i].msg = sent_queue[i].seq - Offset

(* Where the controller is: between what the host has heard and what it    *)
(* has sent.                                                               *)
NextInv ==
    /\ Synced => receive_seq <= next /\ next <= send_seq
    /\ ~Synced => Len(sent_queue) = built
    /\ next >= first

FrameOK(f) ==
    /\ 1 <= f.seq /\ f.seq < send_seq
    /\ f.seq > next - SeqMod
    /\ ~IsGarbage(f) /\ f.seq >= next => f.msg = f.seq - Offset

(* A block is followed by no block more than MaxPending - 1 before it. *)
Near(f, g) == g.seq >= f.seq + 1 - MaxPending

FramesInv ==
    /\ \A i \in 1..Len(rx) : FrameOK(rx[i])
    /\ \A i \in 1..Len(toMcu) : FrameOK(toMcu[i])
    /\ \A i, j \in 1..Len(rx) : i < j => Near(rx[i], rx[j])
    /\ \A i, j \in 1..Len(toMcu) : i < j => Near(toMcu[i], toMcu[j])
    /\ \A i \in 1..Len(rx), j \in 1..Len(toMcu) : Near(rx[i], toMcu[j])

(* The controller's messages, oldest first, carry numbers that grow; an    *)
(* answer carries the number after that of its command's block; an ack is  *)
(* followed only by answers of later blocks.                               *)
RepliesInv ==
    /\ \A i \in 1..Len(toHost) :
         /\ receive_seq <= toHost[i].seq /\ first <= toHost[i].seq
         /\ toHost[i].seq <= next
         /\ toHost[i].msg # 0 =>
               /\ toHost[i].data
               /\ toHost[i].seq > first
               /\ toHost[i].msg = toHost[i].seq - 1 - Offset
         /\ task = "dispatch" /\ ~toHost[i].data => toHost[i].seq < next
    /\ \A i, j \in 1..Len(toHost) : i < j =>
         /\ toHost[i].seq <= toHost[j].seq
         /\ ~toHost[i].data /\ toHost[j].msg # 0 =>
                toHost[i].seq < toHost[j].seq

(* console_task between find_block and pop: the block before next is at    *)
(* the head of receive_buf.                                                *)
TaskInv ==
    task # "idle" =>
        /\ rx # <<>> /\ next > first
        /\ Head(rx).seq = next - 1
        /\ Head(rx).msg = next - 1 - Offset
        /\ Head(rx).msg # 0

(* What is waiting for its completion: the blocks sent last.               *)
NotifyInv ==
    /\ \A i \in 1..Len(notify_queue) :
         /\ notify_queue[i].seq = send_seq - Len(notify_queue) + i - 1
         /\ 1 <= notify_queue[i].seq /\ notify_queue[i].seq < send_seq
         /\ notify_queue[i].msg = notify_queue[i].seq - Offset
         /\ notify_queue[i].msg # 0
    /\ receive_seq = 1 => Len(notify_queue) = built

(* What has been completed: only what was executed, and no answer is to    *)
(* come for it any more.                                                   *)
AnswersInv ==
    \A i \in 1..Len(received) : received[i].done =>
        /\ received[i].msg <= Taken
        /\ received[i].msg # 0
        /\ task = "dispatch" => received[i].msg < next - 1 - Offset
        /\ \A j \in 1..Len(toHost) : toHost[j].msg # 0 =>
                                        received[i].msg < toHost[j].msg
        /\ \A j \in i..Len(received) :
             ~received[j].done /\ received[j].msg # 0 =>
                 received[i].msg < received[j].msg

(* The retransmit timer, and the naks it has been used up for.             *)
TimerInv ==
    /\ sent_queue # <<>> <=> retransmitTimer # "never"
    /\ nakSeq <= ignore_nak_seq /\ nakSeq <= receive_seq
    /\ retransmitTimer = "now" => receive_seq > ignore_nak_seq

(* Something will run command_event again.                                 *)
WakeInv ==
    need_kick # "max" \/ built < submitted =>
        \/ kicking \/ pipe \/ commandTimer # "never" \/ sent_queue # <<>>

(* As long as nothing is sent twice the blocks under way are in order,     *)
(* only the first can be one the controller has accepted already, and they *)
(* fit in receive_buf.                                                     *)
AckPending == last_ack_seq < receive_seq

OnceInv ==
    retransmit_seq = 0 =>
        /\ ~overflow
        /\ \A i, j \in 1..Len(rx) : i < j => rx[j].seq >= rx[i].seq + (j - i)
        /\ \A i, j \in 1..Len(toMcu) :
               i < j => toMcu[j].seq >= toMcu[i].seq + (j - i)
        /\ \A i \in 1..Len(rx), j \in 1..Len(toMcu) :
               toMcu[j].seq >= rx[i].seq + (Len(rx) + j - i)
        /\ \A i \in 2..Len(rx) : rx[i].seq >= next
        /\ \A i \in 1..Len(toMcu) : i > 1 \/ rx # <<>> => toMcu[i].seq >= next
        /\ \A j \in 1..Len(toHost) : ~toHost[j].data =>
               /\ \A i \in 1..Len(rx) : rx[i].seq >= toHost[j].seq
               /\ \A i \in 1..Len(toMcu) : toMcu[i].seq >= toHost[j].seq
        /\ ~AckPending =>
               /\ \A i \in 1..Len(rx) : rx[i].seq >= receive_seq
               /\ \A i \in 1..Len(toMcu) : toMcu[i].seq >= receive_seq
        /\ Len(sent_queue) + (IF AckPending THEN last_ack_bytes ELSE 0) <= Window

(* Until the first answer one request at a time is under way.              *)
ConnectInv ==
    /\ Len(sent_queue) <= Len(notify_queue)
    /\ Connecting => submitted - built + Len(notify_queue) <= 1
    /\ last_ack_bytes = 0 => Connecting /\ (receive_seq = 1 \/ receive_seq = first)
    /\ receive_seq = 1 => last_ack_bytes = 0
    /\ built = 0 => /\ rx = <<>> /\ toMcu = <<>>
                    /\ \A j \in 1..Len(toHost) : toHost[j].data

IInv == /\ TypeOK /\ SentInv /\ NextInv /\ FramesInv /\ RepliesInv /\ TaskInv
        /\ NotifyInv /\ AnswersInv /\ TimerInv /\ WakeInv /\ OnceInv
        /\ ConnectInv
-----------------------------------------------------------------------------
(* Sequence numbers modulo SeqMod.                                         *)

LEMMA DivMod ==
  ASSUME NEW M \in Nat, M >= 1, NEW a \in Nat
  PROVE  /\ a % M \in Nat /\ a % M < M
         /\ \E q \in Nat : a = (M * q) + (a % M)
<1> DEFINE q == a \div M
<1>1. q \in Nat /\ a % M \in Nat /\ a % M < M /\ a = (M * q) + (a % M)
  OBVIOUS
<1> QED BY <1>1

LEMMA Grow ==
  ASSUME NEW M \in Nat, NEW p \in Nat, NEW q \in Nat, p < q
  PROVE  M * q >= M * p + M
<1>1. M * q = M * p + M * (q - p)
  OBVIOUS
<1>2. q - p >= 1 /\ q - p \in Nat
  OBVIOUS
<1>3. M * (q - p) >= M
  BY <1>2
<1> QED BY <1>1, <1>3

(* Two numbers less than SeqMod apart that look alike on the wire are      *)
(* equal.                                                                  *)
LEMMA SameWire ==
  ASSUME NEW a \in Nat, NEW b \in Nat, Wire(a) = Wire(b),
         a < b + SeqMod, b < a + SeqMod
  PROVE  a = b
<1>0. SeqMod \in Nat /\ SeqMod >= 1
  BY LinkAssumption
<1>1. PICK p \in Nat : a = (SeqMod * p) + (a % SeqMod)
  BY <1>0, DivMod
<1>2. PICK q \in Nat : b = (SeqMod * q) + (b % SeqMod)
  BY <1>0, DivMod
<1>3. a % SeqMod \in Nat /\ a % SeqMod = b % SeqMod
  BY <1>0, DivMod DEF Wire
<1>4. CASE p < q
  <2>1. SeqMod * q >= SeqMod * p + SeqMod
    BY <1>0, <1>4, Grow
  <2> QED BY <1>0, <1>1, <1>2, <1>3, <2>1
<1>5. CASE q < p
  <2>1. SeqMod * p >= SeqMod * q + SeqMod
    BY <1>0, <1>5, Grow
  <2> QED BY <1>0, <1>1, <1>2, <1>3, <2>1
<1>6. CASE p = q
  BY <1>1, <1>2, <1>3, <1>6
<1> QED BY <1>4, <1>5, <1>6

(* A number that is less than SeqMod after receive_seq is rebuilt from its *)
(* low bits.                                                               *)
LEMMA RseqRebuilds ==
  ASSUME NEW f, receive_seq \in Nat, f.seq \in Nat,
         receive_seq <= f.seq, f.seq < receive_seq + SeqMod
  PROVE  Rseq(f) = f.seq
<1> DEFINE a == receive_seq  b == f.seq
           wa == a % SeqMod  wb == b % SeqMod
<1>0. SeqMod \in Nat /\ SeqMod >= 1 /\ a \in Nat /\ b \in Nat
  BY LinkAssumption
<1>1. PICK p \in Nat : a = (SeqMod * p) + wa
  BY <1>0, DivMod
<1>2. PICK q \in Nat : b = (SeqMod * q) + wb
  BY <1>0, DivMod
<1>3. wa \in Nat /\ wb \in Nat /\ wa < SeqMod /\ wb < SeqMod
  BY <1>0, DivMod
<1>4. Rseq(f) = IF (a - wa) + wb < a THEN (a - wa) + wb + SeqMod
                ELSE (a - wa) + wb
  BY DEF Rseq, Wire
<1>5. p <= q
  <2> SUFFICES ASSUME q < p PROVE FALSE
    OBVIOUS
  <2>1. SeqMod * p >= SeqMod * q + SeqMod
    BY <1>0, Grow
  <2> QED BY <1>0, <1>1, <1>2, <1>3, <2>1
<1>6. CASE p = q
  BY <1>0, <1>1, <1>2, <1>3, <1>4, <1>6
<1>7. CASE q = p + 1
  <2>1. SeqMod * q = SeqMod * p + SeqMod
    BY <1>0, <1>7
  <2> HIDE DEF wa, wb
  <2> QED BY <1>0, <1>1, <1>2, <1>3, <1>4, <2>1
<1>8. ~ (p + 1 < q)
  <2> SUFFICES ASSUME p + 1 < q PROVE FALSE
    OBVIOUS
  <2>1. SeqMod * q >= SeqMod * (p + 1) + SeqMod
    BY <1>0, Grow
  <2>2. SeqMod * (p + 1) = SeqMod * p + SeqMod
    BY <1>0
  <2> QED BY <1>0, <1>1, <1>2, <1>3, <2>1, <2>2
<1> QED BY <1>5, <1>6, <1>7, <1>8
-----------------------------------------------------------------------------
(* Sequences.                                                              *)

LEMMA SeqConcat ==
  ASSUME NEW S, NEW s \in Seq(S), NEW t \in Seq(S)
  PROVE  /\ s \o t \in Seq(S)
         /\ Len(s \o t) = Len(s) + Len(t)
         /\ \A i \in 1..Len(s) : (s \o t)[i] = s[i]
         /\ \A i \in 1..Len(t) : (s \o t)[Len(s) + i] = t[i]
         /\ \A i \in 1..Len(s) + Len(t) :
              (s \o t)[i] = IF i <= Len(s) THEN s[i] ELSE t[i - Len(s)]
  OBVIOUS

LEMMA SeqRest ==
  ASSUME NEW S, NEW s \in Seq(S), NEW k \in 0..Len(s)
  PROVE  /\ SubSeq(s, k + 1, Len(s)) \in Seq(S)
         /\ Len(SubSeq(s, k + 1, Len(s))) = Len(s) - k
         /\ \A i \in 1..Len(s) - k : SubSeq(s, k + 1, Len(s))[i] = s[i + k]
  OBVIOUS

LEMMA SeqPrefix ==
  ASSUME NEW S, NEW s \in Seq(S), NEW k \in 0..Len(s)
  PROVE  /\ SubSeq(s, 1, k) \in Seq(S)
         /\ Len(SubSeq(s, 1, k)) = k
         /\ \A i \in 1..k : SubSeq(s, 1, k)[i] = s[i]
  OBVIOUS

LEMMA SeqTail ==
  ASSUME NEW S, NEW s \in Seq(S), s # <<>>
  PROVE  /\ Len(s) \in Nat /\ Len(s) >= 1
         /\ Head(s) = s[1] /\ Head(s) \in S
         /\ Tail(s) \in Seq(S) /\ Len(Tail(s)) = Len(s) - 1
         /\ \A i \in 1..Len(s) - 1 : Tail(s)[i] = s[i + 1]
  OBVIOUS

LEMMA SeqAppend ==
  ASSUME NEW S, NEW s \in Seq(S), NEW e \in S
  PROVE  /\ Append(s, e) \in Seq(S)
         /\ Len(Append(s, e)) = Len(s) + 1
         /\ \A i \in 1..Len(s) : Append(s, e)[i] = s[i]
         /\ Append(s, e)[Len(s) + 1] = e
  OBVIOUS

LEMMA SeqOne ==
  ASSUME NEW S, NEW e \in S
  PROVE  /\ <<e>> \in Seq(S) /\ Len(<<e>>) = 1 /\ <<e>>[1] = e
         /\ <<>> \in Seq(S) /\ Len(<<>>) = 0
  OBVIOUS

LEMMA Types ==
  ASSUME TypeOK
  PROVE  /\ submitted \in Nat /\ built \in Nat /\ built <= submitted
         /\ send_seq \in Nat /\ receive_seq \in Nat /\ next \in Nat
         /\ first \in Nat /\ first >= 1 /\ first <= SeqMod
         /\ SeqMod \in Nat /\ MaxPending \in Nat /\ Window \in Nat
         /\ MaxPending >= 1 /\ MaxPending < SeqMod /\ Window >= 2
         /\ Len(toMcu) \in Nat /\ Len(rx) \in Nat /\ Len(sent_queue) \in Nat
         /\ Len(toHost) \in Nat /\ Len(notify_queue) \in Nat
         /\ Len(received) \in Nat
         /\ \A i \in 1..Len(toMcu) : /\ toMcu[i] \in BlockType
                                     /\ toMcu[i].seq \in Nat
                                     /\ toMcu[i].msg \in Nat
         /\ \A i \in 1..Len(rx) : /\ rx[i] \in BlockType
                                  /\ rx[i].seq \in Nat /\ rx[i].msg \in Nat
         /\ \A i \in 1..Len(sent_queue) : /\ sent_queue[i] \in BlockType
                                          /\ sent_queue[i].seq \in Nat
                                          /\ sent_queue[i].msg \in Nat
         /\ \A i \in 1..Len(notify_queue) :
                /\ notify_queue[i] \in BlockType
                /\ notify_queue[i].seq \in Nat /\ notify_queue[i].msg \in Nat
         /\ \A i \in 1..Len(toHost) :
                /\ toHost[i] \in ReplyType /\ toHost[i].seq \in Nat
                /\ toHost[i].msg \in Nat /\ toHost[i].data \in BOOLEAN
         /\ \A i \in 1..Len(received) :
                /\ received[i] \in NoteType
                /\ received[i].msg \in Nat /\ received[i].done \in BOOLEAN
<1>1. ASSUME NEW S, NEW s \in Seq(S)
      PROVE  Len(s) \in Nat /\ \A i \in 1..Len(s) : s[i] \in S
  OBVIOUS
<1>2. \A f \in BlockType : f.seq \in Nat /\ f.msg \in Nat
  BY DEF BlockType
<1>3. \A f \in ReplyType : f.seq \in Nat /\ f.msg \in Nat /\ f.data \in BOOLEAN
  BY DEF ReplyType
<1>4. \A f \in NoteType : f.msg \in Nat /\ f.done \in BOOLEAN
  BY DEF NoteType
<1>5. /\ toMcu \in Seq(BlockType) /\ rx \in Seq(BlockType)
      /\ sent_queue \in Seq(BlockType) /\ notify_queue \in Seq(BlockType)
      /\ toHost \in Seq(ReplyType) /\ received \in Seq(NoteType)
  BY DEF TypeOK
<1>6. /\ submitted \in Nat /\ built \in Nat /\ built <= submitted
      /\ send_seq \in Nat /\ receive_seq \in Nat /\ next \in Nat
      /\ first \in Nat /\ first >= 1 /\ first <= SeqMod
      /\ SeqMod \in Nat /\ MaxPending \in Nat /\ Window \in Nat
      /\ MaxPending >= 1 /\ MaxPending < SeqMod /\ Window >= 2
  BY LinkAssumption DEF TypeOK
<1> QED BY <1>1, <1>2, <1>3, <1>4, <1>5, <1>6

LEMMA NewBlocksSeq ==
  ASSUME TypeOK, NEW n \in Nat
  PROVE  /\ NewBlocks(n) \in Seq(BlockType) /\ Len(NewBlocks(n)) = n
         /\ \A i \in 1..n : /\ NewBlocks(n)[i].seq = send_seq + i - 1
                            /\ NewBlocks(n)[i].msg = built + i
  BY DEF NewBlocks, Block, BlockType, TypeOK
-----------------------------------------------------------------------------
(* What the larger actions do, element by element.                         *)

(* retransmit_event leaves some of the frames that were under way, perhaps *)
(* a garbled one after them, and adds the blocks of sent_queue.            *)
LEMMA RetransmitFacts ==
  ASSUME TypeOK, NEW k \in 0..Len(toMcu), NEW torn \in BOOLEAN,
         RetransmitEvent(k, torn)
  PROVE  \E t \in {0, 1} :
           /\ k + t <= Len(toMcu)
           /\ toMcu' \in Seq(BlockType)
           /\ Len(toMcu') = k + t + Len(sent_queue)
           /\ \A i \in 1..k : toMcu'[i] = toMcu[i]
           /\ t = 1 => toMcu'[k+1] = Garble(toMcu[k+1])
           /\ \A i \in 1..Len(sent_queue) : toMcu'[k + t + i] = sent_queue[i]
<1> DEFINE a == SubSeq(toMcu, 1, k)
           b == IF torn THEN <<Garble(toMcu[k+1])>> ELSE <<>>
           t == IF torn THEN 1 ELSE 0
<1>1. /\ toMcu \in Seq(BlockType) /\ sent_queue \in Seq(BlockType)
      /\ k \in Nat /\ Len(toMcu) \in Nat /\ Len(sent_queue) \in Nat
  BY DEF TypeOK
<1>2. /\ a \in Seq(BlockType) /\ Len(a) = k
      /\ \A i \in 1..k : a[i] = toMcu[i]
  BY <1>1, SeqPrefix
<1>3. t \in {0, 1} /\ k + t <= Len(toMcu)
  BY <1>1 DEF RetransmitEvent
<1>4. b \in Seq(BlockType) /\ Len(b) = t /\ (t = 1 => b[1] = Garble(toMcu[k+1]))
  <2>1. CASE torn
    <3>1. k + 1 \in 1..Len(toMcu)
      BY <2>1, <1>1, <1>3
    <3>2. toMcu[k+1] \in BlockType
      BY <1>1, <3>1
    <3>3. Garble(toMcu[k+1]) \in BlockType
      BY <3>2 DEF Garble, Block, BlockType
    <3> QED BY <2>1, <3>3, SeqOne
  <2>2. CASE ~torn
    BY <2>2, SeqOne
  <2> QED BY <2>1, <2>2
<1>5. toMcu' = a \o b \o sent_queue
  BY DEF RetransmitEvent
<1> HIDE DEF a, b, t
<1>6. /\ a \o b \in Seq(BlockType) /\ Len(a \o b) = k + t
      /\ \A i \in 1..k : (a \o b)[i] = a[i]
      /\ \A i \in 1..t : (a \o b)[k + i] = b[i]
  BY <1>1, <1>2, <1>3, <1>4, SeqConcat
<1>7. /\ toMcu' \in Seq(BlockType)
      /\ Len(toMcu') = k + t + Len(sent_queue)
      /\ \A i \in 1..k + t : toMcu'[i] = (a \o b)[i]
      /\ \A i \in 1..Len(sent_queue) : toMcu'[k + t + i] = sent_queue[i]
  BY SMTT(30), <1>1, <1>5, <1>6, SeqConcat
<1>8. \A i \in 1..k : toMcu'[i] = toMcu[i]
  <2> SUFFICES ASSUME NEW i \in 1..k PROVE toMcu'[i] = toMcu[i]
    OBVIOUS
  <2>1. i \in 1..k + t
    BY <1>1, <1>3
  <2>2. toMcu'[i] = (a \o b)[i]
    BY ONLY <1>7, <2>1
  <2>3. (a \o b)[i] = a[i] /\ a[i] = toMcu[i]
    BY ONLY <1>2, <1>6, i \in 1..k
  <2> QED BY ONLY <2>2, <2>3
<1>9. t = 1 => toMcu'[k+1] = Garble(toMcu[k+1])
  BY <1>1, <1>4, <1>6, <1>7
<1> QED BY <1>3, <1>7, <1>8, <1>9

(* s with the next n blocks after it.                                      *)
Extends(s, t, n) ==
    /\ t \in Seq(BlockType)
    /\ Len(t) = Len(s) + n
    /\ \A i \in 1..Len(s) : t[i] = s[i]
    /\ \A i \in 1..n : /\ t[Len(s) + i].seq = send_seq + i - 1
                       /\ t[Len(s) + i].msg = built + i

(* command_event appends the same new blocks to three queues.              *)
LEMMA CommandFacts ==
  ASSUME TypeOK, NEW n \in 0..MaxPending, CommandEvent(n)
  PROVE  /\ n \in Nat /\ send_seq' = send_seq + n /\ built' = built + n
         /\ built + n <= submitted /\ submitted' = submitted
         /\ Extends(toMcu, toMcu', n)
         /\ Extends(sent_queue, sent_queue', n)
         /\ Extends(notify_queue, notify_queue', n)
<1>1. n \in Nat /\ built \in Nat /\ submitted \in Nat
  BY LinkAssumption DEF TypeOK
<1>2. /\ NewBlocks(n) \in Seq(BlockType) /\ Len(NewBlocks(n)) = n
      /\ \A i \in 1..n : /\ NewBlocks(n)[i].seq = send_seq + i - 1
                         /\ NewBlocks(n)[i].msg = built + i
  BY <1>1, NewBlocksSeq
<1>3. ASSUME NEW s \in Seq(BlockType)
      PROVE  Extends(s, s \o NewBlocks(n), n)
  <2>1. NewBlocks(n) \in Seq(BlockType) /\ Len(s) \in Nat
    BY <1>2
  <2>2. /\ s \o NewBlocks(n) \in Seq(BlockType)
        /\ Len(s \o NewBlocks(n)) = Len(s) + Len(NewBlocks(n))
        /\ \A i \in 1..Len(s) : (s \o NewBlocks(n))[i] = s[i]
        /\ \A i \in 1..Len(NewBlocks(n)) :
              (s \o NewBlocks(n))[Len(s) + i] = NewBlocks(n)[i]
    BY <2>1, SeqConcat
  <2> QED BY <1>1, <1>2, <2>1, <2>2 DEF Extends
<1>4. /\ toMcu \in Seq(BlockType) /\ sent_queue \in Seq(BlockType)
      /\ notify_queue \in Seq(BlockType)
  BY DEF TypeOK
<1>5. /\ toMcu' = toMcu \o NewBlocks(n)
      /\ sent_queue' = sent_queue \o NewBlocks(n)
      /\ notify_queue' = notify_queue \o NewBlocks(n)
  BY DEF CommandEvent
<1>6. /\ send_seq' = send_seq + n /\ built' = built + n
      /\ built + n <= submitted /\ submitted' = submitted
  BY <1>1 DEF CommandEvent
<1> QED BY <1>1, <1>3, <1>4, <1>5, <1>6

(* The number in the oldest message of the controller.                     *)
LEMMA RseqIs ==
  ASSUME TypeOK, SentInv, NextInv, RepliesInv, toHost # <<>>
  PROVE  Rseq(Head(toHost)) = Head(toHost).seq
<1>1. Head(toHost) = toHost[1] /\ 1 \in 1..Len(toHost) /\ toHost[1].seq \in Nat
  <2>1. toHost \in Seq(ReplyType)
    BY DEF TypeOK
  <2>2. /\ Len(toHost) >= 1 /\ Len(toHost) \in Nat
        /\ Head(toHost) = toHost[1] /\ Head(toHost) \in ReplyType
    BY <2>1, SeqTail
  <2> QED BY <2>2 DEF ReplyType
<1>2. toHost[1].seq >= receive_seq /\ toHost[1].seq <= next
  BY <1>1 DEF RepliesInv
<1>3. toHost[1].seq < receive_seq + SeqMod
  <2>1. CASE Synced
    BY <1>1, <1>2, <2>1, LinkAssumption DEF NextInv, SentInv, TypeOK
  <2>2. CASE ~Synced
    BY <1>1, <1>2, <2>2, LinkAssumption DEF NextInv, Synced, TypeOK
  <2> QED BY <2>1, <2>2
<1> QED BY <1>1, <1>2, <1>3, RseqRebuilds DEF TypeOK

(* handle_message of a message f with number f.seq, which completes the    *)
(* first k entries of notify_queue.                                        *)
Handled(f, k) ==
    /\ f \in ReplyType /\ receive_seq <= f.seq
    /\ toHost # <<>> /\ f = toHost[1]
    /\ toHost' \in Seq(ReplyType) /\ Len(toHost') = Len(toHost) - 1
    /\ \A i \in 1..Len(toHost') : toHost'[i] = toHost[i+1]
    /\ f.seq <= send_seq \/ receive_seq = 1
    /\ receive_seq' = f.seq
    /\ \/ /\ f.seq = receive_seq
          /\ UNCHANGED <<sent_queue, send_seq, last_ack_bytes, commandTimer>>
          /\ retransmitTimer' \in {"now", retransmitTimer}
       \/ /\ f.seq > receive_seq /\ f.seq <= send_seq
          /\ sent_queue' \in Seq(BlockType)
          /\ Len(sent_queue') = Len(sent_queue) - (f.seq - receive_seq)
          /\ \A i \in 1..Len(sent_queue') :
               sent_queue'[i] = sent_queue[i + (f.seq - receive_seq)]
          /\ send_seq' = send_seq /\ last_ack_bytes' = 1
          /\ commandTimer' = "now"
          /\ retransmitTimer' \in
               {"now", IF sent_queue' = <<>> THEN "never" ELSE "later"}
       \/ /\ f.seq > send_seq
          /\ sent_queue' = <<>> /\ send_seq' = f.seq
          /\ last_ack_bytes' = last_ack_bytes
          /\ commandTimer' = "now"
          /\ retransmitTimer' \in {"now", "never"}
    /\ retransmitTimer' = "now" =>
         \/ retransmitTimer = "now" /\ f.seq = receive_seq
         \/ f.seq > ignore_nak_seq /\ sent_queue' # <<>>
    /\ last_ack_seq' = IF ~f.data /\ last_ack_seq < f.seq THEN f.seq
                       ELSE last_ack_seq
    /\ k \in 0..Len(notify_queue) /\ Completed(k, f.seq, f)
    /\ notify_queue' \in Seq(BlockType)
    /\ Len(notify_queue') = Len(notify_queue) - k
    /\ \A i \in 1..Len(notify_queue') : notify_queue'[i] = notify_queue[i + k]
    /\ received' \in Seq(NoteType)
    /\ Len(received') = Len(received) + k + (IF f.data THEN 1 ELSE 0)
    /\ \A i \in 1..Len(received) : received'[i] = received[i]
    /\ \A i \in 1..k : received'[Len(received) + i] = Done(notify_queue[i].msg)
    /\ f.data => received'[Len(received) + k + 1] = Answer(f.msg)
    /\ UNCHANGED <<ignore_nak_seq, retransmit_seq, nakSeq, queueVars, toMcu,
                   mcuVars, incidents>>

LEMMA HandleFacts ==
  ASSUME TypeOK, SentInv, NextInv, RepliesInv, HandleMessage
  PROVE  \E k \in 0..Len(notify_queue) : Handled(Head(toHost), k)
<1> DEFINE f == Head(toHost)
<1>1. toHost # <<>> /\ toHost \in Seq(ReplyType) /\ toHost' = Tail(toHost)
  BY DEF TypeOK, HandleMessage
<1>2. /\ f = toHost[1] /\ f \in ReplyType /\ 1 \in 1..Len(toHost)
      /\ toHost' \in Seq(ReplyType) /\ Len(toHost') = Len(toHost) - 1
      /\ \A i \in 1..Len(toHost') : toHost'[i] = toHost[i+1]
  BY <1>1
<1>3. Rseq(f) = f.seq
  BY <1>1, RseqIs
<1>4. receive_seq <= f.seq /\ f.seq <= next
  BY <1>2 DEF RepliesInv
<1>5. f.seq <= send_seq \/ receive_seq = 1
  <2>1. CASE Synced
    BY SMTT(30), <2>1, <1>2, <1>4 DEF NextInv, TypeOK, ReplyType
  <2>2. CASE ~Synced
    BY <2>2 DEF Synced
  <2> QED BY <2>1, <2>2
<1>6. ~(f.seq > send_seq /\ receive_seq # 1)
  BY SMTT(30), <1>2, <1>5 DEF TypeOK, ReplyType
<1> DEFINE nak == /\ ~f.data /\ last_ack_seq >= f.seq
                  /\ f.seq > ignore_nak_seq /\ sent_queue' # <<>>
<1>7. /\ IF f.seq # receive_seq THEN UpdateReceiveSeq(f.seq)
         ELSE UNCHANGED <<sent_queue, send_seq, last_ack_bytes,
                          receive_seq, commandTimer>>
      /\ last_ack_seq' = IF ~f.data /\ last_ack_seq < f.seq THEN f.seq
                         ELSE last_ack_seq
      /\ retransmitTimer' = IF nak THEN "now" ELSE Rearm(f.seq)
      /\ UNCHANGED <<ignore_nak_seq, retransmit_seq, nakSeq, queueVars, toMcu,
                     mcuVars, incidents>>
  BY <1>3, <1>6 DEF HandleMessage
<1>8. PICK k \in 0..Len(notify_queue) :
         /\ Completed(k, f.seq, f)
         /\ notify_queue' = SubSeq(notify_queue, k + 1, Len(notify_queue))
         /\ received' = received \o [i \in 1..k |-> Done(notify_queue[i].msg)]
                        \o (IF f.data THEN <<Answer(f.msg)>> ELSE <<>>)
  BY <1>3, <1>6 DEF HandleMessage
<1> HIDE DEF f
<1>9. /\ notify_queue' \in Seq(BlockType)
      /\ Len(notify_queue') = Len(notify_queue) - k
      /\ \A i \in 1..Len(notify_queue') : notify_queue'[i] = notify_queue[i + k]
  BY <1>8, SeqRest DEF TypeOK
<1>10. /\ received' \in Seq(NoteType)
       /\ Len(received') = Len(received) + k + (IF f.data THEN 1 ELSE 0)
       /\ \A i \in 1..Len(received) : received'[i] = received[i]
       /\ \A i \in 1..k : received'[Len(received) + i] = Done(notify_queue[i].msg)
       /\ f.data => received'[Len(received) + k + 1] = Answer(f.msg)
  <2> DEFINE a == [i \in 1..k |-> Done(notify_queue[i].msg)]
             b == IF f.data THEN <<Answer(f.msg)>> ELSE <<>>
  <2>0. k \in Nat /\ received \in Seq(NoteType) /\ notify_queue \in Seq(BlockType)
    BY DEF TypeOK
  <2>1. a \in Seq(NoteType) /\ Len(a) = k
    <3>1. \A i \in 1..k : notify_queue[i] \in BlockType
      BY <2>0
    <3>2. \A i \in 1..k : Done(notify_queue[i].msg) \in NoteType
      BY <3>1 DEF NoteType, Done, BlockType
    <3> QED BY <2>0, <3>2
  <2>2. \A i \in 1..k : a[i] = Done(notify_queue[i].msg)
    OBVIOUS
  <2>3. /\ b \in Seq(NoteType) /\ Len(b) = IF f.data THEN 1 ELSE 0
        /\ f.data => b[1] = Answer(f.msg)
    <3>1. Answer(f.msg) \in NoteType
      BY <1>2 DEF NoteType, Answer, ReplyType
    <3> QED BY <3>1, SeqOne
  <2>4. received' = received \o a \o b
    BY <1>8
  <2> HIDE DEF a, b
  <2>5. /\ received \o a \in Seq(NoteType) /\ Len(received \o a) = Len(received) + k
        /\ \A i \in 1..Len(received) : (received \o a)[i] = received[i]
        /\ \A i \in 1..k : (received \o a)[Len(received) + i] = a[i]
    <3>1. /\ received \o a \in Seq(NoteType)
          /\ Len(received \o a) = Len(received) + Len(a)
          /\ \A i \in 1..Len(received) : (received \o a)[i] = received[i]
          /\ \A i \in 1..Len(a) : (received \o a)[Len(received) + i] = a[i]
      <4>1. received \in Seq(NoteType) /\ a \in Seq(NoteType)
        BY <2>0, <2>1
      <4> QED BY ONLY <4>1, SeqConcat
    <3> QED BY <2>0, <2>1, <3>1
  <2>6. /\ received' \in Seq(NoteType)
        /\ Len(received') = Len(received) + k + Len(b)
        /\ \A i \in 1..Len(received) + k : received'[i] = (received \o a)[i]
        /\ \A i \in 1..Len(b) : received'[Len(received) + k + i] = b[i]
    <3>1. Len(received \o a) \in Nat /\ Len(b) \in Nat
      BY <2>0, <2>3, <2>5
    <3> DEFINE ra == received \o a
    <3>2. received' = ra \o b /\ ra \in Seq(NoteType) /\ Len(ra) = Len(received) + k
      BY <2>4, <2>5
    <3> HIDE DEF ra
    <3>3. /\ received' \in Seq(NoteType)
          /\ Len(received') = Len(ra) + Len(b)
          /\ \A i \in 1..Len(ra) : received'[i] = ra[i]
          /\ \A i \in 1..Len(b) : received'[Len(ra) + i] = b[i]
      BY <3>2, <2>3, SeqConcat
    <3>4. /\ received' \in Seq(NoteType)
          /\ Len(received') = Len(received) + k + Len(b)
          /\ \A i \in 1..Len(received) + k : received'[i] = ra[i]
          /\ \A i \in 1..Len(b) : received'[Len(received) + k + i] = b[i]
      BY <3>2, <3>3
    <3> QED BY <3>4 DEF ra
  <2>7. \A i \in 1..Len(received) : received'[i] = received[i]
    <3>1. \A i \in 1..Len(received) : i \in 1..Len(received) + k
      BY <2>0
    <3> QED BY <2>5, <2>6, <3>1
  <2>8. \A i \in 1..k : received'[Len(received) + i] = Done(notify_queue[i].msg)
    <3>1. \A i \in 1..k : Len(received) + i \in 1..Len(received) + k
      BY <2>0
    <3> QED BY <2>2, <2>5, <2>6, <3>1 DEF a
  <2>9. f.data => received'[Len(received) + k + 1] = Answer(f.msg)
    BY <2>0, <2>3, <2>6
  <2> QED BY <2>3, <2>6, <2>7, <2>8, <2>9
<1>11. /\ receive_seq' = f.seq
       /\ \/ /\ f.seq = receive_seq
             /\ UNCHANGED <<sent_queue, send_seq, last_ack_bytes, commandTimer>>
          \/ /\ f.seq > receive_seq /\ f.seq <= send_seq
             /\ sent_queue' \in Seq(BlockType)
             /\ Len(sent_queue') = Len(sent_queue) - (f.seq - receive_seq)
             /\ \A i \in 1..Len(sent_queue') :
                  sent_queue'[i] = sent_queue[i + (f.seq - receive_seq)]
             /\ send_seq' = send_seq /\ last_ack_bytes' = 1
             /\ commandTimer' = "now"
          \/ /\ f.seq > send_seq /\ f.seq > receive_seq
             /\ sent_queue' = <<>> /\ send_seq' = f.seq
             /\ last_ack_bytes' = last_ack_bytes
             /\ commandTimer' = "now"
  <2>0. /\ sent_queue \in Seq(BlockType) /\ f.seq \in Nat /\ receive_seq \in Nat
        /\ send_seq \in Nat /\ Len(sent_queue) = send_seq - receive_seq
    BY <1>2 DEF TypeOK, SentInv, ReplyType
  <2>1. CASE f.seq = receive_seq
    BY <2>1, <1>7
  <2>2. CASE f.seq # receive_seq /\ f.seq <= send_seq
    <3>1. f.seq - receive_seq \in 0..Len(sent_queue) /\ f.seq > receive_seq
      BY <2>0, <2>2, <1>4
    <3>2. UpdateReceiveSeq(f.seq)
      BY <2>2, <1>7
    <3>3. /\ sent_queue' = SubSeq(sent_queue, (f.seq - receive_seq) + 1, Len(sent_queue))
          /\ send_seq' = send_seq /\ last_ack_bytes' = 1
          /\ commandTimer' = "now" /\ receive_seq' = f.seq
      <4> DEFINE n == f.seq - receive_seq
      <4>1. n <= Len(sent_queue) /\ n \in Nat
        BY <3>1
      <4> QED BY <4>1, <3>2 DEF UpdateReceiveSeq
    <3>4. /\ sent_queue' \in Seq(BlockType)
          /\ Len(sent_queue') = Len(sent_queue) - (f.seq - receive_seq)
          /\ \A i \in 1..Len(sent_queue) - (f.seq - receive_seq) :
               sent_queue'[i] = sent_queue[i + (f.seq - receive_seq)]
      BY <2>0, <3>1, <3>3, SeqRest
    <3> QED BY <2>2, <3>1, <3>3, <3>4
  <2>3. CASE f.seq > send_seq
    <3>1. ~(f.seq - receive_seq <= Len(sent_queue)) /\ f.seq > receive_seq
      BY <2>0, <2>3
    <3>2. UpdateReceiveSeq(f.seq)
      BY <2>0, <3>1, <1>7
    <3> QED BY <2>3, <3>1, <3>2 DEF UpdateReceiveSeq
  <2> QED BY <2>0, <2>1, <2>2, <2>3
<1>12. /\ retransmitTimer' \in {"now", Rearm(f.seq)}
       /\ retransmitTimer' = "now" =>
            \/ Rearm(f.seq) = "now"
            \/ f.seq > ignore_nak_seq /\ sent_queue' # <<>>
  BY <1>7
<1>13. Rearm(f.seq) = IF f.seq = receive_seq THEN retransmitTimer
                      ELSE IF sent_queue' = <<>> THEN "never" ELSE "later"
  BY DEF Rearm
<1>14. f.seq \in Nat /\ receive_seq \in Nat /\ send_seq \in Nat
  BY <1>2 DEF TypeOK, ReplyType
<1>15. Handled(f, k)
  BY <1>1, <1>2, <1>4, <1>5, <1>7, <1>8, <1>9, <1>10, <1>11, <1>12, <1>13, <1>14
     DEF Handled
<1> QED BY <1>15 DEF f
-----------------------------------------------------------------------------
(* The invariant is inductive: one lemma per action.                       *)

USE DEF hostVars, queueVars, mcuVars

LEMMA SubmitStep == ASSUME IInv, Submit PROVE IInv'
<1> USE DEF IInv
<1>1. /\ submitted' = submitted + 1 /\ submitted < MaxMsgs
      /\ Connecting => built = submitted /\ notify_queue = <<>>
      /\ UNCHANGED <<hostVars, built, pipe, commandTimer, toMcu, toHost,
                     mcuVars, incidents>>
  BY DEF Submit
<1>2. \/ need_kick' = "no" /\ kicking'
      \/ need_kick # "max" /\ UNCHANGED <<need_kick, kicking>>
  BY DEF Submit
<1>21. need_kick' \in {"no", "clock", "max"} /\ kicking' \in BOOLEAN
  BY DEF Submit, TypeOK
<1>3. TypeOK'
  BY <1>1, <1>21, LinkAssumption DEF TypeOK
<1>4. Offset' = Offset /\ Synced' = Synced /\ Taken' = Taken
      /\ AckPending' = AckPending /\ Connecting' = Connecting
  BY <1>1 DEF Offset, Synced, Taken, AckPending, Connecting
<1>5. SentInv' /\ NextInv' /\ RepliesInv' /\ TaskInv' /\ NotifyInv'
  BY <1>1, <1>4 DEF SentInv, NextInv, RepliesInv, TaskInv, NotifyInv
<1>6. FramesInv'
  BY <1>1, <1>4 DEF FramesInv, FrameOK, Near, IsGarbage
<1>7. AnswersInv'
  BY <1>1, <1>4 DEF AnswersInv
<1>8. TimerInv' /\ OnceInv'
  BY <1>1, <1>4 DEF TimerInv, OnceInv
<1>9. WakeInv'
  BY <1>1, <1>2 DEF WakeInv
<1>10. ConnectInv'
  BY <1>1, <1>4 DEF ConnectInv, TypeOK
<1> QED BY <1>3, <1>5, <1>6, <1>7, <1>8, <1>9, <1>10

LEMMA KickStep == ASSUME IInv, KickBgThread \/ KickEvent PROVE IInv'
<1> USE DEF IInv
<1>1. /\ UNCHANGED <<hostVars, submitted, built, need_kick, toMcu, toHost,
                     mcuVars, incidents>>
      /\ kicking' \in BOOLEAN /\ pipe' \in BOOLEAN
      /\ commandTimer' \in {commandTimer, "now"}
      /\ pipe' \/ commandTimer' = "now"
  BY DEF KickBgThread, KickEvent, TypeOK
<1>3. TypeOK'
  BY <1>1 DEF TypeOK
<1>4. Offset' = Offset /\ Synced' = Synced /\ Taken' = Taken
      /\ AckPending' = AckPending /\ Connecting' = Connecting
  BY <1>1 DEF Offset, Synced, Taken, AckPending, Connecting
<1>5. SentInv' /\ NextInv' /\ RepliesInv' /\ TaskInv' /\ NotifyInv'
  BY <1>1, <1>4 DEF SentInv, NextInv, RepliesInv, TaskInv, NotifyInv
<1>6. FramesInv'
  BY <1>1, <1>4 DEF FramesInv, FrameOK, Near, IsGarbage
<1>7. AnswersInv'
  BY <1>1, <1>4 DEF AnswersInv
<1>8. TimerInv' /\ OnceInv' /\ ConnectInv'
  BY <1>1, <1>4 DEF TimerInv, OnceInv, ConnectInv
<1>9. WakeInv'
  BY <1>1 DEF WakeInv
<1> QED BY <1>3, <1>5, <1>6, <1>7, <1>8, <1>9

(* A retransmission, for whatever reason. *)
LEMMA RetransmitStep ==
  ASSUME IInv, NEW k \in 0..Len(toMcu), NEW torn \in BOOLEAN,
         RetransmitEvent(k, torn), retransmitTimer # "never",
         incidents' \in 0..MaxIncidents
  PROVE  IInv'
<1> USE DEF IInv
<1>1. /\ retransmit_seq' = send_seq /\ retransmitTimer' = "later"
      /\ ignore_nak_seq' = IgnoreNak
      /\ nakSeq' = IF retransmitTimer = "now" THEN receive_seq ELSE nakSeq
      /\ UNCHANGED <<queueVars, send_seq, receive_seq, last_ack_seq,
                     last_ack_bytes, sent_queue, notify_queue, received,
                     commandTimer, toHost, mcuVars>>
  BY DEF RetransmitEvent
<1>2. PICK t \in {0, 1} :
           /\ k + t <= Len(toMcu)
           /\ toMcu' \in Seq(BlockType)
           /\ Len(toMcu') = k + t + Len(sent_queue)
           /\ \A i \in 1..k : toMcu'[i] = toMcu[i]
           /\ t = 1 => toMcu'[k+1] = Garble(toMcu[k+1])
           /\ \A i \in 1..Len(sent_queue) : toMcu'[k + t + i] = sent_queue[i]
  BY RetransmitFacts
<1>3. TypeOK'
  BY <1>1, <1>2 DEF TypeOK, IgnoreNak
<1>4. Offset' = Offset /\ Synced' = Synced /\ Taken' = Taken
      /\ AckPending' = AckPending /\ Connecting' = Connecting
  BY <1>1 DEF Offset, Synced, Taken, AckPending, Connecting
<1>5. SentInv' /\ NextInv' /\ RepliesInv' /\ TaskInv' /\ NotifyInv'
  BY <1>1, <1>4 DEF SentInv, NextInv, RepliesInv, TaskInv, NotifyInv
<1>6. FramesInv'
  <2> DEFINE n == Len(sent_queue)
             m == k + t
  <2>0. /\ n \in Nat /\ k \in Nat /\ m \in Nat /\ Len(toMcu) \in Nat
        /\ Len(rx) \in Nat /\ MaxPending \in Nat /\ MaxPending >= 1
        /\ \A i \in 1..Len(toMcu) : toMcu[i].seq \in Nat /\ toMcu[i].msg \in Nat
        /\ \A i \in 1..Len(rx) : rx[i].seq \in Nat
        /\ \A i \in 1..n : sent_queue[i].seq \in Nat
        /\ send_seq \in Nat /\ receive_seq \in Nat /\ next \in Nat
        /\ Len(toMcu') \in Nat /\ Len(toMcu') = m + n
    <3>1. n \in Nat /\ k \in Nat /\ m \in Nat /\ Len(toMcu) \in Nat
      BY <1>2, Types
    <3>2. Len(toMcu') = m + n
      BY <1>2
    <3>3. /\ Len(rx) \in Nat /\ MaxPending \in Nat /\ MaxPending >= 1
          /\ send_seq \in Nat /\ receive_seq \in Nat /\ next \in Nat
      BY Types
    <3>4. /\ \A i \in 1..Len(toMcu) : toMcu[i].seq \in Nat /\ toMcu[i].msg \in Nat
          /\ \A i \in 1..Len(rx) : rx[i].seq \in Nat
          /\ \A i \in 1..Len(sent_queue) : sent_queue[i].seq \in Nat
      BY Types
    <3> QED BY <3>1, <3>2, <3>3, <3>4
  <2>1. \A i \in 1..m : /\ i \in 1..Len(toMcu)
                        /\ toMcu'[i].seq = toMcu[i].seq
                        /\ \/ toMcu'[i].msg = toMcu[i].msg
                           \/ toMcu'[i].msg = 0
    <3> SUFFICES ASSUME NEW i \in 1..m
                 PROVE  /\ i \in 1..Len(toMcu)
                        /\ toMcu'[i].seq = toMcu[i].seq
                        /\ \/ toMcu'[i].msg = toMcu[i].msg
                           \/ toMcu'[i].msg = 0
      OBVIOUS
    <3>1. i \in 1..Len(toMcu)
      BY <1>2, <2>0
    <3>2. CASE i \in 1..k
      BY <1>2, <3>1, <3>2
    <3>3. CASE i = k + 1 /\ t = 1
      <4>1. toMcu'[i] = Garble(toMcu[i])
        BY <1>2, <3>3
      <4> QED BY <3>1, <4>1 DEF Garble, Block
    <3>4. i \in 1..k \/ (i = k + 1 /\ t = 1)
      BY <2>0
    <3> QED BY <3>2, <3>3, <3>4
  <2>2. \A i \in 1..Len(toMcu') :
          \/ i \in 1..m
          \/ i - m \in 1..n /\ toMcu'[i] = sent_queue[i - m] /\ i > m
    <3> SUFFICES ASSUME NEW i \in 1..Len(toMcu'), i \notin 1..m
                 PROVE  i - m \in 1..n /\ toMcu'[i] = sent_queue[i - m] /\ i > m
      OBVIOUS
    <3>1. i > m /\ i - m \in 1..n /\ m + (i - m) = i
      BY <2>0
    <3>2. toMcu'[m + (i - m)] = sent_queue[i - m]
      BY <1>2, <3>1
    <3> QED BY <3>1, <3>2
  <2>3. \A i \in 1..n : /\ sent_queue[i].seq >= send_seq - MaxPending
                        /\ sent_queue[i].seq >= receive_seq
                        /\ sent_queue[i].seq < send_seq
                        /\ sent_queue[i].seq = receive_seq + i - 1
                        /\ sent_queue[i].msg = sent_queue[i].seq - Offset
    BY SMTT(30), <2>0 DEF SentInv
  <2> HIDE DEF n, m
  <2>4. (\A i \in 1..Len(toMcu) : FrameOK(toMcu[i]))'
    <3>1. ASSUME NEW i \in 1..m PROVE (FrameOK(toMcu[i]))'
      BY <1>1, <1>4, <2>1 DEF FramesInv, FrameOK, IsGarbage
    <3>2. ASSUME NEW i \in 1..n PROVE (FrameOK(sent_queue[i]))'
      <4>0. /\ sent_queue[i].seq >= receive_seq /\ sent_queue[i].seq \in Nat
            /\ receive_seq \in Nat
        BY ONLY <2>0, <2>3, i \in 1..n
      <4>1. sent_queue[i].seq >= 1
        <5>1. receive_seq >= 1
          BY DEF SentInv
        <5> QED BY ONLY <4>0, <5>1
      <4>2. sent_queue[i].seq > next - SeqMod
        <5>1. CASE Synced
          BY SMTT(30), <2>0, <2>3, <5>1, LinkAssumption DEF NextInv
        <5>2. CASE ~Synced
          BY <2>0, <4>1, <5>2, LinkAssumption DEF Synced, TypeOK
        <5> QED BY <5>1, <5>2
      <4> QED BY <1>1, <1>4, <2>3, <4>1, <4>2 DEF FrameOK
    <3>3. ASSUME NEW i \in 1..Len(toMcu') PROVE (FrameOK(toMcu[i]))'
      <4>1. CASE i - m \in 1..n /\ toMcu'[i] = sent_queue[i - m]
        <5>1. (FrameOK(sent_queue[i - m]))'
          BY <3>2, <4>1
        <5> QED BY <1>1, <4>1, <5>1 DEF FrameOK, IsGarbage
      <4> QED BY <2>2, <3>1, <4>1
    <3> QED BY <3>3
  <2>5. \A i, j \in 1..Len(toMcu') : i < j => Near(toMcu'[i], toMcu'[j])
    <3> SUFFICES ASSUME NEW i \in 1..Len(toMcu'), NEW j \in 1..Len(toMcu'), i < j
                 PROVE  Near(toMcu'[i], toMcu'[j])
      OBVIOUS
    <3>1. CASE i \in 1..m /\ j \in 1..m
      BY <2>1, <3>1 DEF FramesInv, Near
    <3>2. CASE i \in 1..m /\ j - m \in 1..n /\ toMcu'[j] = sent_queue[j - m]
      <4>1. toMcu[i].seq < send_seq /\ toMcu'[i].seq = toMcu[i].seq
            /\ toMcu[i].seq \in Nat
        BY <2>0, <2>1, <3>2 DEF FramesInv, FrameOK
      <4>2. sent_queue[j - m].seq >= send_seq - MaxPending
            /\ sent_queue[j - m].seq \in Nat
        BY <2>0, <2>3, <3>2
      <4>3. /\ toMcu'[j].seq \in Nat /\ toMcu'[j].seq >= send_seq - MaxPending
            /\ toMcu'[i].seq \in Nat /\ toMcu'[i].seq < send_seq
        BY <3>2, <4>1, <4>2
      <4> HIDE DEF Near
      <4> QED BY SMTT(30), <2>0, <4>3 DEF Near
    <3>3. CASE /\ i - m \in 1..n /\ toMcu'[i] = sent_queue[i - m]
               /\ j - m \in 1..n /\ toMcu'[j] = sent_queue[j - m]
      <4>1. /\ toMcu'[i].seq = receive_seq + (i - m) - 1
            /\ toMcu'[j].seq = receive_seq + (j - m) - 1
        BY ONLY <2>3, <3>3
      <4>2. i \in Nat /\ j \in Nat /\ i < j
        BY <2>0
      <4>3. toMcu'[j].seq >= toMcu'[i].seq + 1 - MaxPending
        BY ONLY <2>0, <4>1, <4>2
      <4> QED BY ONLY <4>3 DEF Near
    <3> QED BY <2>0, <2>2, <3>1, <3>2, <3>3
  <2>6. \A i \in 1..Len(rx), j \in 1..Len(toMcu') : Near(rx[i], toMcu'[j])
    <3> SUFFICES ASSUME NEW i \in 1..Len(rx), NEW j \in 1..Len(toMcu')
                 PROVE  Near(rx[i], toMcu'[j])
      OBVIOUS
    <3>1. CASE j \in 1..m
      BY <2>1, <3>1 DEF FramesInv, Near
    <3>2. CASE j - m \in 1..n /\ toMcu'[j] = sent_queue[j - m]
      <4>1. rx[i].seq < send_seq /\ rx[i].seq \in Nat
        BY <2>0 DEF FramesInv, FrameOK
      <4>2. sent_queue[j - m].seq >= send_seq - MaxPending
            /\ sent_queue[j - m].seq \in Nat
        BY <2>0, <2>3, <3>2
      <4>3. /\ toMcu'[j].seq \in Nat /\ toMcu'[j].seq >= send_seq - MaxPending
        BY <3>2, <4>2
      <4> QED BY SMTT(30), <2>0, <4>1, <4>3 DEF Near
    <3> QED BY <2>2, <3>1, <3>2
  <2>7. rx' = rx
    BY <1>1
  <2>8. /\ (\A i \in 1..Len(rx) : FrameOK(rx[i]))'
        /\ \A i, j \in 1..Len(rx') : i < j => Near(rx'[i], rx'[j])
    BY <1>1, <1>4 DEF FramesInv, FrameOK, Near, IsGarbage
  <2> QED BY <2>4, <2>5, <2>6, <2>7, <2>8 DEF FramesInv
<1>7. AnswersInv'
  BY <1>1, <1>4 DEF AnswersInv
<1>8. TimerInv'
  <2>1. sent_queue # <<>>
    BY DEF TimerInv
  <2>2. /\ nakSeq <= ignore_nak_seq /\ nakSeq <= receive_seq
        /\ retransmitTimer = "now" => receive_seq > ignore_nak_seq
    BY DEF TimerInv
  <2>3. /\ nakSeq \in Nat /\ ignore_nak_seq \in Nat /\ receive_seq \in Nat
        /\ send_seq \in Nat /\ retransmit_seq \in Nat
        /\ receive_seq <= send_seq
    BY Types DEF TypeOK, SentInv
  <2>4. nakSeq' <= ignore_nak_seq' /\ nakSeq' <= receive_seq'
    BY ONLY <1>1, <2>2, <2>3 DEF IgnoreNak
  <2> QED BY ONLY <1>1, <2>1, <2>4 DEF TimerInv
<1>9. OnceInv'
  BY <1>1, <1>3 DEF OnceInv, SentInv, TypeOK
<1>10. WakeInv'
  BY <1>1 DEF WakeInv
<1>11. ConnectInv'
  <2>1. built # 0
    BY SMTT(30), Types DEF TimerInv, SentInv
  <2> QED BY <1>1, <1>4, <2>1 DEF ConnectInv
<1> QED BY <1>3, <1>5, <1>6, <1>7, <1>8, <1>9, <1>10, <1>11

(* As long as the two sides have not agreed, only one command is under way.*)
LEMMA OneRequest ==
  ASSUME IInv, ~Synced
  PROVE  /\ receive_seq = 1 /\ Connecting
         /\ submitted - built + Len(notify_queue) <= 1
         /\ built = 0 => send_seq = 1
<1> QED BY Types DEF IInv, Synced, ConnectInv, NextInv, SentInv

LEMMA CommandStep ==
  ASSUME IInv, NEW n \in 0..MaxPending, CommandEvent(n)
  PROVE  IInv'
<1> USE DEF IInv
<1>1. /\ commandTimer # "never" /\ \A i \in 0..n-1 : MaySend(i)
      /\ retransmitTimer' = IF n > 0 /\ sent_queue = <<>> THEN "later"
                            ELSE retransmitTimer
      /\ UNCHANGED <<submitted, receive_seq, last_ack_seq, ignore_nak_seq,
                   retransmit_seq, last_ack_bytes, received, nakSeq, kicking,
                   pipe, toHost, mcuVars, incidents>>
  BY DEF CommandEvent
<1>2. \/ ~MaySend(n) /\ commandTimer' = "never" /\ need_kick' = need_kick
      \/ commandTimer' = "never" /\ need_kick' = "max" /\ built' = submitted
      \/ commandTimer' = "later" /\ need_kick' = "clock"
  BY DEF CommandEvent
<1>3. /\ n \in Nat /\ send_seq' = send_seq + n /\ built' = built + n
      /\ built + n <= submitted /\ submitted' = submitted
      /\ Extends(toMcu, toMcu', n)
      /\ Extends(sent_queue, sent_queue', n)
      /\ Extends(notify_queue, notify_queue', n)
  BY CommandFacts
<1> DEFINE L == Len(toMcu)  S == Len(sent_queue)  Q == Len(notify_queue)
<1>4. /\ L \in Nat /\ S \in Nat /\ Q \in Nat /\ Len(rx) \in Nat
      /\ submitted \in Nat /\ built \in Nat /\ built <= submitted
      /\ send_seq \in Nat /\ receive_seq \in Nat /\ next \in Nat
      /\ first \in Nat /\ first >= 1 /\ first <= SeqMod
      /\ SeqMod \in Nat /\ MaxPending \in Nat /\ Window \in Nat
      /\ MaxPending >= 1 /\ MaxPending < SeqMod /\ Window >= 2
  BY Types
<1>5. /\ toMcu' \in Seq(BlockType) /\ Len(toMcu') = L + n
      /\ \A i \in 1..L : toMcu'[i] = toMcu[i]
      /\ \A i \in 1..n : /\ toMcu'[L + i].seq = send_seq + i - 1
                         /\ toMcu'[L + i].msg = built + i
  BY <1>3 DEF Extends
<1>6. /\ sent_queue' \in Seq(BlockType) /\ Len(sent_queue') = S + n
      /\ \A i \in 1..S : sent_queue'[i] = sent_queue[i]
      /\ \A i \in 1..n : /\ sent_queue'[S + i].seq = send_seq + i - 1
                         /\ sent_queue'[S + i].msg = built + i
  BY <1>3 DEF Extends
<1>7. /\ notify_queue' \in Seq(BlockType) /\ Len(notify_queue') = Q + n
      /\ \A i \in 1..Q : notify_queue'[i] = notify_queue[i]
      /\ \A i \in 1..n : /\ notify_queue'[Q + i].seq = send_seq + i - 1
                         /\ notify_queue'[Q + i].msg = built + i
  BY <1>3 DEF Extends
<1>8. TypeOK'
  <2>1. need_kick' \in {"no", "clock", "max"}
        /\ commandTimer' \in {"now", "later", "never"}
    BY <1>2 DEF TypeOK
  <2>2. retransmitTimer' \in {"now", "later", "never"}
    BY <1>1 DEF TypeOK
  <2>3. built' \in 0..submitted' /\ send_seq' \in Nat
    BY <1>3, <1>4
  <2> QED BY <1>1, <1>3, <1>5, <1>6, <1>7, <2>1, <2>2, <2>3 DEF TypeOK
<1>9. Offset' = Offset /\ Synced' = Synced /\ Taken' = Taken
      /\ AckPending' = AckPending /\ Connecting' = Connecting
  <2>1. Offset' = Offset /\ Synced' = Synced
        /\ AckPending' = AckPending /\ Connecting' = Connecting
    BY <1>1, <1>3, <1>4 DEF Offset, Synced, AckPending, Connecting
  <2>2. built' - (send_seq' - next') = built - (send_seq - next)
    BY <1>1, <1>3, <1>4
  <2> QED BY <2>1, <2>2 DEF Taken
<1>10. /\ S = send_seq - receive_seq
       /\ n > 0 => /\ S + n <= MaxPending
                   /\ S + n + (IF AckPending THEN last_ack_bytes ELSE 0) <= Window
  <2>1. S = send_seq - receive_seq
    BY DEF SentInv
  <2>2. ASSUME n > 0
        PROVE  /\ S + n <= MaxPending
               /\ S + n + (IF AckPending THEN last_ack_bytes ELSE 0) <= Window
    <3> DEFINE w == IF AckPending THEN last_ack_bytes ELSE 0
    <3>1. n - 1 \in 0..n-1
      BY <1>4, <2>2
    <3>2. MaySend(n - 1)
      BY <1>1, <3>1
    <3>3. w \in {0, 1}
      BY DEF TypeOK
    <3>4. send_seq + (n - 1) > receive_seq => S + (n - 1) + 1 + w <= Window
      BY <3>2 DEF MaySend, AckPending
    <3>5. send_seq + (n - 1) - receive_seq < MaxPending
      BY <3>2 DEF MaySend
    <3> HIDE DEF w, S
    <3>6. S + n <= MaxPending
      BY <1>4, <2>1, <3>5, <1>3
    <3>7. S + n + w <= Window
      BY <1>3, <1>4, <2>1, <2>2, <3>3, <3>4
    <3> QED BY <3>6, <3>7 DEF w
  <2> QED BY <2>1, <2>2
<1>11. Offset \in Int /\ \A i \in 1..n : built + i = (send_seq + i - 1) - Offset
  BY <1>4 DEF Offset
<1> HIDE DEF L, S, Q
<1>12. SentInv'
  <2>1. ASSUME NEW i \in 1..S + n
        PROVE  /\ sent_queue'[i].seq = receive_seq + i - 1
               /\ sent_queue'[i].msg = sent_queue'[i].seq - Offset
    <3>1. CASE i \in 1..S
      BY <1>6, <3>1 DEF SentInv, S
    <3>2. CASE i > S
      <4>1. i - S \in 1..n /\ S + (i - S) = i
        BY <1>3, <1>4, <3>2
      <4>2. /\ sent_queue'[i].seq = send_seq + (i - S) - 1
            /\ sent_queue'[i].msg = built + (i - S)
        BY <1>6, <4>1
      <4> QED BY <1>4, <1>10, <1>11, <4>1, <4>2
    <3> QED BY <1>4, <3>1, <3>2
  <2>2. S + n <= MaxPending
    BY <1>3, <1>4, <1>10 DEF SentInv, S
  <2>3. S + n = (send_seq + n) - receive_seq /\ S + n <= built + n
    BY <1>3, <1>4, <1>10 DEF SentInv, S
  <2>4. receive_seq >= 1 /\ last_ack_seq <= receive_seq
    BY DEF SentInv
  <2> QED BY <1>1, <1>3, <1>6, <1>9, <2>1, <2>2, <2>3, <2>4 DEF SentInv
<1>13. NextInv'
  <2>1. Synced => receive_seq <= next /\ next <= send_seq + n
    BY <1>3, <1>4 DEF NextInv
  <2>2. ~Synced => S + n = built + n
    BY DEF NextInv, S
  <2> QED BY <1>1, <1>3, <1>6, <1>9, <2>1, <2>2 DEF NextInv
<1>14. FramesInv'
  <2> DEFINE Fits(f) == /\ 1 <= f.seq /\ f.seq < send_seq + n
                        /\ f.seq > next - SeqMod
                        /\ ~IsGarbage(f) /\ f.seq >= next => f.msg = f.seq - Offset
  <2>1. ASSUME NEW f \in BlockType, FrameOK(f)
        PROVE  Fits(f)
    BY <1>3, <1>4, <2>1 DEF FrameOK, IsGarbage, BlockType
  <2>2. ASSUME NEW i \in 1..n
        PROVE  Fits(toMcu'[L + i])
    <3>1. /\ toMcu'[L + i].seq = send_seq + i - 1
          /\ toMcu'[L + i].msg = built + i
          /\ built + i = (send_seq + i - 1) - Offset
      BY <1>5, <1>11
    <3>2. send_seq + i - 1 >= 1 /\ send_seq + i - 1 < send_seq + n
      BY <1>3, <1>4, <1>10 DEF SentInv, S
    <3>3. send_seq + i - 1 > next - SeqMod
      <4>1. CASE Synced
        BY <1>3, <1>4, <4>1 DEF NextInv
      <4>2. CASE ~Synced
        BY <1>3, <1>4, <3>2, <4>2 DEF Synced
      <4> QED BY <4>1, <4>2
    <3> QED BY <3>1, <3>2, <3>3
  <2>3. ASSUME NEW i \in 1..L + n
        PROVE  \/ i \in 1..L /\ toMcu'[i] = toMcu[i]
               \/ i - L \in 1..n /\ L + (i - L) = i /\ toMcu'[i].seq >= send_seq
                  /\ toMcu'[i].seq = send_seq + (i - L) - 1
    <3>1. CASE i \in 1..L
      BY <1>5, <3>1
    <3>2. CASE i > L
      <4>1. i - L \in 1..n /\ L + (i - L) = i
        BY <1>3, <1>4, <3>2
      <4>2. toMcu'[L + (i - L)].seq = send_seq + (i - L) - 1
        BY <1>5, <4>1
      <4> QED BY <1>4, <4>1, <4>2
    <3> QED BY <1>4, <3>1, <3>2
  <2>4. \A i \in 1..L + n : Fits(toMcu'[i])
    <3> SUFFICES ASSUME NEW i \in 1..L + n PROVE Fits(toMcu'[i])
      OBVIOUS
    <3>1. CASE i \in 1..L /\ toMcu'[i] = toMcu[i]
      <4>1. toMcu[i] \in BlockType /\ FrameOK(toMcu[i])
        BY <3>1, Types DEF FramesInv, L
      <4>2. Fits(toMcu[i])
        BY <2>1, <4>1
      <4> QED BY <3>1, <4>2
    <3>2. CASE i - L \in 1..n /\ L + (i - L) = i
      <4>1. Fits(toMcu'[L + (i - L)])
        BY ONLY <2>2, <3>2
      <4> QED BY ONLY <3>2, <4>1
    <3> QED BY <2>3, <3>1, <3>2
  <2>5. \A i, j \in 1..L + n : i < j => Near(toMcu'[i], toMcu'[j])
    <3> SUFFICES ASSUME NEW i \in 1..L + n, NEW j \in 1..L + n, i < j
                 PROVE  Near(toMcu'[i], toMcu'[j])
      OBVIOUS
    <3>1. CASE i \in 1..L /\ j \in 1..L
      BY <1>5, <3>1 DEF FramesInv, L
    <3>2. CASE i \in 1..L /\ j > L
      <4>1. toMcu'[i].seq < send_seq /\ toMcu'[i].seq \in Nat
        BY <1>5, <3>2, Types DEF FramesInv, FrameOK, L
      <4>2. toMcu'[j].seq >= send_seq /\ toMcu'[j].seq \in Int
        <5>1. j - L \in 1..n /\ toMcu'[j].seq >= send_seq
              /\ toMcu'[j].seq = send_seq + (j - L) - 1
          BY <1>4, <2>3, <3>2
        <5> QED BY <1>4, <5>1
      <4> QED BY <1>4, <4>1, <4>2 DEF Near
    <3>3. CASE i > L /\ j > L
      <4>1. /\ toMcu'[j].seq = send_seq + (j - L) - 1
            /\ toMcu'[i].seq = send_seq + (i - L) - 1
        BY <1>4, <2>3, <3>3
      <4> QED BY SMTT(30), <1>3, <1>4, <4>1 DEF Near
    <3> QED BY <1>3, <1>4, <3>1, <3>2, <3>3
  <2>6. \A i \in 1..Len(rx), j \in 1..L + n : Near(rx[i], toMcu'[j])
    <3> SUFFICES ASSUME NEW i \in 1..Len(rx), NEW j \in 1..L + n
                 PROVE  Near(rx[i], toMcu'[j])
      OBVIOUS
    <3>1. CASE j \in 1..L
      BY <1>5, <3>1 DEF FramesInv, L
    <3>2. CASE j > L
      <4>1. rx[i].seq < send_seq /\ rx[i].seq \in Nat
        BY Types DEF FramesInv, FrameOK
      <4>2. toMcu'[j].seq >= send_seq /\ toMcu'[j].seq \in Int
        <5>1. j - L \in 1..n /\ toMcu'[j].seq >= send_seq
              /\ toMcu'[j].seq = send_seq + (j - L) - 1
          BY <1>4, <2>3, <3>2
        <5> QED BY <1>4, <5>1
      <4> QED BY <1>4, <4>1, <4>2 DEF Near
    <3> QED BY <1>4, <3>1, <3>2
  <2>7. \A i \in 1..Len(rx) : Fits(rx[i])
    <3> SUFFICES ASSUME NEW i \in 1..Len(rx) PROVE Fits(rx[i])
      OBVIOUS
    <3>1. rx[i] \in BlockType /\ FrameOK(rx[i])
      BY Types DEF FramesInv
    <3> QED BY <2>1, <3>1
  <2>8. (\A i, j \in 1..Len(rx) : i < j => Near(rx[i], rx[j]))'
    BY <1>1 DEF FramesInv, Near
  <2>9. rx' = rx /\ next' = next /\ Len(toMcu') = L + n
    BY <1>1, <1>5
  <2>10. /\ (\A i \in 1..Len(toMcu) : FrameOK(toMcu[i]))'
         /\ (\A i \in 1..Len(rx) : FrameOK(rx[i]))'
    BY <1>3, <1>9, <2>4, <2>7, <2>9 DEF FrameOK, IsGarbage
  <2> QED BY <2>5, <2>6, <2>8, <2>9, <2>10 DEF FramesInv, Near
<1>15. RepliesInv' /\ TaskInv'
  BY <1>1, <1>9 DEF RepliesInv, TaskInv
<1>16. NotifyInv'
  <2>1. ASSUME NEW i \in 1..Q + n
        PROVE  /\ notify_queue'[i].seq = (send_seq + n) - (Q + n) + i - 1
               /\ 1 <= notify_queue'[i].seq /\ notify_queue'[i].seq < send_seq + n
               /\ notify_queue'[i].msg = notify_queue'[i].seq - Offset
               /\ notify_queue'[i].msg # 0
    <3>1. CASE i \in 1..Q
      <4>1. /\ notify_queue[i].seq \in Nat /\ notify_queue[i].seq < send_seq
            /\ 1 <= notify_queue[i].seq
            /\ notify_queue[i].seq = send_seq - Q + i - 1
            /\ notify_queue[i].msg = notify_queue[i].seq - Offset
            /\ notify_queue[i].msg # 0
        BY <3>1, Types DEF NotifyInv, Q
      <4>2. notify_queue'[i] = notify_queue[i]
        BY <1>7, <3>1
      <4> QED BY <1>3, <1>4, <4>1, <4>2
    <3>2. CASE i > Q
      <4>1. i - Q \in 1..n /\ Q + (i - Q) = i
        BY <1>3, <1>4, <3>2
      <4>2. /\ notify_queue'[i].seq = send_seq + (i - Q) - 1
            /\ notify_queue'[i].msg = built + (i - Q)
            /\ built + (i - Q) = (send_seq + (i - Q) - 1) - Offset
        BY <1>7, <1>11, <4>1
      <4>3. /\ built + (i - Q) # 0 /\ send_seq + (i - Q) - 1 < send_seq + n
            /\ 1 <= send_seq + (i - Q) - 1
            /\ send_seq + (i - Q) - 1 = (send_seq + n) - (Q + n) + i - 1
        <5>1. send_seq >= 1
          BY <1>4 DEF SentInv
        <5> QED BY <1>3, <1>4, <4>1, <5>1
      <4> QED BY <4>2, <4>3
    <3> QED BY <1>4, <3>1, <3>2
  <2>2. receive_seq = 1 => Q + n = built + n
    BY DEF NotifyInv, Q
  <2> QED BY <1>1, <1>3, <1>7, <1>9, <2>1, <2>2 DEF NotifyInv
<1>17. AnswersInv'
  BY <1>1, <1>9 DEF AnswersInv
<1>18. TimerInv'
  <2>1. n = 0 => sent_queue' = sent_queue
    <3> SUFFICES ASSUME n = 0 PROVE sent_queue' = sent_queue
      OBVIOUS
    <3>1. /\ sent_queue \in Seq(BlockType) /\ sent_queue' \in Seq(BlockType)
          /\ Len(sent_queue') = Len(sent_queue)
          /\ \A i \in 1..Len(sent_queue) : sent_queue'[i] = sent_queue[i]
      BY <1>4, <1>6 DEF TypeOK, S
    <3> QED BY <3>1
  <2>2. n > 0 => sent_queue' # <<>>
    BY <1>3, <1>4, <1>6
  <2> QED BY <1>1, <1>3, <2>1, <2>2 DEF TimerInv
<1>19. WakeInv'
  <2>1. CASE ~MaySend(n)
    <3>1. S + n > 0
      BY <1>3, <1>4, <1>10, <2>1 DEF MaySend
    <3>2. sent_queue' # <<>>
      BY <1>3, <1>4, <1>6, <3>1
    <3> QED BY <3>2 DEF WakeInv
  <2>2. CASE commandTimer' = "never" /\ need_kick' = "max" /\ built' = submitted
    BY <1>1, <1>3, <1>4, <2>2 DEF WakeInv
  <2>3. CASE commandTimer' = "later"
    BY <2>3 DEF WakeInv
  <2> QED BY <1>2, <2>1, <2>2, <2>3
<1>20. OnceInv'
  <2> SUFFICES ASSUME retransmit_seq = 0, n > 0 PROVE OnceInv'
    <3>1. CASE retransmit_seq # 0
      BY <1>1, <3>1 DEF OnceInv
    <3>2. CASE n = 0
      <4>1. /\ Len(sent_queue') = Len(sent_queue) /\ Len(toMcu') = Len(toMcu)
            /\ \A i \in 1..Len(toMcu) : toMcu'[i] = toMcu[i]
        BY <1>4, <1>5, <1>6, <3>2 DEF L, S
      <4>2. toMcu' = toMcu
        <5>1. toMcu' \in Seq(BlockType) /\ toMcu \in Seq(BlockType)
          BY <1>5 DEF TypeOK
        <5> QED BY ONLY <4>1, <5>1
      <4> QED BY <1>1, <1>9, <4>1, <4>2 DEF OnceInv
    <3> QED BY <1>3, <1>4, <3>1, <3>2
  <2>0. /\ ~overflow
        /\ \A i \in 1..Len(rx) : rx[i].seq \in Nat /\ rx[i].seq < send_seq
        /\ \A i \in 1..L : toMcu[i].seq \in Nat /\ toMcu[i].seq < send_seq
    BY Types DEF OnceInv, FramesInv, FrameOK, L
  <2>1. /\ \A i \in 1..L : toMcu'[i].seq = toMcu[i].seq
        /\ \A j \in L + 1 .. L + n : toMcu'[j].seq = send_seq + (j - L) - 1
    <3>1. ASSUME NEW j \in L + 1 .. L + n
          PROVE  toMcu'[j].seq = send_seq + (j - L) - 1
      <4>1. j - L \in 1..n /\ L + (j - L) = j
        BY <1>3, <1>4
      <4> QED BY <1>5, <4>1
    <3> QED BY <1>5, <3>1
  <2>2. \A i, j \in 1..L + n :
             i < j => toMcu'[j].seq >= toMcu'[i].seq + (j - i)
    <3> SUFFICES ASSUME NEW i \in 1..L + n, NEW j \in 1..L + n, i < j
                 PROVE  toMcu'[j].seq >= toMcu'[i].seq + (j - i)
      OBVIOUS
    <3>1. CASE j <= L
      <4>0. i \in 1..L /\ j \in 1..L
        BY <1>3, <1>4, <3>1
      <4>1. toMcu[j].seq >= toMcu[i].seq + (j - i)
        BY <4>0 DEF OnceInv, L
      <4>2. toMcu'[j].seq = toMcu[j].seq /\ toMcu'[i].seq = toMcu[i].seq
        BY <4>0, <2>1
      <4> QED BY <4>1, <4>2
    <3>2. CASE i <= L /\ j > L
      <4>1. L \in 1..L /\ i \in 1..L
        BY <1>4, <3>2
      <4>2. toMcu[L].seq \in Nat /\ toMcu[i].seq \in Nat
            /\ toMcu[L].seq < send_seq
        BY <2>0, <4>1
      <4>3. i < L => toMcu[L].seq >= toMcu[i].seq + (L - i)
        BY <4>1 DEF OnceInv, L
      <4>4. toMcu[i].seq + (L - i) < send_seq
        BY <1>4, <4>1, <4>2, <4>3
      <4>5. toMcu'[j].seq = send_seq + (j - L) - 1 /\ toMcu'[i].seq = toMcu[i].seq
        BY <1>3, <1>4, <2>1, <3>2
      <4> QED BY <1>3, <1>4, <4>2, <4>4, <4>5
    <3>3. CASE i > L
      BY <1>3, <1>4, <2>1, <3>3
    <3> QED BY <1>3, <1>4, <3>1, <3>2, <3>3
  <2>3. \A i \in 1..Len(rx), j \in 1..L + n :
             toMcu'[j].seq >= rx[i].seq + (Len(rx) + j - i)
    <3> SUFFICES ASSUME NEW i \in 1..Len(rx), NEW j \in 1..L + n
                 PROVE  toMcu'[j].seq >= rx[i].seq + (Len(rx) + j - i)
      OBVIOUS
    <3>1. CASE j <= L
      <4>1. toMcu[j].seq >= rx[i].seq + (Len(rx) + j - i)
        BY <1>3, <1>4, <3>1 DEF OnceInv, L
      <4>2. toMcu'[j].seq = toMcu[j].seq
        BY <1>3, <1>4, <2>1, <3>1
      <4> QED BY <4>1, <4>2
    <3>2. CASE j > L
      <4>1. toMcu'[j].seq = send_seq + (j - L) - 1
        BY <1>3, <1>4, <2>1, <3>2
      <4>2. CASE L > 0
        <5>1. L \in 1..L
          BY <1>4, <4>2
        <5>2. toMcu[L].seq \in Nat /\ toMcu[L].seq < send_seq
          BY <2>0, <5>1
        <5>3. toMcu[L].seq >= rx[i].seq + (Len(rx) + L - i)
          BY <5>1 DEF OnceInv, L
        <5>4. rx[i].seq \in Nat
          BY <2>0
        <5>5. j \in Nat /\ i \in Nat
          BY <1>3, <1>4
        <5> DEFINE r == rx[i].seq  t == toMcu[L].seq  u == toMcu'[j].seq
                   R == Len(rx)
        <5>6. /\ r \in Nat /\ t \in Nat /\ R \in Nat /\ t < send_seq
              /\ t >= r + (R + L - i) /\ u = send_seq + (j - L) - 1
          BY <1>4, <4>1, <5>2, <5>3, <5>4
        <5> HIDE DEF r, t, u, R
        <5>7. u >= r + (R + j - i)
          BY <1>4, <5>5, <5>6
        <5> QED BY <5>7 DEF r, u, R
      <4>3. CASE L = 0
        <5>1. Len(rx) \in 1..Len(rx) /\ rx[i].seq \in Nat
              /\ rx[Len(rx)].seq \in Nat /\ rx[Len(rx)].seq < send_seq
          BY <1>4, <2>0
        <5>2. i < Len(rx) => rx[Len(rx)].seq >= rx[i].seq + (Len(rx) - i)
          BY <5>1 DEF OnceInv
        <5>3. rx[i].seq + (Len(rx) - i) < send_seq
          BY <1>4, <5>1, <5>2
        <5>4. toMcu'[j].seq = send_seq + j - 1 /\ j \in Nat /\ i \in Nat
          BY <1>3, <1>4, <4>1, <4>3
        <5> QED BY <1>4, <5>1, <5>3, <5>4
      <4> QED BY <1>4, <4>2, <4>3
    <3> QED BY <1>3, <1>4, <3>1, <3>2
  <2>4. \A i \in 1..L + n : i > 1 \/ rx # <<>> => toMcu'[i].seq >= next
    <3> SUFFICES ASSUME NEW i \in 1..L + n, i > 1 \/ rx # <<>>
                 PROVE  toMcu'[i].seq >= next
      OBVIOUS
    <3>1. CASE i <= L
      <4>1. toMcu[i].seq >= next
        BY <1>3, <1>4, <3>1 DEF OnceInv, L
      <4> QED BY <1>3, <1>4, <2>1, <3>1, <4>1
    <3>2. CASE i > L /\ Synced
      <4>1. toMcu'[i].seq = send_seq + (i - L) - 1
        BY <1>3, <1>4, <2>1, <3>2
      <4>2. next <= send_seq
        BY <3>2 DEF NextInv
      <4> QED BY <1>3, <1>4, <3>2, <4>1, <4>2
    <3>3. CASE i > L /\ ~Synced
      <4>1. built + Q + n <= 1 + built
        BY <1>3, <1>4, <3>3, OneRequest DEF Q
      <4>2. Q = built
        BY <3>3, OneRequest DEF NotifyInv, Q
      <4>3. n = 1 /\ built = 0
        BY <1>3, <1>4, <4>1, <4>2
      <4>4. rx = <<>> /\ L = 0
        BY <4>3 DEF ConnectInv, L
      <4> QED BY <4>3, <4>4
    <3> QED BY <1>3, <1>4, <3>1, <3>2, <3>3
  <2>5. ASSUME NEW j \in 1..Len(toHost), ~toHost[j].data
        PROVE  /\ \A i \in 1..Len(rx) : rx[i].seq >= toHost[j].seq
               /\ \A i \in 1..L + n : toMcu'[i].seq >= toHost[j].seq
    <3>1. toHost[j].seq <= send_seq /\ toHost[j].seq \in Nat
      <4>1. toHost[j].seq \in Nat /\ toHost[j].seq <= next
        BY Types DEF RepliesInv
      <4>2. CASE Synced
        BY <1>4, <4>1, <4>2 DEF NextInv
      <4>3. CASE ~Synced
        <5>1. Q = built /\ submitted - built + Q <= 1
          BY <4>3, OneRequest DEF NotifyInv, Q
        <5>2. built = 0
          BY <1>3, <1>4, <5>1
        <5> QED BY <2>5, <5>2 DEF ConnectInv
      <4> QED BY <4>2, <4>3
    <3>2. ASSUME NEW i \in 1..L + n
          PROVE  toMcu'[i].seq >= toHost[j].seq
      <4>1. CASE i <= L
        <5>1. toMcu[i].seq >= toHost[j].seq
          BY <1>3, <1>4, <2>5, <4>1 DEF OnceInv, L
        <5> QED BY <1>3, <1>4, <2>1, <4>1, <5>1
      <4>2. CASE i > L
        BY <1>3, <1>4, <2>1, <3>1, <4>2
      <4> QED BY <1>3, <1>4, <4>1, <4>2
    <3> QED BY <2>5, <3>2 DEF OnceInv
  <2>6. ~AckPending => \A i \in 1..L + n : toMcu'[i].seq >= receive_seq
    <3> SUFFICES ASSUME ~AckPending, NEW i \in 1..L + n
                 PROVE  toMcu'[i].seq >= receive_seq
      OBVIOUS
    <3>1. CASE i <= L
      <4>1. toMcu[i].seq >= receive_seq
        BY <1>3, <1>4, <3>1 DEF OnceInv, L
      <4> QED BY <1>3, <1>4, <2>1, <3>1, <4>1
    <3>2. CASE i > L
      BY <1>3, <1>4, <1>10, <2>1, <3>2
    <3> QED BY <1>3, <1>4, <3>1, <3>2
  <2>7. /\ rx' = rx /\ next' = next /\ toHost' = toHost /\ overflow' = overflow
        /\ Len(toMcu') = L + n /\ receive_seq' = receive_seq
        /\ last_ack_bytes' = last_ack_bytes /\ Len(sent_queue') = S + n
    BY <1>1, <1>5, <1>6
  <2>8. S + n + (IF AckPending THEN last_ack_bytes ELSE 0) <= Window
    BY <1>10
  <2>9. /\ \A i, j \in 1..Len(rx) : i < j => rx[j].seq >= rx[i].seq + (j - i)
        /\ \A i \in 2..Len(rx) : rx[i].seq >= next
        /\ ~AckPending => \A i \in 1..Len(rx) : rx[i].seq >= receive_seq
    BY DEF OnceInv
  <2> QED BY <1>9, <2>0, <2>2, <2>3, <2>4, <2>5, <2>6, <2>7, <2>8, <2>9
          DEF OnceInv
<1>21. ConnectInv'
  <2>1. S + n <= Q + n /\ (Connecting => submitted - (built + n) + (Q + n) <= 1)
    BY <1>3, <1>4 DEF ConnectInv, S, Q
  <2>2. built + n = 0 => built = 0 /\ L + n = 0
    BY <1>3, <1>4 DEF ConnectInv, L
  <2>3. built' = 0 => /\ rx' = <<>> /\ toMcu' = <<>>
                     /\ \A j \in 1..Len(toHost') : toHost'[j].data
    BY <1>1, <1>3, <1>5, <2>2 DEF ConnectInv
  <2> QED BY <1>1, <1>3, <1>6, <1>7, <1>9, <2>1, <2>3 DEF ConnectInv
<1> QED BY <1>8, <1>12, <1>13, <1>14, <1>15, <1>16, <1>17, <1>18, <1>19, <1>20, <1>21

(* The oldest frame on the line is lost (d = 1) or garbled (d = 0). *)
LEMMA LossFacts ==
  ASSUME TypeOK, toMcu # <<>>,
         \/ toMcu' = Tail(toMcu)
         \/ toMcu' = <<Garble(Head(toMcu))>> \o Tail(toMcu)
  PROVE  \E d \in {0, 1} :
           /\ toMcu' \in Seq(BlockType) /\ Len(toMcu') = Len(toMcu) - d
           /\ \A i \in 1..Len(toMcu) - d :
                /\ i + d \in 1..Len(toMcu)
                /\ toMcu'[i].seq = toMcu[i+d].seq
                /\ \/ toMcu'[i].msg = toMcu[i+d].msg
                   \/ toMcu'[i].msg = 0
<1>1. toMcu \in Seq(BlockType)
  BY DEF TypeOK
<1>2. /\ Len(toMcu) \in Nat /\ Len(toMcu) >= 1
      /\ Head(toMcu) = toMcu[1] /\ Head(toMcu) \in BlockType
      /\ Tail(toMcu) \in Seq(BlockType) /\ Len(Tail(toMcu)) = Len(toMcu) - 1
      /\ \A i \in 1..Len(toMcu) - 1 : Tail(toMcu)[i] = toMcu[i + 1]
  BY <1>1, SeqTail
<1>3. CASE toMcu' = Tail(toMcu)
  <2>1. \A i \in 1..Len(toMcu) - 1 : i + 1 \in 1..Len(toMcu)
    BY <1>2
  <2>2. /\ toMcu' \in Seq(BlockType) /\ Len(toMcu') = Len(toMcu) - 1
        /\ \A i \in 1..Len(toMcu) - 1 : toMcu'[i] = toMcu[i + 1]
    BY <1>2, <1>3, Zenon
  <2> QED BY <2>1, <2>2, Zenon
<1>4. CASE toMcu' = <<Garble(Head(toMcu))>> \o Tail(toMcu)
  <2> DEFINE g == Garble(Head(toMcu))  h == <<g>>  t == Tail(toMcu)
  <2>1. g \in BlockType /\ g.seq = toMcu[1].seq /\ g.msg = 0
    BY <1>2 DEF Garble, Block, BlockType
  <2> HIDE DEF g
  <2>2. h \in Seq(BlockType) /\ Len(h) = 1 /\ h[1] = g
    BY <2>1, SeqOne
  <2>3. t \in Seq(BlockType) /\ Len(t) = Len(toMcu) - 1
        /\ \A i \in 1..Len(toMcu) - 1 : t[i] = toMcu[i + 1]
    BY <1>2
  <2>4. toMcu' = h \o t
    BY <1>4 DEF g
  <2> HIDE DEF h, t
  <2>5. /\ toMcu' \in Seq(BlockType) /\ Len(toMcu') = Len(h) + Len(t)
        /\ \A i \in 1..Len(h) : toMcu'[i] = h[i]
        /\ \A i \in 1..Len(t) : toMcu'[Len(h) + i] = t[i]
    BY <2>2, <2>3, <2>4, SeqConcat
  <2>6. ASSUME NEW i \in 1..Len(toMcu)
        PROVE  /\ i + 0 \in 1..Len(toMcu)
               /\ toMcu'[i].seq = toMcu[i+0].seq
               /\ \/ toMcu'[i].msg = toMcu[i+0].msg
                  \/ toMcu'[i].msg = 0
    <3>1. CASE i = 1
      BY <2>1, <2>2, <2>5, <3>1
    <3>2. CASE i > 1
      <4>1. i - 1 \in 1..Len(toMcu) - 1 /\ 1 + (i - 1) = i /\ (i - 1) + 1 = i
            /\ i + 0 = i
        BY <1>2, <3>2
      <4>2. toMcu'[1 + (i - 1)] = t[i - 1] /\ t[i - 1] = toMcu[(i - 1) + 1]
        BY <2>2, <2>3, <2>5, <4>1
      <4> QED BY <4>1, <4>2
    <3> QED BY <1>2, <3>1, <3>2
  <2>7. Len(toMcu') = Len(toMcu) - 0 /\ Len(toMcu) - 0 = Len(toMcu)
    BY <1>2, <2>2, <2>3, <2>5
  <2> QED BY <2>5, <2>6, <2>7
<1> QED BY <1>3, <1>4

LEMMA LossStep ==
  ASSUME IInv, toMcu # <<>>,
         \/ toMcu' = Tail(toMcu)
         \/ toMcu' = <<Garble(Head(toMcu))>> \o Tail(toMcu),
         incidents' \in 0..MaxIncidents, overflow' \in BOOLEAN,
         retransmit_seq = 0 => ~overflow',
         UNCHANGED <<hostVars, queueVars, commandTimer, toHost, first, next,
                     needValid, rx, task, delivered>>
  PROVE  IInv'
<1> USE DEF IInv
<1>1. PICK d \in {0, 1} :
           /\ toMcu' \in Seq(BlockType) /\ Len(toMcu') = Len(toMcu) - d
           /\ \A i \in 1..Len(toMcu) - d :
                /\ i + d \in 1..Len(toMcu)
                /\ toMcu'[i].seq = toMcu[i+d].seq
                /\ \/ toMcu'[i].msg = toMcu[i+d].msg
                   \/ toMcu'[i].msg = 0
  BY LossFacts
<1>2. TypeOK'
  BY <1>1 DEF TypeOK
<1>3. Offset' = Offset /\ Synced' = Synced /\ Taken' = Taken
      /\ AckPending' = AckPending /\ Connecting' = Connecting
  BY DEF Offset, Synced, Taken, AckPending, Connecting
<1>4. SentInv' /\ NextInv' /\ RepliesInv' /\ TaskInv' /\ NotifyInv'
  BY <1>3 DEF SentInv, NextInv, RepliesInv, TaskInv, NotifyInv
<1>5. AnswersInv'
  BY <1>3 DEF AnswersInv
<1>6. TimerInv' /\ WakeInv'
  BY DEF TimerInv, WakeInv
<1>7. ConnectInv'
  <2>1. built # 0
    BY DEF ConnectInv
  <2> QED BY <1>3, <2>1 DEF ConnectInv
<1> DEFINE L == Len(toMcu) - d
<1>8. /\ L \in Int /\ d \in Nat /\ Len(toMcu') = L /\ Len(rx) \in Nat
      /\ \A i \in 1..L : /\ i \in Nat /\ i + d \in 1..Len(toMcu)
                         /\ toMcu'[i].seq = toMcu[i+d].seq
                         /\ toMcu[i+d].seq \in Nat
      /\ \A i \in 1..Len(rx) : rx[i].seq \in Nat
      /\ next \in Nat
  <2>1. Len(toMcu) \in Nat /\ Len(rx) \in Nat /\ next \in Nat
    BY Types
  <2>2. \A i \in 1..Len(rx) : rx[i].seq \in Nat
    BY Types
  <2>3. \A i \in 1..Len(toMcu) : toMcu[i].seq \in Nat
    BY Types
  <2> QED BY <1>1, <2>1, <2>2, <2>3
<1> HIDE DEF L
<1>9. FramesInv'
  <2>1. ASSUME NEW i \in 1..L
        PROVE  /\ 1 <= toMcu'[i].seq /\ toMcu'[i].seq < send_seq
               /\ toMcu'[i].seq > next - SeqMod
               /\ toMcu'[i].msg # 0 /\ toMcu'[i].seq >= next =>
                    toMcu'[i].msg = toMcu'[i].seq - Offset
    <3>1. FrameOK(toMcu[i+d]) /\ toMcu'[i].seq = toMcu[i+d].seq
          /\ (toMcu'[i].msg = toMcu[i+d].msg \/ toMcu'[i].msg = 0)
      BY <1>1, <1>8 DEF FramesInv, L
    <3> QED BY <3>1 DEF FrameOK, IsGarbage
  <2>2. ASSUME NEW i \in 1..L, NEW j \in 1..L, i < j
        PROVE  toMcu'[j].seq >= toMcu'[i].seq + 1 - MaxPending
    <3>1. i + d \in 1..Len(toMcu) /\ j + d \in 1..Len(toMcu) /\ i + d < j + d
      BY <1>8, <2>2
    <3>2. Near(toMcu[i+d], toMcu[j+d])
      BY <3>1 DEF FramesInv
    <3> QED BY <1>8, <3>2 DEF Near
  <2>3. ASSUME NEW i \in 1..Len(rx), NEW j \in 1..L
        PROVE  toMcu'[j].seq >= rx[i].seq + 1 - MaxPending
    <3>1. Near(rx[i], toMcu[j+d])
      BY <1>8 DEF FramesInv
    <3> QED BY <1>8, <3>1 DEF Near
  <2> QED BY <1>3, <1>8, <2>1, <2>2, <2>3 DEF FramesInv, FrameOK, Near, IsGarbage
<1>10. OnceInv'
  <2> SUFFICES ASSUME retransmit_seq = 0 PROVE OnceInv'
    BY DEF OnceInv
  <2>1. ASSUME NEW i \in 1..L, NEW j \in 1..L, i < j
        PROVE  toMcu'[j].seq >= toMcu'[i].seq + (j - i)
    <3>1. /\ i + d \in 1..Len(toMcu) /\ j + d \in 1..Len(toMcu) /\ i + d < j + d
          /\ (j + d) - (i + d) = j - i
      BY <1>8, <2>1
    <3>2. toMcu[j+d].seq >= toMcu[i+d].seq + ((j + d) - (i + d))
      BY <3>1 DEF OnceInv
    <3>3. toMcu'[j].seq = toMcu[j+d].seq /\ toMcu'[i].seq = toMcu[i+d].seq
      BY <1>8
    <3> QED BY <3>1, <3>2, <3>3
  <2>2. ASSUME NEW i \in 1..Len(rx), NEW j \in 1..L
        PROVE  toMcu'[j].seq >= rx[i].seq + (Len(rx) + j - i)
    <3>1. toMcu[j+d].seq >= rx[i].seq + (Len(rx) + (j + d) - i)
      BY <1>8 DEF OnceInv
    <3>2. /\ toMcu'[j].seq = toMcu[j+d].seq /\ toMcu[j+d].seq \in Nat
          /\ rx[i].seq \in Nat /\ Len(rx) \in Nat /\ d \in Nat
      BY <1>8
    <3>3. i \in Nat /\ j \in Nat
      BY <1>8
    <3> DEFINE a == toMcu[j+d].seq  b == rx[i].seq  R == Len(rx)
    <3>4. a \in Nat /\ b \in Nat /\ R \in Nat /\ a >= b + (R + (j + d) - i)
      BY <3>1, <3>2
    <3> HIDE DEF a, b, R
    <3>5. a >= b + (R + j - i)
      BY <3>2, <3>3, <3>4
    <3> QED BY <3>2, <3>5 DEF a, b, R
  <2>3. ASSUME NEW i \in 1..L, i > 1 \/ rx # <<>>
        PROVE  toMcu'[i].seq >= next
    <3>1. i + d \in 1..Len(toMcu) /\ (i + d > 1 \/ rx # <<>>)
      BY <1>8, <2>3
    <3>2. toMcu[i+d].seq >= next
      BY <3>1 DEF OnceInv
    <3> QED BY <1>8, <3>2
  <2>4. ASSUME NEW j \in 1..Len(toHost), ~toHost[j].data, NEW i \in 1..L
        PROVE  toMcu'[i].seq >= toHost[j].seq
    <3>1. toMcu[i+d].seq >= toHost[j].seq
      BY <1>8, <2>4 DEF OnceInv
    <3>2. toMcu'[i].seq = toMcu[i+d].seq
      BY <1>8
    <3> QED BY <3>1, <3>2
  <2>5. ~AckPending => \A i \in 1..L : toMcu'[i].seq >= receive_seq
    <3> SUFFICES ASSUME ~AckPending, NEW i \in 1..L
                 PROVE  toMcu'[i].seq >= receive_seq
      OBVIOUS
    <3>1. toMcu[i+d].seq >= receive_seq
      BY <1>8 DEF OnceInv
    <3>2. toMcu'[i].seq = toMcu[i+d].seq
      BY <1>8
    <3> QED BY <3>1, <3>2
  <2>6. /\ \A i, j \in 1..Len(rx) : i < j => rx[j].seq >= rx[i].seq + (j - i)
        /\ \A i \in 2..Len(rx) : rx[i].seq >= next
        /\ \A j \in 1..Len(toHost) : ~toHost[j].data =>
                 \A i \in 1..Len(rx) : rx[i].seq >= toHost[j].seq
        /\ ~AckPending => \A i \in 1..Len(rx) : rx[i].seq >= receive_seq
        /\ Len(sent_queue) + (IF AckPending THEN last_ack_bytes ELSE 0) <= Window
    BY DEF OnceInv
  <2> QED BY <1>3, <1>8, <2>1, <2>2, <2>3, <2>4, <2>5, <2>6 DEF OnceInv
<1> QED BY <1>2, <1>4, <1>5, <1>6, <1>7, <1>9, <1>10

(* The oldest message of the controller is gone. *)
LEMMA ReplyLostStep ==
  ASSUME IInv, toHost # <<>>, toHost' = Tail(toHost),
         incidents' \in 0..MaxIncidents,
         UNCHANGED <<hostVars, queueVars, commandTimer, toMcu, mcuVars>>
  PROVE  IInv'
<1> USE DEF IInv
<1>1. /\ Len(toHost) \in Nat /\ toHost' \in Seq(ReplyType)
      /\ Len(toHost') = Len(toHost) - 1
      /\ \A i \in 1..Len(toHost) - 1 : /\ toHost'[i] = toHost[i + 1]
                                       /\ i + 1 \in 1..Len(toHost)
  <2>1. toHost \in Seq(ReplyType)
    BY DEF TypeOK
  <2>2. /\ Len(toHost) \in Nat /\ toHost' \in Seq(ReplyType)
        /\ Len(toHost') = Len(toHost) - 1
        /\ \A i \in 1..Len(toHost) - 1 : toHost'[i] = toHost[i + 1]
    BY <2>1, SeqTail
  <2> QED BY <2>2
<1>2. TypeOK'
  BY <1>1 DEF TypeOK
<1>3. Offset' = Offset /\ Synced' = Synced /\ Taken' = Taken
      /\ AckPending' = AckPending /\ Connecting' = Connecting
  BY DEF Offset, Synced, Taken, AckPending, Connecting
<1>4. SentInv' /\ NextInv' /\ TaskInv' /\ NotifyInv'
  BY <1>3 DEF SentInv, NextInv, TaskInv, NotifyInv
<1>5. FramesInv'
  BY <1>3 DEF FramesInv, FrameOK, Near, IsGarbage
<1>6. TimerInv' /\ WakeInv'
  BY DEF TimerInv, WakeInv
<1>7. AnswersInv'
  BY <1>1, <1>3 DEF AnswersInv
<1>8. RepliesInv'
  <2> DEFINE M == Len(toHost) - 1
  <2>1. ASSUME NEW i \in 1..M, NEW j \in 1..M, i < j
        PROVE  /\ toHost'[i].seq <= toHost'[j].seq
               /\ ~toHost'[i].data /\ toHost'[j].msg # 0 =>
                      toHost'[i].seq < toHost'[j].seq
    <3>1. i + 1 \in 1..Len(toHost) /\ j + 1 \in 1..Len(toHost) /\ i + 1 < j + 1
      BY <1>1, <2>1
    <3> QED BY <1>1, <3>1 DEF RepliesInv
  <2>2. ASSUME NEW i \in 1..M
        PROVE  /\ receive_seq <= toHost'[i].seq /\ first <= toHost'[i].seq
               /\ toHost'[i].seq <= next
               /\ toHost'[i].msg # 0 =>
                     /\ toHost'[i].data
                     /\ toHost'[i].seq > first
                     /\ toHost'[i].msg = toHost'[i].seq - 1 - Offset
               /\ task = "dispatch" /\ ~toHost'[i].data => toHost'[i].seq < next
    BY <1>1 DEF RepliesInv
  <2> QED BY <1>1, <1>3, <2>1, <2>2 DEF RepliesInv
<1>9. ConnectInv' /\ OnceInv'
  BY <1>1, <1>3 DEF ConnectInv, OnceInv
<1> QED BY <1>2, <1>4, <1>5, <1>6, <1>7, <1>8, <1>9

LEMMA DamageStep == ASSUME IInv, Damage PROVE IInv'
<1>1. incidents' \in 0..MaxIncidents
  BY LinkAssumption DEF Damage, Incident, IInv, TypeOK
<1>2. UNCHANGED <<hostVars, queueVars, commandTimer, mcuVars>>
  BY DEF Damage
<1>3. \/ /\ toMcu # <<>> /\ toHost' = toHost
         /\ \/ toMcu' = Tail(toMcu)
            \/ toMcu' = <<Garble(Head(toMcu))>> \o Tail(toMcu)
      \/ toHost # <<>> /\ toHost' = Tail(toHost) /\ toMcu' = toMcu
  BY DEF Damage
<1>4. overflow' \in BOOLEAN /\ (retransmit_seq = 0 => ~overflow')
  BY <1>2 DEF IInv, OnceInv, TypeOK
<1>5. CASE toHost # <<>> /\ toHost' = Tail(toHost) /\ toMcu' = toMcu
  BY <1>1, <1>2, <1>5, ReplyLostStep
<1> QED BY <1>1, <1>2, <1>3, <1>4, <1>5, LossStep

(* Unless something was sent twice, receive_buf has room for what comes. *)
LEMMA NoOverrun ==
  ASSUME IInv, toMcu # <<>>, Len(rx) >= Window
  PROVE  retransmit_seq # 0
<1> USE DEF IInv
<1> SUFFICES ASSUME retransmit_seq = 0 PROVE FALSE
  OBVIOUS
<1> DEFINE S == Len(sent_queue)  R == Len(rx)
<1>1. /\ S \in Nat /\ R \in Nat /\ R >= 2 /\ Window \in Nat /\ Window >= 2
      /\ send_seq \in Nat /\ receive_seq \in Nat /\ next \in Nat
      /\ submitted \in Nat /\ built \in Nat /\ built <= submitted
      /\ Len(notify_queue) \in Nat
  BY Types
<1>2. 1 \in 1..Len(toMcu) /\ 1 \in 1..R /\ 2 \in 1..R /\ 2 \in 2..R
  <2>1. Len(toMcu) >= 1
    BY SeqTail DEF TypeOK
  <2> QED BY <1>1, <2>1, Types
<1>3. /\ toMcu[1].seq \in Nat /\ toMcu[1].seq < send_seq
      /\ rx[1].seq \in Nat /\ rx[1].seq >= 1 /\ rx[2].seq \in Nat
  BY <1>2, Types DEF FramesInv, FrameOK
<1>4. /\ toMcu[1].seq >= rx[1].seq + (R + 1 - 1)
      /\ toMcu[1].seq >= rx[2].seq + (R + 1 - 2)
      /\ rx[2].seq >= next
      /\ ~AckPending => rx[1].seq >= receive_seq
      /\ S + (IF AckPending THEN last_ack_bytes ELSE 0) <= Window
  BY <1>2 DEF OnceInv
<1>5. S = send_seq - receive_seq /\ last_ack_bytes \in {0, 1} /\ R >= Window
  BY DEF SentInv, TypeOK
<1> HIDE DEF S, R
<1>6. CASE ~AckPending
  BY SMTT(30), <1>1, <1>3, <1>4, <1>5, <1>6
<1>7. CASE ~Synced
  <2>1. receive_seq = 1 /\ S = built /\ submitted - built + Len(notify_queue) <= 1
        /\ Len(notify_queue) = built
    BY <1>7, OneRequest DEF NextInv, NotifyInv, S
  <2> QED BY SMTT(30), <1>1, <1>3, <1>4, <1>5, <2>1
<1>8. CASE AckPending /\ last_ack_bytes = 1 /\ Synced
  <2>1. receive_seq <= next
    BY <1>8 DEF NextInv
  <2> QED BY <1>1, <1>3, <1>4, <1>5, <1>8, <2>1
<1>9. CASE last_ack_bytes = 0 /\ Synced
  <2>1. receive_seq <= next /\ S <= Len(notify_queue)
        /\ submitted - built + Len(notify_queue) <= 1
    BY <1>9 DEF NextInv, ConnectInv, S
  <2>2. S <= 1
    BY <1>1, <2>1
  <2>3. receive_seq + (R + 1 - 2) <= toMcu[1].seq
    <3>1. toMcu[1].seq >= rx[2].seq + (R + 1 - 2) /\ rx[2].seq >= next
      BY <1>4, Zenon
    <3>2. receive_seq <= next
      BY <2>1, Zenon
    <3> QED BY <1>1, <1>3, <3>1, <3>2
  <2>4. send_seq <= receive_seq + 1
    BY <1>1, <1>5, <2>2
  <2> QED BY <1>1, <1>3, <2>3, <2>4
<1> QED BY <1>5, <1>6, <1>7, <1>8, <1>9

LEMMA ReceiveStep == ASSUME IInv, Receive PROVE IInv'
<1> USE DEF IInv
<1>1. /\ toMcu # <<>>
      /\ UNCHANGED <<hostVars, queueVars, commandTimer, toHost, first, next,
                     needValid, task, delivered, incidents>>
  BY DEF Receive
<1>2. CASE /\ Len(rx) >= Window /\ overflow' = TRUE /\ rx' = rx
           /\ \/ toMcu' = Tail(toMcu)
              \/ toMcu' = <<Garble(Head(toMcu))>> \o Tail(toMcu)
  <2>1. incidents' \in 0..MaxIncidents /\ overflow' \in BOOLEAN
    BY <1>1, <1>2 DEF TypeOK
  <2> QED BY <1>1, <1>2, <2>1, NoOverrun, LossStep
<1>3. CASE /\ rx' = Append(rx, Head(toMcu)) /\ toMcu' = Tail(toMcu)
           /\ overflow' = overflow
  <2> DEFINE R == Len(rx)  L == Len(toMcu) - 1
  <2>1. /\ toMcu' \in Seq(BlockType) /\ Len(toMcu') = L /\ L \in Nat
        /\ 1 \in 1..Len(toMcu)
        /\ \A i \in 1..L : toMcu'[i] = toMcu[i+1] /\ i + 1 \in 1..Len(toMcu)
    <3>1. /\ Len(toMcu) \in Nat /\ Len(toMcu) >= 1
          /\ Tail(toMcu) \in Seq(BlockType) /\ Len(Tail(toMcu)) = Len(toMcu) - 1
          /\ \A i \in 1..Len(toMcu) - 1 : Tail(toMcu)[i] = toMcu[i + 1]
      BY <1>1, SeqTail DEF TypeOK
    <3> QED BY <1>3, <3>1
  <2>2. /\ rx' \in Seq(BlockType) /\ Len(rx') = R + 1 /\ R \in Nat
        /\ \A i \in 1..R : rx'[i] = rx[i]
        /\ rx'[R + 1] = toMcu[1]
    <3>1. Head(toMcu) = toMcu[1] /\ Head(toMcu) \in BlockType
      BY <1>1, SeqTail DEF TypeOK
    <3>2. rx \in Seq(BlockType) /\ R \in Nat
      BY DEF TypeOK
    <3>3. /\ Append(rx, Head(toMcu)) \in Seq(BlockType)
          /\ Len(Append(rx, Head(toMcu))) = Len(rx) + 1
          /\ \A i \in 1..Len(rx) : Append(rx, Head(toMcu))[i] = rx[i]
          /\ Append(rx, Head(toMcu))[Len(rx) + 1] = Head(toMcu)
      BY ONLY <3>1, <3>2, SeqAppend
    <3> QED BY <1>3, <3>1, <3>2, <3>3
  <2>3. TypeOK'
    BY <1>1, <1>3, <2>1, <2>2 DEF TypeOK
  <2>4. Offset' = Offset /\ Synced' = Synced /\ Taken' = Taken
        /\ AckPending' = AckPending /\ Connecting' = Connecting
    BY <1>1 DEF Offset, Synced, Taken, AckPending, Connecting
  <2>5. SentInv' /\ NextInv' /\ RepliesInv' /\ NotifyInv'
    BY <1>1, <2>4 DEF SentInv, NextInv, RepliesInv, NotifyInv
  <2>6. AnswersInv'
    BY <1>1, <2>4 DEF AnswersInv
  <2>7. TimerInv' /\ WakeInv'
    BY <1>1 DEF TimerInv, WakeInv
  <2>8. ConnectInv'
    <3>1. built # 0
      BY <1>1 DEF ConnectInv
    <3> QED BY <1>1, <2>4, <3>1 DEF ConnectInv
  <2>9. TaskInv'
    <3> SUFFICES ASSUME task # "idle" PROVE TaskInv'
      BY <1>1 DEF TaskInv
    <3>1. rx # <<>> /\ rx \in Seq(BlockType) /\ rx' # <<>>
          /\ Head(rx) = rx[1] /\ 1 \in 1..R
      <4>1. rx # <<>> /\ rx \in Seq(BlockType)
        BY DEF TaskInv, TypeOK
      <4> QED BY <2>2, <4>1, SeqTail
    <3>2. Head(rx') = Head(rx)
      BY <2>2, <3>1
    <3> QED BY <1>1, <2>4, <3>1, <3>2 DEF TaskInv
  <2>10. /\ \A i \in 1..R : rx[i].seq \in Nat
         /\ \A i \in 1..L + 1 : toMcu[i].seq \in Nat
         /\ next \in Nat /\ MaxPending \in Nat
    <3>1. /\ \A i \in 1..R : rx[i].seq \in Nat
          /\ \A i \in 1..Len(toMcu) : toMcu[i].seq \in Nat
          /\ next \in Nat /\ MaxPending \in Nat /\ Len(toMcu) \in Nat
      BY Types
    <3>2. L + 1 = Len(toMcu)
      BY <3>1
    <3> QED BY <3>1, <3>2
  <2> HIDE DEF R, L
  <2>11. \A i \in 1..R + 1 : \/ i \in 1..R /\ rx'[i] = rx[i]
                             \/ i = R + 1 /\ rx'[i] = toMcu[1]
    BY <2>2
  <2>12. FramesInv'
    <3>1. \A i \in 1..R + 1 : FrameOK(rx'[i])
      BY <2>1, <2>11 DEF FramesInv, R
    <3>2. \A i \in 1..L : FrameOK(toMcu'[i])
      BY <2>1 DEF FramesInv
    <3>3. \A i, j \in 1..R + 1 : i < j => Near(rx'[i], rx'[j])
      <4> SUFFICES ASSUME NEW i \in 1..R + 1, NEW j \in 1..R + 1, i < j
                   PROVE  Near(rx'[i], rx'[j])
        OBVIOUS
      <4>1. i \in 1..R /\ rx'[i] = rx[i]
        BY <2>2
      <4>2. CASE j \in 1..R /\ rx'[j] = rx[j]
        BY <4>1, <4>2 DEF FramesInv, R
      <4>3. CASE rx'[j] = toMcu[1]
        BY <2>1, <4>1, <4>3 DEF FramesInv, R
      <4> QED BY <2>11, <4>2, <4>3
    <3>4. \A i, j \in 1..L : i < j => Near(toMcu'[i], toMcu'[j])
      <4> SUFFICES ASSUME NEW i \in 1..L, NEW j \in 1..L, i < j
                   PROVE  Near(toMcu'[i], toMcu'[j])
        OBVIOUS
      <4>1. i + 1 \in 1..Len(toMcu) /\ j + 1 \in 1..Len(toMcu) /\ i + 1 < j + 1
        BY <2>1
      <4> QED BY <2>1, <4>1 DEF FramesInv
    <3>5. \A i \in 1..R + 1, j \in 1..L : Near(rx'[i], toMcu'[j])
      <4> SUFFICES ASSUME NEW i \in 1..R + 1, NEW j \in 1..L
                   PROVE  Near(rx'[i], toMcu'[j])
        OBVIOUS
      <4>1. toMcu'[j] = toMcu[j + 1] /\ j + 1 \in 1..Len(toMcu) /\ 1 < j + 1
        BY <2>1
      <4>2. CASE i \in 1..R /\ rx'[i] = rx[i]
        BY <4>1, <4>2 DEF FramesInv, R
      <4>3. CASE rx'[i] = toMcu[1]
        BY <2>1, <4>1, <4>3 DEF FramesInv
      <4> QED BY <2>11, <4>2, <4>3
    <3> QED BY <1>1, <2>1, <2>2, <2>4, <3>1, <3>2, <3>3, <3>4, <3>5
            DEF FramesInv, FrameOK, Near, IsGarbage
  <2>13. OnceInv'
    <3> SUFFICES ASSUME retransmit_seq = 0 PROVE OnceInv'
      BY <1>1 DEF OnceInv
    <3>1. \A i, j \in 1..R + 1 : i < j => rx'[j].seq >= rx'[i].seq + (j - i)
      <4> SUFFICES ASSUME NEW i \in 1..R + 1, NEW j \in 1..R + 1, i < j
                   PROVE  rx'[j].seq >= rx'[i].seq + (j - i)
        OBVIOUS
      <4>1. i \in 1..R /\ rx'[i] = rx[i]
        BY <2>2
      <4>2. CASE j \in 1..R /\ rx'[j] = rx[j]
        BY <4>1, <4>2 DEF OnceInv, R
      <4>3. CASE j = R + 1 /\ rx'[j] = toMcu[1]
        <5>1. toMcu[1].seq >= rx[i].seq + (R + 1 - i)
          BY <2>1, <4>1 DEF OnceInv, R
        <5>2. R + 1 - i = j - i
          BY <2>2, <4>3
        <5> QED BY <4>1, <4>3, <5>1, <5>2
      <4> QED BY <2>11, <4>2, <4>3
    <3>2. \A i, j \in 1..L : i < j => toMcu'[j].seq >= toMcu'[i].seq + (j - i)
      <4> SUFFICES ASSUME NEW i \in 1..L, NEW j \in 1..L, i < j
                   PROVE  toMcu'[j].seq >= toMcu'[i].seq + (j - i)
        OBVIOUS
      <4>1. i + 1 \in 1..Len(toMcu) /\ j + 1 \in 1..Len(toMcu) /\ i + 1 < j + 1
            /\ (j + 1) - (i + 1) = j - i
        BY <2>1
      <4>2. toMcu[j+1].seq >= toMcu[i+1].seq + ((j + 1) - (i + 1))
        BY <4>1 DEF OnceInv
      <4> QED BY <2>1, <4>1, <4>2
    <3>3. \A i \in 1..R + 1, j \in 1..L :
              toMcu'[j].seq >= rx'[i].seq + ((R + 1) + j - i)
      <4> SUFFICES ASSUME NEW i \in 1..R + 1, NEW j \in 1..L
                   PROVE  toMcu'[j].seq >= rx'[i].seq + ((R + 1) + j - i)
        OBVIOUS
      <4>1. /\ toMcu'[j] = toMcu[j + 1] /\ j + 1 \in 1..Len(toMcu) /\ 1 < j + 1
            /\ j \in Nat /\ i \in Nat /\ R \in Nat
        BY <2>1, <2>2
      <4>2. CASE i \in 1..R /\ rx'[i] = rx[i]
        <5>1. toMcu[j+1].seq >= rx[i].seq + (R + (j + 1) - i)
          BY <4>1, <4>2 DEF OnceInv, R
        <5>2. R + (j + 1) - i = (R + 1) + j - i
          BY <4>1
        <5> QED BY <4>1, <4>2, <5>1, <5>2
      <4>3. CASE i = R + 1 /\ rx'[i] = toMcu[1]
        <5>1. toMcu[j+1].seq >= toMcu[1].seq + ((j + 1) - 1)
          BY <2>1, <4>1 DEF OnceInv
        <5>2. (j + 1) - 1 = (R + 1) + j - i
          BY <4>1, <4>3
        <5> QED BY <4>1, <4>3, <5>1, <5>2
      <4> QED BY <2>11, <4>2, <4>3
    <3>4. \A i \in 2..R + 1 : rx'[i].seq >= next
      <4> SUFFICES ASSUME NEW i \in 2..R + 1 PROVE rx'[i].seq >= next
        OBVIOUS
      <4>1. CASE i \in 1..R /\ rx'[i] = rx[i]
        <5>1. i \in 2..R
          BY <2>2, <4>1
        <5> QED BY <4>1, <5>1 DEF OnceInv, R
      <4>2. CASE i = R + 1 /\ rx'[i] = toMcu[1]
        <5>1. rx # <<>>
          BY <2>2, <4>2 DEF R
        <5> QED BY <2>1, <4>2, <5>1 DEF OnceInv
      <4> QED BY <2>2, <2>11, <4>1, <4>2
    <3>5. \A i \in 1..L : toMcu'[i].seq >= next
      <4> SUFFICES ASSUME NEW i \in 1..L PROVE toMcu'[i].seq >= next
        OBVIOUS
      <4>1. toMcu'[i] = toMcu[i+1] /\ i + 1 \in 1..Len(toMcu) /\ i + 1 > 1
        BY <2>1
      <4> QED BY <4>1 DEF OnceInv
    <3>6. ASSUME NEW j \in 1..Len(toHost), ~toHost[j].data
          PROVE  /\ \A i \in 1..R + 1 : rx'[i].seq >= toHost[j].seq
                 /\ \A i \in 1..L : toMcu'[i].seq >= toHost[j].seq
      <4>1. \A i \in 1..R : rx[i].seq >= toHost[j].seq
        BY <3>6 DEF OnceInv, R
      <4>2. \A i \in 1..Len(toMcu) : toMcu[i].seq >= toHost[j].seq
        BY <3>6 DEF OnceInv
      <4> QED BY <2>1, <2>11, <4>1, <4>2
    <3>7. ASSUME ~AckPending
          PROVE  /\ \A i \in 1..R + 1 : rx'[i].seq >= receive_seq
                 /\ \A i \in 1..L : toMcu'[i].seq >= receive_seq
      <4>1. \A i \in 1..R : rx[i].seq >= receive_seq
        BY <3>7 DEF OnceInv, R
      <4>2. \A i \in 1..Len(toMcu) : toMcu[i].seq >= receive_seq
        BY <3>7 DEF OnceInv
      <4> QED BY <2>1, <2>11, <4>1, <4>2
    <3>8. ~overflow
          /\ Len(sent_queue) + (IF AckPending THEN last_ack_bytes ELSE 0) <= Window
      BY DEF OnceInv
    <3> QED BY <1>1, <1>3, <2>1, <2>2, <2>4, <3>1, <3>2, <3>3, <3>4, <3>5, <3>6,
               <3>7, <3>8 DEF OnceInv
  <2> QED BY <2>3, <2>5, <2>6, <2>7, <2>8, <2>9, <2>12, <2>13
<1> QED BY <1>2, <1>3 DEF Receive

(* The controller accepts only the block that is next: its number is less  *)
(* than SeqMod away, so equal low bits mean an equal number.               *)
LEMMA AcceptFacts ==
  ASSUME IInv, AcceptBlock
  PROVE  /\ rx # <<>> /\ Head(rx) = rx[1] /\ 1 \in 1..Len(rx)
         /\ Head(rx).seq = next /\ next < send_seq
         /\ Head(rx).msg = next - Offset /\ Head(rx).msg # 0
<1> USE DEF IInv
<1>1. rx # <<>> /\ Head(rx).msg # 0 /\ Wire(Head(rx).seq) = Wire(next)
  BY DEF AcceptBlock, IsGarbage
<1>2. Head(rx) = rx[1] /\ 1 \in 1..Len(rx)
  BY <1>1, SeqTail DEF TypeOK
<1>3. FrameOK(rx[1]) /\ rx[1].seq \in Nat
  BY <1>2, Types DEF FramesInv
<1>4. /\ next \in Nat /\ send_seq \in Nat /\ receive_seq \in Nat
      /\ first \in Nat /\ first >= 1 /\ MaxPending < SeqMod
      /\ MaxPending \in Nat /\ SeqMod \in Nat /\ Len(sent_queue) \in Nat
  BY Types
<1>5. rx[1].seq < next + SeqMod
  <2>1. send_seq <= receive_seq + MaxPending
    BY <1>4 DEF SentInv
  <2>2. CASE Synced
    <3>1. receive_seq <= next
      BY <2>2 DEF NextInv
    <3> QED BY <1>3, <1>4, <2>1, <3>1 DEF FrameOK
  <2>3. CASE ~Synced
    <3>1. receive_seq = 1 /\ next >= 1
      BY <1>4, <2>3 DEF Synced
    <3> QED BY <1>3, <1>4, <2>1, <3>1 DEF FrameOK
  <2> QED BY <2>2, <2>3
<1>6. next < rx[1].seq + SeqMod
  BY <1>3, <1>4 DEF FrameOK
<1>7. rx[1].seq = next
  BY <1>1, <1>2, <1>3, <1>4, <1>5, <1>6, SameWire
<1> QED BY <1>1, <1>2, <1>3, <1>4, <1>7 DEF FrameOK, IsGarbage

LEMMA AcceptStep == ASSUME IInv, AcceptBlock PROVE IInv'
<1> USE DEF IInv
<1>1. /\ needValid' = FALSE /\ next' = next + 1 /\ task' = "dispatch"
      /\ delivered' = Append(delivered, Head(rx).msg)
      /\ UNCHANGED <<hostVars, queueVars, commandTimer, toMcu, toHost, first,
                     rx, overflow, incidents>>
  BY DEF AcceptBlock
<1>2. /\ rx # <<>> /\ Head(rx) = rx[1] /\ 1 \in 1..Len(rx)
      /\ rx[1].seq = next /\ next < send_seq
      /\ rx[1].msg = next - Offset /\ rx[1].msg # 0
  BY AcceptFacts
<1>3. /\ next \in Nat /\ send_seq \in Nat /\ receive_seq \in Nat
      /\ first \in Nat /\ first >= 1 /\ MaxPending < SeqMod /\ MaxPending >= 1
      /\ MaxPending \in Nat /\ SeqMod \in Nat /\ Len(rx) \in Nat /\ built \in Nat
      /\ \A i \in 1..Len(rx) : rx[i].seq \in Nat /\ rx[i].msg \in Nat
      /\ \A i \in 1..Len(toMcu) : toMcu[i].seq \in Nat
      /\ \A i \in 1..Len(toHost) : toHost[i].seq \in Nat
      /\ \A i \in 1..Len(received) : received[i].msg \in Nat
  BY Types
<1>4. next >= first
  BY DEF NextInv
<1>5. /\ Offset' = Offset /\ Synced' /\ AckPending' = AckPending
      /\ Connecting' = Connecting /\ Offset \in Int
  BY <1>1, <1>3, <1>4 DEF Offset, Synced, AckPending, Connecting
<1>6. Taken' = next - Offset
  BY <1>1, <1>3, <1>5 DEF Taken, Offset
<1>7. TypeOK'
  <2>1. delivered' \in Seq(Nat)
    <3>1. rx[1].msg \in Nat /\ delivered \in Seq(Nat)
      BY <1>2, <1>3 DEF TypeOK
    <3> QED BY <1>1, <1>2, <3>1, SeqAppend
  <2>2. next' \in Nat
    BY <1>1, <1>3
  <2> QED BY <1>1, <2>1, <2>2 DEF TypeOK
<1>8. SentInv' /\ NotifyInv' /\ TimerInv' /\ WakeInv'
  BY <1>1, <1>5 DEF SentInv, NotifyInv, TimerInv, WakeInv
<1>9. NextInv'
  <2>1. receive_seq <= next
    BY <1>3, <1>4 DEF NextInv, Synced
  <2> QED BY <1>1, <1>2, <1>3, <1>4, <1>5, <2>1 DEF NextInv
<1>10. FramesInv'
  <2>1. ASSUME NEW f, FrameOK(f), f.seq \in Nat, f.seq >= next + 1 - MaxPending
        PROVE  /\ 1 <= f.seq /\ f.seq < send_seq /\ f.seq > next + 1 - SeqMod
               /\ ~IsGarbage(f) /\ f.seq >= next + 1 => f.msg = f.seq - Offset
    BY <1>3, <2>1 DEF FrameOK
  <2>2. \A i \in 1..Len(rx) : rx[i].seq >= next + 1 - MaxPending
    <3> SUFFICES ASSUME NEW i \in 1..Len(rx)
                 PROVE  rx[i].seq >= next + 1 - MaxPending
      OBVIOUS
    <3>1. CASE i = 1
      BY <1>2, <1>3, <3>1
    <3>2. CASE i > 1
      <4>1. Near(rx[1], rx[i])
        BY <1>2, <3>2 DEF FramesInv
      <4> QED BY <1>2, <1>3, <4>1 DEF Near
    <3> QED BY <1>3, <3>1, <3>2
  <2>3. \A i \in 1..Len(toMcu) : toMcu[i].seq >= next + 1 - MaxPending
    BY <1>2, <1>3 DEF FramesInv, Near
  <2>4. /\ \A i \in 1..Len(rx) : FrameOK(rx[i])
        /\ \A i \in 1..Len(toMcu) : FrameOK(toMcu[i])
    BY DEF FramesInv
  <2> DEFINE Fits(f) == /\ 1 <= f.seq /\ f.seq < send_seq
                        /\ f.seq > next + 1 - SeqMod
                        /\ ~IsGarbage(f) /\ f.seq >= next + 1 =>
                               f.msg = f.seq - Offset
  <2>5. /\ \A i \in 1..Len(rx) : Fits(rx[i])
        /\ \A i \in 1..Len(toMcu) : Fits(toMcu[i])
    BY <1>3, <2>1, <2>2, <2>3, <2>4
  <2>6. /\ (\A i \in 1..Len(rx) : FrameOK(rx[i]))'
        /\ (\A i \in 1..Len(toMcu) : FrameOK(toMcu[i]))'
    <3>1. /\ rx' = rx /\ toMcu' = toMcu /\ send_seq' = send_seq
          /\ next' = next + 1 /\ Offset' = Offset
      BY <1>1, <1>5
    <3>2. \A i \in 1..Len(rx') : Fits(rx'[i])
      BY ONLY <2>5, <3>1
    <3>3. \A i \in 1..Len(toMcu') : Fits(toMcu'[i])
      BY ONLY <2>5, <3>1
    <3>4. next \in Nat /\ SeqMod \in Nat /\ send_seq \in Nat
      BY <1>3
    <3> QED BY ONLY <3>1, <3>2, <3>3, <3>4 DEF FrameOK, IsGarbage
  <2> QED BY <1>1, <2>6 DEF FramesInv, Near
<1>11. RepliesInv'
  <2>1. \A i \in 1..Len(toHost) :
             toHost[i].seq <= next + 1 /\ toHost[i].seq < next + 1
    <3>1. \A i \in 1..Len(toHost) : toHost[i].seq <= next
      BY DEF RepliesInv
    <3> QED BY <1>3, <3>1
  <2>2. /\ toHost' = toHost /\ next' = next + 1 /\ first' = first
        /\ receive_seq' = receive_seq /\ Offset' = Offset
    BY <1>1, <1>5
  <2>3. \A i \in 1..Len(toHost) :
         /\ receive_seq <= toHost[i].seq /\ first <= toHost[i].seq
         /\ toHost[i].msg # 0 =>
               /\ toHost[i].data
               /\ toHost[i].seq > first
               /\ toHost[i].msg = toHost[i].seq - 1 - Offset
    BY DEF RepliesInv
  <2>4. \A i, j \in 1..Len(toHost) : i < j =>
         /\ toHost[i].seq <= toHost[j].seq
         /\ ~toHost[i].data /\ toHost[j].msg # 0 =>
                toHost[i].seq < toHost[j].seq
    BY DEF RepliesInv
  <2> QED BY <2>1, <2>2, <2>3, <2>4 DEF RepliesInv
<1>12. TaskInv'
  BY <1>1, <1>2, <1>3, <1>4, <1>5 DEF TaskInv
<1>13. AnswersInv'
  <2>1. \A i \in 1..Len(received) : received[i].done =>
            received[i].msg < next - Offset /\ received[i].msg <= next - Offset
    <3> SUFFICES ASSUME NEW i \in 1..Len(received), received[i].done
                 PROVE  received[i].msg < next - Offset
      BY <1>3, <1>5
    <3>1. received[i].msg <= Taken /\ received[i].msg # 0
          /\ received[i].msg \in Nat
      BY <1>3 DEF AnswersInv
    <3>2. Synced
      BY <3>1 DEF Taken
    <3>3. Taken = next - Offset - 1
      BY <1>3, <3>2 DEF Taken, Offset
    <3> QED BY <1>3, <1>5, <3>1, <3>3
  <2>2. next' - 1 - Offset' = next - Offset
    BY <1>1, <1>3, <1>5
  <2> QED BY <1>1, <1>6, <2>1, <2>2 DEF AnswersInv
<1>14. OnceInv'
  <2> SUFFICES ASSUME retransmit_seq = 0 PROVE OnceInv'
    BY <1>1 DEF OnceInv
  <2>1. \A i \in 2..Len(rx) : rx[i].seq >= next + 1
    <3> SUFFICES ASSUME NEW i \in 2..Len(rx) PROVE rx[i].seq >= next + 1
      OBVIOUS
    <3>1. rx[i].seq >= rx[1].seq + (i - 1)
      BY <1>2, <1>3 DEF OnceInv
    <3>2. rx[i].seq \in Nat
      BY <1>3
    <3> QED BY <1>2, <1>3, <3>1, <3>2
  <2>2. \A j \in 1..Len(toMcu) : toMcu[j].seq >= next + 1
    <3> SUFFICES ASSUME NEW j \in 1..Len(toMcu) PROVE toMcu[j].seq >= next + 1
      OBVIOUS
    <3>1. toMcu[j].seq >= rx[1].seq + (Len(rx) + j - 1)
      BY <1>2 DEF OnceInv
    <3>2. Len(rx) >= 1 /\ j >= 1
      BY <1>2, <1>3
    <3> QED BY <1>2, <1>3, <3>1, <3>2
  <2> QED BY <1>1, <1>5, <2>1, <2>2 DEF OnceInv
<1>15. ConnectInv'
  BY <1>1, <1>5 DEF ConnectInv
<1> QED BY <1>7, <1>8, <1>9, <1>10, <1>11, <1>12, <1>13, <1>14, <1>15

(* A message of the controller carries its next_sequence. *)
LEMMA SendReply ==
  ASSUME IInv, NEW r \in ReplyType, toHost' = Append(toHost, r), r.seq = next,
         r.msg # 0 => /\ r.data /\ next > first /\ task = "dispatch"
                      /\ r.msg = next - 1 - Offset,
         task' = "dispatch" => task = "dispatch" /\ r.data,
         UNCHANGED <<send_seq, receive_seq, built, first, next, received>>
  PROVE  /\ toHost' \in Seq(ReplyType) /\ Len(toHost') = Len(toHost) + 1
         /\ \A i \in 1..Len(toHost) : toHost'[i] = toHost[i]
         /\ toHost'[Len(toHost) + 1] = r
         /\ RepliesInv' /\ AnswersInv'
<1> USE DEF IInv
<1> DEFINE M == Len(toHost)
<1>1. /\ toHost' \in Seq(ReplyType) /\ Len(toHost') = M + 1
      /\ \A i \in 1..M : toHost'[i] = toHost[i]
      /\ toHost'[M + 1] = r
  <2>1. toHost \in Seq(ReplyType)
    BY DEF TypeOK
  <2> QED BY <2>1, SeqAppend
<1>2. /\ M \in Nat /\ next \in Nat /\ first \in Nat /\ receive_seq \in Nat
      /\ \A i \in 1..M : toHost[i].seq \in Nat
  BY Types
<1>3. Offset' = Offset /\ Synced' = Synced /\ Taken' = Taken
  BY DEF Offset, Synced, Taken
<1>4. receive_seq <= next /\ first <= next
  <2>1. CASE Synced
    BY <2>1 DEF NextInv
  <2>2. CASE ~Synced
    BY <1>2, <2>2, Types DEF NextInv, Synced
  <2> QED BY <2>1, <2>2
<1> HIDE DEF M
<1>5. \A i \in 1..M + 1 : \/ i \in 1..M /\ toHost'[i] = toHost[i]
                          \/ i = M + 1 /\ toHost'[i] = r
  BY <1>1, <1>2
<1>6. RepliesInv'
  <2>1. ASSUME NEW i \in 1..M + 1
        PROVE  /\ receive_seq <= toHost'[i].seq /\ first <= toHost'[i].seq
               /\ toHost'[i].seq <= next
               /\ toHost'[i].msg # 0 =>
                     /\ toHost'[i].data
                     /\ toHost'[i].seq > first
                     /\ toHost'[i].msg = toHost'[i].seq - 1 - Offset
               /\ task' = "dispatch" /\ ~toHost'[i].data => toHost'[i].seq < next
    <3>1. CASE i \in 1..M /\ toHost'[i] = toHost[i]
      BY <3>1 DEF RepliesInv, M
    <3>2. CASE toHost'[i] = r
      BY <1>2, <1>4, <3>2
    <3> QED BY <1>5, <3>1, <3>2
  <2>2. ASSUME NEW i \in 1..M + 1, NEW j \in 1..M + 1, i < j
        PROVE  /\ toHost'[i].seq <= toHost'[j].seq
               /\ ~toHost'[i].data /\ toHost'[j].msg # 0 =>
                      toHost'[i].seq < toHost'[j].seq
    <3>1. i \in 1..M /\ toHost'[i] = toHost[i]
      BY <1>1, <1>2, <2>2
    <3>2. CASE j \in 1..M /\ toHost'[j] = toHost[j]
      BY <2>2, <3>1, <3>2 DEF RepliesInv, M
    <3>3. CASE toHost'[j] = r
      <4>1. toHost[i].seq <= next
            /\ (task = "dispatch" /\ ~toHost[i].data => toHost[i].seq < next)
        BY <3>1 DEF RepliesInv, M
      <4> QED BY <3>1, <3>3, <4>1
    <3> QED BY <1>5, <3>2, <3>3
  <2> QED BY <1>1, <1>3, <2>1, <2>2 DEF RepliesInv
<1>7. AnswersInv'
  <2>1. ASSUME NEW i \in 1..Len(received), received[i].done,
               NEW j \in 1..M + 1, toHost'[j].msg # 0
        PROVE  received[i].msg < toHost'[j].msg
    <3>1. CASE j \in 1..M /\ toHost'[j] = toHost[j]
      BY <2>1, <3>1 DEF AnswersInv, M
    <3>2. CASE toHost'[j] = r
      BY <2>1, <3>2 DEF AnswersInv
    <3> QED BY <1>5, <3>1, <3>2
  <2> QED BY <1>1, <1>3, <2>1 DEF AnswersInv
<1> QED BY <1>1, <1>6, <1>7 DEF M

(* The block at the head of receive_buf is done with, and perhaps there is *)
(* an ack or a nak. *)
LEMMA PopStep ==
  ASSUME IInv, rx # <<>>, task # "dispatch", task' = "idle", rx' = Tail(rx),
         needValid' \in BOOLEAN,
         toHost' = toHost \/ toHost' = Append(toHost, AckNak),
         UNCHANGED <<hostVars, queueVars, commandTimer, toMcu, first, next,
                     delivered, overflow, incidents>>
  PROVE  IInv'
<1> USE DEF IInv
<1> DEFINE R == Len(rx) - 1
<1>1. /\ rx' \in Seq(BlockType) /\ Len(rx') = R /\ R \in Nat
      /\ \A i \in 1..R : rx'[i] = rx[i+1] /\ i + 1 \in 1..Len(rx)
  BY SeqTail DEF TypeOK
<1>2. AckNak \in ReplyType /\ AckNak.seq = next /\ AckNak.msg = 0
      /\ AckNak.data = FALSE
  BY Types DEF AckNak, Reply, ReplyType
<1>3. Offset' = Offset /\ Synced' = Synced /\ Taken' = Taken
      /\ AckPending' = AckPending /\ Connecting' = Connecting
  BY DEF Offset, Synced, Taken, AckPending, Connecting
<1>4. /\ toHost' \in Seq(ReplyType)
      /\ RepliesInv' /\ AnswersInv'
      /\ \A j \in 1..Len(toHost') : \/ j \in 1..Len(toHost) /\ toHost'[j] = toHost[j]
                                    \/ toHost'[j] = AckNak
  <2>1. CASE toHost' = toHost
    <3>1. RepliesInv'
      BY <1>3, <2>1 DEF RepliesInv
    <3>2. AnswersInv'
      BY <1>3, <2>1 DEF AnswersInv
    <3> QED BY <2>1, <3>1, <3>2 DEF TypeOK
  <2>2. CASE toHost' = Append(toHost, AckNak)
    <3>1. /\ toHost' \in Seq(ReplyType) /\ Len(toHost') = Len(toHost) + 1
          /\ \A i \in 1..Len(toHost) : toHost'[i] = toHost[i]
          /\ toHost'[Len(toHost) + 1] = AckNak
          /\ RepliesInv' /\ AnswersInv'
      BY <1>2, <2>2, SendReply
    <3>2. Len(toHost) \in Nat
      BY Types
    <3> QED BY <3>1, <3>2
  <2> QED BY <2>1, <2>2
<1>5. TypeOK'
  BY <1>1, <1>4 DEF TypeOK
<1>6. SentInv' /\ NextInv' /\ NotifyInv' /\ TimerInv' /\ WakeInv'
  BY <1>3 DEF SentInv, NextInv, NotifyInv, TimerInv, WakeInv
<1>7. TaskInv'
  BY DEF TaskInv
<1>8. ConnectInv'
  <2>1. built # 0
    BY DEF ConnectInv
  <2> QED BY <1>3, <2>1 DEF ConnectInv
<1>9. /\ \A i \in 1..R : rx[i+1].seq \in Nat
      /\ next \in Nat
  BY <1>1, Types
<1> HIDE DEF R
<1>10. FramesInv'
  <2>1. \A i \in 1..R : FrameOK(rx'[i])
    BY <1>1 DEF FramesInv
  <2>2. \A i, j \in 1..R : i < j => Near(rx'[i], rx'[j])
    <3> SUFFICES ASSUME NEW i \in 1..R, NEW j \in 1..R, i < j
                 PROVE  Near(rx'[i], rx'[j])
      OBVIOUS
    <3>1. i + 1 \in 1..Len(rx) /\ j + 1 \in 1..Len(rx) /\ i + 1 < j + 1
      BY <1>1
    <3> QED BY <1>1, <3>1 DEF FramesInv
  <2>3. \A i \in 1..R, j \in 1..Len(toMcu) : Near(rx'[i], toMcu[j])
    BY <1>1 DEF FramesInv
  <2> QED BY <1>1, <1>3, <2>1, <2>2, <2>3 DEF FramesInv, FrameOK, Near, IsGarbage
<1>11. OnceInv'
  <2> SUFFICES ASSUME retransmit_seq = 0 PROVE OnceInv'
    BY DEF OnceInv
  <2>1. \A i \in 1..R : rx'[i].seq >= next
    <3> SUFFICES ASSUME NEW i \in 1..R PROVE rx'[i].seq >= next
      OBVIOUS
    <3>1. i + 1 \in 2..Len(rx)
      BY <1>1
    <3> QED BY <1>1, <3>1 DEF OnceInv
  <2>2. \A i \in 1..Len(toMcu) : toMcu[i].seq >= next
    BY DEF OnceInv
  <2>3. \A i, j \in 1..R : i < j => rx'[j].seq >= rx'[i].seq + (j - i)
    <3> SUFFICES ASSUME NEW i \in 1..R, NEW j \in 1..R, i < j
                 PROVE  rx'[j].seq >= rx'[i].seq + (j - i)
      OBVIOUS
    <3>1. i + 1 \in 1..Len(rx) /\ j + 1 \in 1..Len(rx) /\ i + 1 < j + 1
          /\ (j + 1) - (i + 1) = j - i
      BY <1>1
    <3>2. rx[j+1].seq >= rx[i+1].seq + ((j + 1) - (i + 1))
      BY <3>1 DEF OnceInv
    <3> QED BY <1>1, <3>1, <3>2
  <2>4. \A i \in 1..R, j \in 1..Len(toMcu) :
             toMcu[j].seq >= rx'[i].seq + (R + j - i)
    <3> SUFFICES ASSUME NEW i \in 1..R, NEW j \in 1..Len(toMcu)
                 PROVE  toMcu[j].seq >= rx'[i].seq + (R + j - i)
      OBVIOUS
    <3>1. i + 1 \in 1..Len(rx) /\ rx'[i] = rx[i+1]
      BY <1>1
    <3>2. toMcu[j].seq >= rx[i+1].seq + (Len(rx) + j - (i + 1))
      BY <3>1 DEF OnceInv
    <3>3. Len(rx) + j - (i + 1) = R + j - i
      BY <1>1, Types DEF R
    <3> QED BY <3>1, <3>2, <3>3
  <2>5. ASSUME NEW j \in 1..Len(toHost'), ~toHost'[j].data
        PROVE  /\ \A i \in 1..R : rx'[i].seq >= toHost'[j].seq
               /\ \A i \in 1..Len(toMcu) : toMcu[i].seq >= toHost'[j].seq
    <3>1. CASE j \in 1..Len(toHost) /\ toHost'[j] = toHost[j]
      BY <1>1, <2>5, <3>1 DEF OnceInv
    <3>2. CASE toHost'[j] = AckNak
      BY <1>2, <2>1, <2>2, <3>2
    <3> QED BY <1>4, <3>1, <3>2
  <2>6. ~AckPending => /\ \A i \in 1..R : rx'[i].seq >= receive_seq
                       /\ \A i \in 1..Len(toMcu) : toMcu[i].seq >= receive_seq
    BY <1>1 DEF OnceInv
  <2>7. /\ ~overflow
        /\ Len(sent_queue) + (IF AckPending THEN last_ack_bytes ELSE 0) <= Window
    BY DEF OnceInv
  <2>8. \A i \in 2..R : rx'[i].seq >= next
    BY <1>1, <2>1
  <2> QED BY <1>1, <1>3, <2>1, <2>2, <2>3, <2>4, <2>5, <2>6, <2>7, <2>8 DEF OnceInv
<1> QED BY <1>4, <1>5, <1>6, <1>7, <1>8, <1>10, <1>11

LEMMA RejectStep == ASSUME IInv, RejectBlock PROVE IInv'
<1>1. /\ task = "idle" /\ rx # <<>> /\ rx' = Tail(rx) /\ task' = task
      /\ needValid' \in BOOLEAN
      /\ toHost' = toHost \/ toHost' = Append(toHost, AckNak)
      /\ UNCHANGED <<hostVars, queueVars, commandTimer, toMcu, first, next,
                     delivered, overflow, incidents>>
  BY DEF RejectBlock
<1> QED BY <1>1, PopStep

LEMMA SendAckStep == ASSUME IInv, SendAck PROVE IInv'
<1>1. /\ task = "ack" /\ task' = "idle" /\ rx' = Tail(rx)
      /\ toHost' = Append(toHost, AckNak)
      /\ UNCHANGED <<hostVars, queueVars, commandTimer, toMcu, first, next,
                     needValid, delivered, overflow, incidents>>
  BY DEF SendAck
<1>2. rx # <<>> /\ needValid' \in BOOLEAN
  BY <1>1 DEF IInv, TaskInv, TypeOK
<1> QED BY <1>1, <1>2, PopStep

(* An answer of a command, or a message of another task. *)
LEMMA TalkStep ==
  ASSUME IInv, task' = task \/ (task = "dispatch" /\ task' = "ack"),
         \/ toHost' = toHost
         \/ \E r \in ReplyType :
              /\ toHost' = Append(toHost, r) /\ r.seq = next /\ r.data
              /\ r.msg # 0 => /\ next > first /\ task = "dispatch"
                              /\ r.msg = next - 1 - Offset,
         incidents' \in 0..MaxIncidents,
         UNCHANGED <<hostVars, queueVars, commandTimer, toMcu, first, next,
                     needValid, rx, delivered, overflow>>
  PROVE  IInv'
<1> USE DEF IInv
<1>1. Offset' = Offset /\ Synced' = Synced /\ Taken' = Taken
      /\ AckPending' = AckPending /\ Connecting' = Connecting
  BY DEF Offset, Synced, Taken, AckPending, Connecting
<1>2. /\ toHost' \in Seq(ReplyType)
      /\ RepliesInv' /\ AnswersInv'
      /\ \A j \in 1..Len(toHost') : \/ j \in 1..Len(toHost) /\ toHost'[j] = toHost[j]
                                    \/ toHost'[j].data
  <2>1. CASE toHost' = toHost
    <3>1. RepliesInv'
      BY <1>1, <2>1 DEF RepliesInv
    <3>2. AnswersInv'
      BY <1>1, <2>1 DEF AnswersInv
    <3> QED BY <2>1, <3>1, <3>2 DEF TypeOK
  <2>2. CASE toHost' # toHost
    <3>1. PICK r \in ReplyType :
              /\ toHost' = Append(toHost, r) /\ r.seq = next /\ r.data
              /\ r.msg # 0 => /\ next > first /\ task = "dispatch"
                              /\ r.msg = next - 1 - Offset
      BY <2>2
    <3>2. /\ toHost' \in Seq(ReplyType) /\ Len(toHost') = Len(toHost) + 1
          /\ \A i \in 1..Len(toHost) : toHost'[i] = toHost[i]
          /\ toHost'[Len(toHost) + 1] = r
          /\ RepliesInv' /\ AnswersInv'
      BY <3>1, SendReply
    <3>3. Len(toHost) \in Nat
      BY Types
    <3> QED BY <3>1, <3>2, <3>3
  <2> QED BY <2>1, <2>2
<1>3. TypeOK'
  BY <1>2 DEF TypeOK
<1>4. SentInv' /\ NextInv' /\ NotifyInv' /\ TimerInv' /\ WakeInv' /\ TaskInv'
  BY <1>1 DEF SentInv, NextInv, NotifyInv, TimerInv, WakeInv, TaskInv
<1>5. FramesInv'
  BY <1>1 DEF FramesInv, FrameOK, Near, IsGarbage
<1>6. OnceInv' /\ ConnectInv'
  BY <1>1, <1>2 DEF OnceInv, ConnectInv
<1> QED BY <1>2, <1>3, <1>4, <1>5, <1>6

LEMMA DispatchStep == ASSUME IInv, Dispatch PROVE IInv'
<1> USE DEF IInv
<1>1. /\ task = "dispatch" /\ task' = "ack"
      /\ toHost' = Append(toHost, Reply(next, Head(rx).msg, TRUE))
         \/ toHost' = toHost
      /\ UNCHANGED <<hostVars, queueVars, commandTimer, toMcu, first, next,
                     needValid, rx, delivered, overflow, incidents>>
  BY DEF Dispatch
<1>2. /\ rx # <<>> /\ next > first /\ Head(rx).msg = next - 1 - Offset
  BY <1>1 DEF TaskInv
<1>3. Head(rx).msg \in Nat /\ next \in Nat
  <2>1. Head(rx) \in BlockType
    BY <1>2, SeqTail DEF TypeOK
  <2> QED BY <2>1, Types DEF BlockType
<1> DEFINE r == Reply(next, Head(rx).msg, TRUE)
<1>4. r \in ReplyType /\ r.seq = next /\ r.data /\ r.msg = Head(rx).msg
  BY <1>3 DEF Reply, ReplyType
<1>5. incidents' \in 0..MaxIncidents
  BY <1>1 DEF TypeOK
<1> HIDE DEF r
<1>6. \/ toHost' = toHost
      \/ toHost' = Append(toHost, r)
  BY <1>1 DEF r
<1> QED BY <1>1, <1>2, <1>4, <1>5, <1>6, TalkStep

LEMMA ShutdownStep == ASSUME IInv, Shutdown PROVE IInv'
<1> USE DEF IInv
<1>1. /\ task' = "idle" /\ incidents' \in 0..MaxIncidents
      /\ UNCHANGED <<hostVars, queueVars, commandTimer, toMcu, toHost, first,
                     next, needValid, rx, delivered, overflow>>
  BY LinkAssumption DEF Shutdown, Incident, TypeOK
<1>2. Offset' = Offset /\ Synced' = Synced /\ Taken' = Taken
      /\ AckPending' = AckPending /\ Connecting' = Connecting
  BY <1>1 DEF Offset, Synced, Taken, AckPending, Connecting
<1>3. TypeOK'
  BY <1>1 DEF TypeOK
<1>4. SentInv' /\ NextInv' /\ NotifyInv' /\ TimerInv' /\ WakeInv' /\ TaskInv'
  BY <1>1, <1>2 DEF SentInv, NextInv, NotifyInv, TimerInv, WakeInv, TaskInv
<1>5. FramesInv'
  BY <1>1, <1>2 DEF FramesInv, FrameOK, Near, IsGarbage
<1>6. RepliesInv'
  BY <1>1, <1>2 DEF RepliesInv
<1>7. AnswersInv'
  BY <1>1, <1>2 DEF AnswersInv
<1>8. OnceInv' /\ ConnectInv'
  BY <1>1, <1>2 DEF OnceInv, ConnectInv
<1> QED BY <1>3, <1>4, <1>5, <1>6, <1>7, <1>8

LEMMA ReportStep == ASSUME IInv, Report PROVE IInv'
<1> USE DEF IInv
<1> DEFINE r == Reply(next, 0, TRUE)
<1>1. /\ incidents' \in 0..MaxIncidents /\ toHost' = Append(toHost, r)
      /\ UNCHANGED <<hostVars, queueVars, commandTimer, toMcu, mcuVars>>
  BY LinkAssumption DEF Report, Incident, TypeOK
<1>2. r \in ReplyType /\ r.seq = next /\ r.data /\ r.msg = 0
  BY Types DEF Reply, ReplyType
<1> HIDE DEF r
<1> QED BY <1>1, <1>2, TalkStep

(* A message that acknowledges more than was sent can only be the first    *)
(* one of the session: nothing has been accepted yet, and nothing that was *)
(* sent is left anywhere. *)
Jump(f, k) ==
    /\ ~Synced /\ receive_seq = 1 /\ f.seq = first /\ next = first /\ first # 1
    /\ f.seq > send_seq /\ send_seq' = f.seq /\ sent_queue' = <<>>
    /\ commandTimer' = "now" /\ retransmitTimer' = "never"
    /\ last_ack_bytes' = last_ack_bytes
    /\ task = "idle" /\ k = Len(notify_queue) /\ f.msg = 0
    /\ \A i \in 1..Len(toHost) : toHost[i].msg = 0
    /\ Offset' = next - 1 - built /\ Synced' /\ Taken' = built

(* Any other one acknowledges none, some or all of sent_queue. *)
Ack(f) ==
    /\ f.seq <= send_seq /\ send_seq' = send_seq /\ Offset' = Offset
    /\ f.seq > receive_seq => (~Synced => f.seq = first /\ next = first)
    /\ sent_queue' \in Seq(BlockType)
    /\ Len(sent_queue') = Len(sent_queue) - (f.seq - receive_seq)
    /\ \A i \in 1..Len(sent_queue') :
         sent_queue'[i] = sent_queue[i + (f.seq - receive_seq)]
    /\ Synced => Synced'
    /\ f.seq > receive_seq => Synced'
    /\ f.seq = receive_seq => Synced' = Synced
    /\ Synced' => Taken' = next - 1 - Offset
    /\ ~Synced' => Taken' = 0 /\ f.seq = 1

LEMMA HandledCases ==
  ASSUME IInv, NEW f, NEW k, Handled(f, k)
  PROVE  /\ f.seq \in Nat /\ f.data \in BOOLEAN /\ f.msg \in Nat
         /\ 1 \in 1..Len(toHost)
         /\ receive_seq <= f.seq /\ first <= f.seq /\ f.seq <= next
         /\ f.msg # 0 => /\ f.data /\ f.seq > first
                         /\ f.msg = f.seq - 1 - Offset
         /\ Jump(f, k) \/ Ack(f)
<1> USE DEF IInv
<1>1. /\ f.seq \in Nat /\ f.data \in BOOLEAN /\ f.msg \in Nat
      /\ f = toHost[1] /\ 1 \in 1..Len(toHost)
  <2>1. toHost # <<>> /\ f = toHost[1] /\ f \in ReplyType
    BY DEF Handled
  <2> QED BY <2>1, SeqTail DEF TypeOK, ReplyType
<1>2. /\ receive_seq <= f.seq /\ first <= f.seq /\ f.seq <= next
      /\ f.msg # 0 => /\ f.data /\ f.seq > first
                      /\ f.msg = f.seq - 1 - Offset
  BY <1>1 DEF RepliesInv
<1>3. /\ submitted \in Nat /\ built \in Nat /\ built <= submitted
      /\ send_seq \in Nat /\ receive_seq \in Nat /\ next \in Nat
      /\ first \in Nat /\ first >= 1
      /\ Len(sent_queue) \in Nat /\ Len(toHost) \in Nat
      /\ Len(notify_queue) \in Nat
      /\ \A i \in 1..Len(notify_queue) : notify_queue[i].seq \in Nat
      /\ \A i \in 1..Len(toHost) : toHost[i].seq \in Nat
  BY Types
<1>4. /\ receive_seq' = f.seq /\ next' = next /\ first' = first
      /\ built' = built /\ Len(sent_queue) = send_seq - receive_seq
      /\ receive_seq >= 1
  BY DEF Handled, SentInv
<1>41. f.seq \in Nat /\ receive_seq \in Nat /\ send_seq \in Nat
       /\ receive_seq <= f.seq
  BY <1>1, <1>2, <1>3
<1>5. CASE f.seq > send_seq
  <2>1. ~Synced
    BY <1>1, <1>2, <1>3, <1>5 DEF NextInv
  <2>2. receive_seq = 1 /\ f.seq = first /\ next = first /\ first # 1
    BY <1>1, <1>2, <1>3, <2>1 DEF Synced
  <2>3. /\ send_seq' = f.seq /\ sent_queue' = <<>>
        /\ commandTimer' = "now" /\ retransmitTimer' = "never"
        /\ last_ack_bytes' = last_ack_bytes
    BY SMTT(30), <1>1, <1>2, <1>3, <1>4, <1>5 DEF Handled
  <2>4. task = "idle"
    BY <1>3, <2>2 DEF TaskInv
  <2>5. f.msg = 0 /\ \A i \in 1..Len(toHost) : toHost[i].msg = 0
    <3>1. \A i \in 1..Len(toHost) : toHost[i].msg # 0 =>
              toHost[i].seq > first /\ toHost[i].seq <= next
      BY DEF RepliesInv
    <3> QED BY <1>1, <1>3, <2>2, <3>1
  <2>6. k = Len(notify_queue)
    <3>1. k \in 0..Len(notify_queue) /\ Completed(k, f.seq, f)
      BY DEF Handled
    <3>2. SUFFICES ASSUME k < Len(notify_queue) PROVE FALSE
      BY <1>3, <3>1
    <3>3. k + 1 \in 1..Len(notify_queue)
      BY <1>3, <3>1, <3>2
    <3>4. notify_queue[k+1].seq > f.seq - 1 - (IF f.data THEN 1 ELSE 0)
      BY <3>1, <3>2 DEF Completed, UpTo
    <3>5. notify_queue[k+1].seq < send_seq /\ notify_queue[k+1].seq \in Nat
      BY <1>3, <3>3 DEF NotifyInv
    <3> QED BY <1>1, <1>3, <1>5, <3>4, <3>5
  <2>7. Offset' = next - 1 - built
    BY <1>4, <2>2, <2>3 DEF Offset
  <2>8. Synced'
    BY <1>4, <2>2 DEF Synced
  <2>9. Taken' = built
    BY <1>3, <1>4, <2>2, <2>3, <2>8 DEF Taken
  <2> QED BY <1>1, <1>2, <1>5, <2>1, <2>2, <2>3, <2>4, <2>5, <2>6, <2>7, <2>8,
             <2>9 DEF Jump
<1>6. CASE f.seq <= send_seq
  <2>1. send_seq' = send_seq
    BY <1>1, <1>3, <1>6 DEF Handled
  <2>2. /\ sent_queue' \in Seq(BlockType)
        /\ Len(sent_queue') = Len(sent_queue) - (f.seq - receive_seq)
        /\ \A i \in 1..Len(sent_queue') :
             sent_queue'[i] = sent_queue[i + (f.seq - receive_seq)]
    <3>1. CASE f.seq = receive_seq
      <4>0. sent_queue' = sent_queue
        BY <1>41, <3>1, <1>6 DEF Handled
      <4>1. sent_queue' = sent_queue /\ sent_queue \in Seq(BlockType)
        BY <4>0 DEF TypeOK
      <4>2. f.seq - receive_seq = 0 /\ Len(sent_queue) - 0 = Len(sent_queue)
            /\ \A i \in 1..Len(sent_queue) : i + 0 = i
        BY <1>3, <3>1
      <4> QED BY <4>1, <4>2
    <3>2. CASE f.seq > receive_seq
      <4>1. \/ f.seq = receive_seq
            \/ /\ sent_queue' \in Seq(BlockType)
               /\ Len(sent_queue') = Len(sent_queue) - (f.seq - receive_seq)
               /\ \A i \in 1..Len(sent_queue') :
                    sent_queue'[i] = sent_queue[i + (f.seq - receive_seq)]
            \/ f.seq > send_seq
        BY DEF Handled
      <4> QED BY <1>41, <1>6, <3>2, <4>1
    <3> QED BY <1>41, <3>1, <3>2
  <2>3. Offset' = Offset
    BY <1>4, <2>1 DEF Offset
  <2>4. f.seq > receive_seq => (~Synced => f.seq = first /\ next = first)
    BY <1>1, <1>2, <1>3 DEF Synced
  <2>5. /\ Synced => Synced'
        /\ f.seq > receive_seq => Synced'
        /\ f.seq = receive_seq => Synced' = Synced
    BY <1>1, <1>2, <1>3, <1>4 DEF Synced
  <2>6. Synced' => Taken' = next - 1 - Offset
    BY <1>3, <1>4, <2>1 DEF Taken, Offset
  <2>7. ~Synced' => Taken' = 0 /\ f.seq = 1
    BY <1>4 DEF Taken, Synced
  <2> QED BY <1>1, <1>2, <1>6, <2>1, <2>2, <2>3, <2>4, <2>5, <2>6, <2>7 DEF Ack
<1> QED BY <1>1, <1>3, <1>5, <1>6

LEMMA HandledStep ==
  ASSUME IInv, NEW f, NEW k, Handled(f, k)
  PROVE  IInv'
<1> USE DEF IInv
<1>1. /\ f.seq \in Nat /\ f.data \in BOOLEAN /\ f.msg \in Nat
      /\ 1 \in 1..Len(toHost)
      /\ receive_seq <= f.seq /\ first <= f.seq /\ f.seq <= next
      /\ f.msg # 0 => /\ f.data /\ f.seq > first
                      /\ f.msg = f.seq - 1 - Offset
  BY HandledCases
<1>2. Jump(f, k) \/ Ack(f)
  BY HandledCases
<1>3. /\ f = toHost[1] /\ receive_seq' = f.seq
      /\ toHost' \in Seq(ReplyType) /\ Len(toHost') = Len(toHost) - 1
      /\ \A i \in 1..Len(toHost') : toHost'[i] = toHost[i+1]
      /\ last_ack_seq' = IF ~f.data /\ last_ack_seq < f.seq THEN f.seq
                         ELSE last_ack_seq
      /\ UNCHANGED <<ignore_nak_seq, retransmit_seq, nakSeq, queueVars, toMcu,
                     mcuVars, incidents>>
  BY DEF Handled
<1>4. /\ k \in 0..Len(notify_queue) /\ UpTo(k, f.seq - 1 - (IF f.data THEN 1 ELSE 0))
      /\ notify_queue' \in Seq(BlockType)
      /\ Len(notify_queue') = Len(notify_queue) - k
      /\ \A i \in 1..Len(notify_queue') : notify_queue'[i] = notify_queue[i + k]
  BY DEF Handled, Completed
<1>5. /\ received' \in Seq(NoteType)
      /\ Len(received') = Len(received) + k + (IF f.data THEN 1 ELSE 0)
      /\ \A i \in 1..Len(received) : received'[i] = received[i]
      /\ \A i \in 1..k : received'[Len(received) + i] = Done(notify_queue[i].msg)
      /\ f.data => received'[Len(received) + k + 1] = Answer(f.msg)
  BY DEF Handled
<1>6. \/ /\ f.seq = receive_seq
         /\ UNCHANGED <<sent_queue, send_seq, last_ack_bytes, commandTimer>>
         /\ retransmitTimer' \in {"now", retransmitTimer}
      \/ /\ f.seq > receive_seq
         /\ sent_queue' \in Seq(BlockType)
         /\ send_seq' = send_seq /\ last_ack_bytes' = 1
         /\ commandTimer' = "now"
         /\ retransmitTimer' \in
              {"now", IF sent_queue' = <<>> THEN "never" ELSE "later"}
      \/ Jump(f, k)
  <2>1. \/ /\ f.seq = receive_seq
           /\ UNCHANGED <<sent_queue, send_seq, last_ack_bytes, commandTimer>>
           /\ retransmitTimer' \in {"now", retransmitTimer}
        \/ /\ f.seq > receive_seq
           /\ sent_queue' \in Seq(BlockType)
           /\ send_seq' = send_seq /\ last_ack_bytes' = 1
           /\ commandTimer' = "now"
           /\ retransmitTimer' \in
                {"now", IF sent_queue' = <<>> THEN "never" ELSE "later"}
        \/ f.seq > send_seq
    BY DEF Handled
  <2>2. f.seq > send_seq => Jump(f, k)
    <3>1. send_seq \in Nat
      BY Types
    <3>2. Ack(f) => f.seq <= send_seq
      BY DEF Ack
    <3> QED BY <1>1, <1>2, <3>1, <3>2
  <2> QED BY <2>1, <2>2
<1>7. retransmitTimer' = "now" =>
         \/ retransmitTimer = "now" /\ f.seq = receive_seq
         \/ f.seq > ignore_nak_seq /\ sent_queue' # <<>>
  BY DEF Handled
<1>8. /\ submitted \in Nat /\ built \in Nat /\ built <= submitted
      /\ send_seq \in Nat /\ receive_seq \in Nat /\ next \in Nat
      /\ first \in Nat /\ first >= 1 /\ Window \in Nat /\ Window >= 2
      /\ Len(sent_queue) \in Nat /\ Len(toHost) \in Nat
      /\ Len(notify_queue) \in Nat /\ Len(received) \in Nat
  BY Types
<1>9. /\ \A i \in 1..Len(notify_queue) :
             notify_queue[i].seq \in Nat /\ notify_queue[i].msg \in Nat
      /\ \A i \in 1..Len(toHost) : toHost[i].seq \in Nat /\ toHost[i].msg \in Nat
      /\ \A i \in 1..Len(received) : received[i].msg \in Nat
  BY Types
<1>10. /\ Len(sent_queue) = send_seq - receive_seq /\ receive_seq >= 1
       /\ Len(sent_queue) <= built /\ Len(sent_queue) <= MaxPending
       /\ last_ack_seq <= receive_seq /\ last_ack_seq \in Nat
       /\ last_ack_bytes \in {0, 1} /\ MaxPending \in Nat
  BY Types DEF SentInv, TypeOK
<1>11. k \in Nat /\ Offset \in Int
  BY <1>4, <1>8 DEF Offset
<1>12. TypeOK'
  <2>1. /\ sent_queue' \in Seq(BlockType) /\ last_ack_bytes' \in {0, 1}
        /\ commandTimer' \in {"now", "later", "never"}
        /\ retransmitTimer' \in {"now", "later", "never"}
    <3>1. CASE Jump(f, k)
      BY <3>1 DEF Jump, TypeOK
    <3> QED BY <1>6, <3>1 DEF TypeOK
  <2>2. send_seq' \in Nat
    BY <1>1, <1>2, <1>8 DEF Jump, Ack
  <2>3. receive_seq' \in Nat /\ last_ack_seq' \in Nat
    BY <1>1, <1>3, <1>10
  <2> QED BY <1>3, <1>4, <1>5, <2>1, <2>2, <2>3 DEF TypeOK
<1>13. SentInv'
  <2>1. last_ack_seq' <= receive_seq'
    BY <1>1, <1>3, <1>8, <1>10
  <2>2. receive_seq' >= 1
    BY <1>1, <1>3, <1>8
  <2>3. CASE Jump(f, k)
    <3>1. sent_queue' = <<>> /\ send_seq' = receive_seq' /\ built' = built
      BY <1>3, <2>3 DEF Jump
    <3>2. Len(sent_queue') = 0 /\ send_seq' - receive_seq' = 0
      BY <1>1, <1>3, <3>1
    <3> QED BY <1>8, <1>10, <2>1, <2>2, <3>1, <3>2 DEF SentInv
  <2>4. CASE Ack(f)
    <3> DEFINE d == f.seq - receive_seq  N == Len(sent_queue) - d
    <3>1. /\ send_seq' = send_seq /\ Offset' = Offset /\ built' = built
          /\ Len(sent_queue') = N /\ d \in Nat
          /\ \A i \in 1..N : sent_queue'[i] = sent_queue[i + d]
      <4>1. /\ send_seq' = send_seq /\ Offset' = Offset /\ built' = built
            /\ Len(sent_queue') = N
            /\ \A i \in 1..Len(sent_queue') : sent_queue'[i] = sent_queue[i + d]
        BY <1>3, <2>4 DEF Ack
      <4>2. d \in Nat
        BY <1>1, <1>8
      <4> HIDE DEF d, N
      <4> QED BY <4>1, <4>2
    <3>11. d \in Nat /\ f.seq = receive_seq + d
      BY <1>1, <1>8
    <3> HIDE DEF d
    <3>2. N \in Int /\ N = send_seq - f.seq /\ N <= built /\ N <= MaxPending
      <4> DEFINE S == Len(sent_queue)
      <4>1. S \in Nat /\ S = send_seq - receive_seq /\ S <= built /\ S <= MaxPending
        BY <1>8, <1>10
      <4> HIDE DEF S
      <4>2. S - d \in Int /\ S - d = send_seq - f.seq /\ S - d <= built
            /\ S - d <= MaxPending
        BY <1>8, <1>10, <3>11, <4>1
      <4> QED BY <4>2 DEF S
    <3>3. ASSUME NEW i \in 1..N
          PROVE  /\ sent_queue'[i].seq = f.seq + i - 1
                 /\ sent_queue'[i].msg = sent_queue'[i].seq - Offset
      <4>1. i + d \in 1..Len(sent_queue)
        BY <1>8, <3>1, <3>2
      <4>2. /\ sent_queue[i+d].seq = receive_seq + (i + d) - 1
            /\ sent_queue[i+d].msg = sent_queue[i+d].seq - Offset
        BY <4>1 DEF SentInv
      <4>3. receive_seq + (i + d) - 1 = f.seq + i - 1
        BY <1>8, <3>2, <3>11
      <4> QED BY <3>1, <4>2, <4>3
    <3> HIDE DEF N
    <3> QED BY <1>3, <2>1, <2>2, <3>1, <3>2, <3>3 DEF SentInv
  <2> QED BY <1>2, <2>3, <2>4
<1>14. NextInv'
  <2>1. next' = next /\ first' = first /\ built' = built /\ next >= first
    BY <1>3 DEF NextInv
  <2>2. CASE Jump(f, k)
    BY <1>3, <1>8, <2>1, <2>2 DEF Jump, NextInv
  <2>3. CASE Ack(f)
    <3>1. next <= send_seq \/ ~Synced'
      <4>1. CASE Synced
        BY <4>1 DEF NextInv
      <4>2. CASE ~Synced /\ f.seq > receive_seq
        BY <2>3, <4>2 DEF Ack
      <4>3. CASE ~Synced /\ f.seq = receive_seq
        BY <2>3, <4>3 DEF Ack
      <4> QED BY <1>1, <1>8, <4>1, <4>2, <4>3
    <3>2. ~Synced' => Len(sent_queue') = built
      <4> SUFFICES ASSUME ~Synced' PROVE Len(sent_queue') = built
        OBVIOUS
      <4>1. ~Synced /\ f.seq = receive_seq
        BY <1>1, <1>8, <2>3 DEF Ack
      <4>2. Len(sent_queue') = Len(sent_queue) - 0
        BY <1>8, <2>3, <4>1 DEF Ack
      <4>3. Len(sent_queue) = built
        BY <4>1 DEF NextInv
      <4> QED BY <1>8, <4>2, <4>3
    <3>3. send_seq' = send_seq
      BY <2>3 DEF Ack
    <3> QED BY <1>1, <1>3, <2>1, <3>1, <3>2, <3>3 DEF NextInv
  <2> QED BY <1>2, <2>2, <2>3
<1>15. send_seq <= send_seq' /\ send_seq' \in Nat
  BY <1>1, <1>2, <1>8 DEF Jump, Ack
<1>16. FramesInv'
  <2>1. ASSUME NEW g, FrameOK(g), g.seq \in Nat
        PROVE  /\ 1 <= g.seq /\ g.seq < send_seq' /\ g.seq > next - SeqMod
               /\ ~IsGarbage(g) /\ g.seq >= next => g.msg = g.seq - Offset'
    <3>1. g.seq < send_seq /\ g.seq < send_seq'
      BY <1>8, <1>15, <2>1 DEF FrameOK
    <3>2. CASE Jump(f, k)
      BY SMTT(30), <1>1, <1>8, <2>1, <3>1, <3>2 DEF FrameOK, Jump
    <3>3. CASE Ack(f)
      BY <2>1, <3>1, <3>3 DEF FrameOK, Ack
    <3> QED BY <1>2, <3>2, <3>3
  <2>2. /\ \A i \in 1..Len(rx) : FrameOK(rx[i]) /\ rx[i].seq \in Nat
        /\ \A i \in 1..Len(toMcu) : FrameOK(toMcu[i]) /\ toMcu[i].seq \in Nat
    BY Types DEF FramesInv
  <2> DEFINE Fits(g) == /\ 1 <= g.seq /\ g.seq < send_seq' /\ g.seq > next - SeqMod
                        /\ ~IsGarbage(g) /\ g.seq >= next => g.msg = g.seq - Offset'
  <2>3. /\ \A i \in 1..Len(rx) : Fits(rx[i])
        /\ \A i \in 1..Len(toMcu) : Fits(toMcu[i])
    BY <2>1, <2>2
  <2>4. rx' = rx /\ toMcu' = toMcu /\ next' = next
    BY <1>3
  <2>5. /\ (\A i \in 1..Len(rx) : FrameOK(rx[i]))'
        /\ (\A i \in 1..Len(toMcu) : FrameOK(toMcu[i]))'
    BY <2>3, <2>4 DEF FrameOK, IsGarbage
  <2> QED BY <2>4, <2>5 DEF FramesInv, Near
<1>17. RepliesInv'
  <2> DEFINE M == Len(toHost) - 1
  <2>1. Len(toHost') = M /\ \A i \in 1..M : /\ toHost'[i] = toHost[i+1]
                                            /\ i + 1 \in 1..Len(toHost)
    BY <1>3, <1>8
  <2>2. ASSUME NEW i \in 1..M
        PROVE  /\ f.seq <= toHost'[i].seq /\ first <= toHost'[i].seq
               /\ toHost'[i].seq <= next
               /\ toHost'[i].msg # 0 =>
                     /\ toHost'[i].data
                     /\ toHost'[i].seq > first
                     /\ toHost'[i].msg = toHost'[i].seq - 1 - Offset'
               /\ task = "dispatch" /\ ~toHost'[i].data => toHost'[i].seq < next
    <3>1. i + 1 \in 1..Len(toHost) /\ 1 < i + 1
      BY <2>1
    <3>2. f.seq <= toHost[i+1].seq
      BY <1>1, <1>3, <3>1 DEF RepliesInv
    <3>3. toHost[i+1].msg # 0 => Offset' = Offset
      BY <1>2, <3>1 DEF Jump, Ack
    <3> QED BY <2>1, <3>1, <3>2, <3>3 DEF RepliesInv
  <2>3. ASSUME NEW i \in 1..M, NEW j \in 1..M, i < j
        PROVE  /\ toHost'[i].seq <= toHost'[j].seq
               /\ ~toHost'[i].data /\ toHost'[j].msg # 0 =>
                      toHost'[i].seq < toHost'[j].seq
    <3>1. i + 1 \in 1..Len(toHost) /\ j + 1 \in 1..Len(toHost) /\ i + 1 < j + 1
      BY <2>1, <2>3
    <3> QED BY <2>1, <3>1 DEF RepliesInv
  <2> HIDE DEF M
  <2> QED BY <1>3, <2>1, <2>2, <2>3 DEF RepliesInv
<1>18. TaskInv'
  <2>1. CASE Jump(f, k)
    BY <1>3, <2>1 DEF Jump, TaskInv
  <2>2. CASE Ack(f)
    BY <1>3, <2>2 DEF Ack, TaskInv
  <2> QED BY <1>2, <2>1, <2>2
<1>19. /\ \A i \in 1..k :
              notify_queue[i].seq <= f.seq - 1 - (IF f.data THEN 1 ELSE 0)
       /\ k < Len(notify_queue) =>
              notify_queue[k+1].seq > f.seq - 1 - (IF f.data THEN 1 ELSE 0)
       /\ \A i \in 1..Len(notify_queue) :
              /\ notify_queue[i].seq = send_seq - Len(notify_queue) + i - 1
              /\ 1 <= notify_queue[i].seq /\ notify_queue[i].seq < send_seq
              /\ notify_queue[i].msg = notify_queue[i].seq - Offset
              /\ notify_queue[i].msg # 0
  BY <1>4 DEF UpTo, NotifyInv
<1>20. NotifyInv'
  <2> DEFINE Q == Len(notify_queue)
  <2>1. Len(notify_queue') = Q - k /\ Q \in Nat /\ k <= Q
        /\ \A i \in 1..Q - k : notify_queue'[i] = notify_queue[i + k]
                               /\ i + k \in 1..Q
    BY <1>4, <1>8
  <2>2. CASE Jump(f, k)
    <3>1. Q - k = 0 /\ receive_seq' # 1
      BY <1>3, <1>8, <2>1, <2>2 DEF Jump
    <3> QED BY <2>1, <3>1 DEF NotifyInv
  <2>3. CASE Ack(f)
    <3>1. send_seq' = send_seq /\ Offset' = Offset /\ built' = built
      BY <1>3, <2>3 DEF Ack
    <3>2. ASSUME NEW i \in 1..Q - k
          PROVE  /\ notify_queue'[i].seq = send_seq - (Q - k) + i - 1
                 /\ 1 <= notify_queue'[i].seq /\ notify_queue'[i].seq < send_seq
                 /\ notify_queue'[i].msg = notify_queue'[i].seq - Offset
                 /\ notify_queue'[i].msg # 0
      <4>1. i + k \in 1..Q /\ notify_queue'[i] = notify_queue[i + k]
            /\ send_seq - Q + (i + k) - 1 = send_seq - (Q - k) + i - 1
        BY <1>8, <1>11, <2>1
      <4> QED BY <1>19, <4>1
    <3>3. receive_seq' = 1 => Q - k = built
      <4> SUFFICES ASSUME receive_seq' = 1 PROVE Q - k = built
        OBVIOUS
      <4>1. f.seq = 1 /\ receive_seq = 1
        BY <1>1, <1>3, <1>8, <1>10
      <4>2. Q = built
        BY <4>1 DEF NotifyInv
      <4>3. k = 0
        <5> SUFFICES ASSUME k > 0 PROVE FALSE
          BY <1>11
        <5>1. 1 \in 1..k /\ 1 \in 1..Q
          BY <1>11, <2>1
        <5>2. notify_queue[1].seq <= 0 /\ notify_queue[1].seq >= 1
              /\ notify_queue[1].seq \in Nat
          BY <1>9, <1>19, <4>1, <5>1
        <5> QED BY <5>2
      <4> QED BY <2>1, <4>2, <4>3
    <3> HIDE DEF Q
    <3> QED BY <2>1, <3>1, <3>2, <3>3 DEF NotifyInv
  <2> QED BY <1>2, <2>2, <2>3
<1>21. Ack(f) => \A i \in 1..k :
         /\ notify_queue[i].msg <= f.seq - 1 - Offset
         /\ f.data => notify_queue[i].msg <= f.seq - 2 - Offset
  <2> SUFFICES ASSUME NEW i \in 1..k
               PROVE  /\ notify_queue[i].msg <= f.seq - 1 - Offset
                      /\ f.data => notify_queue[i].msg <= f.seq - 2 - Offset
    OBVIOUS
  <2>1. i \in 1..Len(notify_queue)
    BY <1>4, <1>8
  <2> DEFINE s == notify_queue[i].seq  m == notify_queue[i].msg  t == f.seq
  <2>2. s \in Nat /\ m \in Nat /\ m = s - Offset /\ t \in Nat
    BY <1>1, <1>9, <1>19, <2>1
  <2>3. s <= t - 1 - (IF f.data THEN 1 ELSE 0)
    BY <1>19
  <2> HIDE DEF s, m, t
  <2>4. s <= t - 1 /\ (f.data => s <= t - 2)
    BY <1>1, <2>2, <2>3
  <2>5. m <= t - 1 - Offset /\ (f.data => m <= t - 2 - Offset)
    BY <1>11, <2>2, <2>4
  <2> QED BY <2>5 DEF m, t
<1>22. AnswersInv'
  <2> DEFINE R == Len(received)
  <2>1. ASSUME NEW i \in 1..Len(received')
        PROVE  \/ i \in 1..R /\ received'[i] = received[i]
               \/ i - R \in 1..k /\ received'[i] = Done(notify_queue[i - R].msg)
                  /\ i > R
               \/ f.data /\ i = R + k + 1 /\ received'[i] = Answer(f.msg)
    <3>1. CASE i \in 1..R
      BY <1>5, <3>1
    <3>2. CASE i > R /\ i <= R + k
      <4>1. i - R \in 1..k /\ R + (i - R) = i
        BY <1>8, <1>11, <3>2
      <4>2. received'[R + (i - R)] = Done(notify_queue[i - R].msg)
        BY <1>5, <4>1
      <4> QED BY <3>2, <4>1, <4>2
    <3>3. CASE i > R + k
      BY <1>5, <1>8, <1>11, <3>3
    <3> QED BY <1>8, <1>11, <3>1, <3>2, <3>3
  <2>2. \A m : Done(m).done /\ Done(m).msg = m /\ ~Answer(m).done /\ Answer(m).msg = m
    BY DEF Done, Answer
  <2>3. ASSUME NEW i \in 1..R, received[i].done
        PROVE  /\ received[i].msg <= Taken' /\ received[i].msg # 0
               /\ task = "dispatch" => received[i].msg < next - 1 - Offset'
               /\ \A j \in 1..Len(toHost') : toHost'[j].msg # 0 =>
                        received[i].msg < toHost'[j].msg
               /\ f.msg # 0 => received[i].msg < f.msg
    <3>1. received[i].msg <= Taken /\ received[i].msg # 0 /\ received[i].msg \in Nat
      BY <1>9, <2>3 DEF AnswersInv
    <3>2. Synced
      BY <3>1 DEF Taken
    <3>3. Ack(f)
      BY <1>2, <3>2 DEF Jump
    <3>4. Offset' = Offset /\ Taken' = Taken
      BY SMTT(30), <1>8, <3>2, <3>3 DEF Ack, Taken, Offset
    <3>5. task = "dispatch" => received[i].msg < next - 1 - Offset
      BY <2>3 DEF AnswersInv
    <3>6. \A j \in 1..Len(toHost) : toHost[j].msg # 0 =>
                        received[i].msg < toHost[j].msg
      BY <2>3 DEF AnswersInv
    <3>7. \A j \in 1..Len(toHost') : /\ j + 1 \in 1..Len(toHost)
                                     /\ toHost'[j] = toHost[j+1]
      BY <1>3, <1>8
    <3> QED BY <1>1, <1>3, <3>1, <3>4, <3>5, <3>6, <3>7
  <2>4. ASSUME NEW i \in 1..k
        PROVE  /\ notify_queue[i].msg <= Taken' /\ notify_queue[i].msg # 0
               /\ task = "dispatch" => notify_queue[i].msg < next - 1 - Offset'
               /\ \A j \in 1..Len(toHost') : toHost'[j].msg # 0 =>
                        notify_queue[i].msg < toHost'[j].msg
               /\ f.data /\ f.msg # 0 => notify_queue[i].msg < f.msg
    <3>0. i \in 1..Len(notify_queue)
      BY <1>4, <1>8
    <3>1. /\ notify_queue[i].seq >= 1 /\ notify_queue[i].seq < send_seq
          /\ notify_queue[i].msg = notify_queue[i].seq - Offset
          /\ notify_queue[i].msg # 0
          /\ notify_queue[i].seq \in Nat /\ notify_queue[i].msg \in Nat
      BY <1>9, <1>19, <3>0
    <3>2. CASE Jump(f, k)
      <4>1. /\ Taken' = built /\ task = "idle" /\ f.msg = 0
            /\ \A j \in 1..Len(toHost) : toHost[j].msg = 0
        BY <3>2 DEF Jump
      <4>2. \A j \in 1..Len(toHost') : toHost'[j].msg = 0
        BY <1>3, <1>8, <4>1
      <4>3. notify_queue[i].msg <= built
        BY <1>8, <3>1 DEF Offset
      <4> QED BY <3>1, <4>1, <4>2, <4>3
    <3>3. CASE Ack(f)
      <4>1. /\ notify_queue[i].msg <= f.seq - 1 - Offset
            /\ f.data => notify_queue[i].msg <= f.seq - 2 - Offset
        BY <1>21, <3>3
      <4>2. Synced'
        <5> SUFFICES ASSUME ~Synced' PROVE FALSE
          OBVIOUS
        <5>1. f.seq = 1
          BY <3>3 DEF Ack
        <5> QED BY <1>11, <3>1, <4>1, <5>1
      <4>3. Taken' = next - 1 - Offset /\ Offset' = Offset
        BY <3>3, <4>2 DEF Ack
      <4> DEFINE m == notify_queue[i].msg  t == f.seq
      <4>31. /\ m \in Nat /\ t \in Nat /\ next \in Nat /\ Offset \in Int /\ t <= next
             /\ m <= t - 1 - Offset /\ (f.data => m <= t - 2 - Offset)
             /\ f.data \in BOOLEAN
        BY <1>1, <1>8, <1>11, <3>1, <4>1
      <4> HIDE DEF m, t
      <4>4. notify_queue[i].msg <= Taken'
        <5>1. m <= next - 1 - Offset
          BY <4>31
        <5> QED BY <4>3, <5>1 DEF m
      <4>5. task = "dispatch" => notify_queue[i].msg < next - 1 - Offset'
        <5> SUFFICES ASSUME task = "dispatch"
                     PROVE  notify_queue[i].msg < next - 1 - Offset
          BY <4>3
        <5>1. ~f.data => f.seq < next
          BY <1>1, <1>3 DEF RepliesInv
        <5>2. ~f.data => t < next
          BY <5>1 DEF t
        <5>3. m < next - 1 - Offset
          BY <4>31, <5>2
        <5> QED BY <5>3 DEF m
      <4>6. ASSUME NEW j \in 1..Len(toHost'), toHost'[j].msg # 0
            PROVE  notify_queue[i].msg < toHost'[j].msg
        <5>1. /\ j + 1 \in 1..Len(toHost) /\ toHost'[j] = toHost[j+1] /\ 1 < j + 1
          BY <1>3, <1>8
        <5>2. /\ toHost[j+1].msg = toHost[j+1].seq - 1 - Offset
              /\ f.seq <= toHost[j+1].seq
              /\ ~f.data => f.seq < toHost[j+1].seq
              /\ toHost[j+1].seq \in Nat
          BY <1>1, <1>3, <1>9, <4>6, <5>1 DEF RepliesInv
        <5> DEFINE u == toHost[j+1].seq
        <5>3. t <= u /\ (~f.data => t < u) /\ u \in Nat
              /\ toHost'[j].msg = u - 1 - Offset
          BY <5>1, <5>2 DEF t
        <5> HIDE DEF u
        <5>4. m < u - 1 - Offset
          BY <4>31, <5>3
        <5> QED BY <5>3, <5>4 DEF m
      <4>7. f.data /\ f.msg # 0 => notify_queue[i].msg < f.msg
        <5> SUFFICES ASSUME f.data, f.msg # 0 PROVE m < f.msg
          BY DEF m
        <5>1. f.msg = t - 1 - Offset
          BY <1>1 DEF t
        <5>2. m < t - 1 - Offset
          BY <4>31
        <5> QED BY <5>1, <5>2
      <4> QED BY <3>1, <4>3, <4>4, <4>5, <4>6, <4>7
    <3> QED BY <1>2, <3>2, <3>3
  <2> HIDE DEF R
  <2>5. ASSUME NEW i \in 1..Len(received'), received'[i].done
        PROVE  /\ received'[i].msg <= Taken' /\ received'[i].msg # 0
               /\ task = "dispatch" => received'[i].msg < next - 1 - Offset'
               /\ \A j \in 1..Len(toHost') : toHost'[j].msg # 0 =>
                        received'[i].msg < toHost'[j].msg
               /\ f.data /\ f.msg # 0 => received'[i].msg < f.msg
    <3>1. CASE i \in 1..R /\ received'[i] = received[i]
      BY <2>3, <2>5, <3>1
    <3>2. CASE i - R \in 1..k /\ received'[i] = Done(notify_queue[i - R].msg)
      BY <2>2, <2>4, <3>2
    <3>3. CASE received'[i] = Answer(f.msg)
      BY <2>2, <2>5, <3>3
    <3> QED BY <2>1, <3>1, <3>2, <3>3
  <2>6. ASSUME NEW i \in 1..Len(received'), received'[i].done,
               NEW j \in i..Len(received'), ~received'[j].done, received'[j].msg # 0
        PROVE  received'[i].msg < received'[j].msg
    <3>0. i \in Nat /\ j \in Nat /\ R \in Nat /\ j \in 1..Len(received')
      BY <1>5, <1>8, <1>11 DEF R
    <3>1. CASE j \in 1..R /\ received'[j] = received[j]
      <4>1. i \in 1..R /\ received'[i] = received[i]
        BY <1>5, <3>0, <3>1 DEF R
      <4>2. j \in i..Len(received)
        BY <3>0, <3>1 DEF R
      <4> QED BY <2>6, <3>1, <4>1, <4>2 DEF AnswersInv, R
    <3>2. CASE received'[j] = Done(notify_queue[j - R].msg)
      BY <2>2, <2>6, <3>2
    <3>3. CASE f.data /\ received'[j] = Answer(f.msg)
      BY <2>2, <2>5, <2>6, <3>3
    <3> QED BY <2>1, <3>0, <3>1, <3>2, <3>3
  <2>7. task' = task /\ next' = next
    BY <1>3
  <2> QED BY <2>5, <2>6, <2>7 DEF AnswersInv
<1>23. TimerInv'
  <2>1. sent_queue' # <<>> <=> retransmitTimer' # "never"
    <3>1. CASE Jump(f, k)
      BY <3>1 DEF Jump
    <3> QED BY <1>1, <1>6, <1>7, <1>8, <3>1 DEF TimerInv
  <2>2. nakSeq <= f.seq /\ nakSeq <= ignore_nak_seq
    BY <1>1, <1>8 DEF TimerInv, TypeOK
  <2>3. retransmitTimer' = "now" => f.seq > ignore_nak_seq
    BY <1>1, <1>7, <1>8 DEF TimerInv, TypeOK
  <2> QED BY <1>3, <2>1, <2>2, <2>3 DEF TimerInv
<1>24. WakeInv'
  <2>1. CASE Jump(f, k)
    BY <2>1 DEF Jump, WakeInv
  <2> QED BY <1>3, <1>6, <2>1 DEF WakeInv
<1>25. OnceInv'
  <2> SUFFICES ASSUME retransmit_seq = 0 PROVE OnceInv'
    BY <1>3 DEF OnceInv
  <2>1. /\ rx' = rx /\ toMcu' = toMcu /\ next' = next /\ overflow' = overflow
        /\ receive_seq' = f.seq
    BY <1>3
  <2>2. \A j \in 1..Len(toHost') : ~toHost'[j].data =>
               /\ \A i \in 1..Len(rx) : rx[i].seq >= toHost'[j].seq
               /\ \A i \in 1..Len(toMcu) : toMcu[i].seq >= toHost'[j].seq
    <3> SUFFICES ASSUME NEW j \in 1..Len(toHost'), ~toHost'[j].data
                 PROVE  /\ \A i \in 1..Len(rx) : rx[i].seq >= toHost'[j].seq
                        /\ \A i \in 1..Len(toMcu) : toMcu[i].seq >= toHost'[j].seq
      OBVIOUS
    <3>1. toHost'[j] = toHost[j+1] /\ j + 1 \in 1..Len(toHost)
      BY <1>3, <1>8
    <3> QED BY <3>1 DEF OnceInv
  <2>3. ~AckPending' => /\ \A i \in 1..Len(rx) : rx[i].seq >= f.seq
                        /\ \A i \in 1..Len(toMcu) : toMcu[i].seq >= f.seq
    <3>1. CASE ~f.data
      BY <1>1, <1>3, <3>1 DEF OnceInv
    <3>2. CASE f.data
      <4> SUFFICES ASSUME ~AckPending'
                   PROVE  /\ \A i \in 1..Len(rx) : rx[i].seq >= f.seq
                          /\ \A i \in 1..Len(toMcu) : toMcu[i].seq >= f.seq
        OBVIOUS
      <4>1. last_ack_seq' = last_ack_seq /\ ~(last_ack_seq' < f.seq)
        BY <1>3, <3>2 DEF AckPending
      <4>2. f.seq = receive_seq /\ ~AckPending
        BY <1>1, <1>8, <1>10, <4>1 DEF AckPending
      <4> QED BY <4>2 DEF OnceInv
    <3> QED BY <3>1, <3>2
  <2>4. Len(sent_queue') + (IF AckPending' THEN last_ack_bytes' ELSE 0) <= Window
    <3>1. CASE Jump(f, k)
      <4>1. Len(sent_queue') = 0 /\ last_ack_bytes' = last_ack_bytes
        BY <3>1 DEF Jump
      <4> QED BY <1>8, <1>10, <4>1
    <3>2. CASE f.seq = receive_seq /\ UNCHANGED <<sent_queue, last_ack_bytes>>
      <4>1. AckPending' => AckPending
        BY <1>1, <1>3, <1>8, <1>10, <3>2 DEF AckPending
      <4>2. Len(sent_queue) + (IF AckPending THEN last_ack_bytes ELSE 0) <= Window
        BY DEF OnceInv
      <4> QED BY <1>8, <1>10, <3>2, <4>1, <4>2
    <3>3. CASE f.seq > receive_seq /\ last_ack_bytes' = 1 /\ Ack(f)
      <4>1. Len(sent_queue') = Len(sent_queue) - (f.seq - receive_seq)
        BY <3>3 DEF Ack
      <4>2. Len(sent_queue) <= Window
        <5>1. Len(sent_queue) + (IF AckPending THEN last_ack_bytes ELSE 0) <= Window
          BY DEF OnceInv
        <5> QED BY <1>8, <1>10, <5>1
      <4>3. Len(sent_queue') + 1 <= Window /\ Len(sent_queue') \in Int
        BY <1>1, <1>8, <3>3, <4>1, <4>2
      <4> QED BY <1>8, <3>3, <4>3
    <3> QED BY <1>2, <1>6, <3>1, <3>2, <3>3
  <2>5. /\ ~overflow
        /\ \A i, j \in 1..Len(rx) : i < j => rx[j].seq >= rx[i].seq + (j - i)
        /\ \A i, j \in 1..Len(toMcu) :
               i < j => toMcu[j].seq >= toMcu[i].seq + (j - i)
        /\ \A i \in 1..Len(rx), j \in 1..Len(toMcu) :
               toMcu[j].seq >= rx[i].seq + (Len(rx) + j - i)
        /\ \A i \in 2..Len(rx) : rx[i].seq >= next
        /\ \A i \in 1..Len(toMcu) : i > 1 \/ rx # <<>> => toMcu[i].seq >= next
    BY DEF OnceInv
  <2> QED BY <2>1, <2>2, <2>3, <2>4, <2>5 DEF OnceInv
<1>26. ConnectInv'
  <2>1. Len(sent_queue') <= Len(notify_queue')
    <3>1. CASE Jump(f, k)
      <4>1. Len(sent_queue') = 0 /\ Len(notify_queue') \in Nat
        BY <1>4, <3>1 DEF Jump
      <4> QED BY <4>1
    <3>2. CASE Ack(f)
      <4> DEFINE S == Len(sent_queue)  Q == Len(notify_queue)
      <4>1. /\ Len(sent_queue') = S - (f.seq - receive_seq) /\ S \in Nat /\ Q \in Nat
            /\ Len(notify_queue') = Q - k /\ S <= Q /\ S = send_seq - receive_seq
            /\ k <= Q
        BY <1>4, <1>8, <1>10, <3>2 DEF Ack, ConnectInv
      <4>2. CASE k = 0
        BY <1>1, <1>8, <4>1, <4>2
      <4>3. CASE k > 0
        <5>1. k \in 1..k /\ k \in 1..Len(notify_queue)
          BY <1>11, <4>1, <4>3
        <5>2. /\ notify_queue[k].seq <= f.seq - 1 - (IF f.data THEN 1 ELSE 0)
              /\ notify_queue[k].seq = send_seq - Q + k - 1
          BY <1>19, <5>1
        <5> DEFINE s == notify_queue[k].seq  t == f.seq
        <5>3. s <= t - 1 - (IF f.data THEN 1 ELSE 0) /\ s = send_seq - Q + k - 1
              /\ t \in Nat
          BY <1>1, <5>2
        <5>4. S - (t - receive_seq) = send_seq - t
          BY <1>8, <4>1, <5>3
        <5> HIDE DEF S, Q, s, t
        <5>5. s \in Int
          BY <1>8, <1>11, <4>1, <5>3
        <5>6. s <= t - 1
          BY <5>3, <5>5
        <5>7. send_seq - t <= Q - k
          BY <1>8, <1>11, <4>1, <5>3, <5>6
        <5> QED BY <4>1, <5>4, <5>7 DEF t, S, Q
      <4> QED BY <1>11, <4>2, <4>3
    <3> QED BY <1>2, <3>1, <3>2
  <2>2. Connecting' => Connecting
    <3>1. \A i \in 1..Len(received) : i \in 1..Len(received')
      BY <1>5, <1>8, <1>11
    <3> QED BY <1>5, <3>1 DEF Connecting
  <2>3. Connecting' => submitted - built + Len(notify_queue') <= 1
    BY <1>4, <1>8, <1>11, <2>2 DEF ConnectInv
  <2>4. Connecting /\ f.msg = 0 => Connecting'
    <3> SUFFICES ASSUME Connecting, f.msg = 0, NEW i \in 1..Len(received')
                 PROVE  received'[i].done \/ received'[i].msg = 0
      BY DEF Connecting
    <3>1. CASE i \in 1..Len(received)
      BY <1>5, <3>1 DEF Connecting
    <3>2. CASE i > Len(received) /\ i <= Len(received) + k
      <4>1. i - Len(received) \in 1..k /\ Len(received) + (i - Len(received)) = i
        BY <1>8, <1>11, <3>2
      <4>2. received'[i] = Done(notify_queue[i - Len(received)].msg)
        BY <1>5, <4>1
      <4> QED BY <4>2 DEF Done
    <3>3. CASE i > Len(received) + k
      <4>1. f.data /\ i = Len(received) + k + 1
        BY <1>5, <1>8, <1>11, <3>3
      <4> QED BY <1>5, <4>1 DEF Answer
    <3> QED BY <1>8, <1>11, <3>1, <3>2, <3>3
  <2>5. last_ack_bytes' = 0 =>
            Connecting' /\ (receive_seq' = 1 \/ receive_seq' = first')
    <3> SUFFICES ASSUME last_ack_bytes' = 0
                 PROVE  Connecting' /\ (f.seq = 1 \/ f.seq = first)
      BY <1>3
    <3>1. CASE Jump(f, k)
      <4>1. last_ack_bytes = 0 /\ f.msg = 0 /\ f.seq = first
        BY <3>1 DEF Jump
      <4>2. Connecting
        BY <4>1 DEF ConnectInv
      <4> QED BY <2>4, <4>1, <4>2
    <3>2. CASE f.seq = receive_seq /\ last_ack_bytes' = last_ack_bytes
      <4>1. Connecting /\ (receive_seq = 1 \/ receive_seq = first)
        BY <3>2 DEF ConnectInv
      <4>2. f.msg = 0
        BY <1>1, <1>8, <3>2, <4>1
      <4> QED BY <2>4, <3>2, <4>1, <4>2
    <3> QED BY <1>6, <3>1, <3>2
  <2>6. receive_seq' = 1 => last_ack_bytes' = 0
    <3> SUFFICES ASSUME f.seq = 1 PROVE last_ack_bytes' = 0
      BY <1>3
    <3>1. receive_seq = 1
      BY <1>1, <1>8, <1>10
    <3>2. last_ack_bytes = 0
      BY <3>1 DEF ConnectInv
    <3> QED BY <1>6, <3>1, <3>2 DEF Jump
  <2>7. built = 0 => /\ rx = <<>> /\ toMcu = <<>>
                     /\ \A j \in 1..Len(toHost') : toHost'[j].data
    <3>1. \A j \in 1..Len(toHost') : /\ j + 1 \in 1..Len(toHost)
                                     /\ toHost'[j] = toHost[j+1]
      BY <1>3, <1>8
    <3> QED BY <3>1 DEF ConnectInv
  <2> QED BY <1>3, <2>1, <2>3, <2>5, <2>6, <2>7 DEF ConnectInv
<1> QED BY <1>12, <1>13, <1>14, <1>16, <1>17, <1>18, <1>20, <1>22, <1>23, <1>24,
           <1>25, <1>26

LEMMA HandleStep == ASSUME IInv, HandleMessage PROVE IInv'
<1>1. PICK k \in 0..Len(notify_queue) : Handled(Head(toHost), k)
  BY HandleFacts DEF IInv
<1> QED BY <1>1, HandledStep
-----------------------------------------------------------------------------
(* The invariant. *)

LEMMA InitInv == Init => IInv
<1> SUFFICES ASSUME Init PROVE IInv
  OBVIOUS
<1> USE LinkAssumption DEF Init
<1>1. <<>> \in Seq(BlockType) /\ <<>> \in Seq(NoteType) /\ <<>> \in Seq(ReplyType)
      /\ <<>> \in Seq(Nat)
  OBVIOUS
<1>2. TypeOK
  <2>1. /\ submitted \in 0..MaxMsgs /\ built \in 0..submitted
        /\ first \in 1..SeqMod /\ next \in Nat /\ incidents \in 0..MaxIncidents
    OBVIOUS
  <2>2. /\ send_seq \in Nat /\ receive_seq \in Nat /\ last_ack_seq \in Nat
        /\ ignore_nak_seq \in Nat /\ retransmit_seq \in Nat
        /\ last_ack_bytes \in {0, 1} /\ nakSeq \in Nat
    OBVIOUS
  <2>3. /\ need_kick \in {"no", "clock", "max"}
        /\ kicking \in BOOLEAN /\ pipe \in BOOLEAN
        /\ retransmitTimer \in {"now", "later", "never"}
        /\ commandTimer \in {"now", "later", "never"}
        /\ needValid \in BOOLEAN /\ overflow \in BOOLEAN
        /\ task \in {"idle", "dispatch", "ack"}
    OBVIOUS
  <2>4. /\ sent_queue \in Seq(BlockType) /\ notify_queue \in Seq(BlockType)
        /\ received \in Seq(NoteType) /\ toMcu \in Seq(BlockType)
        /\ rx \in Seq(BlockType) /\ toHost \in Seq(ReplyType)
        /\ delivered \in Seq(Nat)
    BY <1>1
  <2> QED BY <2>1, <2>2, <2>3, <2>4 DEF TypeOK
<1>3. SentInv /\ NextInv /\ FramesInv /\ RepliesInv /\ TaskInv /\ NotifyInv
  BY DEF SentInv, NextInv, FramesInv, RepliesInv, TaskInv, NotifyInv, Synced
<1>4. AnswersInv /\ TimerInv /\ WakeInv /\ OnceInv /\ ConnectInv
  BY DEF AnswersInv, TimerInv, WakeInv, OnceInv, ConnectInv, Connecting, AckPending
<1> QED BY <1>2, <1>3, <1>4 DEF IInv

LEMMA RetransmitAnyStep ==
  ASSUME IInv, RetransmitNak \/ RetransmitTimeout \/ RetransmitEarly
  PROVE  IInv'
<1>1. PICK k \in 0..Len(toMcu), torn \in BOOLEAN : RetransmitEvent(k, torn)
  <2>1. 0 \in 0..Len(toMcu) /\ FALSE \in BOOLEAN
    BY Types DEF IInv
  <2> QED BY <2>1 DEF RetransmitNak, RetransmitTimeout, RetransmitEarly
<1>2. retransmitTimer # "never"
  BY DEF RetransmitNak, RetransmitTimeout, RetransmitEarly
<1>3. incidents' \in 0..MaxIncidents
  <2>1. incidents' = incidents \/ Incident
    BY DEF RetransmitNak, RetransmitTimeout, RetransmitEarly
  <2>2. incidents \in 0..MaxIncidents
    BY DEF IInv, TypeOK
  <2> QED BY <2>1, <2>2, LinkAssumption DEF Incident
<1> QED BY <1>1, <1>2, <1>3, RetransmitStep

LEMMA StutterStep == ASSUME IInv, UNCHANGED vars PROVE IInv'
<1> USE DEF IInv, vars
<1>1. Offset' = Offset /\ Synced' = Synced /\ Taken' = Taken
      /\ AckPending' = AckPending /\ Connecting' = Connecting
  BY DEF Offset, Synced, Taken, AckPending, Connecting
<1>2. TypeOK'
  BY DEF TypeOK
<1>3. SentInv' /\ NextInv' /\ NotifyInv' /\ TimerInv' /\ WakeInv' /\ TaskInv'
  BY <1>1 DEF SentInv, NextInv, NotifyInv, TimerInv, WakeInv, TaskInv
<1>4. FramesInv'
  BY <1>1 DEF FramesInv, FrameOK, Near, IsGarbage
<1>5. RepliesInv'
  BY <1>1 DEF RepliesInv
<1>6. AnswersInv'
  BY <1>1 DEF AnswersInv
<1>7. OnceInv' /\ ConnectInv'
  BY <1>1 DEF OnceInv, ConnectInv
<1> QED BY <1>2, <1>3, <1>4, <1>5, <1>6, <1>7

LEMMA StepInv == IInv /\ [Next]_vars => IInv'
<1> SUFFICES ASSUME IInv, [Next]_vars PROVE IInv'
  OBVIOUS
<1>1. CASE Submit
  BY <1>1, SubmitStep
<1>2. CASE KickBgThread \/ KickEvent
  BY <1>2, KickStep
<1>3. CASE \E n \in 0..MaxPending : CommandEvent(n)
  BY <1>3, CommandStep
<1>4. CASE RetransmitNak \/ RetransmitTimeout \/ RetransmitEarly
  BY <1>4, RetransmitAnyStep
<1>5. CASE HandleMessage
  BY <1>5, HandleStep
<1>6. CASE Damage
  BY <1>6, DamageStep
<1>7. CASE Receive
  BY <1>7, ReceiveStep
<1>8. CASE AcceptBlock
  BY <1>8, AcceptStep
<1>9. CASE RejectBlock
  BY <1>9, RejectStep
<1>10. CASE Dispatch
  BY <1>10, DispatchStep
<1>11. CASE SendAck
  BY <1>11, SendAckStep
<1>12. CASE Shutdown
  BY <1>12, ShutdownStep
<1>13. CASE Report
  BY <1>13, ReportStep
<1>14. CASE UNCHANGED vars
  BY <1>14, StutterStep
<1> QED BY <1>1, <1>2, <1>3, <1>4, <1>5, <1>6, <1>7, <1>8, <1>9, <1>10, <1>11,
           <1>12, <1>13, <1>14 DEF Next, Host, Timers, Mcu

(* The invariant holds for every instance: what is sent, what is under way *)
(* and what is answered stay in step whatever the line does. *)
THEOREM Invariance == Spec => []IInv
BY InitInv, StepInv, PTL DEF Spec
-----------------------------------------------------------------------------
(* The properties. *)

(* The variables keep their types. *)
THEOREM TypeCorrect == Spec => []TypeOK
<1>1. IInv => TypeOK
  BY DEF IInv
<1> QED BY <1>1, Invariance, PTL

(* handle_message hands over a completion only for a command the           *)
(* controller has accepted, or that the connection dropped. *)
THEOREM OnlyDeliveredCompletes == Spec => []CompletedWereDelivered
<1>1. IInv => CompletedWereDelivered
  BY DEF IInv, AnswersInv, CompletedWereDelivered
<1> QED BY <1>1, Invariance, PTL

(* handle_message never hands over an answer after the completion of its   *)
(* command, which is what SerialRetryCommand relies on. *)
THEOREM AnswersComeFirst == Spec => []AnswerBeforeCompletion
<1>1. IInv => AnswerBeforeCompletion
  <2> SUFFICES ASSUME IInv, NEW i \in 1..Len(received), received[i].done
               PROVE  LET m == received[i].msg
                      IN  /\ \A j \in i..Len(received) : received[j] # Answer(m)
                          /\ \A j \in 1..Len(toHost) : toHost[j].msg # m
                          /\ task = "dispatch" => Head(rx).msg # m
    BY DEF AnswerBeforeCompletion
  <2> DEFINE m == received[i].msg
  <2>1. m \in Nat /\ m # 0
    BY Types DEF IInv, AnswersInv
  <2>2. \A j \in i..Len(received) :
             ~received[j].done /\ received[j].msg # 0 => m < received[j].msg
    BY DEF IInv, AnswersInv
  <2>3. \A j \in 1..Len(toHost) : toHost[j].msg # 0 => m < toHost[j].msg
    BY DEF IInv, AnswersInv
  <2>4. task = "dispatch" => m < Head(rx).msg
    BY DEF IInv, AnswersInv, TaskInv
  <2>5. \A j \in i..Len(received) : received[j] # Answer(m)
    BY <2>1, <2>2 DEF Answer
  <2> QED BY <2>1, <2>3, <2>4, <2>5
<1> QED BY <1>1, Invariance, PTL

(* As long as nothing is sent again, what check_send_command allows under  *)
(* way fits in the controller's receive_buf. *)
THEOREM NeverOverrun == Spec => []WindowRespected
<1>1. IInv => WindowRespected
  BY DEF IInv, OnceInv, WindowRespected, TypeOK
<1> QED BY <1>1, Invariance, PTL

(* The retransmit timer runs exactly while sent_queue is not empty. *)
THEOREM TimerRuns == Spec => []UnackedIsTimed
<1>1. IInv => UnackedIsTimed
  BY DEF IInv, TimerInv, UnackedIsTimed
<1> QED BY <1>1, Invariance, PTL

(* A queued command is never left without something that will wake the     *)
(* background thread: the race of serialqueue_send_batch with              *)
(* command_event on need_kick_clock loses no kick. *)
THEOREM WakeupKept == Spec => []NoLostWakeup
<1>1. IInv => NoLostWakeup
  BY DEF IInv, WakeInv, NoLostWakeup
<1> QED BY <1>1, Invariance, PTL

(* ignore_nak_seq keeps the naks of one flight of blocks from causing more *)
(* than one retransmission. *)
THEOREM NaksDoNotMultiply == Spec => NakNotRepeated
<1>1. IInv /\ [Next]_vars => [RetransmitNak => receive_seq > nakSeq]_vars
  <2> SUFFICES ASSUME IInv, RetransmitNak PROVE receive_seq > nakSeq
    OBVIOUS
  <2>1. /\ receive_seq > ignore_nak_seq /\ nakSeq <= ignore_nak_seq
        /\ receive_seq \in Nat /\ ignore_nak_seq \in Nat /\ nakSeq \in Nat
    BY DEF IInv, TimerInv, RetransmitNak, TypeOK
  <2> QED BY <2>1
<1> QED BY <1>1, Invariance, PTL DEF Spec, NakNotRepeated
-----------------------------------------------------------------------------
(* The refinement. *)

LEMMA InitRefines == Init => Channel!Init
<1> SUFFICES ASSUME Init PROVE Channel!Init
  OBVIOUS
<1>1. Synced \in BOOLEAN
  BY DEF Synced
<1>2. Taken = 0
  BY LinkAssumption DEF Init, Taken, Synced
<1> QED BY <1>1, <1>2 DEF Init, Channel!Init

(* An acceptance is a delivery. *)
LEMMA AcceptRefines == ASSUME IInv, AcceptBlock PROVE Channel!Deliver
<1> DEFINE m == next - Offset
<1>1. /\ rx # <<>> /\ Head(rx) = rx[1] /\ 1 \in 1..Len(rx)
      /\ next < send_seq /\ Head(rx).msg = m /\ m # 0
  BY AcceptFacts
<1>2. /\ next' = next + 1 /\ delivered' = Append(delivered, Head(rx).msg)
      /\ UNCHANGED <<hostVars, queueVars, first>>
  BY DEF AcceptBlock
<1>3. /\ submitted \in Nat /\ built \in Nat /\ built <= submitted
      /\ send_seq \in Nat /\ next \in Nat /\ first \in Nat
      /\ \A i \in 1..Len(rx) : rx[i].msg \in Nat
  BY Types DEF IInv
<1>4. next >= first
  BY DEF IInv, NextInv
<1>5. Synced'
  BY <1>2, <1>3, <1>4 DEF Synced
<1>6. m = built - (send_seq - (next + 1)) /\ m <= submitted /\ m \in Nat /\ m >= 1
  <2>1. rx[1].msg \in Nat
    BY <1>1, <1>3
  <2> QED BY <1>1, <1>3, <2>1 DEF Offset
<1>7. Taken' = m
  BY <1>2, <1>5, <1>6 DEF Taken
<1>8. Synced => m = Taken + 1
  BY <1>3, <1>6 DEF Taken
<1>9. Taken \in Int /\ m \in Taken + 1 .. submitted
  <2>1. Synced => Taken = m - 1
    BY <1>3, <1>6 DEF Taken
  <2>2. ~Synced => Taken = 0
    BY DEF Taken
  <2> HIDE DEF m
  <2> QED BY <1>3, <1>6, <2>1, <2>2
<1> HIDE DEF m
<1>10. delivered' = Append(delivered, m) /\ submitted' = submitted
  BY <1>1, <1>2
<1>11. Synced' = TRUE
  BY <1>5 DEF Synced
<1> QED BY <1>7, <1>8, <1>9, <1>10, <1>11 DEF Channel!Deliver

(* The message by which the host learns the controller's number is the     *)
(* connection, any other one changes nothing. *)
LEMMA HandleRefines ==
  ASSUME IInv, HandleMessage
  PROVE  Channel!Connect \/ UNCHANGED <<submitted, Taken, delivered, Synced>>
<1>1. PICK k \in 0..Len(notify_queue) : Handled(Head(toHost), k)
  BY HandleFacts DEF IInv
<1> DEFINE f == Head(toHost)
<1>2. submitted' = submitted /\ delivered' = delivered
  BY <1>1 DEF Handled
<1>3. /\ f.seq \in Nat /\ receive_seq <= f.seq /\ first <= f.seq /\ f.seq <= next
      /\ Jump(f, k) \/ Ack(f)
  BY <1>1, HandledCases
<1> HIDE DEF f
<1>4. /\ submitted \in Nat /\ built \in Nat /\ built <= submitted
      /\ send_seq \in Nat /\ next \in Nat /\ receive_seq \in Nat
      /\ Len(sent_queue) \in Nat
  BY Types DEF IInv
<1>5. Synced \in BOOLEAN /\ Synced' \in BOOLEAN
  BY DEF Synced
<1>6. ~Synced => Taken = 0
  BY DEF Taken
<1>7. ASSUME ~Synced, Synced', Taken' \in 0..submitted
      PROVE  Channel!Connect
  BY <1>2, <1>5, <1>6, <1>7 DEF Channel!Connect
<1>8. CASE Jump(f, k)
  BY <1>4, <1>7, <1>8 DEF Jump
<1>9. CASE Ack(f) /\ Synced
  <2>1. Synced' /\ Taken' = next - 1 - Offset
    BY <1>9 DEF Ack
  <2>2. Taken = next - 1 - Offset
    BY <1>4, <1>9 DEF Taken, Offset
  <2> QED BY <1>2, <1>5, <1>9, <2>1, <2>2
<1>10. CASE Ack(f) /\ ~Synced /\ ~Synced'
  BY <1>2, <1>5, <1>6, <1>10 DEF Ack
<1>11. CASE Ack(f) /\ ~Synced /\ Synced'
  <2>1. Taken' = next - 1 - Offset /\ f.seq <= send_seq
    BY <1>11 DEF Ack
  <2>2. f.seq > receive_seq
    <3>1. f.seq # receive_seq
      BY <1>11 DEF Ack
    <3> QED BY <1>3, <1>4, <3>1
  <2>3. f.seq = next
    BY <1>11, <2>2 DEF Ack
  <2>4. Len(sent_queue) = send_seq - receive_seq /\ Len(sent_queue) <= built
    BY DEF IInv, SentInv
  <2>5. next - 1 - Offset \in 0..submitted
    BY <1>3, <1>4, <2>1, <2>3, <2>4 DEF Offset
  <2> QED BY <1>7, <1>11, <2>1, <2>5
<1> QED BY <1>3, <1>5, <1>8, <1>9, <1>10, <1>11

LEMMA StepRefines == IInv /\ [Next]_vars => [Channel!Next]_(Channel!vars)
<1> SUFFICES ASSUME IInv, [Next]_vars PROVE [Channel!Next]_(Channel!vars)
  OBVIOUS
<1> USE DEF Channel!Next, Channel!vars
<1>1. CASE Submit
  <2>1. Taken' = Taken /\ Synced' = Synced
    BY <1>1 DEF Submit, Taken, Synced
  <2> QED BY <1>1, <2>1 DEF Submit, Channel!Submit
<1>2. CASE \E n \in 0..MaxPending : CommandEvent(n)
  <2>1. PICK n \in 0..MaxPending : CommandEvent(n)
    BY <1>2
  <2>2. /\ n \in Nat /\ send_seq' = send_seq + n /\ built' = built + n
        /\ UNCHANGED <<submitted, receive_seq, next, first, delivered>>
    BY <2>1, CommandFacts DEF IInv, CommandEvent
  <2>3. built' - (send_seq' - next') = built - (send_seq - next)
    <3>1. send_seq \in Nat /\ built \in Nat /\ next \in Nat
      BY Types DEF IInv
    <3> QED BY <2>2, <3>1
  <2>4. Synced' = Synced
    BY <2>2 DEF Synced
  <2>5. Taken' = Taken
    BY <2>3, <2>4 DEF Taken
  <2> QED BY <2>2, <2>4, <2>5
<1>3. CASE HandleMessage
  BY <1>3, HandleRefines
<1>4. CASE AcceptBlock
  BY <1>4, AcceptRefines
<1>5. CASE UNCHANGED <<submitted, built, send_seq, receive_seq, next, first, delivered>>
  BY <1>5 DEF Taken, Synced
<1>6. CASE RetransmitNak \/ RetransmitTimeout \/ RetransmitEarly
  <2>1. UNCHANGED <<submitted, built, send_seq, receive_seq, next, first, delivered>>
    BY <1>6 DEF RetransmitNak, RetransmitTimeout, RetransmitEarly, RetransmitEvent
  <2> QED BY <1>5, <2>1
<1>7. CASE \/ KickBgThread \/ KickEvent \/ Damage \/ Receive \/ RejectBlock
           \/ Dispatch \/ SendAck \/ Shutdown \/ Report \/ UNCHANGED vars
  <2>1. UNCHANGED <<submitted, built, send_seq, receive_seq, next, first, delivered>>
    BY <1>7 DEF KickBgThread, KickEvent, Damage, Receive, RejectBlock, Dispatch,
       SendAck, Shutdown, Report, vars
  <2> QED BY <1>5, <2>1
<1> QED BY <1>1, <1>2, <1>3, <1>4, <1>6, <1>7 DEF Next, Host, Timers, Mcu

(* Whatever the line garbles, loses or delays, and however often the host  *)
(* sends a block again, the controller executes every command once and in  *)
(* the order it was queued. *)
THEOREM LinkIsChannel == Spec => ImplementsChannel
BY InitRefines, StepRefines, Invariance, PTL DEF Spec, ImplementsChannel,
   Channel!Spec
=============================================================================
