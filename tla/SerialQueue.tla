---------------------------- MODULE SerialQueue ----------------------------
(***************************************************************************)
(* The command link of Klipper: klippy/chelper/serialqueue.c and           *)
(* pollreactor.c on the host, src/command.c and src/generic/serial_irq.c   *)
(* in the micro-controller, and the serial line between them.              *)
(*                                                                         *)
(* The host sends message blocks, keeps them in sent_queue until they are  *)
(* acknowledged, and sends all of them again after a timeout or a nak.     *)
(* The controller accepts a block only when its 4 bit sequence number is   *)
(* the next one; an ack and a nak are the same message, which carries the  *)
(* number the controller expects.  Its answers are never sent again.       *)
(*                                                                         *)
(* A block is a record of a sequence number and the command it carries     *)
(* (one command per block, every block of MESSAGE_MAX bytes, so lengths    *)
(* are counted in blocks).  Sequence numbers are unbounded here and every  *)
(* comparison the controller or the host makes of a received one is of its *)
(* remainder modulo SeqMod, as on the wire.                                *)
(***************************************************************************)
EXTENDS Integers, Sequences

CONSTANTS
    SeqMod,        \* MESSAGE_SEQ_MASK + 1
    MaxPending,    \* MAX_PENDING_BLOCKS
    Window,        \* RECEIVE_WINDOW = RX_BUFFER_SIZE, in blocks
    MaxMsgs,       \* bound: commands queued
    MaxIncidents   \* bound: frames the line damages or loses, timeouts
                   \* although the answer is coming, messages the controller
                   \* sends by itself, and shutdowns, all together

ASSUME LinkAssumption ==
    /\ SeqMod \in Nat /\ MaxPending \in Nat /\ Window \in Nat
    /\ 1 <= MaxPending /\ MaxPending < SeqMod
    /\ 2 <= Window
    /\ MaxMsgs \in Nat /\ MaxIncidents \in Nat

VARIABLES
    \* host: struct serialqueue
    submitted,      \* commands queued so far
    built,          \* commands put in a block; built+1..submitted are in
                    \* stalled_queue and ready_queue
    send_seq, receive_seq, last_ack_seq, ignore_nak_seq, retransmit_seq,
    last_ack_bytes,
    sent_queue,     \* blocks not acknowledged
    notify_queue,   \* blocks whose command waits for its completion
    received,       \* everything put in receive_queue so far
    need_kick,      \* need_kick_clock: "no" (0), "clock" or "max" (MAX_CLOCK)
    kicking,        \* a sender has released the lock and must still kick
    pipe,           \* the kick pipe holds a byte
    retransmitTimer, commandTimer,   \* "now", "later" or "never"
    \* line
    toMcu, toHost,
    \* micro-controller
    first,          \* next_sequence at the time the host connects
    next,           \* next_sequence
    needValid,      \* CF_NEED_VALID
    rx,             \* the blocks in receive_buf
    task,           \* console_task: "idle", "dispatch" or "ack"
    delivered,      \* commands accepted by command_find_block, in order
    \* bookkeeping
    overflow,       \* serial_rx_byte has dropped a byte
    nakSeq,         \* receive_seq at the last retransmission due to a nak
    incidents

hostVars == <<send_seq, receive_seq, last_ack_seq, ignore_nak_seq,
              retransmit_seq, last_ack_bytes, sent_queue, notify_queue,
              received, retransmitTimer, nakSeq>>
queueVars == <<submitted, built, need_kick, kicking, pipe>>
mcuVars == <<first, next, needValid, rx, task, delivered, overflow>>
vars == <<hostVars, queueVars, commandTimer, toMcu, toHost, mcuVars, incidents>>

Block(s, m) == [seq |-> s, msg |-> m]

(* Bytes that are no valid block; they stand in the place of the block seq.*)
Garble(f) == Block(f.seq, 0)
IsGarbage(f) == f.msg = 0

Reply(s, m, d) == [seq |-> s, msg |-> m, data |-> d]

Wire(s) == s % SeqMod

Incident == incidents < MaxIncidents /\ incidents' = incidents + 1

Init ==
    /\ submitted = 0 /\ built = 0
    /\ send_seq = 1 /\ receive_seq = 1
    /\ last_ack_seq = 0 /\ ignore_nak_seq = 0 /\ retransmit_seq = 0
    /\ last_ack_bytes = 0
    /\ sent_queue = <<>> /\ notify_queue = <<>> /\ received = <<>>
    /\ need_kick = "max" /\ kicking = FALSE /\ pipe = FALSE
    /\ retransmitTimer = "never" /\ commandTimer = "never"
    /\ toMcu = <<>> /\ toHost = <<>>
    /\ first \in 1..SeqMod      \* whatever the last session left
    /\ next = first
    /\ needValid = FALSE /\ rx = <<>> /\ task = "idle" /\ delivered = <<>>
    /\ overflow = FALSE
    /\ nakSeq = 0 /\ incidents = 0
-----------------------------------------------------------------------------
(* Senders.                                                                *)

Done(m) == [done |-> TRUE, msg |-> m]       \* a completion, for notify_id
Answer(m) == [done |-> FALSE, msg |-> m]    \* a message of the controller

(* Until the first answer the only client is _get_identify_data of         *)
(* serialhdl.py: SerialRetryCommand waits for the completion of a request  *)
(* and then sends it again if there was no answer.                         *)
Connecting == \A i \in 1..Len(received) :
                received[i].done \/ received[i].msg = 0

(* A slip in serialqueue_send_batch: no kick when need_kick_clock is       *)
(* MAX_CLOCK.                                                              *)
SubmitSilently ==
    /\ submitted < MaxMsgs
    /\ Connecting => built = submitted /\ notify_queue = <<>>
    /\ submitted' = submitted + 1
    /\ UNCHANGED <<hostVars, built, need_kick, kicking, pipe, commandTimer,
                   toMcu, toHost, mcuVars, incidents>>

(* serialqueue_send_batch: queue a command; the background thread must be  *)
(* kicked when the command is due before need_kick_clock.                  *)
Submit ==
    /\ submitted < MaxMsgs
    /\ Connecting => built = submitted /\ notify_queue = <<>>
    /\ submitted' = submitted + 1
    /\ \/ /\ need_kick = "max" \/ need_kick = "clock"
          /\ need_kick' = "no"
          /\ kicking' = TRUE
       \/ /\ need_kick = "no" \/ need_kick = "clock"
          /\ UNCHANGED <<need_kick, kicking>>
    /\ UNCHANGED <<hostVars, built, pipe, commandTimer, toMcu, toHost,
                   mcuVars, incidents>>

(* kick_bg_thread, called after the lock is released.                      *)
KickBgThread ==
    /\ kicking
    /\ kicking' = FALSE
    /\ pipe' = TRUE
    /\ UNCHANGED <<hostVars, submitted, built, need_kick, commandTimer, toMcu,
                   toHost, mcuVars, incidents>>
-----------------------------------------------------------------------------
(* The background thread of the host.                                      *)

KickEvent ==
    /\ pipe
    /\ pipe' = FALSE
    /\ commandTimer' = "now"
    /\ UNCHANGED <<hostVars, submitted, built, need_kick, kicking, toMcu,
                   toHost, mcuVars, incidents>>

(* A slip in check_send_command: last_ack_bytes is left out.               *)
MaySendEarly(n) ==
    /\ send_seq + n - receive_seq < MaxPending
    /\ send_seq + n > receive_seq => Len(sent_queue) + n + 1 <= Window

(* The tests at the start of check_send_command, when n blocks have been   *)
(* built since the event started.                                          *)
MaySend(n) ==
    /\ send_seq + n - receive_seq < MaxPending
    /\ send_seq + n > receive_seq =>
         Len(sent_queue) + n + 1
           + (IF last_ack_seq < receive_seq THEN last_ack_bytes ELSE 0)
           <= Window

(* build_and_send_command: the next n blocks.                              *)
NewBlocks(n) == [i \in 1..n |-> Block(send_seq + i - 1, built + i)]

(* command_event: build blocks as long as check_send_command says "now",   *)
(* then write them.  Whether a queued command is due is left open: min_    *)
(* clock and req_clock are not modelled.                                   *)
CommandEvent(n) ==
    /\ commandTimer # "never"
    /\ n <= submitted - built
    /\ \A i \in 0..n-1 : MaySend(i)
    /\ toMcu' = toMcu \o NewBlocks(n)
    /\ sent_queue' = sent_queue \o NewBlocks(n)
    /\ notify_queue' = notify_queue \o NewBlocks(n)
    /\ send_seq' = send_seq + n
    /\ built' = built + n
    /\ retransmitTimer' = IF n > 0 /\ sent_queue = <<>> THEN "later"
                          ELSE retransmitTimer
    /\ \/ /\ ~MaySend(n)                      \* wait for an ack
          /\ commandTimer' = "never"
          /\ UNCHANGED need_kick
       \/ /\ MaySend(n)
          /\ built' = submitted               \* nothing left to send
          /\ commandTimer' = "never"
          /\ need_kick' = "max"
       \/ /\ MaySend(n)
          /\ built' < submitted               \* what is left is not due yet
          /\ commandTimer' = "later"
          /\ need_kick' = "clock"
    /\ UNCHANGED <<submitted, receive_seq, last_ack_seq, ignore_nak_seq,
                   retransmit_seq, last_ack_bytes, received, nakSeq, kicking,
                   pipe, toHost, mcuVars, incidents>>

(* A slip in retransmit_event: the first nak of a retransmission does not  *)
(* set ignore_nak_seq.                                                     *)
IgnoreLate ==
    IF retransmitTimer # "now" THEN send_seq
    ELSE IF receive_seq < retransmit_seq THEN retransmit_seq
    ELSE ignore_nak_seq

(* Naks up to this sequence number cause no other retransmission: the one  *)
(* that caused this one ("now"), both when it is the second one for a      *)
(* retransmission, and after a timeout everything sent so far.             *)
IgnoreNak ==
    IF retransmitTimer # "now" THEN send_seq
    ELSE IF receive_seq < retransmit_seq THEN retransmit_seq
    ELSE receive_seq

(* retransmit_event: flush what the tty has not sent (the first k frames   *)
(* are already on the line, the next one perhaps in part), then write all  *)
(* of sent_queue.                                                          *)
RetransmitEvent(k, torn) ==
    /\ torn => k < Len(toMcu)
    /\ toMcu' = SubSeq(toMcu, 1, k)
                \o (IF torn THEN <<Garble(toMcu[k+1])>> ELSE <<>>)
                \o sent_queue
    /\ ignore_nak_seq' = IgnoreNak
    /\ nakSeq' = IF retransmitTimer = "now" THEN receive_seq ELSE nakSeq
    /\ retransmit_seq' = send_seq
    /\ retransmitTimer' = "later"
    /\ UNCHANGED <<queueVars, send_seq, receive_seq, last_ack_seq,
                   last_ack_bytes, sent_queue, notify_queue, received,
                   commandTimer, toHost, mcuVars>>

RetransmitNak ==
    /\ retransmitTimer = "now"
    /\ \E k \in 0..Len(toMcu), torn \in BOOLEAN : RetransmitEvent(k, torn)
    /\ UNCHANGED incidents

(* The timeout, when nothing that was sent can be answered any more.       *)
Quiescent == toMcu = <<>> /\ toHost = <<>> /\ rx = <<>> /\ task = "idle"

RetransmitTimeout ==
    /\ retransmitTimer = "later"
    /\ Quiescent
    /\ RetransmitEvent(0, FALSE)
    /\ UNCHANGED incidents

(* The timeout, although the answer is still to come.                      *)
RetransmitEarly ==
    /\ retransmitTimer = "later"
    /\ ~Quiescent
    /\ Incident
    /\ \E k \in 0..Len(toMcu), torn \in BOOLEAN : RetransmitEvent(k, torn)
-----------------------------------------------------------------------------
(* handle_message.                                                         *)

(* The sequence number of a message, rebuilt from its low bits.            *)
Rseq(f) ==
    LET r == (receive_seq - Wire(receive_seq)) + Wire(f.seq)
    IN IF r < receive_seq THEN r + SeqMod ELSE r

(* update_receive_seq: remove what was acknowledged from sent_queue; an    *)
(* ack for a message not sent must be the connection.                      *)
UpdateReceiveSeq(rseq) ==
    LET n == rseq - receive_seq
        acked == n <= Len(sent_queue)
        rest == IF acked THEN SubSeq(sent_queue, n + 1, Len(sent_queue))
                ELSE <<>>
    IN  /\ sent_queue' = rest
        /\ send_seq' = IF acked THEN send_seq ELSE rseq
        /\ last_ack_bytes' = IF acked THEN 1 ELSE last_ack_bytes
        /\ receive_seq' = rseq
        /\ commandTimer' = "now"

(* The first k entries of notify_queue are the ones not after wake.        *)
UpTo(k, wake) ==
    /\ \A i \in 1..k : notify_queue[i].seq <= wake
    /\ k < Len(notify_queue) => notify_queue[k+1].seq > wake

(* Slips in handle_message: a data message completes the block it may come *)
(* from; a message completes the block it asks for; the block just before  *)
(* the limit waits.                                                        *)
CompletedByAnswer(k, rseq, f) == UpTo(k, rseq - 1)
CompletedTooSoon(k, rseq, f) == UpTo(k, rseq)
CompletedTooLate(k, rseq, f) == UpTo(k, rseq - 2 - (IF f.data THEN 1 ELSE 0))

(* The first k entries of notify_queue are completed: an ack completes the *)
(* block before rseq, a data message only the one before that, since it    *)
(* may be sent while the block before rseq is dispatched.                  *)
Completed(k, rseq, f) == UpTo(k, rseq - 1 - (IF f.data THEN 1 ELSE 0))

(* Slips in update_receive_seq: the retransmit timer is not started again; *)
(* it is left running when sent_queue is empty.                            *)
RearmNever(rseq) ==
    IF rseq = receive_seq THEN retransmitTimer ELSE "never"

RearmAlways(rseq) ==
    IF rseq = receive_seq THEN retransmitTimer ELSE "later"

(* update_receive_seq: the retransmit timer after an acknowledgement.      *)
Rearm(rseq) ==
    IF rseq = receive_seq THEN retransmitTimer
    ELSE IF sent_queue' = <<>> THEN "never" ELSE "later"

HandleMessage ==
    /\ toHost # <<>>
    /\ toHost' = Tail(toHost)
    /\ LET f == Head(toHost)
           rseq == Rseq(f)
           nak == /\ ~f.data /\ last_ack_seq >= rseq
                  /\ rseq > ignore_nak_seq /\ sent_queue' # <<>>
       IN IF rseq > send_seq /\ receive_seq # 1      \* not for this session
          THEN UNCHANGED <<hostVars, commandTimer>>
          ELSE
            /\ IF rseq # receive_seq THEN UpdateReceiveSeq(rseq)
               ELSE UNCHANGED <<sent_queue, send_seq, last_ack_bytes,
                                receive_seq, commandTimer>>
            /\ \E k \in 0..Len(notify_queue) :
                 /\ Completed(k, rseq, f)
                 /\ notify_queue' =
                        SubSeq(notify_queue, k + 1, Len(notify_queue))
                 /\ received' =
                        received \o [i \in 1..k |-> Done(notify_queue[i].msg)]
                        \o (IF f.data THEN <<Answer(f.msg)>> ELSE <<>>)
            /\ last_ack_seq' = IF ~f.data /\ last_ack_seq < rseq THEN rseq
                               ELSE last_ack_seq
            /\ retransmitTimer' = IF nak THEN "now" ELSE Rearm(rseq)
            /\ UNCHANGED <<ignore_nak_seq, retransmit_seq, nakSeq>>
    /\ UNCHANGED <<queueVars, toMcu, mcuVars, incidents>>
-----------------------------------------------------------------------------
(* The line.                                                               *)

Damage ==
    /\ Incident
    /\ \/ /\ toMcu # <<>> /\ ~IsGarbage(Head(toMcu))   \* a block is garbled
          /\ toMcu' = <<Garble(Head(toMcu))>> \o Tail(toMcu)
          /\ UNCHANGED toHost
       \/ /\ toMcu # <<>>                              \* a block is lost
          /\ toMcu' = Tail(toMcu)
          /\ UNCHANGED toHost
       \/ /\ toHost # <<>>                             \* a reply is lost
          /\ toHost' = Tail(toHost)
          /\ UNCHANGED toMcu
    /\ UNCHANGED <<hostVars, queueVars, commandTimer, mcuVars>>
-----------------------------------------------------------------------------
(* The micro-controller.                                                   *)

(* serial_rx_byte: the bytes that find receive_buf full are dropped.  When *)
(* room appears in the middle of the block its tail is stored.             *)
Receive ==
    /\ toMcu # <<>>
    /\ \/ /\ Len(rx) < Window
          /\ rx' = Append(rx, Head(toMcu))
          /\ toMcu' = Tail(toMcu)
          /\ UNCHANGED overflow
       \/ /\ Len(rx) >= Window
          /\ overflow' = TRUE
          /\ \/ toMcu' = Tail(toMcu)
             \/ /\ ~IsGarbage(Head(toMcu))
                /\ toMcu' = <<Garble(Head(toMcu))>> \o Tail(toMcu)
          /\ UNCHANGED rx
    /\ UNCHANGED <<hostVars, queueVars, commandTimer, toHost, first, next,
                   needValid, task, delivered, incidents>>

AckNak == Reply(next, 0, FALSE)

(* A slip in command_find_block: the sequence number is not compared.      *)
AcceptAnyBlock ==
    /\ task = "idle" /\ rx # <<>>
    /\ ~IsGarbage(Head(rx))
    /\ needValid' = FALSE
    /\ next' = next + 1
    /\ delivered' = Append(delivered, Head(rx).msg)
    /\ task' = "dispatch"
    /\ UNCHANGED <<hostVars, queueVars, commandTimer, toMcu, toHost, first,
                   rx, overflow, incidents>>

(* console_task, command_find_block: the next valid block in order.        *)
AcceptBlock ==
    /\ task = "idle" /\ rx # <<>>
    /\ ~IsGarbage(Head(rx)) /\ Wire(Head(rx).seq) = Wire(next)
    /\ needValid' = FALSE
    /\ next' = next + 1
    /\ delivered' = Append(delivered, Head(rx).msg)
    /\ task' = "dispatch"
    /\ UNCHANGED <<hostVars, queueVars, commandTimer, toMcu, toHost, first,
                   rx, overflow, incidents>>

(* console_task, command_find_block: anything else is removed and answered *)
(* by a nak, one for a run of garbage.                                     *)
RejectBlock ==
    /\ task = "idle" /\ rx # <<>>
    /\ \/ /\ IsGarbage(Head(rx))
          /\ needValid' = TRUE
          /\ toHost' = IF needValid THEN toHost ELSE Append(toHost, AckNak)
       \/ /\ ~IsGarbage(Head(rx)) /\ Wire(Head(rx).seq) # Wire(next)
          /\ needValid' = FALSE
          /\ toHost' = Append(toHost, AckNak)
    /\ rx' = Tail(rx)
    /\ UNCHANGED <<hostVars, queueVars, commandTimer, toMcu, first, next,
                   task, delivered, overflow, incidents>>

(* command_dispatch runs the handler of the command, which may answer.     *)
Dispatch ==
    /\ task = "dispatch"
    /\ \/ toHost' = Append(toHost, Reply(next, Head(rx).msg, TRUE))
       \/ UNCHANGED toHost
    /\ task' = "ack"
    /\ UNCHANGED <<hostVars, queueVars, commandTimer, toMcu, first, next,
                   needValid, rx, delivered, overflow, incidents>>

(* console_pop_input frees the buffer, then command_send_ack.              *)
SendAck ==
    /\ task = "ack"
    /\ rx' = Tail(rx)
    /\ toHost' = Append(toHost, AckNak)
    /\ task' = "idle"
    /\ UNCHANGED <<hostVars, queueVars, commandTimer, toMcu, first, next,
                   needValid, delivered, overflow, incidents>>

(* A shutdown during command_dispatch: longjmp leaves console_task, the    *)
(* block stays in receive_buf and is not acknowledged.                     *)
Shutdown ==
    /\ task # "idle"
    /\ Incident
    /\ task' = "idle"
    /\ UNCHANGED <<hostVars, queueVars, commandTimer, toMcu, toHost, first,
                   next, needValid, rx, delivered, overflow>>

(* Another task sends a message of its own (stats, a sensor, an endstop).  *)
Report ==
    /\ Incident
    /\ toHost' = Append(toHost, Reply(next, 0, TRUE))
    /\ UNCHANGED <<hostVars, queueVars, commandTimer, toMcu, mcuVars>>
-----------------------------------------------------------------------------
Timers == (\E n \in 0..MaxPending : CommandEvent(n))
          \/ RetransmitNak \/ RetransmitTimeout \/ RetransmitEarly
Host == Submit \/ KickBgThread \/ KickEvent \/ Timers \/ HandleMessage
Mcu == Receive \/ AcceptBlock \/ RejectBlock \/ Dispatch \/ SendAck
       \/ Shutdown \/ Report

Next == Host \/ Damage \/ Mcu

Spec == Init /\ [][Next]_vars

(* Fairness: both programs keep running, bytes on the line arrive, a       *)
(* running timer fires, and a queued command becomes due.  Nothing is      *)
(* assumed of senders, of the line's faults, or of Shutdown and Report.    *)
FairSpec ==
    /\ Spec
    /\ WF_vars(KickBgThread) /\ WF_vars(KickEvent) /\ WF_vars(HandleMessage)
    /\ WF_vars(\E n \in 0..MaxPending : CommandEvent(n))
    /\ WF_vars(\E n \in 1..MaxPending : CommandEvent(n))
    /\ WF_vars(RetransmitNak) /\ WF_vars(RetransmitTimeout)
    /\ WF_vars(Receive) /\ WF_vars(AcceptBlock) /\ WF_vars(RejectBlock)
    /\ WF_vars(Dispatch) /\ WF_vars(SendAck)
-----------------------------------------------------------------------------
(* Properties.                                                             *)

Frames == rx \o toMcu      \* the blocks under way, oldest first

BlockType == [seq : Nat, msg : Nat]
ReplyType == [seq : Nat, msg : Nat, data : BOOLEAN]
NoteType == [done : BOOLEAN, msg : Nat]

(* The types of the variables. *)
TypeOK ==
    /\ submitted \in 0..MaxMsgs /\ built \in 0..submitted
    /\ send_seq \in Nat /\ receive_seq \in Nat /\ last_ack_seq \in Nat
    /\ ignore_nak_seq \in Nat /\ retransmit_seq \in Nat
    /\ last_ack_bytes \in {0, 1}
    /\ sent_queue \in Seq(BlockType) /\ notify_queue \in Seq(BlockType)
    /\ received \in Seq(NoteType)
    /\ need_kick \in {"no", "clock", "max"}
    /\ kicking \in BOOLEAN /\ pipe \in BOOLEAN
    /\ retransmitTimer \in {"now", "later", "never"}
    /\ commandTimer \in {"now", "later", "never"}
    /\ toMcu \in Seq(BlockType) /\ rx \in Seq(BlockType)
    /\ toHost \in Seq(ReplyType)
    /\ first \in 1..SeqMod /\ next \in Nat
    /\ needValid \in BOOLEAN
    /\ task \in {"idle", "dispatch", "ack"}
    /\ delivered \in Seq(Nat)
    /\ overflow \in BOOLEAN /\ nakSeq \in Nat
    /\ incidents \in 0..MaxIncidents

(* The refinement of CommandChannel.  The two sides agree once the host    *)
(* has heard an answer or the controller has accepted a block (or when     *)
(* both start from 1); from then on the last command taken is the one in   *)
(* the block before next.                                                  *)
Synced == receive_seq # 1 \/ next # first \/ first = 1
Taken == IF Synced THEN built - (send_seq - next) ELSE 0

Channel == INSTANCE CommandChannel WITH taken <- Taken, synced <- Synced

(* serialqueue.c:9 "this code is written in C ... to reduce communication  *)
(* latencies", "handles retransmissions": whatever the line damages, the   *)
(* controller accepts every command once and in order.                     *)
ImplementsChannel == Channel!Spec

(* A completion (notify_id) is handed over only for a command that the     *)
(* controller has accepted, or that the connection dropped.                *)
CompletedWereDelivered ==
    \A i \in 1..Len(received) : received[i].done => received[i].msg <= Taken

(* SerialRetryCommand looks for the answer as soon as the completion       *)
(* arrives and otherwise sends the command again.  An answer is never      *)
(* handed over after the completion of its command: when the completion is *)
(* in receive_queue the answer is there, before it, or it was lost.        *)
AnswerBeforeCompletion ==
    \A i \in 1..Len(received) : received[i].done =>
        LET m == received[i].msg
        IN  /\ \A j \in i..Len(received) : received[j] # Answer(m)
            /\ \A j \in 1..Len(toHost) : toHost[j].msg # m
            /\ task = "dispatch" => Head(rx).msg # m

(* receive_window keeps the host from overrunning receive_buf: unless it   *)
(* sends blocks again, no byte is ever dropped.                            *)
WindowRespected == overflow => retransmit_seq > 0

(* The retransmit timer runs as long as a block is not acknowledged.       *)
UnackedIsTimed == sent_queue # <<>> <=> retransmitTimer # "never"

(* A queued command is never forgotten: the background thread is awake, is *)
(* about to be kicked, has a command timer, or will be woken by an ack.    *)
NoLostWakeup ==
    built < submitted => \/ kicking \/ pipe
                         \/ commandTimer # "never"
                         \/ sent_queue # <<>>

(* Naks do not multiply: between two retransmissions made because of a nak *)
(* an acknowledgement has arrived.                                         *)
NakNotRepeated == [][RetransmitNak => receive_seq > nakSeq]_vars

(* Whatever the line damages, every command that was queued is built into  *)
(* a block and acknowledged in the end.                                    *)
AllAcknowledged ==
    (built < submitted \/ sent_queue # <<>>)
        ~> (built = submitted /\ sent_queue = <<>>)

(* Every command is completed in the end, without an incident or once      *)
(* another command follows.  (If the ack of the last command is lost after *)
(* its answer has arrived, nothing is left to be sent again, and its       *)
(* completion waits for the next exchange.)                                *)
CompletionArrives ==
    \A m \in 1..MaxMsgs : (submitted >= m) ~>
        \/ \E i \in 1..Len(received) : received[i] = Done(m)
        \/ submitted = m /\ incidents > 0
=============================================================================
