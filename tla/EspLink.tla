------------------------------ MODULE EspLink ------------------------------
(***************************************************************************)
(* The SPI link between the laser host and its ESP32 steppers, which share *)
(* the bus, its chip select and the READY line.                            *)
(*                                                                         *)
(* Host: spiHost::send and groupSend, the alert function of the READY pin, *)
(* and the calls of espStepperMotor and espStepperGroup that lead there,   *)
(* all in the thread of the user interface.  ESP: handshake_isr,           *)
(* event_task (which answers and takes the message) and msg_task (which    *)
(* carries it out), with a queue of one entry before each task.            *)
(*                                                                         *)
(* The msg_queue holds the handle of a message: its bytes stay in the one  *)
(* m_recvbuf, which the next message overwrites.  A message here is its    *)
(* kind and a number; what motor does with it is EspAxis.                  *)
(***************************************************************************)
EXTENDS Integers, Sequences, FiniteSets, SequencesExt

CONSTANTS
  Esps,      (* the number of steppers, 1 the first of the group           *)
  MaxMsgs,   (* bound: messages other than RECEIVE                         *)
  MaxStale,  (* bound: posts an earlier process left in spi_sem            *)
  LinkCalm   (* what is assumed                                            *)

(* "prompt": the host starts a transfer when the ESP has carried out the   *)
(*           last message, or has begun a move and not yet got its edge.   *)
ASSUME LinkAssumption ==
  /\ Esps \in Nat \ {0} /\ MaxMsgs \in Nat \ {0} /\ MaxStale \in Nat
  /\ LinkCalm \subseteq {"prompt"}

Dev   == 1..Esps
Blank == [kind |-> "PRINT_INFO", id |-> 0]       \* memset 0
Recv  == [kind |-> "RECEIVE", id |-> 0]

VARIABLES
  host,     \* the call under way: pc, op, the device it is at, the message
  waiting,  \* m_spi_waiting
  spiSem,   \* m_spi_sem
  view,     \* SYNC_READY in each stepper's m_status on the host
  evq,      \* event_queue
  spi,      \* m_status of spiClient
  ev,       \* event_task: "wait", "setup", "armed" (in spi_slave_transmit), "done", "queue"
  reply,    \* SYNC_READY in m_sendbuf
  buf,      \* m_recvbuf
  mq,       \* entries in msg_queue
  mt,       \* msg_task: "idle", "read", "move", "begin", "sync"
  edge,     \* m_syncSem of the axis
  \* history
  made,     \* messages other than RECEIVE so far
  sent,     \* their numbers, per ESP
  done      \* what msg_task has carried out, per ESP

hostVars == <<host, waiting, view>>
event    == <<evq, spi, ev, reply>>
msg      == <<mq, mt>>
history  == <<made, sent, done>>
linkVars == <<hostVars, spiSem, event, buf, msg, edge, history>>

Idle == [pc |-> "idle", op |-> "none", d |-> 1, msg |-> Recv]

\* The constructor of the first stepper begins by telling it which axis it is.
First == [pc |-> "send", op |-> "one", d |-> 1, msg |-> [kind |-> "COMMAND", id |-> 1]]

LinkInit ==
  /\ host = First /\ waiting = FALSE /\ spiSem \in 0..MaxStale
  /\ view = [d \in Dev |-> FALSE] /\ reply = [d \in Dev |-> FALSE]
  /\ evq = [d \in Dev |-> <<>>] /\ spi = [d \in Dev |-> "IDLE"] /\ ev = [d \in Dev |-> "wait"]
  /\ buf = [d \in Dev |-> Blank] /\ mq = [d \in Dev |-> 0] /\ mt = [d \in Dev |-> "idle"]
  /\ edge = [d \in Dev |-> 0]
  /\ made = 1 /\ sent = [d \in Dev |-> IF d = 1 THEN <<1>> ELSE <<>>] /\ done = [d \in Dev |-> <<>>]

-----------------------------------------------------------------------------
(* Host. *)

\* espStepperMotor::send of a command or of RECEIVE, by the user or a timer.
SendCommand(d) ==
  /\ host.pc = "idle" /\ made < MaxMsgs
  /\ host' = [pc |-> "send", op |-> "one", d |-> d, msg |-> [kind |-> "COMMAND", id |-> made + 1]]
  /\ made' = made + 1 /\ sent' = [sent EXCEPT ![d] = Append(@, made + 1)]
  /\ UNCHANGED <<waiting, spiSem, view, event, buf, msg, edge, done>>

Receive(d) ==
  /\ host.pc = "idle"
  /\ host' = [pc |-> "send", op |-> "one", d |-> d, msg |-> Recv]
  /\ UNCHANGED <<waiting, spiSem, view, event, buf, msg, edge, history>>

\* espStepperGroup::move.
GroupMove ==
  /\ host.pc = "idle" /\ made < MaxMsgs
  /\ host' = [pc |-> "trigger", op |-> "group", d |-> 1, msg |-> [kind |-> "MOVE", id |-> made + 1]]
  /\ made' = made + 1 /\ sent' = [d \in Dev |-> Append(sent[d], made + 1)]
  /\ UNCHANGED <<waiting, spiSem, view, event, buf, msg, edge, done>>

\* spiHost::send: posts left over are taken first.
LeftOver  == spiSem # 0
Drain ==
  /\ host.pc = "send"
  /\ IF LeftOver THEN spiSem' = spiSem - 1 /\ UNCHANGED host
                 ELSE host' = [host EXCEPT !.pc = "trigger"] /\ UNCHANGED spiSem
  /\ UNCHANGED <<waiting, view, event, buf, msg, edge, history>>

Settled(d) ==
  /\ ev[d] = "wait" /\ evq[d] = <<>> /\ spi[d] = "IDLE"
  /\ (mt[d] = "idle" /\ mq[d] = 0) \/ (mt[d] \in {"begin", "sync"} /\ edge[d] = 0)

\* The handshake pin rises: handshake_isr, if it listens and the queue has room.
Push(q, e) == IF q = <<>> THEN <<e>> ELSE q

Handshake ==
  /\ host.pc = "trigger" /\ host' = [host EXCEPT !.pc = "wait"] /\ waiting' = TRUE
  /\ LET d == host.d IN
     /\ "prompt" \in LinkCalm => Settled(d)
     /\ IF spi[d] = "IDLE"
        THEN spi' = [spi EXCEPT ![d] = "RECEIVING"] /\ evq' = [evq EXCEPT ![d] = Push(@, "SPI_RECV_MSG")]
        ELSE UNCHANGED <<spi, evq>>
  /\ UNCHANGED <<spiSem, view, ev, reply, buf, msg, edge, history>>

\* sem_wait; then the next of a group, or the transfer.
Waited ==
  /\ host.pc = "wait" /\ spiSem > 0 /\ spiSem' = spiSem - 1
  /\ host' = IF host.op = "group" /\ host.d < Esps
             THEN [host EXCEPT !.pc = "trigger", !.d = @ + 1]
             ELSE [host EXCEPT !.pc = "clock"]
  /\ UNCHANGED <<waiting, view, event, buf, msg, edge, history>>

\* The transfer reaches every ESP that is set up for one; of a single send the
\* answer is that ESP's.
OnBus == {d \in Dev : ev[d] = "armed"}

\* What the host does with the answer: allStatus goes to the next ESP or
\* starts over; when all are ready the SYNC pin rises at each of them.
AllReady(v) == host.d = Esps /\ v[host.d]
Asked(v) ==
  IF AllReady(v) THEN Idle
  ELSE [host EXCEPT !.pc = "send", !.d = IF v[@] THEN @ + 1 ELSE 1]

Clock ==
  /\ host.pc = "clock"
  /\ ev'  = [d \in Dev |-> IF d \in OnBus THEN "done" ELSE ev[d]]
  /\ buf' = [d \in Dev |-> IF d \in OnBus THEN host.msg ELSE buf[d]]
  /\ LET d == host.d
         v == IF host.op = "group" THEN view
              ELSE [view EXCEPT ![d] = IF OnBus = {d} THEN reply[d] ELSE FALSE]
         up == host.op = "poll" /\ AllReady(v)
     IN
     /\ view' = v
     /\ host' = CASE host.op = "one"   -> Idle
                  [] host.op = "group" -> [pc |-> "send", op |-> "poll", d |-> 1, msg |-> Recv]
                  [] host.op = "poll"  -> Asked(v)
     /\ edge' = IF up THEN [e \in Dev |-> 1] ELSE edge
  /\ UNCHANGED <<waiting, spiSem, evq, spi, reply, msg, history>>

HostGoesOn == Drain \/ Handshake \/ Waited \/ Clock

-----------------------------------------------------------------------------
(* ESP d: event_task and its interrupts. *)

LimitSwitch(d) ==
  /\ evq[d] = <<>> /\ evq' = [evq EXCEPT ![d] = Push(@, "LIMIT_SWITCH")]
  /\ UNCHANGED <<hostVars, spiSem, spi, ev, reply, buf, msg, edge, history>>

\* recv_spi_msg up to spi_slave_transmit; a limit switch is only printed.
EventTake(d) ==
  /\ ev[d] = "wait" /\ evq[d] # <<>> /\ evq' = [evq EXCEPT ![d] = Tail(@)]
  /\ IF Head(evq[d]) = "SPI_RECV_MSG"
     THEN /\ ev' = [ev EXCEPT ![d] = "setup"]
          /\ buf' = [buf EXCEPT ![d] = Blank]
          /\ reply' = [reply EXCEPT ![d] = mt[d] = "sync"]
     ELSE UNCHANGED <<ev, buf, reply>>
  /\ UNCHANGED <<hostVars, spiSem, spi, msg, edge, history>>

\* spi_post_setup_callback pulses READY; spi_sem_post_alertFunc posts once.
SetUp(d) ==
  /\ ev[d] = "setup" /\ ev' = [ev EXCEPT ![d] = "armed"]
  /\ IF waiting THEN spiSem' = spiSem + 1 /\ waiting' = FALSE ELSE UNCHANGED <<spiSem, waiting>>
  /\ UNCHANGED <<host, view, evq, spi, reply, buf, msg, edge, history>>

Listens(s) == "IDLE"
Received(d) ==
  /\ ev[d] = "done" /\ ev' = [ev EXCEPT ![d] = "queue"]
  /\ spi' = [spi EXCEPT ![d] = Listens(@)]
  /\ UNCHANGED <<hostVars, spiSem, evq, reply, buf, msg, edge, history>>

\* xQueueSend, which gives up after a tick if the queue is full.
Filled(q) == 1
Queue(d) ==
  /\ ev[d] = "queue" /\ ev' = [ev EXCEPT ![d] = "wait"]
  /\ mq' = [mq EXCEPT ![d] = Filled(@)]
  /\ UNCHANGED <<hostVars, spiSem, evq, spi, reply, buf, mt, edge, history>>

EventTask(d) == EventTake(d) \/ SetUp(d) \/ Received(d) \/ Queue(d)

-----------------------------------------------------------------------------
(* ESP d: msg_task. *)

MsgTake(d) ==
  /\ mt[d] = "idle" /\ mq[d] = 1
  /\ mq' = [mq EXCEPT ![d] = 0] /\ mt' = [mt EXCEPT ![d] = "read"]
  /\ UNCHANGED <<hostVars, spiSem, event, buf, edge, history>>

\* stepperMsgIN << m_recvbuf
Twice(d) == Append(Append(done[d], buf[d].id), buf[d].id)  \* mutant
Carried(d) == Append(done[d], buf[d].id)

MsgRead(d) ==
  /\ mt[d] = "read"
  /\ mt' = [mt EXCEPT ![d] = IF buf[d].kind = "MOVE" THEN "move" ELSE "idle"]
  /\ done' = IF buf[d].kind = "COMMAND" THEN [done EXCEPT ![d] = Carried(d)] ELSE done
  /\ UNCHANGED <<hostVars, spiSem, event, buf, mq, edge, made, sent>>

\* moveMsg << m_recvbuf, the bytes read again; then move, with all it prints,
\* goes up to the wait for the edge.
MsgMove(d) ==
  /\ mt[d] = "move" /\ mt' = [mt EXCEPT ![d] = "begin"]
  /\ done' = [done EXCEPT ![d] = Carried(d)]
  /\ UNCHANGED <<hostVars, spiSem, event, buf, mq, edge, made, sent>>

Begun(d) ==
  /\ mt[d] = "begin" /\ mt' = [mt EXCEPT ![d] = "sync"]
  /\ UNCHANGED <<hostVars, spiSem, event, buf, mq, edge, history>>

SyncTake(d) ==
  /\ mt[d] = "sync" /\ edge[d] = 1
  /\ mt' = [mt EXCEPT ![d] = "idle"] /\ edge' = [edge EXCEPT ![d] = 0]
  /\ UNCHANGED <<hostVars, spiSem, event, buf, mq, history>>

MsgTask(d) == MsgTake(d) \/ MsgRead(d) \/ MsgMove(d) \/ Begun(d) \/ SyncTake(d)

LinkNext ==
  \/ GroupMove \/ HostGoesOn
  \/ \E d \in Dev : SendCommand(d) \/ Receive(d) \/ LimitSwitch(d) \/ EventTask(d) \/ MsgTask(d)

LinkSpec == LinkInit /\ [][LinkNext]_linkVars

-----------------------------------------------------------------------------
(* Properties. *)

LinkTypeOK ==
  /\ host \in [pc : {"idle", "send", "trigger", "wait", "clock"}, op : {"none", "one", "group", "poll"},
               d : Dev, msg : [kind : {"RECEIVE", "COMMAND", "MOVE"}, id : 0..MaxMsgs]]
  /\ waiting \in BOOLEAN /\ spiSem \in 0..(MaxStale + 1) /\ made \in 0..MaxMsgs
  /\ view \in [Dev -> BOOLEAN] /\ reply \in [Dev -> BOOLEAN]
  /\ evq \in [Dev -> {<<>>, <<"LIMIT_SWITCH">>, <<"SPI_RECV_MSG">>}]
  /\ spi \in [Dev -> {"IDLE", "RECEIVING"}]
  /\ ev \in [Dev -> {"wait", "setup", "armed", "done", "queue"}]
  /\ buf \in [Dev -> [kind : {"PRINT_INFO", "RECEIVE", "COMMAND", "MOVE"}, id : 0..MaxMsgs]]
  /\ mq \in [Dev -> 0..1] /\ edge \in [Dev -> 0..1]
  /\ mt \in [Dev -> {"idle", "read", "move", "begin", "sync"}]
  /\ sent \in [Dev -> Seq(0..MaxMsgs)] /\ done \in [Dev -> Seq(0..MaxMsgs)]

\* Every ESP carries out the messages sent to it once, in order and whole,
\* although they pass through one buffer and a queue that may refuse them; and
\* when nothing is under way none is missing.
OnceInOrder == \A d \in Dev :
  /\ IsPrefix(done[d], sent[d])
  /\ host.pc = "idle" /\ Settled(d) => done[d] = sent[d]

\* When the host clocks, the ESPs it called are on the bus and no other.
OnlyTheCalled == host.pc = "clock" =>
  OnBus = (IF host.op = "group" THEN Dev ELSE {host.d})

\* The SYNC pin rises only when every ESP waits for it, all in the same move.
AllWait == edge' # edge /\ (\E d \in Dev : edge'[d] > edge[d]) =>
             \A d \in Dev : mt[d] = "sync" /\ edge[d] = 0 /\ Last(done[d]) = made

\* The link delivers, and the group starts together.
EspLinkCorrect == [](LinkTypeOK /\ OnceInOrder /\ OnlyTheCalled) /\ [][AllWait]_linkVars

=============================================================================
