----------------------------- MODULE PicoMotion -----------------------------
(***************************************************************************)
(* The motion controller of one stepper Pico.                              *)
(*                                                                         *)
(* Core1 takes commands out of msgQueue one by one; a move it accepts is   *)
(* carried out by an alarm callback, which runs as a timer interrupt of    *)
(* core1 between any two steps of the command handler.  Core0 has the pin  *)
(* interrupts: the end of a transfer queues a command, the sync signal     *)
(* releases a permit, the limit switch writes into the move the callback   *)
(* is working on.                                                          *)
(*                                                                         *)
(*   jog    runs at once and counts its steps down                         *)
(*   home   is a jog, to the limit switch and back from it, or to 0        *)
(*   line   (a curve as well) waits for the sync signal, which the host    *)
(*          raises when every axis shows SYNC_READY; one callback per      *)
(*          point of the path, of which this axis steps some               *)
(*                                                                         *)
(* pico/src/stepper.c, the interrupts and the core1 loop of pico/src/pinc.c; *)
(* the host as far as its commands and the sync signal go.  Not modelled:  *)
(* the shape of a path, speed, and the status bits that only repeat        *)
(* IN_MOTION.                                                              *)
(***************************************************************************)
EXTENDS Integers, Sequences, FiniteSets

CONSTANTS
  Lengths,       (* what the host asks for: steps of a jog, points of a line *)
  JogSteps,      (* config.jog_steps                                       *)
  MaxHome,       (* config.max_steps, the longest way to the switch        *)
  Wrap,          (* 2^w for the unsigned step counter                      *)
  MaxPos,        (* bound: the position counter saturates at +-MaxPos      *)
  Calm           (* assumptions about the surroundings:                    *)
                 (* "prompt"  a message arrives only while core1 is idle or *)
                 (*           in a long wait (printout, sync permit), and *)
                 (*           it has made room again when an alarm fires  *)
                 (* "hold"    a hold meets a line and comes before its end *)
                 (* "alone"   no jog or home before the axis shows ready   *)
                 (* "ahead"   no home while a homed axis is at a negative  *)
                 (*           position, between 0 and the switch           *)
                 (* "pulse"   the limit switch does not close between the  *)
                 (*           test of the step counter and its decrement   *)

ASSUME MotionAssumption ==
  /\ Lengths \subseteq Nat /\ JogSteps \in Nat \ {0} /\ MaxHome \in Nat
  /\ Wrap \in Nat /\ MaxPos \in Nat
  /\ \A n \in Lengths \cup {2 * JogSteps, MaxHome, MaxPos} : n < Wrap
  /\ Calm \subseteq {"prompt", "hold", "alone", "ahead", "pulse"}

QueueLen == 2    \* msgQueue
Slots    == 1..2 \* alarm_pool_create(1, 2)
Count    == 0..(Wrap - 1)
Pos      == (-MaxPos)..MaxPos \cup {-2 * JogSteps}
Mode     == {"none", "jog", "homing", "line"}
Levels   == [motion : {0, 1}, sync : {0, 1}, ready : {0, 1}]
Move     == [mode : Mode, steps : Count, left : Count, dir : {0, 1}, stop : BOOLEAN]

NoMove     == [mode |-> "none", steps |-> 0, left |-> 0, dir |-> 0, stop |-> FALSE]
Jog(n, d)  == [NoMove EXCEPT !.mode = "jog", !.steps = n, !.dir = d]
Homing(n)  == [NoMove EXCEPT !.mode = "homing", !.steps = n]
Line(n, d) == [NoMove EXCEPT !.mode = "line", !.left = n, !.dir = d]

Message   == [cmd : {"move", "home", "pause", "resume", "update"}, move : Move]
Plain(c)  == [cmd |-> c, move |-> NoMove]
MoveTo(m) == [cmd |-> "move", move |-> m]

VARIABLES
  pc,           \* core1: at the peek, or inside stepper_msg_handle
  msgQ,         \* motor.msgQueue; its head stays while it is handled
  move,         \* motor.move; left is the way from cur to end
  inMotion,     \* status bit IN_MOTION; MOVE_READY is its opposite
  pins,         \* p_motion, p_sync_ready, p_move_ready
  pool,         \* alarm pool: the callback each slot will run
  alarmId,      \* motor.alarm_id, 0 for none
  cb,           \* a jog callback under way, and the counter it has read
  permit,       \* motor.sem
  alarm,        \* motor.alarm
  homed, pos,   \* motor.homed, motor.pos
  switch,       \* the ALARM pin, 0 when the limit switch is closed
  host,         \* "free", or "sync" while the GUI thread waits for SYNC_READY
  running, paused, \* m_programRunning, m_programPaused
  syncSem,      \* the host has seen SYNC_READY fall
  \* history
  want, made,   \* callbacks the current move should take, has taken
  tripped,      \* the limit switch closed during it
  late,         \* steps made since then
  toZero,       \* it is meant to end at position 0
  edge          \* the sync signal has risen since SYNC_READY last fell

hostVars == <<host, running, paused, syncSem, switch>>
hist     == <<want, made, tripped, late, toZero, edge>>
vars == <<pc, msgQ, move, inMotion, pins, pool, alarmId, cb, permit, alarm, homed,
          pos, hostVars, hist>>

Off     == "off"
Pool    == [Slots -> {Off, "jog", "line"}]
JogShot == [at : {"none", "pulse", "load"}, slot : {0} \cup Slots, steps : Count]
Quiet   == [at |-> "none", slot |-> 0, steps |-> 0]

Init ==
  /\ pc = "peek" /\ msgQ = <<>> /\ move = NoMove /\ inMotion = FALSE
  /\ pins = [motion |-> 1, sync |-> 1, ready |-> 1]
  /\ pool = [i \in Slots |-> Off] /\ alarmId = 0 /\ cb = Quiet /\ permit = 0
  /\ alarm = FALSE /\ homed = FALSE /\ pos = 0 /\ switch = 1
  /\ host = "free" /\ running = FALSE /\ paused = FALSE /\ syncSem = FALSE
  /\ want = 0 /\ made = 0 /\ tripped = FALSE /\ late = 0 /\ toZero = FALSE
  /\ edge = FALSE

-----------------------------------------------------------------------------
(* Core1: core1_main and stepper_msg_handle.  It runs while no callback does. *)

Thread(from, to) == cb = Quiet /\ pc = from /\ pc' = to
Command(c)       == msgQ # <<>> /\ Head(msgQ).cmd = c

\* stepper_move up to its printout, with move m.
Accept(m, n, zero) ==
  /\ Thread("peek", "start")
  /\ ~inMotion
  /\ move' = m
  /\ inMotion' = TRUE
  /\ pins' = [pins EXCEPT !.motion = 0, !.ready = 0]
  /\ want' = n /\ made' = 0 /\ tripped' = FALSE /\ late' = 0 /\ toZero' = zero
  /\ UNCHANGED <<msgQ, pool, alarmId, cb, permit, alarm, homed, pos, hostVars, edge>>

\* A move; while p_motion is still low it should be the bounce stop() queued.
HandleMove == LET m == Head(msgQ).move IN
  /\ Command("move")
  /\ Accept(m, IF m.mode = "line" THEN m.left ELSE m.steps, pins.motion = 0)

\* stepper_home: to position 0, or to the switch.  The int position becomes an
\* unsigned count: a negative one is nearly Wrap steps, away from 0.
HandleHome ==
  /\ Command("home")
  /\ \/ homed /\ Accept(Jog(pos % Wrap, 0), pos % Wrap, TRUE)
     \/ ~homed /\ Accept(Homing(MaxHome), MaxHome, FALSE)

\* update, and any move while one is under way.
HandleNothing ==
  /\ Thread("peek", "remove")
  /\ \/ Command("update")
     \/ (Command("move") \/ Command("home")) /\ inMotion
  /\ UNCHANGED <<msgQ, move, inMotion, pins, pool, alarmId, cb, permit, alarm,
                 homed, pos, hostVars, hist>>

FreePins == [motion |-> 1, sync |-> 1, ready |-> 1]   \* mutant for HeldPins
HeldPins == [pins EXCEPT !.motion = 1, !.sync = 1]

\* pause(s, true): first the pins,
HandlePause ==
  /\ Thread("peek", "cancel")
  /\ Command("pause")
  /\ pins' = HeldPins
  /\ UNCHANGED <<msgQ, move, inMotion, pool, alarmId, cb, permit, alarm, homed, pos,
                 hostVars, hist>>

NotCancelled(id) == pool                              \* mutant: forgotten
Cancelled(id)    == [i \in Slots |-> IF i = id THEN Off ELSE pool[i]]

\* then the alarm.
Cancel ==
  /\ Thread("cancel", "remove")
  /\ pool' = Cancelled(alarmId)
  /\ UNCHANGED <<msgQ, move, inMotion, pins, alarmId, cb, permit, alarm, homed, pos,
                 hostVars, hist>>

\* The SYNC_READY pin falls, which the host waits for.
SyncReady(p) ==
  /\ pins' = p
  /\ syncSem' = (syncSem \/ p.sync < pins.sync)
  /\ edge' = FALSE

ResumedPins == [pins EXCEPT !.motion = 0, !.sync = 0]

\* pause(s, false) up to the permit.
HandleResume ==
  /\ Thread("peek", "launch")
  /\ Command("resume")
  /\ SyncReady(ResumedPins)
  /\ UNCHANGED <<msgQ, move, inMotion, pool, alarmId, cb, permit, alarm, homed, pos,
                 host, running, paused, switch, want, made, tripped, late, toZero>>

\* alarm_pool_add_alarm_in_us: the next free slot, or none.
AddAlarm(kind) ==
  LET free == {i \in Slots : pool[i] = Off} IN
  IF free = {}
  THEN alarmId' = 0 /\ UNCHANGED pool
  ELSE \E i \in free : /\ \A j \in free : i <= j
                       /\ alarmId' = i
                       /\ pool' = [pool EXCEPT ![i] = kind]

\* stepper_move after its printout.
StartJog ==
  /\ Thread("start", "remove")
  /\ move.mode # "line"
  /\ AddAlarm("jog")
  /\ UNCHANGED <<msgQ, move, inMotion, pins, cb, permit, alarm, homed, pos, hostVars,
                 hist>>

StartLine ==
  /\ Thread("start", "launch")
  /\ move.mode = "line"
  /\ SyncReady([pins EXCEPT !.sync = 0])
  /\ UNCHANGED <<msgQ, move, inMotion, pool, alarmId, cb, permit, alarm, homed, pos,
                 host, running, paused, switch, want, made, tripped, late, toZero>>

\* The permit is taken by a line only; a resumed jog goes on at once, and as a
\* line's callback.
SeePermit  == /\ move.mode = "line" => permit = 1     \* mutant: not used up
              /\ UNCHANGED permit
TakePermit == IF move.mode = "line" THEN permit = 1 /\ permit' = 0
                                    ELSE UNCHANGED permit

Launch ==
  /\ Thread("launch", "remove")
  /\ TakePermit
  /\ AddAlarm("line")
  /\ UNCHANGED <<msgQ, move, inMotion, pins, cb, alarm, homed, pos, hostVars, hist>>

\* queue_remove_blocking.
Remove ==
  /\ Thread("remove", "peek")
  /\ msgQ' = Tail(msgQ)
  /\ UNCHANGED <<move, inMotion, pins, pool, alarmId, cb, permit, alarm, homed, pos,
                 hostVars, hist>>

-----------------------------------------------------------------------------
(* Timer interrupts of core1: jog_alarm_callback and sync_alarm_callback.   *)

Due(i, kind) == /\ cb = Quiet /\ pool[i] = kind
                /\ "prompt" \in Calm => Len(msgQ) < QueueLen

TryAdd(m) == IF Len(msgQ) < QueueLen THEN Append(msgQ, m) ELSE msgQ

AtSwitch(m) == m.mode = "homing" /\ alarm
HalfWay     == -JogSteps                             \* mutant: position off
Behind      == -2 * JogSteps                         \* of the switch

\* stop(), called from slot i: homing that met the switch queues the way back,
\* anything else raises the pins.
Stop(i, m) ==
  /\ inMotion' = FALSE
  /\ pool' = [Cancelled(alarmId) EXCEPT ![i] = Off]
  /\ alarm' = FALSE
  /\ \/ /\ AtSwitch(m)
        /\ homed' = TRUE
        /\ pos' = Behind
        /\ move' = Jog(2 * JogSteps, 1)
        /\ msgQ' = TryAdd(MoveTo(Jog(2 * JogSteps, 1)))
        /\ UNCHANGED pins
     \/ /\ ~AtSwitch(m)
        /\ pins' = FreePins
        /\ move' = m
        /\ UNCHANGED <<homed, pos, msgQ>>
  /\ UNCHANGED <<pc, alarmId, cb, permit, hostVars, hist>>

\* step(): the position counter, which saturates in this model.
Clip(p) == IF p > MaxPos THEN MaxPos ELSE IF p < -MaxPos THEN -MaxPos ELSE p
Bump(n) == IF n < Wrap THEN n + 1 ELSE n
Step    == pos' = Clip(IF move.dir = 1 THEN pos + 1 ELSE pos - 1)
Counted == /\ made' = Bump(made)
           /\ late' = IF tripped THEN Bump(late) ELSE late
           /\ UNCHANGED <<want, tripped, toZero, edge>>

\* A jog's counter is tested, the motor steps (an 8 us pulse),
JogStep(i) ==
  /\ Due(i, "jog")
  /\ move.steps # 0
  /\ Step /\ Counted
  /\ cb' = [at |-> "pulse", slot |-> i, steps |-> 0]
  /\ UNCHANGED <<pc, msgQ, move, inMotion, pins, pool, alarmId, permit, alarm, homed,
                 hostVars>>

\* the counter is read
JogLoad ==
  /\ cb.at = "pulse"
  /\ cb' = [cb EXCEPT !.at = "load", !.steps = move.steps]
  /\ UNCHANGED <<pc, msgQ, move, inMotion, pins, pool, alarmId, permit, alarm, homed,
                 pos, hostVars, hist>>

Same(n) == n                                          \* mutant: not counted
Less(n) == (n - 1) % Wrap

\* and written.
JogStore ==
  /\ cb.at = "load"
  /\ cb' = Quiet
  /\ move' = [move EXCEPT !.steps = Less(cb.steps)]
  /\ UNCHANGED <<pc, msgQ, inMotion, pins, pool, alarmId, permit, alarm, homed, pos,
                 hostVars, hist>>

JogEnd(i) ==
  /\ Due(i, "jog")
  /\ move.steps = 0
  /\ Stop(i, move)

\* Where a line's callback finds the end of the path or the limit switch.
OneShort == move.mode = "line" /\ move.left <= 1      \* mutant
Arrived  == move.mode = "line" /\ move.left = 0
Ends     == move.stop \/ Arrived

LineStep(i) ==
  /\ Due(i, "line")
  /\ ~Ends
  /\ move' = IF move.mode = "line" THEN [move EXCEPT !.left = @ - 1] ELSE move
  /\ Step \/ UNCHANGED pos                        \* the point is this axis' or not
  /\ Counted
  /\ UNCHANGED <<pc, msgQ, inMotion, pins, pool, alarmId, cb, permit, alarm, homed,
                 hostVars>>

HoldQueued  == \E k \in 1..Len(msgQ) : msgQ[k].cmd = "pause"
LinePending == \E i \in Slots : pool[i] = "line"

LineEnd(i) ==
  /\ Due(i, "line")
  /\ Ends
  /\ "hold" \in Calm => ~HoldQueued
  /\ Stop(i, [move EXCEPT !.stop = TRUE])

-----------------------------------------------------------------------------
(* Pin interrupts of core0, and the host.                                  *)

\* The falling request pin queues the message if there is room.
Send(m) ==
  /\ "prompt" \in Calm => \/ pc = "peek" /\ msgQ = <<>>
                          \/ pc = "start"
                          \/ pc = "launch" /\ permit = 0
  /\ msgQ' = TryAdd(m)
  /\ UNCHANGED <<pc, move, inMotion, pins, pool, alarmId, cb, permit, alarm, homed,
                 pos, switch, syncSem, hist>>

\* The GUI thread jogs (its copy of MOVE_READY may be old) or homes,
HostJog ==
  /\ host = "free" /\ ~paused
  /\ "alone" \in Calm => pins.ready = 1
  /\ \/ \E n \in Lengths, d \in {0, 1} : Send(MoveTo(Jog(n, d)))
     \/ /\ "ahead" \in Calm /\ homed => pos >= 0
        /\ Send(Plain("home"))
  /\ UNCHANGED <<host, running, paused>>

\* sends a line to an axis that is ready and waits until it is armed,
HostLine ==
  /\ host = "free" /\ ~paused /\ pins.ready = 1
  /\ \E n \in Lengths, d \in {0, 1} : Send(MoveTo(Line(n, d)))
  /\ host' = "sync" /\ running' = TRUE
  /\ UNCHANGED paused

\* holds the program,
HostPause ==
  /\ host = "free" /\ running /\ ~paused
  /\ "hold" \in Calm => LinePending
  /\ Send(Plain("pause"))
  /\ paused' = TRUE
  /\ UNCHANGED <<host, running>>

\* and goes on with it; threads of the command link ask for updates.
HostResume ==
  /\ host = "free" /\ paused
  /\ Send(Plain("resume"))
  /\ paused' = FALSE /\ host' = "sync"
  /\ UNCHANGED running

HostUpdate == Send(Plain("update")) /\ UNCHANGED <<host, running, paused>>

\* The sync signal rises when this axis (and every other) is armed: gpio_isr
\* releases the permit, of which there is at most one.
SyncRise ==
  /\ host = "sync" /\ syncSem
  /\ host' = "free" /\ syncSem' = FALSE
  /\ permit' = 1
  /\ edge' = TRUE
  /\ UNCHANGED <<pc, msgQ, move, inMotion, pins, pool, alarmId, cb, alarm, homed, pos,
                 running, paused, switch, want, made, tripped, late, toZero>>

StopLine == [move EXCEPT !.stop = TRUE]               \* mutant: lines only
StopMove == [move EXCEPT !.steps = 0, !.stop = TRUE]

\* The limit switch closes, and opens again.
LimitFall ==
  /\ switch = 1
  /\ "pulse" \in Calm => cb = Quiet
  /\ switch' = 0
  /\ move' = StopMove
  /\ alarm' = TRUE
  /\ tripped' = (tripped \/ inMotion)
  /\ UNCHANGED <<pc, msgQ, inMotion, pins, pool, alarmId, cb, permit, homed, pos, host,
                 running, paused, syncSem, want, made, late, toZero, edge>>

LimitRise ==
  /\ switch = 0
  /\ switch' = 1
  /\ alarm' = FALSE
  /\ UNCHANGED <<pc, msgQ, move, inMotion, pins, pool, alarmId, cb, permit, homed, pos,
                 host, running, paused, syncSem, hist>>

-----------------------------------------------------------------------------
Core1 == HandleMove \/ HandleHome \/ HandleNothing \/ HandlePause \/ Cancel
           \/ HandleResume \/ StartJog \/ StartLine \/ Launch \/ Remove
Callback == \/ JogLoad \/ JogStore
            \/ \E i \in Slots : JogStep(i) \/ JogEnd(i) \/ LineStep(i) \/ LineEnd(i)
Host == HostJog \/ HostLine \/ HostPause \/ HostResume \/ HostUpdate \/ SyncRise

Next == Core1 \/ Callback \/ Host \/ LimitFall \/ LimitRise

Spec == Init /\ [][Next]_vars

\* Core1 and its timer run on their own; the timer is not put off for ever by
\* holds.  The host raises the signal when it may, and the user goes on.
Fairness == /\ WF_vars(Core1) /\ SF_vars(Callback)
            /\ WF_vars(SyncRise) /\ SF_vars(HostResume)

FairSpec == Spec /\ Fairness

-----------------------------------------------------------------------------
(* Properties.                                                             *)

TypeOK ==
  /\ pc \in {"peek", "start", "launch", "cancel", "remove"}
  /\ msgQ \in Seq(Message) /\ Len(msgQ) <= QueueLen
  /\ pc # "peek" => msgQ # <<>>
  /\ move \in Move /\ inMotion \in BOOLEAN
  /\ pins \in Levels /\ pool \in Pool /\ alarmId \in {0} \cup Slots /\ cb \in JogShot
  /\ permit \in {0, 1} /\ alarm \in BOOLEAN /\ homed \in BOOLEAN
  /\ pos \in Pos /\ switch \in {0, 1}
  /\ host \in {"free", "sync"} /\ running \in BOOLEAN /\ paused \in BOOLEAN
  /\ syncSem \in BOOLEAN
  /\ want \in Count /\ made \in 0..Wrap /\ tripped \in BOOLEAN
  /\ late \in 0..Wrap /\ toZero \in BOOLEAN /\ edge \in BOOLEAN

Pending     == {i \in Slots : pool[i] # Off}

\* Never two alarms: two callbacks would step one move at once.
OneAlarm == \A i, j \in Pending : i = j

\* While MOVE_READY tells the host to send the next move, no callback of the
\* last one is left to run into it.
ReadyIsQuiet == pins.ready = 1 => Pending = {} /\ cb = Quiet

\* A line takes its first step only after the sync signal has risen for it, and
\* again after each hold: no permit is ever left over.
NoEarlyStart ==
  LinePending => edge

\* A move that ends without the limit switch has taken exactly its steps,
\* whatever holds it went through.
StepsExact == ~inMotion /\ ~tripped => made = want

\* After the limit switch has closed the axis stands still.
LimitStops == late = 0

\* Homing, when it has found the switch or if the axis was homed before, ends at
\* position 0 (stepper_home, stop).
HomeAtZero ==
  toZero /\ ~inMotion /\ ~tripped /\ pins.motion = 1 => pos = 0

\* An axis counts as homed only if its switch was closed at that moment.
HomedAtSwitch == [][~homed /\ homed' => switch = 0]_vars

\* "active low if (status & MOTION)" (pico/src/stepper.h:36).
PinShowsMotion == inMotion /\ pc = "peek" => pins.motion = 0

-----------------------------------------------------------------------------
(* Why it works: an inductive invariant, under "prompt" and "hold".        *)

\* An alarm is the current one and belongs to a move under way; core1 starts
\* one only when there is none.
AlarmInv ==
  /\ \A i \in Slots :
       /\ pool[i] # Off => alarmId = i /\ inMotion
       /\ pool[i] = "line" => move.mode = "line" /\ edge
       /\ pool[i] = "jog" => move.mode # "line"
  /\ cb # Quiet => cb.slot \in Pending
  /\ pc \in {"start", "launch"} => Pending = {} /\ inMotion
  /\ inMotion => pins.ready = 0

\* A hold is alone in the queue and meets a running line; then the line is held
\* until the resume, which finds it without an alarm.
HoldInv ==
  /\ paused => /\ inMotion /\ move.mode = "line" /\ host = "free"
               /\ pc \in {"peek", "cancel", "remove"}
               /\ ~HoldQueued => Pending = {}
  /\ pc = "cancel" => Head(msgQ).cmd = "pause"
  /\ \A k \in 1..Len(msgQ) :
       /\ msgQ[k].cmd = "pause" => /\ Len(msgQ) = 1 /\ paused
                                   /\ pc = "remove" => Pending = {}
       /\ msgQ[k].cmd = "resume" =>
            /\ k = 1 /\ ~paused
            /\ pc # "remove" => Pending = {} /\ inMotion /\ move.mode = "line"

\* A permit or an armed axis means that core1 is at the semaphore; the host
\* waits while its line or resume is on the way there.
SyncInv ==
  /\ permit = 1 => pc = "launch" /\ edge
  /\ syncSem => pc = "launch" /\ permit = 0 /\ host = "sync"
  /\ pc = "launch" => move.mode = "line"
  /\ pc = "start" /\ move.mode = "line" => host = "sync"
  /\ \A k \in 1..Len(msgQ) :
       msgQ[k].cmd = "resume" \/ msgQ[k].move.mode = "line" =>
         k = 1 /\ (pc = "peek" => host = "sync")

MotionInv == TypeOK /\ AlarmInv /\ HoldInv /\ SyncInv

\* Why a move takes its steps: until the switch closes, the steps made and those
\* to come are the steps wanted.  A callback under way has made one that is not
\* counted down yet.
CountInv ==
  /\ \A k \in 1..Len(msgQ) : ~msgQ[k].move.stop
  /\ cb # Quiet => /\ cb.at \in {"pulse", "load"} /\ move.mode # "line"
                   /\ ~tripped => move.steps # 0
                   /\ ~tripped /\ cb.at = "load" => cb.steps = move.steps
  /\ ~tripped /\ inMotion =>
       /\ ~move.stop
       /\ move.mode = "line" => made + move.left = want
       /\ move.mode # "line" => made + move.steps = IF cb = Quiet THEN want ELSE want + 1
  /\ ~tripped /\ ~inMotion => made = want

\* Why the switch stops it: under "pulse", what the switch writes into the move
\* stays there.
SwitchInv ==
  /\ late = 0
  /\ tripped => cb = Quiet /\ (inMotion => move.steps = 0 /\ move.stop)

\* Why homing ends at 0: under "alone", a move in the queue is the one core1
\* handles, the only message to an axis that is ready, or the way back from the
\* switch; under "ahead", a home about to be handled is not at a negative position;
\* and a move to 0 has just as many steps to make as it is away from it.
Bounce  == MoveTo(Jog(2 * JogSteps, 1))
IsMove(msg) == msg.cmd \in {"move", "home"}
Ahead   == IF cb = Quiet THEN move.steps ELSE move.steps - 1
HomeQueue ==
  /\ pins.ready = 1 => pins.motion = 1
  /\ inMotion /\ move.mode # "line" => pins.motion = 0
  /\ pins.motion = 0 /\ ~inMotion => pos = Behind
  /\ \A k \in 1..Len(msgQ) : IsMove(msgQ[k]) =>
       \/ k = 1 /\ pc # "peek"
       \/ pins.ready = 1 /\ Len(msgQ) = 1
       \/ ~inMotion /\ pins.motion = 0 /\ msgQ[k] = Bounce
  /\ pc = "peek" /\ Len(msgQ) = 2 => ~IsMove(msgQ[1]) \/ ~IsMove(msgQ[2])
HomeAhead == \A k \in 1..Len(msgQ) :
  msgQ[k].cmd = "home" /\ pc = "peek" /\ homed => pos >= 0
HomePath ==
  /\ toZero /\ ~tripped /\ inMotion =>
       /\ move.mode = "jog"
       /\ pos = IF move.dir = 1 THEN -Ahead ELSE Ahead
  /\ HomeAtZero

=============================================================================
