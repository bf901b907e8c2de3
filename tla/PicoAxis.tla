------------------------------ MODULE PicoAxis ------------------------------
(***************************************************************************)
(* PicoMotion implements Axis: what the host sees at the pins of a Pico is *)
(* an axis that arms, runs, holds and ends as StepperControl has it.       *)
(***************************************************************************)
EXTENDS PicoMotion

\* A line that has been accepted and is not armed yet, while it is printed.
Printing == pc = "start" /\ move.mode = "line"

\* The pins tell all states apart but two: a line that waits in core1 for the
\* sync signal and one under way.
AxisState ==
  CASE Printing                          -> "idle"
    [] ~Printing /\ pc = "launch"        -> "armed"
    [] ~Printing /\ pc # "launch" ->
         CASE pins.ready = 1                                       -> "idle"
           [] pins.ready = 0 /\ pins.sync = 0                      -> "run"
           [] pins.ready = 0 /\ pins.sync = 1 /\ pins.motion = 1   -> "held"
           [] pins.ready = 0 /\ pins.sync = 1 /\ pins.motion = 0   -> "jog"

\* Its commands: the queue without what is being handled, updates, and the way
\* back homing sends to itself while its pins stay low.
Kind(m) == IF m.cmd = "home" \/ (m.cmd = "move" /\ m.move.mode # "line") THEN "jog"
           ELSE IF m.cmd = "move" THEN "line" ELSE m.cmd
WayBack(m) == pins.motion = 0 /\ ~inMotion /\ m = Bounce
Waiting == IF pc = "peek" \/ Printing THEN msgQ ELSE Tail(msgQ)
Posted(i) ==
  IF i <= Len(Waiting) /\ Waiting[i].cmd # "update" /\ ~WayBack(Waiting[i])
  THEN <<Kind(Waiting[i])>> ELSE <<>>
AxisQueue == Posted(1) \o Posted(2)

Ax == INSTANCE Axis WITH st <- AxisState, q <- AxisQueue, permit <- (permit = 1)

\* Every step of the Pico is a step of the axis or one the host cannot see, and
\* what the axis promises comes to pass: it is ready again after every move, and
\* arms after every line.
ImplementsFairAxis == Ax!FairSpec

-----------------------------------------------------------------------------
(* Why it is one, under "prompt" and "hold": what the pins show.           *)

\* At rest all pins are high, or only SYNC_READY is, on the way back from the
\* switch.  A jog lowers all but SYNC_READY, a line that is armed or under way
\* lowers that too, and a hold raises it again with the motion pin.
PinsInv ==
  /\ ~inMotion => pins.sync = 1 /\ pins.ready = pins.motion
  /\ inMotion /\ move.mode # "line" => pins.motion = 0 /\ pins.sync = 1
  /\ pc = "launch" \/ (LinePending /\ pc # "cancel") => pins.sync = 0
  /\ paused => IF pc = "peek" /\ HoldQueued THEN pins.sync = 0
                                            ELSE pins.sync = 1 /\ pins.motion = 1

\* The queue at the peek: what has been sent has been sent in the state of the
\* axis that it is for.
QueueInv ==
  /\ pc = "peek" => \A k \in 1..Len(msgQ) :
       /\ msgQ[k].cmd = "resume" => pins.sync = 1 /\ pins.motion = 1
       /\ msgQ[k].move.mode = "line" => pins.ready = 1
  /\ Printing => Head(msgQ).cmd = "move" /\ Head(msgQ).move.mode = "line"

AxisInv == MotionInv /\ PinsInv /\ QueueInv
=============================================================================
