--------------------------- MODULE PicoAxis_proofs ---------------------------
(***************************************************************************)
(* A Pico is an axis: every step of PicoMotion is a step of Axis or one    *)
(* the host cannot see, for any lengths, homing distance and counter       *)
(* width, under the timing assumptions "prompt" and "hold".                *)
(***************************************************************************)
EXTENDS PicoAxis, PicoMotion_proofs

-----------------------------------------------------------------------------
(* What the pins show.                                                     *)

LEMMA AxisInit == Init => AxisInv
<1> SUFFICES ASSUME Init PROVE AxisInv
  OBVIOUS
<1>1. Len(msgQ) = 0 /\ pc = "peek" /\ ~paused /\ ~inMotion /\ ~LinePending
      /\ pins.sync = 1 /\ pins.ready = 1 /\ pins.motion = 1
  BY DEF Init, LinePending, Off
<1>2. PinsInv
  BY <1>1 DEF PinsInv
<1>3. QueueInv
  BY <1>1 DEF QueueInv, Printing
<1>. QED BY <1>2, <1>3, InitInv DEF AxisInv

\* A step that touches neither pins nor mode nor the queue.
LEMMA PinsSame ==
  ASSUME PinsInv, QueueInv, inMotion' = inMotion, pins' = pins, move'.mode = move.mode,
         pc' = pc, pool' = pool, paused' = paused, msgQ' = msgQ
  PROVE  PinsInv' /\ QueueInv'
BY DEF PinsInv, QueueInv, LinePending, HoldQueued, Printing

\* A command that is queued while the pins stay as they are.
LEMMA SendKeeps ==
  ASSUME MotionInv, PinsInv, QueueInv, {"prompt", "hold"} \subseteq Calm,
         NEW m \in Message, Send(m), paused' \in BOOLEAN, paused' => paused,
         m.cmd \in {"pause", "resume"} => ~paused',
         m.cmd = "resume" => paused,
         m.move.mode = "line" => pins.ready = 1
  PROVE  PinsInv' /\ QueueInv'
<1>1. /\ TypeOK /\ AlarmInv /\ HoldInv /\ SyncInv
  BY DEF MotionInv
<1>2. /\ msgQ' = TryAdd(m) /\ pc' = pc /\ pins' = pins /\ move' = move /\ inMotion' = inMotion
      /\ pool' = pool
      /\ \/ pc = "peek" /\ msgQ = <<>>
         \/ pc = "start"
         \/ pc = "launch"
  BY DEF Send
<1>3. \A k \in 1..Len(msgQ') : \/ k \in 1..Len(msgQ) /\ msgQ'[k] = msgQ[k]
                               \/ msgQ'[k] = m
  BY <1>1, <1>2, Queued
<1>4. \A k \in 1..Len(msgQ) : k \in 1..Len(msgQ') /\ msgQ'[k] = msgQ[k]
  BY <1>1, <1>2, Queued
<1>5. paused' => (HoldQueued' <=> HoldQueued)
  BY <1>3, <1>4 DEF HoldQueued
<1>6. PinsInv'
  BY <1>2, <1>5 DEF PinsInv, LinePending
<1>7. m.cmd = "resume" => pins.sync = 1 /\ pins.motion = 1
  <2> SUFFICES ASSUME m.cmd = "resume" PROVE pins.sync = 1 /\ pins.motion = 1
    OBVIOUS
  <2>1. paused /\ pc = "peek" /\ msgQ = <<>>
    BY <1>1, <1>2 DEF HoldInv
  <2>2. ~HoldQueued
    BY <2>1 DEF HoldQueued
  <2>. QED BY <2>1, <2>2 DEF PinsInv
<1>8. Printing' => Head(msgQ').cmd = "move" /\ Head(msgQ').move.mode = "line"
  <2> SUFFICES ASSUME Printing' PROVE Head(msgQ').cmd = "move" /\ Head(msgQ').move.mode = "line"
    OBVIOUS
  <2>1. Printing /\ msgQ # <<>>
    BY <1>1, <1>2 DEF Printing, TypeOK
  <2>2. Head(msgQ) = msgQ[1] /\ 1 \in 1..Len(msgQ)
    BY <1>1, <2>1, HeadAndTail
  <2>3. msgQ'[1] = msgQ[1] /\ Head(msgQ') = msgQ'[1]
    BY <1>1, <1>2, <1>4, <2>2, TryAddType
  <2>. QED BY <2>1, <2>2, <2>3 DEF QueueInv
<1>9. QueueInv'
  BY <1>2, <1>3, <1>7, <1>8 DEF QueueInv
<1>. QED BY <1>6, <1>9

LEMMA AxisStep ==
  ASSUME AxisInv, Next, {"prompt", "hold"} \subseteq Calm
  PROVE  PinsInv' /\ QueueInv'
<1>t. TypeOK /\ AlarmInv /\ HoldInv /\ SyncInv /\ MotionInv /\ PinsInv /\ QueueInv
      /\ pins \in Levels
  BY DEF MotionInv, AxisInv, TypeOK
<1>q. /\ msgQ # <<>> => 1 \in 1..Len(msgQ) /\ Head(msgQ) = msgQ[1]
  BY <1>t, HeadAndTail
<1>m. /\ \A n, d : /\ Jog(n, d).mode = "jog" /\ Line(n, d).mode = "line"
                   /\ MoveTo(Jog(n, d)).cmd = "move" /\ MoveTo(Jog(n, d)).move.mode = "jog"
                   /\ MoveTo(Line(n, d)).cmd = "move"
      /\ \A n : Homing(n).mode = "homing"
      /\ \A c \in {"home", "pause", "resume", "update"} :
           Plain(c).cmd = c /\ Plain(c).move.mode = "none"
  BY DEF Jog, Line, Homing, NoMove, MoveTo, Plain
<1>1. ASSUME NEW m, NEW n, NEW zero, Accept(m, n, zero), Command("move") \/ Command("home"),
             m.mode = "line" => Command("move") /\ m = Head(msgQ).move
      PROVE  PinsInv' /\ QueueInv'
  <2>1. /\ ~inMotion /\ inMotion' /\ pc = "peek" /\ pc' = "start" /\ msgQ' = msgQ
        /\ pool' = pool /\ paused' = paused /\ move' = m
        /\ pins'.motion = 0 /\ pins'.ready = 0 /\ pins'.sync = pins.sync
    BY <1>t, <1>1 DEF Accept, Thread, hostVars, Levels
  <2>2. ~paused /\ ~LinePending' /\ pins.sync = 1
    BY <1>t, <2>1 DEF HoldInv, LinePending, AlarmInv, PinsInv, Off
  <2>3. PinsInv'
    BY <2>1, <2>2 DEF PinsInv
  <2>4. QueueInv'
    BY <1>1, <2>1 DEF QueueInv, Printing, Command
  <2>. QED BY <2>3, <2>4
<1>2. CASE HandleMove \/ HandleHome
  <2>1. CASE HandleMove
    BY <1>1, <2>1 DEF HandleMove
  <2>2. CASE HandleHome
    BY <1>1, <1>m, <2>2 DEF HandleHome
  <2>. QED BY <1>2, <2>1, <2>2
<1>3. CASE HandleNothing
  <2>1. /\ pc = "peek" /\ pc' = "remove" /\ msgQ' = msgQ /\ pins' = pins /\ move' = move
        /\ inMotion' = inMotion /\ pool' = pool /\ paused' = paused
        /\ msgQ # <<>> /\ Head(msgQ).cmd # "pause"
    BY <1>3 DEF HandleNothing, Thread, Command, hostVars
  <2>2. ~HoldQueued
    BY <1>t, <1>q, <2>1 DEF HoldInv, HoldQueued
  <2>. QED BY <1>t, <2>1, <2>2 DEF PinsInv, QueueInv, Printing, LinePending
<1>4. CASE HandlePause
  <2>1. /\ pc = "peek" /\ pc' = "cancel" /\ msgQ' = msgQ /\ move' = move
        /\ inMotion' = inMotion /\ pool' = pool /\ paused' = paused
        /\ msgQ # <<>> /\ Head(msgQ).cmd = "pause"
        /\ pins'.motion = 1 /\ pins'.sync = 1 /\ pins'.ready = pins.ready
    BY <1>t, <1>4 DEF HandlePause, HeldPins, Thread, Command, hostVars, Levels
  <2>2. inMotion /\ move.mode = "line"
    BY <1>t, <1>q, <2>1 DEF HoldInv
  <2>. QED BY <2>1, <2>2 DEF PinsInv, QueueInv, Printing
<1>5. CASE Cancel
  <2>1. /\ pc = "cancel" /\ pc' = "remove" /\ msgQ' = msgQ /\ move' = move /\ pins' = pins
        /\ inMotion' = inMotion /\ paused' = paused
    BY <1>5 DEF Cancel, Thread, hostVars
  <2>2. ~LinePending'
    BY <1>t, <1>5 DEF Cancel, Cancelled, AlarmInv, LinePending, Off
  <2>. QED BY <1>t, <2>1, <2>2 DEF PinsInv, QueueInv, Printing
<1>6. CASE HandleResume
  <2>1. /\ pc = "peek" /\ pc' = "launch" /\ msgQ' = msgQ /\ move' = move
        /\ inMotion' = inMotion /\ pool' = pool /\ paused' = paused
        /\ msgQ # <<>> /\ Head(msgQ).cmd = "resume"
        /\ pins'.motion = 0 /\ pins'.sync = 0 /\ pins'.ready = pins.ready
    BY <1>t, <1>6 DEF HandleResume, SyncReady, ResumedPins, Thread, Command, hostVars, Levels
  <2>2. inMotion /\ move.mode = "line" /\ ~paused
    BY <1>t, <1>q, <2>1 DEF HoldInv
  <2>. QED BY <2>1, <2>2 DEF PinsInv, QueueInv, Printing
<1>7. CASE StartJog
  <2>1. /\ pc = "start" /\ pc' = "remove" /\ msgQ' = msgQ /\ move' = move /\ pins' = pins
        /\ inMotion' = inMotion /\ paused' = paused
    BY <1>7 DEF StartJog, Thread, hostVars
  <2>2. ~LinePending'
    <3>1. Pending = {}
      BY <1>t, <2>1 DEF AlarmInv
    <3>. QED BY <1>t, <1>7, <3>1, OneAdded DEF StartJog, LinePending, Off
  <2>3. ~paused
    BY <1>t, <2>1 DEF HoldInv
  <2>. QED BY <1>t, <2>1, <2>2, <2>3 DEF PinsInv, QueueInv, Printing
<1>8. CASE StartLine
  <2>1. /\ pc = "start" /\ pc' = "launch" /\ msgQ' = msgQ /\ move' = move /\ pool' = pool
        /\ inMotion' = inMotion /\ paused' = paused /\ move.mode = "line"
        /\ pins'.sync = 0 /\ pins'.motion = pins.motion /\ pins'.ready = pins.ready
    BY <1>t, <1>8 DEF StartLine, SyncReady, Thread, hostVars, Levels
  <2>2. inMotion /\ ~paused
    BY <1>t, <2>1 DEF AlarmInv, HoldInv
  <2>. QED BY <2>1, <2>2 DEF PinsInv, QueueInv, Printing
<1>9. CASE Launch
  <2>1. /\ pc = "launch" /\ pc' = "remove" /\ msgQ' = msgQ /\ move' = move /\ pins' = pins
        /\ inMotion' = inMotion /\ paused' = paused
    BY <1>9 DEF Launch, Thread, hostVars
  <2>2. inMotion /\ ~paused
    BY <1>t, <2>1 DEF AlarmInv, HoldInv
  <2>. QED BY <1>t, <2>1, <2>2 DEF PinsInv, QueueInv, Printing
<1>10. CASE Remove
  <2>1. /\ pc = "remove" /\ pc' = "peek" /\ msgQ' = Tail(msgQ) /\ move' = move /\ pins' = pins
        /\ inMotion' = inMotion /\ pool' = pool /\ paused' = paused /\ msgQ # <<>>
    BY <1>t, <1>10 DEF Remove, Thread, hostVars, TypeOK
  <2>2. \A k \in 1..Len(msgQ') : k + 1 \in 1..Len(msgQ) /\ msgQ'[k] = msgQ[k + 1] /\ k + 1 # 1
    BY <1>t, <2>1, HeadAndTail
  <2>3. \A k \in 1..Len(msgQ') : /\ msgQ'[k].cmd \notin {"pause", "resume"}
                                 /\ msgQ'[k].move.mode # "line"
    <3> TAKE k \in 1..Len(msgQ')
    <3>1. k + 1 \in 1..Len(msgQ) /\ msgQ'[k] = msgQ[k + 1] /\ k + 1 # 1 /\ Len(msgQ) # 1
      BY <2>2
    <3>2. msgQ[k + 1].cmd \notin {"pause", "resume"}
      BY <1>t, <3>1 DEF HoldInv
    <3>3. msgQ[k + 1].move.mode # "line"
      BY <1>t, <3>1 DEF SyncInv
    <3>. QED BY <3>1, <3>2, <3>3
  <2>4. ~HoldQueued'
    BY <2>3 DEF HoldQueued
  <2>5. PinsInv'
    BY <1>t, <2>1, <2>4 DEF PinsInv, LinePending
  <2>. QED BY <2>1, <2>3, <2>5 DEF QueueInv, Printing
<1>11. ASSUME NEW i \in Slots, JogStep(i) \/ LineStep(i) PROVE PinsInv' /\ QueueInv'
  <2>1. move'.mode = move.mode
    BY <1>t, <1>11 DEF JogStep, LineStep, TypeOK, Move
  <2>. QED BY <1>t, <1>11, <2>1, PinsSame DEF JogStep, LineStep, hostVars
<1>12. CASE JogLoad \/ JogStore
  <2>1. move'.mode = move.mode
    BY <1>t, <1>12 DEF JogLoad, JogStore, TypeOK, Move
  <2>. QED BY <1>t, <1>12, <2>1, PinsSame DEF JogLoad, JogStore, hostVars
<1>13. ASSUME NEW i \in Slots, JogEnd(i) \/ LineEnd(i) PROVE PinsInv' /\ QueueInv'
  <2>1. /\ pool[i] # Off /\ i \in Pending /\ inMotion /\ pins.ready = 0
        /\ pc \notin {"start", "launch"} /\ pc' = pc /\ paused' = paused
        /\ ~inMotion' /\ ~LinePending'
    <3>1. pool[i] # Off /\ i \in Pending /\ \E m : Stop(i, m)
      BY <1>13 DEF JogEnd, LineEnd, Due, Off, Pending
    <3>2. pool' = [j \in Slots |-> Off] /\ ~inMotion' /\ pc' = pc /\ paused' = paused
      BY <1>t, <3>1, StopClears DEF Stop, hostVars
    <3>3. inMotion /\ pins.ready = 0 /\ pc \notin {"start", "launch"}
      BY <1>t, <3>1 DEF AlarmInv, TypeOK, Levels
    <3>. QED BY <3>1, <3>2, <3>3 DEF LinePending, Off
  <2>2. ~paused
    <3>1. CASE JogEnd(i)
      BY <1>t, <3>1 DEF JogEnd, Due, AlarmInv, HoldInv
    <3>2. CASE LineEnd(i)
      BY <1>t, <2>1, <3>2 DEF LineEnd, HoldInv
    <3>. QED BY <1>13, <3>1, <3>2
  <2>3. CASE pins' = FreePins /\ msgQ' = msgQ
    <3>1. PinsInv'
      BY <2>1, <2>2, <2>3 DEF PinsInv, FreePins
    <3>2. pc = "peek" => \A k \in 1..Len(msgQ) : msgQ[k].cmd # "resume" /\ msgQ[k].move.mode # "line"
      BY <1>t, <2>1 DEF QueueInv, HoldInv
    <3>. QED BY <2>1, <2>3, <3>1, <3>2 DEF QueueInv, Printing
  <2>4. CASE JogEnd(i) /\ pins' = pins /\ msgQ' = TryAdd(Bounce)
    <3>1. move.mode # "line"
      BY <1>t, <2>4 DEF JogEnd, Due, AlarmInv
    <3>2. PinsInv'
      BY <1>t, <2>1, <2>2, <2>4, <3>1 DEF PinsInv
    <3>3. pc = "peek" => \A k \in 1..Len(msgQ) : msgQ[k].cmd # "resume" /\ msgQ[k].move.mode # "line"
      BY <1>t, <2>1 DEF QueueInv, HoldInv
    <3>4. Bounce \in Message /\ Bounce.cmd = "move" /\ Bounce.move.mode = "jog"
      BY <1>m, CountTypes, MoveTypes, PlainTypes DEF Bounce
    <3>5. \A k \in 1..Len(msgQ') : \/ k \in 1..Len(msgQ) /\ msgQ'[k] = msgQ[k]
                                   \/ msgQ'[k] = Bounce
      BY <1>t, <2>4, <3>4, Queued
    <3>. QED BY <2>1, <2>4, <3>2, <3>3, <3>4, <3>5 DEF QueueInv, Printing
  <2>5. \/ pins' = FreePins /\ msgQ' = msgQ
        \/ JogEnd(i) /\ pins' = pins /\ msgQ' = TryAdd(Bounce)
    <3>1. CASE JogEnd(i)
      BY <3>1 DEF JogEnd, Stop, Bounce
    <3>2. CASE LineEnd(i)
      <4>1. move.mode = "line"
        BY <1>t, <3>2 DEF LineEnd, Due, AlarmInv
      <4>2. ~AtSwitch([move EXCEPT !.stop = TRUE])
        BY <1>t, <4>1 DEF AtSwitch, TypeOK, Move
      <4>. QED BY <3>2, <4>2 DEF LineEnd, Stop
    <3>. QED BY <1>13, <3>1, <3>2
  <2>. QED BY <2>3, <2>4, <2>5
<1>14. CASE HostJog
  <2>1. \A n \in Lengths, d \in {0, 1} : MoveTo(Jog(n, d)) \in Message
    BY CountTypes, MoveTypes, PlainTypes
  <2>2. PICK m \in Message : Send(m) /\ m.cmd \in {"move", "home"} /\ m.move.mode # "line"
    BY <1>14, <1>m, <2>1, PlainTypes DEF HostJog
  <2>3. paused' = paused /\ paused \in BOOLEAN
    BY <1>t, <1>14 DEF HostJog, TypeOK
  <2>. QED BY <1>t, <2>2, <2>3, SendKeeps
<1>15. CASE HostLine
  <2>1. PICK m \in Message : Send(m) /\ m.cmd = "move"
    BY <1>15, <1>m, CountTypes, MoveTypes, PlainTypes DEF HostLine
  <2>2. paused' = paused /\ paused \in BOOLEAN /\ pins.ready = 1
    BY <1>t, <1>15 DEF HostLine, TypeOK
  <2>. QED BY <1>t, <2>1, <2>2, SendKeeps
<1>16. CASE HostUpdate
  <2>1. Plain("update") \in Message /\ Plain("update").cmd = "update"
        /\ Plain("update").move.mode = "none" /\ Send(Plain("update"))
    BY <1>16, <1>m, PlainTypes DEF HostUpdate
  <2>2. paused' = paused /\ paused \in BOOLEAN
    BY <1>t, <1>16 DEF HostUpdate, TypeOK
  <2>. QED BY <1>t, <2>1, <2>2, SendKeeps
<1>17. CASE HostResume
  <2>1. Plain("resume") \in Message /\ Plain("resume").cmd = "resume"
        /\ Plain("resume").move.mode = "none" /\ Send(Plain("resume"))
    BY <1>17, <1>m, PlainTypes DEF HostResume
  <2>2. paused' = FALSE /\ paused
    BY <1>17 DEF HostResume
  <2>. QED BY <1>t, <2>1, <2>2, SendKeeps
<1>18. CASE HostPause
  <2>1. Plain("pause") \in Message /\ Plain("pause").cmd = "pause"
        /\ Plain("pause").move.mode = "none" /\ Send(Plain("pause"))
    BY <1>18, <1>m, PlainTypes DEF HostPause
  <2>2. LinePending /\ pc \notin {"start", "launch"}
    BY <1>t, <1>18 DEF HostPause, LinePending, AlarmInv, Pending, Off
  <2>3. /\ pc = "peek" /\ Len(msgQ) = 0 /\ pc' = pc /\ pins' = pins /\ move' = move
        /\ inMotion' = inMotion /\ pool' = pool /\ msgQ' = TryAdd(Plain("pause"))
    BY <2>1, <2>2 DEF Send
  <2>4. Len(msgQ') = 1 /\ msgQ'[1] = Plain("pause")
    BY <1>t, <2>1, <2>3, Queued
  <2>5. HoldQueued'
    BY <2>1, <2>4 DEF HoldQueued
  <2>6. pins.sync = 0
    BY <1>t, <2>2, <2>3 DEF PinsInv
  <2>7. PinsInv'
    BY <1>t, <2>3, <2>5, <2>6 DEF PinsInv, LinePending
  <2>. QED BY <2>1, <2>3, <2>4, <2>7 DEF QueueInv, Printing
<1>19. CASE SyncRise
  BY <1>t, <1>19, PinsSame DEF SyncRise
<1>20. CASE LimitFall \/ LimitRise
  <2>1. move'.mode = move.mode
    BY <1>t, <1>20 DEF LimitFall, LimitRise, StopMove, TypeOK, Move
  <2>. QED BY <1>t, <1>20, <2>1, PinsSame DEF LimitFall, LimitRise
<1>. QED
  BY <1>2, <1>3, <1>4, <1>5, <1>6, <1>7, <1>8, <1>9, <1>10, <1>11, <1>12, <1>13,
     <1>14, <1>15, <1>16, <1>17, <1>18, <1>19, <1>20
  DEF Next, Core1, Callback, Host

LEMMA AxisStutter ==
  ASSUME AxisInv, UNCHANGED vars
  PROVE  PinsInv' /\ QueueInv'
BY PinsSame DEF AxisInv, vars, hostVars

-----------------------------------------------------------------------------
(* The queue of the axis, as a function of the messages that wait and of   *)
(* whether the axis is on its way back from the switch.                    *)

Back == pins.motion = 0 /\ ~inMotion
Shown(m, b) == m.cmd # "update" /\ ~(b /\ m = Bounce)
One(w, i, b) == IF i <= Len(w) /\ Shown(w[i], b) THEN <<Kind(w[i])>> ELSE <<>>
Queue(w, b)  == One(w, 1, b) \o One(w, 2, b)

LEMMA AsQueue ==
  AxisQueue = Queue(Waiting, Back) /\ AxisQueue' = Queue(Waiting', Back')
BY DEF AxisQueue, Posted, WayBack, Queue, One, Shown, Back

LEMMA Kinds ==
  /\ \A m \in Message : m.cmd # "update" => Kind(m) \in Ax!Commands
  /\ Bounce \in Message /\ Bounce.cmd = "move" /\ Kind(Bounce) = "jog"
<1>1. Bounce \in Message /\ Bounce.cmd = "move" /\ Bounce.move.mode = "jog"
  BY CountTypes, MoveTypes, PlainTypes DEF Bounce, MoveTo, Jog, NoMove
<1>2. \A m \in Message : m.cmd \in {"move", "home", "pause", "resume", "update"}
  BY DEF Message
<1>. QED BY <1>1, <1>2 DEF Kind, Ax!Commands

\* Short sequences of commands.
LEMMA Shorts ==
  /\ <<>> \o <<>> = <<>>
  /\ \A x \in Ax!Commands :
       /\ <<x>> # <<>> /\ Head(<<x>>) = x /\ Tail(<<x>>) = <<>> /\ Len(<<x>>) = 1
       /\ <<x>> \o <<>> = <<x>> /\ <<>> \o <<x>> = <<x>> /\ Append(<<>>, x) = <<x>>
  /\ \A x, y \in Ax!Commands :
       /\ <<x>> \o <<y>> # <<>> /\ Head(<<x>> \o <<y>>) = x
       /\ Tail(<<x>> \o <<y>>) = <<y>> /\ Append(<<x>>, y) = <<x>> \o <<y>>
<1> DEFINE C == Ax!Commands
<1>1. <<>> \in Seq(C) /\ \A x \in C : <<x>> \in Seq(C)
  OBVIOUS
<1> HIDE DEF C
<1>2. <<>> \o <<>> = <<>>
  BY <1>1, ConcatEmptySeq
<1>3. ASSUME NEW x \in C
      PROVE  /\ <<x>> # <<>> /\ Head(<<x>>) = x /\ Tail(<<x>>) = <<>> /\ Len(<<x>>) = 1
             /\ <<x>> \o <<>> = <<x>> /\ <<>> \o <<x>> = <<x>> /\ Append(<<>>, x) = <<x>>
  <2>1. <<x>> \o <<>> = <<x>> /\ <<>> \o <<x>> = <<x>>
    BY <1>1, <1>3, ConcatEmptySeq
  <2>2. Append(<<>>, x) = <<>> \o <<x>>
    BY <1>1, <1>3, AppendIsConcat
  <2>3. Head(Append(<<>>, x)) = x /\ Tail(Append(<<>>, x)) = <<>>
    BY <1>1, HeadTailAppend
  <2>4. <<x>> # <<>> /\ Len(<<x>>) = 1
    OBVIOUS
  <2>. QED BY <2>1, <2>2, <2>3, <2>4
<1>4. ASSUME NEW x \in C, NEW y \in C
      PROVE  /\ <<x>> \o <<y>> # <<>> /\ Head(<<x>> \o <<y>>) = x
             /\ Tail(<<x>> \o <<y>>) = <<y>> /\ Append(<<x>>, y) = <<x>> \o <<y>>
  <2>1. Append(<<x>>, y) = <<x>> \o <<y>>
    BY <1>1, AppendIsConcat
  <2>2. <<x>> \o <<y>> # <<>>
    BY <1>1, <2>1, AppendProperties
  <2>3. Head(Append(<<x>>, y)) = Head(<<x>>) /\ Tail(Append(<<x>>, y)) = Append(Tail(<<x>>), y)
    BY <1>1, <1>3, HeadTailAppend
  <2>. QED BY <1>3, <2>1, <2>2, <2>3
<1>. QED BY <1>2, <1>3, <1>4 DEF C

\* Taking the first message away.
LEMMA QueueTail ==
  ASSUME NEW w \in Seq(Message), Len(w) \in 1..2, NEW b \in BOOLEAN
  PROVE  /\ Shown(w[1], b) => /\ Queue(w, b) # <<>> /\ Head(Queue(w, b)) = Kind(w[1])
                              /\ Tail(Queue(w, b)) = Queue(Tail(w), b)
         /\ ~Shown(w[1], b) => Queue(w, b) = Queue(Tail(w), b)
<1>1. /\ Tail(w) \in Seq(Message) /\ Len(Tail(w)) = Len(w) - 1 /\ w[1] \in Message
      /\ Len(w) = 2 => Tail(w)[1] = w[2] /\ w[2] \in Message
  OBVIOUS
<1>2. Queue(Tail(w), b) = One(w, 2, b) \o <<>>
  <2>1. One(Tail(w), 2, b) = <<>>
    BY <1>1 DEF One
  <2>2. One(Tail(w), 1, b) = One(w, 2, b)
    <3>1. CASE Len(w) = 2
      BY <1>1, <3>1 DEF One
    <3>2. CASE Len(w) = 1
      <4>1. ~(2 <= Len(w)) /\ ~(1 <= Len(Tail(w)))
        <5>1. Len(Tail(w)) = 0 /\ ~(2 <= 1) /\ ~(1 <= 0)
          BY <1>1, <3>2, SMT
        <5>. QED BY <3>2, <5>1, Zenon
      <4>. QED BY <4>1 DEF One
    <3>. QED BY <3>1, <3>2
  <2>. QED BY <2>1, <2>2 DEF Queue
<1>3. One(w, 2, b) = <<>> \/ \E x \in Ax!Commands : One(w, 2, b) = <<x>>
  BY <1>1, Kinds DEF One, Shown
<1>4. Queue(Tail(w), b) = One(w, 2, b)
  BY <1>2, <1>3, Shorts
<1>5. ASSUME Shown(w[1], b)
      PROVE  /\ Queue(w, b) # <<>> /\ Head(Queue(w, b)) = Kind(w[1])
             /\ Tail(Queue(w, b)) = One(w, 2, b)
  <2>1. One(w, 1, b) = <<Kind(w[1])>> /\ Kind(w[1]) \in Ax!Commands
    BY <1>1, <1>5, Kinds DEF One, Shown
  <2>. QED BY <1>3, <2>1, Shorts DEF Queue
<1>6. ASSUME ~Shown(w[1], b) PROVE Queue(w, b) = One(w, 2, b)
  <2>1. One(w, 1, b) = <<>>
    BY <1>6 DEF One
  <2>. QED BY <1>3, <2>1, Shorts DEF Queue
<1>. QED BY <1>4, <1>5, <1>6

\* A queue of at most one.
LEMMA QueueOne ==
  ASSUME NEW w \in Seq(Message), Len(w) <= 1, NEW b \in BOOLEAN
  PROVE  Queue(w, b) = One(w, 1, b)
<1>1. One(w, 2, b) = <<>> /\ (Len(w) = 1 => w[1] \in Message)
  BY DEF One
<1>2. One(w, 1, b) = <<>> \/ \E x \in Ax!Commands : One(w, 1, b) = <<x>>
  BY <1>1, Kinds DEF One, Shown
<1>. QED BY <1>1, <1>2, Shorts DEF Queue

\* Adding a message behind at most one.
LEMMA QueueAppend ==
  ASSUME NEW w \in Seq(Message), Len(w) <= 1, NEW m \in Message, NEW b \in BOOLEAN
  PROVE  /\ Queue(Append(w, m), b) = IF Shown(m, b) THEN Append(Queue(w, b), Kind(m))
                                                    ELSE Queue(w, b)
         /\ Len(Queue(w, b)) <= Len(w)
<1> DEFINE v == Append(w, m)
<1>1. /\ v \in Seq(Message) /\ Len(v) = Len(w) + 1 /\ v[Len(w) + 1] = m
      /\ Len(w) = 1 => v[1] = w[1] /\ w[1] \in Message
      /\ Len(w) \in {0, 1}
  <2>1. Len(w) \in Nat
    BY LenProperties
  <2>2. Len(w) \in {0, 1}
    <3>1. \A n \in Nat : n <= 1 => n \in {0, 1}
      OBVIOUS
    <3>. QED BY <2>1, <3>1
  <2>3. /\ Append(w, m) \in Seq(Message) /\ Len(Append(w, m)) = Len(w) + 1
        /\ \A i \in 1..Len(w) : Append(w, m)[i] = w[i]
        /\ Append(w, m)[Len(w) + 1] = m
    BY AppendProperties
  <2>4. Len(w) = 1 => 1 \in 1..Len(w) /\ w[1] \in Message
    OBVIOUS
  <2>. QED BY <2>2, <2>3, <2>4
<1> HIDE DEF v
<1>2. Queue(w, b) = One(w, 1, b)
  BY QueueOne
<1>3. Shown(m, b) => Kind(m) \in Ax!Commands
  BY Kinds DEF Shown
<1>4. CASE Len(w) = 0
  <2>1. One(w, 1, b) = <<>> /\ Len(<<>>) = 0
    BY <1>4 DEF One
  <2>2. Len(v) = 1 /\ Len(v) <= 1 /\ v[1] = m
    BY <1>1, <1>4
  <2>3. Queue(v, b) = One(v, 1, b)
    BY <1>1, <2>2, QueueOne
  <2>4. Queue(v, b) = IF Shown(m, b) THEN <<Kind(m)>> ELSE <<>>
    BY <2>2, <2>3 DEF One
  <2>5. Queue(v, b) = IF Shown(m, b) THEN Append(<<>>, Kind(m)) ELSE <<>>
    BY <1>3, <2>4, Shorts
  <2>6. Queue(w, b) = <<>>
    BY <1>2, <2>1
  <2>7. Len(Queue(w, b)) <= Len(w)
    BY <1>4, <2>1, <2>6
  <2>. QED BY <2>5, <2>6, <2>7 DEF v
<1>5. CASE Len(w) = 1
  <2>1. /\ One(v, 1, b) = One(w, 1, b)
        /\ One(v, 2, b) = IF Shown(m, b) THEN <<Kind(m)>> ELSE <<>>
    BY <1>1, <1>5 DEF One
  <2>2. One(w, 1, b) = <<>> \/ \E x \in Ax!Commands : One(w, 1, b) = <<x>>
    BY <1>1, <1>5, Kinds DEF One, Shown
  <2>3. Len(One(w, 1, b)) <= 1
    <3>1. Len(<<>>) = 0 /\ \A x \in Ax!Commands : Len(<<x>>) = 1
      OBVIOUS
    <3>2. CASE One(w, 1, b) = <<>>
      BY <3>1, <3>2
    <3>3. ASSUME NEW x \in Ax!Commands, One(w, 1, b) = <<x>> PROVE Len(One(w, 1, b)) <= 1
      <4>1. Len(<<x>>) = 1 /\ 1 <= 1
        BY <3>1
      <4>. QED BY <3>3, <4>1, Zenon
    <3>. QED BY <2>2, <3>2, <3>3
  <2>4. Queue(v, b) = One(w, 1, b) \o (IF Shown(m, b) THEN <<Kind(m)>> ELSE <<>>)
    BY <2>1 DEF Queue
  <2>5. Queue(v, b) = IF Shown(m, b) THEN Append(One(w, 1, b), Kind(m)) ELSE One(w, 1, b)
    <3>1. CASE Shown(m, b)
      BY <1>3, <2>2, <2>4, <3>1, Shorts
    <3>2. CASE ~Shown(m, b)
      BY <2>2, <2>4, <3>2, Shorts
    <3>. QED BY <3>1, <3>2
  <2>. QED BY <1>2, <1>5, <2>3, <2>5 DEF v
<1>. QED BY <1>1, <1>4, <1>5

\* The way back hides at most a jog.
LEMMA QueueBack ==
  ASSUME NEW w \in Seq(Message), Len(w) <= 1
  PROVE  \/ Queue(w, FALSE) = Queue(w, TRUE)
         \/ Queue(w, TRUE) = <<>> /\ Queue(w, FALSE) = <<"jog">>
<1>1. Queue(w, FALSE) = One(w, 1, FALSE) /\ Queue(w, TRUE) = One(w, 1, TRUE)
  BY QueueOne
<1>. QED BY <1>1, Kinds DEF One, Shown

-----------------------------------------------------------------------------
(* Every step is a step of the axis.                                       *)

\* What the pins tell, before and after a step.
LEMMA States ==
  /\ Printing => AxisState = "idle"
  /\ ~Printing /\ pc = "launch" => AxisState = "armed"
  /\ ~Printing /\ pc # "launch" =>
       /\ pins.ready = 1 => AxisState = "idle"
       /\ pins.ready = 0 /\ pins.sync = 0 => AxisState = "run"
       /\ pins.ready = 0 /\ pins.sync = 1 /\ pins.motion = 1 => AxisState = "held"
       /\ pins.ready = 0 /\ pins.sync = 1 /\ pins.motion = 0 => AxisState = "jog"
  /\ Waiting = IF pc = "peek" \/ Printing THEN msgQ ELSE Tail(msgQ)
BY DEF AxisState, Waiting

LEMMA NextStates ==
  /\ Printing' => AxisState' = "idle"
  /\ ~Printing' /\ pc' = "launch" => AxisState' = "armed"
  /\ ~Printing' /\ pc' # "launch" =>
       /\ pins'.ready = 1 => AxisState' = "idle"
       /\ pins'.ready = 0 /\ pins'.sync = 0 => AxisState' = "run"
       /\ pins'.ready = 0 /\ pins'.sync = 1 /\ pins'.motion = 1 => AxisState' = "held"
       /\ pins'.ready = 0 /\ pins'.sync = 1 /\ pins'.motion = 0 => AxisState' = "jog"
  /\ Waiting' = IF pc' = "peek" \/ Printing' THEN msgQ' ELSE Tail(msgQ')
BY DEF AxisState, Waiting

LEMMA ShortTail ==
  ASSUME NEW w \in Seq(Message), w # <<>>, Len(w) \in 0..2
  PROVE  Tail(w) \in Seq(Message) /\ Len(Tail(w)) <= 1
<1>1. Tail(w) \in Seq(Message) /\ Len(Tail(w)) = Len(w) - 1
  BY HeadTailProperties
<1>2. \A n \in 0..2 : n - 1 <= 1
  OBVIOUS
<1>. QED BY <1>1, <1>2

\* A step the host cannot see.
LEMMA Unseen ==
  ASSUME AxisState' = AxisState, AxisQueue' = AxisQueue, permit' = permit
  PROVE  UNCHANGED Ax!axisVars
BY DEF Ax!axisVars

LEMMA QueueSame ==
  ASSUME Waiting' = Waiting, inMotion' = inMotion, pins'.motion = pins.motion
  PROVE  AxisQueue' = AxisQueue
BY AsQueue DEF Back

\* The pins and the thread stay, and so does what waits.
LEMMA Hidden ==
  ASSUME pins' = pins, inMotion' = inMotion, move'.mode = move.mode, permit' = permit,
         \/ pc' = pc /\ msgQ' = msgQ
         \/ pc \in {"start", "cancel"} /\ pc' = "remove" /\ ~Printing /\ msgQ' = msgQ
         \/ pc = "remove" /\ pc' = "peek" /\ msgQ' = Tail(msgQ)
  PROVE  UNCHANGED Ax!axisVars
<1>1. AxisState' = AxisState
  BY DEF AxisState, Printing
<1>2. Waiting' = Waiting
  BY DEF Waiting, Printing
<1>. QED BY <1>1, <1>2, QueueSame, Unseen

\* The axis takes the first message that waits.
LEMMA Taken ==
  ASSUME TypeOK, msgQ # <<>>, Waiting = msgQ, Waiting' = Tail(msgQ), Back' = Back,
         permit' = permit
  PROVE  /\ ~Shown(Head(msgQ), Back) => AxisQueue' = AxisQueue
         /\ Shown(Head(msgQ), Back) => Ax!Take(Kind(Head(msgQ)), AxisState, AxisState')
<1>1. msgQ \in Seq(Message) /\ Len(msgQ) \in 1..2 /\ Head(msgQ) = msgQ[1]
  BY HeadAndTail DEF TypeOK, QueueLen
<1>2. Back \in BOOLEAN
  BY DEF Back
<1>3. AxisQueue = Queue(msgQ, Back) /\ AxisQueue' = Queue(Tail(msgQ), Back)
  BY AsQueue
<1>4. /\ Shown(msgQ[1], Back) => /\ Queue(msgQ, Back) # <<>>
                                 /\ Head(Queue(msgQ, Back)) = Kind(msgQ[1])
                                 /\ Tail(Queue(msgQ, Back)) = Queue(Tail(msgQ), Back)
      /\ ~Shown(msgQ[1], Back) => Queue(msgQ, Back) = Queue(Tail(msgQ), Back)
  BY <1>1, <1>2, QueueTail
<1>5. ASSUME Shown(msgQ[1], Back) PROVE Ax!Take(Kind(msgQ[1]), AxisState, AxisState')
  <2>1. AxisQueue # <<>> /\ Head(AxisQueue) = Kind(msgQ[1]) /\ AxisQueue' = Tail(AxisQueue)
    BY <1>3, <1>4, <1>5
  <2>. QED BY <2>1 DEF Ax!Take
<1>. QED BY <1>1, <1>3, <1>4, <1>5

\* A message from the host.
LEMMA Sent ==
  ASSUME TypeOK, NEW m \in Message, Send(m), {"prompt", "hold"} \subseteq Calm
  PROVE  Ax!Next \/ UNCHANGED Ax!axisVars
<1>1. /\ msgQ' = TryAdd(m) /\ pc' = pc /\ pins' = pins /\ move' = move /\ inMotion' = inMotion
      /\ permit' = permit
      /\ (pc = "peek" /\ msgQ = <<>>) \/ pc \in {"start", "launch"}
  BY DEF Send
<1>2. AxisState' = AxisState /\ (Printing' <=> Printing)
  BY <1>1 DEF AxisState, Printing
<1>3. msgQ \in Seq(Message) /\ Len(msgQ) \in 0..2 /\ (pc # "peek" => msgQ # <<>>)
  BY HeadAndTail DEF TypeOK, QueueLen
<1>4. CASE ~(Len(msgQ) < 2)
  <2>1. Waiting' = Waiting
    BY <1>1, <1>2, <1>4 DEF Waiting, TryAdd, QueueLen
  <2>. QED BY <1>1, <1>2, <2>1, QueueSame, Unseen
<1>5. CASE Len(msgQ) < 2
  <2>1. msgQ' = Append(msgQ, m)
    BY <1>1, <1>5 DEF TryAdd, QueueLen
  <2>2. /\ Waiting \in Seq(Message) /\ Len(Waiting) <= 1 /\ Waiting' = Append(Waiting, m)
        /\ AxisState = "armed" => Len(Waiting) = 0
    <3>1. CASE pc = "peek" \/ Printing
      <4>1. Waiting = msgQ /\ Waiting' = Append(msgQ, m)
        BY <1>1, <1>2, <2>1, <3>1 DEF Waiting
      <4>2. AxisState # "armed"
        <5>1. pins.ready \in {0, 1} /\ pins.sync \in {0, 1} /\ pins.motion \in {0, 1}
          BY DEF TypeOK, Levels
        <5>. QED BY <3>1, <5>1, States
      <4>. QED BY <1>3, <1>5, <4>1, <4>2
    <3>2. CASE ~(pc = "peek" \/ Printing)
      <4>1. Waiting = Tail(msgQ) /\ Waiting' = Tail(Append(msgQ, m))
        BY <1>1, <1>2, <2>1, <3>2 DEF Waiting
      <4>2. msgQ # <<>> /\ Tail(Append(msgQ, m)) = Append(Tail(msgQ), m)
        BY <1>3, <3>2, HeadTailAppend
      <4>3. Tail(msgQ) \in Seq(Message) /\ Len(Tail(msgQ)) = Len(msgQ) - 1
        BY <1>3, <4>2, HeadTailProperties
      <4>4. Len(Tail(msgQ)) = 0
        <5>1. \A n \in 0..2 : n < 2 /\ n - 1 \in Nat => n - 1 = 0
          OBVIOUS
        <5>2. Len(Tail(msgQ)) \in Nat
          BY <4>3, LenProperties
        <5>. QED BY <1>3, <1>5, <4>3, <5>1, <5>2
      <4>. QED BY <4>1, <4>2, <4>3, <4>4
    <3>. QED BY <3>1, <3>2
  <2>3. Back \in BOOLEAN /\ Back' = Back
    BY <1>1 DEF Back
  <2>4. /\ AxisQueue' = IF Shown(m, Back) THEN Append(AxisQueue, Kind(m)) ELSE AxisQueue
        /\ Len(AxisQueue) <= Len(Waiting)
    BY <2>2, <2>3, AsQueue, QueueAppend
  <2>5. CASE Shown(m, Back)
    <3>1. Kind(m) \in Ax!Commands
      BY <2>5, Kinds DEF Shown
    <3>2. Len(AxisQueue) < Ax!Room
      <4>1. AxisState = "armed" => Len(AxisQueue) <= 0
        BY <2>2, <2>4
      <4>2. Len(AxisQueue) <= 1
        BY <2>2, <2>4
      <4>. QED BY <4>1, <4>2 DEF Ax!Room, Ax!QueueLen
    <3>3. Ax!Post(Kind(m))
      BY <1>1, <1>2, <2>4, <2>5, <3>2 DEF Ax!Post
    <3>. QED BY <3>1, <3>3 DEF Ax!Next
  <2>6. CASE ~Shown(m, Back)
    BY <1>1, <1>2, <2>4, <2>6, Unseen
  <2>. QED BY <2>5, <2>6
<1>. QED BY <1>4, <1>5

\* A move is taken: by an axis that is ready, or as the way back from the switch.
LEMMA JogTaken ==
  ASSUME AxisInv, NEW m, NEW n, NEW zero, Accept(m, n, zero), m.mode # "line",
         msgQ # <<>>, Head(msgQ).cmd \in {"move", "home"}, Kind(Head(msgQ)) = "jog"
  PROVE  Ax!Next \/ UNCHANGED Ax!axisVars
<1>1. /\ ~inMotion /\ inMotion' /\ pc = "peek" /\ pc' = "start" /\ msgQ' = msgQ
      /\ permit' = permit /\ move' = m
      /\ pins'.motion = 0 /\ pins'.ready = 0 /\ pins'.sync = pins.sync
  BY DEF Accept, Thread, hostVars, AxisInv, MotionInv, TypeOK, Levels
<1>2. pins.sync = 1 /\ pins.ready = pins.motion /\ pins.ready \in {0, 1}
  BY <1>1 DEF AxisInv, MotionInv, PinsInv, TypeOK, Levels
<1>3. Waiting = msgQ /\ Waiting' = Tail(msgQ) /\ AxisState' = "jog"
  <2>1. ~Printing'
    BY <1>1 DEF Printing
  <2>. QED BY <1>1, <1>2, <2>1, States, NextStates
<1>4. CASE pins.ready = 1
  <2>1. Back' = Back /\ ~Back /\ AxisState = "idle"
    BY <1>1, <1>2, <1>4, States DEF Back, Printing
  <2>2. Shown(Head(msgQ), Back)
    BY <2>1 DEF Shown
  <2>3. Ax!Take("jog", "idle", "jog")
    BY <1>1, <1>3, <2>1, <2>2, Taken DEF AxisInv, MotionInv
  <2>. QED BY <2>3 DEF Ax!HandleJog, Ax!Handle, Ax!Next
<1>5. CASE pins.ready = 0
  <2>1. Back = TRUE /\ Back' = FALSE /\ AxisState = "jog"
    BY <1>1, <1>2, <1>5, States DEF Back, Printing
  <2>2. msgQ \in Seq(Message) /\ Len(msgQ) \in 1..2 /\ Head(msgQ) = msgQ[1]
    BY HeadAndTail DEF AxisInv, MotionInv, TypeOK, QueueLen
  <2>3. Tail(msgQ) \in Seq(Message) /\ Len(Tail(msgQ)) <= 1
    BY <2>2, ShortTail
  <2>4. AxisQueue = Queue(msgQ, TRUE) /\ AxisQueue' = Queue(Tail(msgQ), FALSE)
    BY <1>3, <2>1, AsQueue
  <2>5. \/ AxisQueue' = Queue(Tail(msgQ), TRUE)
        \/ Queue(Tail(msgQ), TRUE) = <<>> /\ AxisQueue' = <<"jog">>
    BY <2>3, <2>4, QueueBack
  <2>6. CASE ~Shown(msgQ[1], TRUE)
    <3>1. AxisQueue = Queue(Tail(msgQ), TRUE)
      BY <2>2, <2>4, <2>6, QueueTail
    <3>2. CASE AxisQueue' = Queue(Tail(msgQ), TRUE)
      BY <1>1, <1>3, <2>1, <3>1, <3>2, Unseen
    <3>3. CASE Queue(Tail(msgQ), TRUE) = <<>> /\ AxisQueue' = <<"jog">>
      <4>1. AxisQueue = <<>> /\ Len(<<>>) = 0
        BY <3>1, <3>3
      <4>2. AxisQueue' = Append(AxisQueue, "jog")
        BY <3>3, <4>1, Shorts DEF Ax!Commands
      <4>3. Ax!Post("jog")
        BY <1>1, <1>3, <2>1, <4>1, <4>2 DEF Ax!Post, Ax!Room, Ax!QueueLen
      <4>. QED BY <4>3 DEF Ax!Next, Ax!Commands
    <3>. QED BY <2>5, <3>2, <3>3
  <2>7. CASE Shown(msgQ[1], TRUE)
    <3>1. AxisQueue # <<>> /\ Head(AxisQueue) = "jog" /\ Tail(AxisQueue) = Queue(Tail(msgQ), TRUE)
      BY <2>2, <2>4, <2>7, QueueTail
    <3>2. CASE AxisQueue' = Queue(Tail(msgQ), TRUE)
      <4>1. Ax!Take("jog", "jog", "jog")
        BY <1>1, <1>3, <2>1, <3>1, <3>2 DEF Ax!Take
      <4>. QED BY <4>1 DEF Ax!HandleIgnored, Ax!Handle, Ax!Next
    <3>3. CASE Queue(Tail(msgQ), TRUE) = <<>> /\ AxisQueue' = <<"jog">>
      <4>1. AxisQueue = One(msgQ, 1, TRUE) \o One(msgQ, 2, TRUE)
        BY <2>4 DEF Queue
      <4>2. One(msgQ, 1, TRUE) = <<"jog">>
        BY <2>2, <2>7 DEF One
      <4>3. One(msgQ, 2, TRUE) = <<>>
        <5>1. Tail(<<"jog">> \o One(msgQ, 2, TRUE)) = <<>>
          BY <3>1, <3>3, <4>1, <4>2
        <5>2. One(msgQ, 2, TRUE) = <<>> \/ \E x \in Ax!Commands : One(msgQ, 2, TRUE) = <<x>>
          <6>1. Len(msgQ) >= 2 => msgQ[2] \in Message
            BY <2>2
          <6>. QED BY <6>1, Kinds DEF One, Shown
        <5>. QED BY <5>1, <5>2, Shorts DEF Ax!Commands
      <4>4. AxisQueue = <<"jog">>
        BY <4>1, <4>2, <4>3, Shorts DEF Ax!Commands
      <4>. QED BY <1>1, <1>3, <2>1, <3>3, <4>4, Unseen
    <3>. QED BY <2>5, <3>2, <3>3
  <2>. QED BY <2>6, <2>7
<1>. QED BY <1>2, <1>4, <1>5

\* The end of a jog at the switch, which queues the way back.
LEMMA SwitchReached ==
  ASSUME AxisInv, NEW i \in Slots, JogEnd(i), pins' = pins, msgQ' = TryAdd(Bounce), ~inMotion',
         "prompt" \in Calm
  PROVE  Ax!Next \/ UNCHANGED Ax!axisVars
<1>t. TypeOK /\ AlarmInv /\ PinsInv
  BY DEF AxisInv, MotionInv
<1>1. /\ pool[i] # Off /\ inMotion /\ pc' = pc /\ permit' = permit
      /\ move.mode # "line" /\ Len(msgQ) < 2
  BY <1>t DEF JogEnd, Due, Off, Stop, AlarmInv, QueueLen
<1>2. /\ pc \notin {"start", "launch"} /\ ~Printing /\ ~Printing'
      /\ pins.ready = 0 /\ pins.motion = 0 /\ pins.sync = 1
  BY <1>t, <1>1 DEF AlarmInv, Pending, PinsInv, Printing, TypeOK, Levels
<1>3. AxisState = "jog" /\ AxisState' = "jog" /\ Back = FALSE /\ Back' = TRUE
  BY <1>1, <1>2, States, NextStates DEF Back
<1>4. Waiting \in Seq(Message) /\ Len(Waiting) <= 1 /\ Waiting' = Append(Waiting, Bounce)
  <2>1. msgQ' = Append(msgQ, Bounce)
    BY <1>1 DEF TryAdd, QueueLen
  <2>2. msgQ \in Seq(Message) /\ Len(msgQ) \in 0..2 /\ (pc # "peek" => msgQ # <<>>)
    BY <1>t, HeadAndTail DEF TypeOK, QueueLen
  <2>3. CASE pc = "peek"
    BY <1>1, <1>2, <2>1, <2>2, <2>3, States, NextStates
  <2>4. CASE pc # "peek"
    <3>1. Waiting = Tail(msgQ) /\ Waiting' = Tail(Append(msgQ, Bounce))
      BY <1>1, <1>2, <2>1, <2>4, States, NextStates
    <3>2. Tail(Append(msgQ, Bounce)) = Append(Tail(msgQ), Bounce)
      BY <2>2, <2>4, HeadTailAppend
    <3>3. Tail(msgQ) \in Seq(Message) /\ Len(Tail(msgQ)) <= 1
      BY <2>2, <2>4, ShortTail
    <3>. QED BY <3>1, <3>2, <3>3
  <2>. QED BY <2>3, <2>4
<1>5. AxisQueue = Queue(Waiting, FALSE) /\ AxisQueue' = Queue(Waiting, TRUE)
  <2>1. ~Shown(Bounce, TRUE) /\ Bounce \in Message
    BY Kinds DEF Shown
  <2>2. Queue(Append(Waiting, Bounce), TRUE) = Queue(Waiting, TRUE)
    BY <1>4, <2>1, QueueAppend
  <2>. QED BY <1>3, <1>4, <2>2, AsQueue
<1>6. CASE AxisQueue' = AxisQueue
  BY <1>1, <1>3, <1>6, Unseen
<1>7. CASE AxisQueue' = <<>> /\ AxisQueue = <<"jog">>
  <2>1. Ax!Take("jog", "jog", "jog")
    BY <1>1, <1>3, <1>7, Shorts DEF Ax!Take, Ax!Commands
  <2>. QED BY <2>1 DEF Ax!HandleIgnored, Ax!Handle, Ax!Next
<1>. QED BY <1>4, <1>5, <1>6, <1>7, QueueBack

LEMMA AxisRefines ==
  ASSUME AxisInv, Next, {"prompt", "hold"} \subseteq Calm
  PROVE  Ax!Next \/ UNCHANGED Ax!axisVars
<1>t. /\ TypeOK /\ AlarmInv /\ HoldInv /\ SyncInv /\ PinsInv /\ QueueInv
      /\ pins \in Levels
      /\ pins.ready \in {0, 1} /\ pins.sync \in {0, 1} /\ pins.motion \in {0, 1}
  BY DEF AxisInv, MotionInv, TypeOK, Levels
<1>q. msgQ # <<>> => 1 \in 1..Len(msgQ) /\ Head(msgQ) = msgQ[1] /\ msgQ[1] \in Message
  BY <1>t, HeadAndTail DEF TypeOK
<1>k. \A n, d : MoveTo(Jog(n, d)).cmd = "move" /\ Jog(n, d).mode = "jog" /\ Homing(n).mode = "homing"
  BY DEF MoveTo, Jog, Homing, NoMove
<1>1. CASE HandleMove
  <2>1. /\ msgQ # <<>> /\ Head(msgQ).cmd = "move" /\ \E n, z : Accept(Head(msgQ).move, n, z)
        /\ pc = "peek" /\ pc' = "start" /\ msgQ' = msgQ /\ inMotion' /\ permit' = permit
        /\ move' = Head(msgQ).move
    BY <1>1 DEF HandleMove, Command, Accept, Thread
  <2>2. CASE Head(msgQ).move.mode # "line"
    <3>1. Kind(Head(msgQ)) = "jog"
      BY <2>1, <2>2 DEF Kind
    <3>. QED BY <2>1, <2>2, <3>1, JogTaken
  <2>3. CASE Head(msgQ).move.mode = "line"
    <3>1. pins.ready = 1
      BY <1>q, <1>t, <2>1, <2>3 DEF QueueInv
    <3>2. ~inMotion /\ pins.motion = 1
      BY <1>1, <1>t, <3>1 DEF HandleMove, Accept, PinsInv
    <3>3. Printing' /\ ~Printing
      BY <2>1, <2>3 DEF Printing
    <3>4. AxisState = "idle" /\ AxisState' = "idle" /\ Waiting' = Waiting
      BY <2>1, <3>1, <3>3, States, NextStates
    <3>5. Back' = Back
      BY <2>1, <3>2 DEF Back
    <3>. QED BY <2>1, <3>4, <3>5, AsQueue, Unseen
  <2>. QED BY <2>2, <2>3
<1>2. CASE HandleHome
  <2>1. PICK m, n, zero : Accept(m, n, zero) /\ m.mode # "line"
    BY <1>k, <1>2 DEF HandleHome
  <2>2. msgQ # <<>> /\ Head(msgQ).cmd = "home" /\ Kind(Head(msgQ)) = "jog"
    BY <1>2 DEF HandleHome, Command, Kind
  <2>. QED BY <2>1, <2>2, JogTaken
<1>3. CASE HandleNothing
  <2>1. /\ pc = "peek" /\ pc' = "remove" /\ msgQ' = msgQ /\ pins' = pins /\ move' = move
        /\ inMotion' = inMotion /\ permit' = permit /\ msgQ # <<>> /\ ~Printing /\ ~Printing'
        /\ \/ Head(msgQ).cmd = "update"
           \/ Head(msgQ).cmd \in {"move", "home"} /\ inMotion
    BY <1>3 DEF HandleNothing, Thread, Command, hostVars, Printing
  <2>2. Waiting = msgQ /\ Waiting' = Tail(msgQ) /\ AxisState' = AxisState /\ Back' = Back
    <3>1. Waiting = msgQ /\ Waiting' = Tail(msgQ)
      BY <2>1, States, NextStates
    <3>2. AxisState' = AxisState
      BY <1>t, <2>1, States, NextStates
    <3>. QED BY <2>1, <3>1, <3>2 DEF Back
  <2>3. CASE ~Shown(Head(msgQ), Back)
    BY <1>t, <2>1, <2>2, <2>3, Taken, Unseen
  <2>4. CASE Shown(Head(msgQ), Back)
    <3>1. Ax!Take(Kind(Head(msgQ)), AxisState, AxisState)
      BY <1>t, <2>1, <2>2, <2>4, Taken
    <3>2. inMotion /\ Head(msgQ).cmd \in {"move", "home"}
      BY <2>1, <2>4 DEF Shown
    <3>3. Kind(Head(msgQ)) \in {"line", "jog"}
      BY <3>2 DEF Kind
    <3>4. pins.ready = 0
      BY <1>t, <3>2 DEF AlarmInv
    <3>5. AxisState \in {"jog", "run", "held"}
      BY <1>t, <2>1, <3>4, States
    <3>6. Ax!HandleIgnored
      BY <3>1, <3>3, <3>5 DEF Ax!HandleIgnored
    <3>. QED BY <3>6 DEF Ax!Handle, Ax!Next
  <2>. QED BY <2>3, <2>4
<1>4. CASE HandlePause
  <2>1. /\ pc = "peek" /\ pc' = "cancel" /\ msgQ' = msgQ /\ move' = move
        /\ inMotion' = inMotion /\ permit' = permit /\ msgQ # <<>> /\ Head(msgQ).cmd = "pause"
        /\ pins'.motion = 1 /\ pins'.sync = 1 /\ pins'.ready = pins.ready
        /\ ~Printing /\ ~Printing'
    BY <1>t, <1>4 DEF HandlePause, HeldPins, Thread, Command, hostVars, Levels, Printing
  <2>2. paused /\ inMotion /\ HoldQueued
    BY <1>t, <1>q, <2>1 DEF HoldInv, HoldQueued
  <2>3. pins.sync = 0 /\ pins.ready = 0
    BY <1>t, <2>1, <2>2 DEF PinsInv, AlarmInv
  <2>4. AxisState = "run" /\ AxisState' = "held" /\ Waiting = msgQ /\ Waiting' = Tail(msgQ)
    BY <2>1, <2>3, States, NextStates
  <2>5. Back' = Back /\ Shown(Head(msgQ), Back) /\ Kind(Head(msgQ)) = "pause"
    BY <1>k, <2>1, <2>2 DEF Back, Shown, Kind, Bounce
  <2>6. Ax!HandlePause
    BY <1>t, <2>1, <2>4, <2>5, Taken DEF Ax!HandlePause
  <2>. QED BY <2>6 DEF Ax!Handle, Ax!Next
<1>5. CASE Cancel
  BY <1>5, Hidden DEF Cancel, Thread, hostVars, Printing
<1>6. CASE HandleResume
  <2>1. /\ pc = "peek" /\ pc' = "launch" /\ msgQ' = msgQ /\ move' = move
        /\ inMotion' = inMotion /\ permit' = permit /\ msgQ # <<>> /\ Head(msgQ).cmd = "resume"
        /\ pins'.motion = 0 /\ pins'.sync = 0 /\ pins'.ready = pins.ready
        /\ ~Printing /\ ~Printing'
    BY <1>t, <1>6 DEF HandleResume, SyncReady, ResumedPins, Thread, Command, hostVars, Levels,
                      Printing
  <2>2. inMotion /\ pins.sync = 1 /\ pins.motion = 1
    BY <1>t, <1>q, <2>1 DEF HoldInv, QueueInv
  <2>3. pins.ready = 0
    BY <1>t, <2>2 DEF AlarmInv
  <2>4. AxisState = "held" /\ AxisState' = "armed" /\ Waiting = msgQ /\ Waiting' = Tail(msgQ)
    BY <2>1, <2>2, <2>3, States, NextStates
  <2>5. Back' = Back /\ Shown(Head(msgQ), Back) /\ Kind(Head(msgQ)) = "resume"
    BY <1>k, <2>1, <2>2 DEF Back, Shown, Kind, Bounce
  <2>6. Ax!HandleResume
    BY <1>t, <2>1, <2>4, <2>5, Taken DEF Ax!HandleResume
  <2>. QED BY <2>6 DEF Ax!Handle, Ax!Next
<1>7. CASE StartJog
  BY <1>7, Hidden DEF StartJog, Thread, hostVars, Printing
<1>8. CASE StartLine
  <2>1. /\ pc = "start" /\ pc' = "launch" /\ msgQ' = msgQ /\ inMotion' = inMotion
        /\ permit' = permit /\ Printing /\ ~Printing' /\ pins'.motion = pins.motion
    BY <1>t, <1>8 DEF StartLine, SyncReady, Thread, hostVars, Levels, Printing
  <2>2. inMotion /\ msgQ # <<>>
    BY <1>t, <2>1 DEF AlarmInv, TypeOK
  <2>3. Head(msgQ).cmd = "move" /\ Head(msgQ).move.mode = "line"
    BY <1>t, <2>1 DEF QueueInv
  <2>4. AxisState = "idle" /\ AxisState' = "armed" /\ Waiting = msgQ /\ Waiting' = Tail(msgQ)
    BY <2>1, States, NextStates
  <2>5. Back' = Back /\ Shown(Head(msgQ), Back) /\ Kind(Head(msgQ)) = "line"
    BY <2>1, <2>2, <2>3 DEF Back, Shown, Kind
  <2>6. Ax!HandleLine
    BY <1>t, <2>1, <2>2, <2>4, <2>5, Taken DEF Ax!HandleLine
  <2>. QED BY <2>6 DEF Ax!Handle, Ax!Next
<1>9. CASE Launch
  <2>1. /\ pc = "launch" /\ pc' = "remove" /\ msgQ' = msgQ /\ pins' = pins
        /\ inMotion' = inMotion /\ ~Printing /\ ~Printing'
    BY <1>9 DEF Launch, Thread, hostVars, Printing
  <2>2. move.mode = "line" /\ inMotion
    BY <1>t, <2>1 DEF SyncInv, AlarmInv
  <2>3. permit = 1 /\ permit' = 0
    BY <1>9, <2>2 DEF Launch, TakePermit
  <2>4. pins.ready = 0 /\ pins.sync = 0
    BY <1>t, <2>1, <2>2 DEF AlarmInv, PinsInv
  <2>5. AxisState = "armed" /\ AxisState' = "run" /\ Waiting' = Waiting
    BY <2>1, <2>4, States, NextStates
  <2>6. AxisQueue' = AxisQueue
    BY <2>1, <2>5, QueueSame
  <2>7. Ax!Launch
    BY <2>3, <2>5, <2>6 DEF Ax!Launch
  <2>. QED BY <2>7 DEF Ax!Next
<1>10. CASE Remove
  BY <1>10, Hidden DEF Remove, Thread, hostVars
<1>11. ASSUME NEW i \in Slots, JogStep(i) \/ LineStep(i) PROVE UNCHANGED Ax!axisVars
  <2>1. move'.mode = move.mode
    BY <1>t, <1>11 DEF JogStep, LineStep, TypeOK, Move
  <2>. QED BY <1>11, <2>1, Hidden DEF JogStep, LineStep, hostVars
<1>12. CASE JogLoad \/ JogStore
  <2>1. move'.mode = move.mode
    BY <1>t, <1>12 DEF JogLoad, JogStore, TypeOK, Move
  <2>. QED BY <1>12, <2>1, Hidden DEF JogLoad, JogStore, hostVars
<1>13. ASSUME NEW i \in Slots, JogEnd(i) \/ LineEnd(i) PROVE Ax!Next \/ UNCHANGED Ax!axisVars
  <2>1. /\ pool[i] # Off /\ i \in Pending /\ inMotion /\ pins.ready = 0
        /\ pc' = pc /\ ~inMotion' /\ permit' = permit
        /\ pc \notin {"start", "launch"} /\ ~Printing /\ ~Printing'
    <3>1. pool[i] # Off /\ i \in Pending /\ \E m : Stop(i, m)
      BY <1>13 DEF JogEnd, LineEnd, Due, Off, Pending
    <3>2. ~inMotion' /\ pc' = pc /\ permit' = permit
      BY <3>1 DEF Stop
    <3>3. inMotion /\ pins.ready = 0 /\ pc \notin {"start", "launch"}
      BY <1>t, <3>1 DEF AlarmInv
    <3>. QED BY <3>1, <3>2, <3>3 DEF Printing
  <2>2. \/ pins' = FreePins /\ msgQ' = msgQ
        \/ JogEnd(i) /\ pins' = pins /\ msgQ' = TryAdd(Bounce)
    <3>1. CASE JogEnd(i)
      BY <3>1 DEF JogEnd, Stop, Bounce
    <3>2. CASE LineEnd(i)
      <4>1. move.mode = "line"
        BY <1>t, <3>2 DEF LineEnd, Due, AlarmInv
      <4>2. ~AtSwitch([move EXCEPT !.stop = TRUE])
        BY <1>t, <4>1 DEF AtSwitch, TypeOK, Move
      <4>. QED BY <3>2, <4>2 DEF LineEnd, Stop
    <3>. QED BY <1>13, <3>1, <3>2
  <2>3. CASE JogEnd(i) /\ pins' = pins /\ msgQ' = TryAdd(Bounce)
    BY <2>1, <2>3, SwitchReached
  <2>4. CASE pins' = FreePins /\ msgQ' = msgQ
    <3>1. AxisState \in {"jog", "run"}
      <4>1. CASE JogEnd(i)
        <5>1. move.mode # "line"
          BY <1>t, <4>1 DEF JogEnd, Due, AlarmInv
        <5>2. pins.motion = 0 /\ pins.sync = 1
          BY <1>t, <2>1, <5>1 DEF PinsInv
        <5>. QED BY <2>1, <5>2, States
      <4>2. CASE LineEnd(i)
        <5>1. LinePending /\ ~HoldQueued
          BY <4>2 DEF LineEnd, Due, LinePending
        <5>2. pc # "cancel"
          <6>1. pc = "cancel" => msgQ # <<>> /\ Head(msgQ).cmd = "pause"
            BY <1>t DEF TypeOK, HoldInv
          <6>. QED BY <1>q, <5>1, <6>1 DEF HoldQueued
        <5>3. pins.sync = 0
          BY <1>t, <5>1, <5>2 DEF PinsInv
        <5>. QED BY <2>1, <5>3, States
      <4>. QED BY <1>13, <4>1, <4>2
    <3>2. AxisState' = "idle" /\ Waiting' = Waiting
      BY <2>1, <2>4, States, NextStates DEF FreePins
    <3>3. Back' = Back
      BY <2>1, <2>4 DEF Back, FreePins
    <3>4. AxisQueue' = AxisQueue
      BY <3>2, <3>3, AsQueue
    <3>5. Ax!MoveEnd
      BY <2>1, <3>1, <3>2, <3>4 DEF Ax!MoveEnd
    <3>. QED BY <3>5 DEF Ax!Next
  <2>. QED BY <2>2, <2>3, <2>4
<1>14. CASE HostJog \/ HostLine \/ HostPause \/ HostResume \/ HostUpdate
  <2>1. PICK m \in Message : Send(m)
    <3>1. \A n \in Lengths, d \in {0, 1} : /\ MoveTo(Jog(n, d)) \in Message
                                           /\ MoveTo(Line(n, d)) \in Message
      BY CountTypes, MoveTypes, PlainTypes
    <3>. QED BY <1>14, <3>1, PlainTypes DEF HostJog, HostLine, HostPause, HostResume, HostUpdate
  <2>. QED BY <1>t, <2>1, Sent
<1>15. CASE SyncRise
  <2>1. AxisState' = AxisState /\ Waiting' = Waiting /\ permit' = 1
        /\ inMotion' = inMotion /\ pins' = pins
    BY <1>15 DEF SyncRise, AxisState, Waiting, Printing
  <2>2. AxisQueue' = AxisQueue
    BY <2>1, QueueSame
  <2>3. Ax!Edge
    BY <2>1, <2>2 DEF Ax!Edge
  <2>. QED BY <2>3 DEF Ax!Next
<1>16. CASE LimitFall \/ LimitRise
  <2>1. move'.mode = move.mode
    BY <1>t, <1>16 DEF LimitFall, LimitRise, StopMove, TypeOK, Move
  <2>. QED BY <1>16, <2>1, Hidden DEF LimitFall, LimitRise
<1>. QED
  BY <1>1, <1>2, <1>3, <1>4, <1>5, <1>6, <1>7, <1>8, <1>9, <1>10, <1>11, <1>12, <1>13,
     <1>14, <1>15, <1>16
  DEF Next, Core1, Callback, Host

LEMMA AxisStart == Init => Ax!Init
<1> SUFFICES ASSUME Init PROVE Ax!Init
  OBVIOUS
<1>1. pc = "peek" /\ msgQ = <<>> /\ pins.ready = 1 /\ permit = 0 /\ ~Printing
  BY DEF Init, Printing
<1>2. AxisState = "idle" /\ Waiting = <<>> /\ Len(<<>>) = 0
  BY <1>1, States
<1>3. AxisQueue = <<>>
  BY <1>2, AsQueue, Shorts DEF Queue, One
<1>. QED BY <1>1, <1>2, <1>3 DEF Ax!Init

-----------------------------------------------------------------------------
(* The theorems.                                                           *)

\* What the pins and the queue tell the host is right whatever core1, its timer
\* and the interrupts of core0 do in between, if messages arrive while core1 is
\* idle and a hold meets a running line (stepper_msg_handle, stepper_move, stop).
THEOREM PicoAxisInvariant ==
  ASSUME {"prompt", "hold"} \subseteq Calm
  PROVE  Spec => []AxisInv
<1>1. Init => AxisInv
  BY AxisInit
<1>2. AxisInv /\ MotionInv' /\ [Next]_vars => AxisInv'
  BY AxisStep, AxisStutter DEF AxisInv
<1>3. Spec => []MotionInv
  BY MotionInvariant
<1>. QED BY <1>1, <1>2, <1>3, PTL DEF Spec

\* A Pico is an axis: for every step of core1, of its timer, of the host and of
\* the limit switch, the axis the pins show takes a command in its order, starts
\* by the signal, ends a move, or does nothing at all.
THEOREM PicoIsAnAxis ==
  ASSUME {"prompt", "hold"} \subseteq Calm
  PROVE  Spec => Ax!Spec
<1>1. AxisInv /\ [Next]_vars => [Ax!Next]_Ax!axisVars
  <2> SUFFICES ASSUME AxisInv, [Next]_vars PROVE Ax!Next \/ UNCHANGED Ax!axisVars
    OBVIOUS
  <2>1. CASE Next
    BY <2>1, AxisRefines
  <2>2. CASE UNCHANGED vars
    BY <2>2, Hidden DEF vars, hostVars
  <2>. QED BY <2>1, <2>2
<1>. QED BY <1>1, AxisStart, PicoAxisInvariant, PTL DEF Spec, Ax!Spec

=============================================================================
