-------------------------- MODULE PicoMotion_proofs --------------------------
(***************************************************************************)
(* Proofs about the motion controller of a Pico, for any lengths, homing   *)
(* distance and counter width: types without any assumption; one alarm at  *)
(* a time, silence when ready and no early start under the timing          *)
(* assumptions "prompt" and "hold"; on top of them the exact count of      *)
(* steps, the stop at the limit switch ("pulse") and homing ("alone",      *)
(* "ahead").                                                               *)
(***************************************************************************)
EXTENDS PicoMotion, SequenceTheorems, TLAPS

-----------------------------------------------------------------------------
(* Types.                                                                  *)

\* The counter wraps within its width.
LEMMA CountTypes ==
  /\ Wrap \in Nat \ {0} /\ 0 \in Count
  /\ \A n \in Int : n % Wrap \in Count
  /\ Lengths \subseteq Count /\ 2 * JogSteps \in Count /\ MaxHome \in Count
BY MotionAssumption DEF Count

\* The moves the commands and the code build are moves.
LEMMA MoveTypes ==
  ASSUME NEW n \in Count, NEW d \in {0, 1}
  PROVE  Jog(n, d) \in Move /\ Line(n, d) \in Move /\ Homing(n) \in Move
BY CountTypes DEF Jog, Line, Homing, NoMove, Move, Mode

LEMMA PlainTypes ==
  /\ NoMove \in Move
  /\ \A c \in {"home", "pause", "resume", "update"} : Plain(c) \in Message
  /\ \A m \in Move : MoveTo(m) \in Message
BY CountTypes DEF NoMove, Move, Mode, Plain, MoveTo, Message, Count

\* queue_try_add keeps the queue within its length.
LEMMA TryAddType ==
  ASSUME NEW m \in Message, msgQ \in Seq(Message), Len(msgQ) <= QueueLen
  PROVE  /\ TryAdd(m) \in Seq(Message) /\ Len(TryAdd(m)) <= QueueLen
         /\ TryAdd(m) # <<>>
BY DEF TryAdd, QueueLen

LEMMA PosTypes ==
  /\ \A p \in Int : Clip(p) \in Pos
  /\ Behind \in Pos
  /\ Pos \subseteq Int
  /\ \A n \in 0..Wrap : Bump(n) \in 0..Wrap
BY MotionAssumption DEF Clip, Pos, Behind, Bump

LEMMA TypeInit == Init => TypeOK
<1> SUFFICES ASSUME Init PROVE TypeOK
  OBVIOUS
<1>1. msgQ \in Seq(Message) /\ Len(msgQ) <= QueueLen
  BY DEF Init, QueueLen
<1>2. pos \in Pos
  BY MotionAssumption DEF Init, Pos
<1>3. pool \in Pool /\ cb \in JogShot
  BY CountTypes DEF Init, Off, Quiet, Pool, JogShot
<1>4. move \in Move /\ want \in Count /\ made \in 0..Wrap /\ late \in 0..Wrap
  BY CountTypes, PlainTypes DEF Init
<1>5. pins \in Levels
  BY DEF Init, Levels
<1>6. QED
  BY <1>1, <1>2, <1>3, <1>4, <1>5 DEF Init, TypeOK

\* stepper_move with a move of the right type.
LEMMA AcceptType ==
  ASSUME TypeOK, NEW m \in Move, NEW n \in Count, NEW zero \in BOOLEAN,
         msgQ # <<>>, Accept(m, n, zero)
  PROVE  TypeOK'
<1>1. pins' \in Levels
  BY DEF Accept, TypeOK, Levels
<1>2. made' \in 0..Wrap /\ late' \in 0..Wrap
  BY CountTypes DEF Accept
<1>3. /\ pc' = "start" /\ msgQ' = msgQ /\ msgQ # <<>> /\ move' \in Move /\ want' \in Count
      /\ inMotion' \in BOOLEAN /\ tripped' \in BOOLEAN /\ toZero' \in BOOLEAN
      /\ UNCHANGED <<pool, alarmId, cb, permit, alarm, homed, pos, hostVars, edge>>
  BY DEF Accept, Thread
<1>4. QED
  BY <1>1, <1>2, <1>3 DEF hostVars, TypeOK

\* The pool after an alarm is added.
LEMMA AddAlarmType ==
  ASSUME TypeOK, NEW kind \in {"jog", "line"}, AddAlarm(kind)
  PROVE  pool' \in Pool /\ alarmId' \in {0} \cup Slots
BY DEF AddAlarm, TypeOK, Pool

LEMMA SyncReadyType ==
  ASSUME TypeOK, NEW p \in Levels, SyncReady(p)
  PROVE  /\ pins' \in Levels
         /\ syncSem' \in BOOLEAN /\ edge' \in BOOLEAN
BY DEF SyncReady, TypeOK

\* stop() from any callback.
LEMMA StopType ==
  ASSUME TypeOK, NEW i \in Slots, NEW m \in Move, Stop(i, m)
  PROVE  TypeOK'
<1>1. pool' \in Pool
  BY DEF Stop, Cancelled, TypeOK, Pool
<1>2. pins' \in Levels /\ homed' \in BOOLEAN /\ pos' \in Pos
  <2>1. FreePins \in Levels /\ Behind \in Pos /\ TRUE \in BOOLEAN
    BY PosTypes DEF FreePins, Levels
  <2>2. QED
    BY <2>1 DEF Stop, TypeOK
<1>3. Jog(2 * JogSteps, 1) \in Move
  BY CountTypes, MoveTypes
<1>4. MoveTo(Jog(2 * JogSteps, 1)) \in Message
  BY <1>3, PlainTypes
<1>5. /\ msgQ' \in Seq(Message) /\ Len(msgQ') <= QueueLen
      /\ pc' # "peek" => msgQ' # <<>>
  BY <1>4, TryAddType DEF Stop, TypeOK
<1>6. move' \in Move
  BY <1>3 DEF Stop
<1>7. inMotion' \in BOOLEAN /\ alarm' \in BOOLEAN
  BY DEF Stop
<1>8. /\ pc' = pc /\ alarmId' = alarmId /\ cb' = cb /\ permit' = permit
      /\ UNCHANGED hostVars /\ UNCHANGED hist
  BY DEF Stop
<1>9. QED
  BY <1>1, <1>2, <1>5, <1>6, <1>7, <1>8 DEF hostVars, hist, TypeOK

\* A message of the right type, if there is room for it.
LEMMA SendType ==
  ASSUME TypeOK, NEW m \in Message, Send(m),
         host' \in {"free", "sync"}, running' \in BOOLEAN, paused' \in BOOLEAN
  PROVE  TypeOK'
<1>1. msgQ' \in Seq(Message) /\ Len(msgQ') <= QueueLen /\ msgQ' # <<>>
  BY TryAddType DEF Send, TypeOK
<1>2. QED
  BY <1>1 DEF Send, hist, TypeOK

LEMMA TypeStep == TypeOK /\ [Next]_vars => TypeOK'
<1> SUFFICES ASSUME TypeOK, [Next]_vars PROVE TypeOK'
  OBVIOUS
<1>q. msgQ # <<>> => Head(msgQ) \in Message /\ Tail(msgQ) \in Seq(Message)
                     /\ Len(Tail(msgQ)) <= QueueLen
  BY DEF TypeOK, QueueLen
<1>1. CASE HandleMove
  <2>1. msgQ # <<>> /\ Head(msgQ).move \in Move
    BY <1>1, <1>q DEF HandleMove, Command, Message
  <2>2. \A m \in Move : (IF m.mode = "line" THEN m.left ELSE m.steps) \in Count
    BY DEF Move
  <2>3. QED
    BY <1>1, <2>1, <2>2, AcceptType DEF HandleMove
<1>2. CASE HandleHome
  <2>1. msgQ # <<>> /\ pos \in Int
    BY <1>2, PosTypes DEF HandleHome, Command, TypeOK
  <2>2. pos % Wrap \in Count /\ MaxHome \in Count
    BY <2>1, CountTypes
  <2>3. Jog(pos % Wrap, 0) \in Move /\ Homing(MaxHome) \in Move
    BY <2>2, MoveTypes
  <2>4. (pos >= 0) \in BOOLEAN /\ FALSE \in BOOLEAN
    OBVIOUS
  <2>5. QED
    BY <1>2, <2>1, <2>2, <2>3, <2>4, AcceptType DEF HandleHome
<1>3. CASE HandleNothing
  BY <1>3 DEF HandleNothing, Thread, Command, hostVars, hist, TypeOK
<1>4. CASE HandlePause
  <2>1. HeldPins \in Levels
    BY DEF HeldPins, Levels, TypeOK
  <2>2. QED
    BY <1>4, <2>1 DEF HandlePause, Thread, Command, hostVars, hist, TypeOK
<1>5. CASE Cancel
  <2>1. \A i \in {0} \cup Slots : Cancelled(i) \in Pool
    BY DEF Cancelled, Pool, TypeOK
  <2>2. QED
    BY <1>5, <2>1 DEF Cancel, Thread, hostVars, hist, TypeOK
<1>6. CASE HandleResume
  <2>1. ResumedPins \in Levels
    BY DEF ResumedPins, Levels, TypeOK
  <2>2. QED
    BY <1>6, <2>1, SyncReadyType DEF HandleResume, Thread, Command, TypeOK
<1>7. CASE StartJog
  BY <1>7, AddAlarmType DEF StartJog, Thread, hostVars, hist, TypeOK
<1>8. CASE StartLine
  <2>1. [pins EXCEPT !.sync = 0] \in Levels
    BY DEF Levels, TypeOK
  <2>2. QED
    BY <1>8, <2>1, SyncReadyType DEF StartLine, Thread, TypeOK
<1>9. CASE Launch
  BY <1>9, AddAlarmType DEF Launch, TakePermit, Thread, hostVars, hist, TypeOK
<1>10. CASE Remove
  BY <1>10, <1>q DEF Remove, Thread, hostVars, hist, TypeOK
<1>11. ASSUME NEW i \in Slots, JogStep(i) PROVE TypeOK'
  <2>1. pos' \in Pos
    <3>1. pos + 1 \in Int /\ pos - 1 \in Int
      BY PosTypes DEF TypeOK
    <3>2. QED
      BY <1>11, <3>1, PosTypes DEF JogStep, Step
  <2>2. /\ made' \in 0..Wrap /\ late' \in 0..Wrap /\ want' \in Count
        /\ tripped' \in BOOLEAN /\ toZero' \in BOOLEAN /\ edge' \in BOOLEAN
    BY <1>11, PosTypes DEF JogStep, Counted, TypeOK
  <2>3. cb' \in JogShot
    BY <1>11, CountTypes DEF JogStep, JogShot
  <2>4. QED
    BY <1>11, <2>1, <2>2, <2>3 DEF JogStep, hostVars, TypeOK
<1>12. CASE JogLoad
  <2>1. cb' \in JogShot
    BY <1>12 DEF JogLoad, JogShot, Move, TypeOK
  <2>2. QED
    BY <1>12, <2>1 DEF JogLoad, hostVars, hist, TypeOK
<1>13. CASE JogStore
  <2>1. Less(cb.steps) \in Count
    <3>1. cb.steps - 1 \in Int
      BY CountTypes DEF TypeOK, JogShot, Count
    <3>2. QED
      BY <3>1, CountTypes DEF Less
  <2>2. move' \in Move
    BY <1>13, <2>1 DEF JogStore, TypeOK, Move
  <2>3. Quiet \in JogShot
    BY CountTypes DEF Quiet, JogShot
  <2>4. QED
    BY <1>13, <2>2, <2>3 DEF JogStore, hostVars, hist, TypeOK
<1>14. ASSUME NEW i \in Slots, JogEnd(i) PROVE TypeOK'
  BY <1>14, StopType DEF JogEnd, TypeOK
<1>15. ASSUME NEW i \in Slots, LineStep(i) PROVE TypeOK'
  <2>1. pos' \in Pos
    <3>1. pos + 1 \in Int /\ pos - 1 \in Int
      BY PosTypes DEF TypeOK
    <3>2. QED
      BY <1>15, <3>1, PosTypes DEF LineStep, Step, TypeOK
  <2>2. /\ made' \in 0..Wrap /\ late' \in 0..Wrap /\ want' \in Count
        /\ tripped' \in BOOLEAN /\ toZero' \in BOOLEAN /\ edge' \in BOOLEAN
    BY <1>15, PosTypes DEF LineStep, Counted, TypeOK
  <2>3. move' \in Move
    <3>1. move.mode = "line" => move.left \in Count /\ move.left # 0
      BY <1>15 DEF LineStep, Ends, Arrived, TypeOK, Move
    <3>2. move.mode = "line" => move.left - 1 \in Count
      BY <3>1, CountTypes DEF Count
    <3>3. QED
      BY <1>15, <3>2 DEF LineStep, TypeOK, Move
  <2>4. QED
    BY <1>15, <2>1, <2>2, <2>3 DEF LineStep, hostVars, TypeOK
<1>16. ASSUME NEW i \in Slots, LineEnd(i) PROVE TypeOK'
  <2>1. [move EXCEPT !.stop = TRUE] \in Move
    BY DEF TypeOK, Move
  <2>2. QED
    BY <1>16, <2>1, StopType DEF LineEnd
<1>17. CASE HostJog
  <2>1. \A n \in Lengths, d \in {0, 1} : MoveTo(Jog(n, d)) \in Message
    BY CountTypes, MoveTypes, PlainTypes
  <2>2. Plain("home") \in Message
    BY PlainTypes
  <2>3. QED
    BY <1>17, <2>1, <2>2, SendType DEF HostJog, TypeOK
<1>18. CASE HostLine
  <2>1. \A n \in Lengths, d \in {0, 1} : MoveTo(Line(n, d)) \in Message
    BY CountTypes, MoveTypes, PlainTypes
  <2>2. QED
    BY <1>18, <2>1, SendType DEF HostLine, TypeOK
<1>19. CASE HostPause
  BY <1>19, PlainTypes, SendType DEF HostPause, TypeOK
<1>20. CASE HostResume
  BY <1>20, PlainTypes, SendType DEF HostResume, TypeOK
<1>21. CASE HostUpdate
  BY <1>21, PlainTypes, SendType DEF HostUpdate, TypeOK
<1>22. CASE SyncRise
  <2>1. syncSem' \in BOOLEAN /\ edge' \in BOOLEAN /\ permit' \in {0, 1}
    BY <1>22 DEF SyncRise
  <2>2. QED
    BY <1>22, <2>1 DEF SyncRise, TypeOK
<1>23. CASE LimitFall
  <2>1. move' \in Move
    BY <1>23, CountTypes DEF LimitFall, StopMove, TypeOK, Move
  <2>2. QED
    BY <1>23, <2>1 DEF LimitFall, TypeOK
<1>24. CASE LimitRise
  <2>1. alarm' \in BOOLEAN /\ switch' \in {0, 1}
    BY <1>24 DEF LimitRise
  <2>2. QED
    BY <1>24, <2>1 DEF LimitRise, hist, TypeOK
<1>25. CASE UNCHANGED vars
  BY <1>25 DEF vars, hostVars, hist, TypeOK
<1>26. QED
  BY <1>1, <1>2, <1>3, <1>4, <1>5, <1>6, <1>7, <1>8, <1>9, <1>10, <1>11, <1>12,
     <1>13, <1>14, <1>15, <1>16, <1>17, <1>18, <1>19, <1>20, <1>21, <1>22, <1>23,
     <1>24, <1>25
  DEF Next, Core1, Callback, Host

\* Whatever the surroundings do, the state keeps its types: no queue grows over
\* its length, the step counter stays within its width.
THEOREM MotionType == Spec => []TypeOK
<1>1. Init => TypeOK
  BY TypeInit
<1>2. TypeOK /\ [Next]_vars => TypeOK'
  BY TypeStep
<1>3. QED
  BY <1>1, <1>2, PTL DEF Spec

-----------------------------------------------------------------------------
(* The inductive invariant, under "prompt" and "hold".                     *)

\* The message core1 handles is the first one, and removing it moves the others up.
LEMMA HeadAndTail ==
  ASSUME TypeOK
  PROVE  /\ Len(msgQ) \in 0..QueueLen
         /\ msgQ # <<>> => 1 \in 1..Len(msgQ) /\ Head(msgQ) = msgQ[1]
         /\ msgQ # <<>> => /\ Len(Tail(msgQ)) = Len(msgQ) - 1
                           /\ \A k \in 1..Len(Tail(msgQ)) :
                                k + 1 \in 1..Len(msgQ) /\ Tail(msgQ)[k] = msgQ[k + 1]
<1>1. Len(msgQ) \in 0..QueueLen
  <2>1. Len(msgQ) \in Nat /\ Len(msgQ) <= QueueLen
    BY LenProperties DEF TypeOK
  <2>2. \A n \in Nat : n <= 2 => n \in 0..2
    OBVIOUS
  <2>3. QED
    BY <2>1, <2>2 DEF QueueLen
<1>2. ASSUME msgQ # <<>>
      PROVE  /\ 1 \in 1..Len(msgQ) /\ Head(msgQ) = msgQ[1]
             /\ Len(Tail(msgQ)) = Len(msgQ) - 1
             /\ \A k \in 1..Len(Tail(msgQ)) :
                  k + 1 \in 1..Len(msgQ) /\ Tail(msgQ)[k] = msgQ[k + 1]
  BY <1>2 DEF TypeOK
<1>3. QED
  BY <1>1, <1>2

\* A message that is queued is the last one; the others stay where they are.
LEMMA Queued ==
  ASSUME TypeOK, NEW m \in Message
  PROVE  /\ Len(TryAdd(m)) \in {Len(msgQ), Len(msgQ) + 1}
         /\ \A k \in 1..Len(TryAdd(m)) :
              \/ k = Len(msgQ) + 1 /\ TryAdd(m)[k] = m
              \/ k \in 1..Len(msgQ) /\ TryAdd(m)[k] = msgQ[k]
         /\ \A k \in 1..Len(msgQ) :
              k \in 1..Len(TryAdd(m)) /\ TryAdd(m)[k] = msgQ[k]
         /\ Len(msgQ) = 0 => Len(TryAdd(m)) = 1 /\ TryAdd(m)[1] = m
<1>1. CASE Len(msgQ) < QueueLen
  BY <1>1 DEF TypeOK, TryAdd
<1>2. CASE ~(Len(msgQ) < QueueLen)
  BY <1>2 DEF TypeOK, TryAdd, QueueLen
<1>3. QED
  BY <1>1, <1>2

LEMMA InitInv == Init => MotionInv
<1> SUFFICES ASSUME Init PROVE MotionInv
  OBVIOUS
<1>1. AlarmInv
  BY DEF Init, AlarmInv, Off
<1>2. Len(msgQ) = 0
  BY DEF Init
<1>3. HoldInv /\ SyncInv
  BY <1>2 DEF Init, HoldInv, SyncInv
<1>4. QED
  BY <1>1, <1>3, TypeInit DEF MotionInv

\* stop() leaves no alarm behind: the one there was is the one that runs.
LEMMA StopClears ==
  ASSUME AlarmInv, TypeOK, NEW i \in Slots, NEW m, pool[i] # Off, Stop(i, m)
  PROVE  pool' = [j \in Slots |-> Off] /\ ~inMotion'
<1>1. \A j \in Slots : j # i => Cancelled(alarmId)[j] = Off
  BY DEF AlarmInv, Cancelled
<1>2. pool' = [Cancelled(alarmId) EXCEPT ![i] = Off] /\ inMotion' = FALSE
  BY DEF Stop
<1>3. QED
  BY <1>1, <1>2 DEF Cancelled

\* An alarm added to an empty pool is the only one, and the current one.
LEMMA OneAdded ==
  ASSUME TypeOK, Pending = {}, NEW kind \in {"jog", "line"}, AddAlarm(kind)
  PROVE  /\ alarmId' \in Slots
         /\ \A j \in Slots : pool'[j] = IF j = alarmId' THEN kind ELSE Off
<1>1. \A j \in Slots : pool[j] = Off
  BY DEF Pending
<1>2. {j \in Slots : pool[j] = Off} # {}
  BY <1>1 DEF Slots
<1>3. QED
  BY <1>1, <1>2 DEF AddAlarm, TypeOK, Pool

LEMMA AlarmStep ==
  ASSUME MotionInv, Next, {"prompt", "hold"} \subseteq Calm
  PROVE  AlarmInv'
<1>t. TypeOK /\ AlarmInv /\ HoldInv /\ SyncInv
  BY DEF MotionInv
<1>q. /\ msgQ # <<>> => 1 \in 1..Len(msgQ) /\ Head(msgQ) = msgQ[1]
  BY <1>t, HeadAndTail
<1>1. ASSUME NEW m, NEW n, NEW zero, Accept(m, n, zero) PROVE AlarmInv'
  <2>1. \A i \in Slots : pool[i] = Off
    BY <1>t, <1>1 DEF Accept, AlarmInv
  <2>2. /\ pool' = pool /\ cb = Quiet /\ cb' = cb /\ inMotion' = TRUE
        /\ pins'.ready = 0
    BY <1>t, <1>1 DEF Accept, Thread, TypeOK, Levels
  <2>3. QED
    BY <2>1, <2>2 DEF AlarmInv, Pending, Off
<1>2. CASE HandleMove \/ HandleHome
  BY <1>1, <1>2 DEF HandleMove, HandleHome
<1>3. CASE HandleNothing
  BY <1>t, <1>3 DEF HandleNothing, Thread, AlarmInv, Pending, hist
<1>4. CASE HandlePause
  <2>1. pins'.ready = pins.ready
    BY <1>t, <1>4 DEF HandlePause, HeldPins, TypeOK, Levels
  <2>2. QED
    BY <1>t, <1>4, <2>1 DEF HandlePause, Thread, AlarmInv, Pending, hist
<1>5. CASE Cancel
  BY <1>t, <1>5 DEF Cancel, Cancelled, Thread, AlarmInv, Pending, Off, hist
<1>6. CASE HandleResume
  <2>1. pins'.ready = pins.ready
    BY <1>t, <1>6 DEF HandleResume, SyncReady, ResumedPins, TypeOK, Levels
  <2>2. Pending = {} /\ inMotion
    BY <1>t, <1>q, <1>6 DEF HandleResume, Thread, Command, HoldInv
  <2>3. QED
    BY <1>t, <1>6, <2>1, <2>2 DEF HandleResume, Thread, AlarmInv, Pending, Off
<1>7. CASE StartJog
  <2>1. Pending = {} /\ inMotion
    BY <1>t, <1>7 DEF StartJog, Thread, AlarmInv
  <2>2. /\ alarmId' \in Slots
        /\ \A j \in Slots : pool'[j] = IF j = alarmId' THEN "jog" ELSE Off
    BY <1>t, <1>7, <2>1, OneAdded DEF StartJog
  <2>3. QED
    BY <1>t, <1>7, <2>1, <2>2 DEF StartJog, Thread, AlarmInv, Off
<1>8. CASE StartLine
  <2>1. pins'.ready = pins.ready
    BY <1>t, <1>8 DEF StartLine, SyncReady, TypeOK, Levels
  <2>2. Pending = {} /\ inMotion
    BY <1>t, <1>8 DEF StartLine, Thread, AlarmInv
  <2>3. QED
    BY <1>t, <1>8, <2>1, <2>2 DEF StartLine, Thread, AlarmInv, Pending, Off
<1>9. CASE Launch
  <2>1. Pending = {} /\ inMotion /\ move.mode = "line"
    BY <1>t, <1>9 DEF Launch, Thread, AlarmInv, SyncInv
  <2>2. edge
    BY <1>t, <1>9, <2>1 DEF Launch, TakePermit, SyncInv
  <2>3. /\ alarmId' \in Slots
        /\ \A j \in Slots : pool'[j] = IF j = alarmId' THEN "line" ELSE Off
    BY <1>t, <1>9, <2>1, OneAdded DEF Launch
  <2>4. QED
    BY <1>t, <1>9, <2>1, <2>2, <2>3 DEF Launch, Thread, AlarmInv, Off, hist
<1>10. CASE Remove
  BY <1>t, <1>10 DEF Remove, Thread, AlarmInv, Pending, hist
<1>11. ASSUME NEW i \in Slots, JogStep(i) PROVE AlarmInv'
  <2>1. cb'.slot = i /\ pool[i] # Off /\ pc' = pc /\ cb = Quiet
    BY <1>11 DEF JogStep, Due, Off
  <2>2. pc \notin {"start", "launch"}
    BY <1>t, <2>1 DEF AlarmInv, Pending
  <2>3. QED
    BY <1>t, <1>11, <2>1, <2>2 DEF JogStep, Counted, AlarmInv, Pending
<1>12. CASE JogLoad
  BY <1>t, <1>12 DEF JogLoad, AlarmInv, Pending, Quiet, TypeOK, JogShot, hist
<1>13. CASE JogStore
  <2>1. move'.mode = move.mode
    BY <1>t, <1>13 DEF JogStore, TypeOK, Move
  <2>2. QED
    BY <1>t, <1>13, <2>1 DEF JogStore, AlarmInv, Pending, hist
<1>14. ASSUME NEW i \in Slots, JogEnd(i) \/ LineEnd(i) PROVE AlarmInv'
  <2>1. pool[i] # Off /\ cb = Quiet /\ \E m : Stop(i, m)
    BY <1>14 DEF JogEnd, LineEnd, Due, Off
  <2>2. pool' = [j \in Slots |-> Off] /\ ~inMotion' /\ pc' = pc /\ cb' = cb
    BY <1>t, <2>1, StopClears DEF Stop
  <2>3. pc \notin {"start", "launch"}
    BY <1>t, <2>1 DEF AlarmInv, Pending
  <2>4. QED
    BY <2>1, <2>2, <2>3 DEF AlarmInv, Off
<1>15. ASSUME NEW i \in Slots, LineStep(i) PROVE AlarmInv'
  <2>1. move'.mode = move.mode
    BY <1>t, <1>15 DEF LineStep, TypeOK, Move
  <2>2. QED
    BY <1>t, <1>15, <2>1 DEF LineStep, Counted, AlarmInv, Pending
<1>16. CASE HostJog \/ HostLine \/ HostPause \/ HostResume \/ HostUpdate
  <2>1. \E m : Send(m)
    BY <1>16 DEF HostJog, HostLine, HostPause, HostResume, HostUpdate
  <2>2. QED
    BY <1>t, <2>1 DEF Send, AlarmInv, Pending, hist
<1>17. CASE SyncRise
  BY <1>t, <1>17 DEF SyncRise, AlarmInv, Pending
<1>18. CASE LimitFall
  <2>1. move'.mode = move.mode
    BY <1>t, <1>18 DEF LimitFall, StopMove, TypeOK, Move
  <2>2. QED
    BY <1>t, <1>18, <2>1 DEF LimitFall, AlarmInv, Pending
<1>19. CASE LimitRise
  BY <1>t, <1>19 DEF LimitRise, AlarmInv, Pending, hist
<1>20. QED
  BY <1>2, <1>3, <1>4, <1>5, <1>6, <1>7, <1>8, <1>9, <1>10, <1>11, <1>12, <1>13,
     <1>14, <1>15, <1>16, <1>17, <1>18, <1>19
  DEF Next, Core1, Callback, Host

LEMMA HoldStep ==
  ASSUME MotionInv, Next, {"prompt", "hold"} \subseteq Calm
  PROVE  HoldInv'
<1>t. TypeOK /\ AlarmInv /\ HoldInv /\ SyncInv /\ Len(msgQ) \in 0..QueueLen
  BY HeadAndTail DEF MotionInv
<1>q. /\ msgQ # <<>> => 1 \in 1..Len(msgQ) /\ Head(msgQ) = msgQ[1]
  BY <1>t, HeadAndTail
<1>1. ASSUME NEW m, NEW n, NEW zero, msgQ # <<>>, Accept(m, n, zero) PROVE HoldInv'
  <2>1. ~inMotion /\ pc = "peek" /\ pc' = "start"
    BY <1>1 DEF Accept, Thread
  <2>2. ~paused /\ paused' = paused /\ msgQ' = msgQ
    BY <1>t, <2>1, <1>1 DEF Accept, HoldInv, hostVars
  <2>3. \A k \in 1..Len(msgQ) : msgQ[k].cmd \notin {"pause", "resume"}
    BY <1>t, <2>1, <2>2 DEF HoldInv
  <2>4. QED
    BY <2>1, <2>2, <2>3 DEF HoldInv
<1>2. CASE HandleMove \/ HandleHome
  BY <1>1, <1>2 DEF HandleMove, HandleHome, Command
<1>3. CASE HandleNothing
  BY <1>t, <1>q, <1>3 DEF HandleNothing, Thread, Command, HoldInv, HoldQueued, Pending,
                          hostVars, hist
<1>4. CASE HandlePause
  BY <1>t, <1>q, <1>4 DEF HandlePause, Thread, Command, HoldInv, HoldQueued, Pending,
                          hostVars, hist
<1>5. CASE Cancel
  <2>1. Pending' = {}
    BY <1>t, <1>5 DEF Cancel, Cancelled, AlarmInv, Pending, Off
  <2>2. QED
    BY <1>t, <2>1, <1>5 DEF Cancel, Thread, HoldInv, hostVars, hist
<1>6. CASE HandleResume
  BY <1>t, <1>q, <1>6 DEF HandleResume, Thread, Command, HoldInv, HoldQueued, Pending
<1>7. CASE StartJog
  BY <1>t, <1>7 DEF StartJog, Thread, HoldInv, hostVars, hist
<1>8. CASE StartLine
  BY <1>t, <1>8 DEF StartLine, Thread, HoldInv, Pending
<1>9. CASE Launch
  BY <1>t, <1>9 DEF Launch, Thread, HoldInv, hostVars, hist
<1>10. CASE Remove
  BY <1>t, <1>q, HeadAndTail, <1>10 DEF Remove, Thread, HoldInv, HoldQueued, Pending, hostVars, hist
<1>11. ASSUME NEW i \in Slots, JogStep(i) PROVE HoldInv'
  BY <1>t, <1>11 DEF JogStep, Counted, HoldInv, HoldQueued, Pending, hostVars
<1>12. CASE JogLoad
  BY <1>t, <1>12 DEF JogLoad, HoldInv, HoldQueued, Pending, hostVars, hist
<1>13. CASE JogStore
  <2>1. move'.mode = move.mode
    BY <1>t, <1>13 DEF JogStore, TypeOK, Move
  <2>2. QED
    BY <1>t, <1>13, <2>1 DEF JogStore, HoldInv, HoldQueued, Pending, hostVars, hist
<1>14. ASSUME NEW i \in Slots, JogEnd(i) \/ LineEnd(i) PROVE HoldInv'
  <2>1. i \in Pending /\ \E m : Stop(i, m)
    BY <1>14 DEF JogEnd, LineEnd, Due, Off, Pending
  <2>2. ~paused
    <3>1. CASE JogEnd(i)
      BY <1>t, <3>1 DEF JogEnd, Due, AlarmInv, HoldInv
    <3>2. CASE LineEnd(i)
      BY <1>t, <3>2, <2>1 DEF LineEnd, HoldInv
    <3>3. QED
      BY <1>14, <3>1, <3>2
  <2>3. \A k \in 1..Len(msgQ) :
          msgQ[k].cmd # "pause" /\ (msgQ[k].cmd = "resume" => k = 1 /\ pc = "remove")
    BY <1>t, <2>1, <2>2 DEF HoldInv
  <2>4. DEFINE b == MoveTo(Jog(2 * JogSteps, 1))
  <2>5. b \in Message /\ b.cmd = "move"
    BY CountTypes, MoveTypes, PlainTypes DEF MoveTo
  <2>6. msgQ' = msgQ \/ msgQ' = TryAdd(b)
    BY <2>1 DEF Stop
  <2>7. pc' = pc /\ paused' = paused /\ pc # "cancel"
    BY <1>t, <1>q, <2>1, <2>3 DEF Stop, hostVars, HoldInv, TypeOK
  <2> HIDE DEF b
  <2>8. \A k \in 1..Len(msgQ') :
          msgQ'[k].cmd # "pause" /\ (msgQ'[k].cmd = "resume" => k = 1 /\ pc = "remove")
    BY <1>t, <2>3, <2>5, <2>6, Queued
  <2>9. QED
    BY <2>2, <2>7, <2>8 DEF HoldInv
<1>15. ASSUME NEW i \in Slots, LineStep(i) PROVE HoldInv'
  <2>1. move'.mode = move.mode
    BY <1>t, <1>15 DEF LineStep, TypeOK, Move
  <2>2. QED
    BY <1>t, <1>15, <2>1 DEF LineStep, Counted, HoldInv, HoldQueued, Pending, hostVars
<1>16. ASSUME NEW m \in Message, Send(m), m.cmd \notin {"pause", "resume"},
              paused' = paused, paused => host' = host
       PROVE  HoldInv'
  <2>1. msgQ' = TryAdd(m)
    BY <1>16 DEF Send
  <2>2. ~HoldQueued' => ~HoldQueued
    BY <1>t, <2>1, Queued DEF HoldQueued
  <2>3. Head(msgQ') = Head(msgQ) \/ pc # "cancel"
    BY <1>t, <1>16 DEF Send
  <2>4. \A k \in 1..Len(msgQ') :
          \/ k \in 1..Len(msgQ) /\ msgQ'[k] = msgQ[k]
          \/ msgQ'[k].cmd \notin {"pause", "resume"}
    BY <1>t, <1>16, <2>1, Queued
  <2>5. \A k \in 1..Len(msgQ) : msgQ[k].cmd = "pause" => msgQ' = msgQ
    BY <1>t, <1>16, <2>1 DEF Send, HoldInv
  <2>6. QED
    BY <1>t, <1>16, <2>2, <2>3, <2>4, <2>5 DEF Send, HoldInv, Pending, hist
<1>17. CASE HostJog \/ HostLine \/ HostUpdate
  <2>1. \A n \in Lengths, d \in {0, 1} :
          /\ MoveTo(Jog(n, d)) \in Message /\ MoveTo(Jog(n, d)).cmd = "move"
          /\ MoveTo(Line(n, d)) \in Message /\ MoveTo(Line(n, d)).cmd = "move"
    BY CountTypes, MoveTypes, PlainTypes DEF MoveTo
  <2>2. /\ Plain("home") \in Message /\ Plain("home").cmd = "home"
        /\ Plain("update") \in Message /\ Plain("update").cmd = "update"
    BY PlainTypes DEF Plain
  <2>3. QED
    BY <1>16, <1>17, <2>1, <2>2 DEF HostJog, HostLine, HostUpdate
<1>18. CASE HostPause
  <2>1. inMotion /\ move.mode = "line" /\ pc \notin {"start", "launch"}
    BY <1>t, <1>18 DEF HostPause, LinePending, AlarmInv, Pending, Off
  <2>2. pc = "peek" /\ pc' = "peek" /\ Len(msgQ) = 0
    BY <1>18, <2>1 DEF HostPause, Send
  <2>3. Plain("pause") \in Message /\ Plain("pause").cmd = "pause"
    BY PlainTypes DEF Plain
  <2>4. Len(msgQ') = 1 /\ msgQ'[1].cmd = "pause"
    BY <1>t, <1>18, <2>2, <2>3, Queued DEF HostPause, Send
  <2>5. /\ inMotion' = inMotion /\ move' = move /\ host' = "free" /\ paused' = TRUE
    BY <1>18 DEF HostPause, Send
  <2>6. QED
    BY <2>1, <2>2, <2>4, <2>5 DEF HoldInv, HoldQueued
<1>19. CASE HostResume
  <2>1. inMotion /\ move.mode = "line" /\ pc \notin {"start", "launch"}
    BY <1>t, <1>19 DEF HostResume, HoldInv
  <2>2. pc = "peek" /\ pc' = "peek" /\ Len(msgQ) = 0
    BY <1>19, <2>1 DEF HostResume, Send
  <2>3. Plain("resume") \in Message /\ Plain("resume").cmd = "resume"
    BY PlainTypes DEF Plain
  <2>4. Len(msgQ') = 1 /\ msgQ'[1].cmd = "resume"
    BY <1>t, <1>19, <2>2, <2>3, Queued DEF HostResume, Send
  <2>5. Pending = {}
    BY <1>t, <1>19, <2>2 DEF HostResume, HoldInv, HoldQueued
  <2>6. /\ inMotion' = inMotion /\ move' = move /\ pool' = pool /\ ~paused'
    BY <1>19 DEF HostResume, Send
  <2>7. QED
    BY <2>1, <2>2, <2>4, <2>5, <2>6 DEF HoldInv, Pending
<1>20. CASE SyncRise
  BY <1>t, <1>20 DEF SyncRise, HoldInv, HoldQueued, Pending
<1>21. CASE LimitFall
  <2>1. move'.mode = move.mode
    BY <1>t, <1>21 DEF LimitFall, StopMove, TypeOK, Move
  <2>2. QED
    BY <1>t, <1>21, <2>1 DEF LimitFall, HoldInv, HoldQueued, Pending
<1>22. CASE LimitRise
  BY <1>t, <1>22 DEF LimitRise, HoldInv, HoldQueued, Pending, hist
<1>23. QED
  BY <1>2, <1>3, <1>4, <1>5, <1>6, <1>7, <1>8, <1>9, <1>10, <1>11, <1>12, <1>13,
     <1>14, <1>15, <1>17, <1>18, <1>19, <1>20, <1>21, <1>22
  DEF Next, Core1, Callback, Host

LEMMA SyncStep ==
  ASSUME MotionInv, Next, {"prompt", "hold"} \subseteq Calm
  PROVE  SyncInv'
<1>t. /\ TypeOK /\ AlarmInv /\ HoldInv /\ SyncInv /\ Len(msgQ) \in 0..QueueLen
      /\ permit \in {0, 1} /\ host \in {"free", "sync"}
  BY HeadAndTail DEF MotionInv, TypeOK
<1>q. /\ msgQ # <<>> => 1 \in 1..Len(msgQ) /\ Head(msgQ) = msgQ[1]
  BY <1>t, HeadAndTail
<1>1. ASSUME NEW m, NEW n, NEW zero, msgQ # <<>>, Accept(m, n, zero),
             m.mode = "line" => host = "sync"
      PROVE  SyncInv'
  <2>1. /\ pc = "peek" /\ pc' = "start" /\ move' = m /\ msgQ' = msgQ
        /\ permit' = permit /\ syncSem' = syncSem /\ host' = host
    BY <1>1 DEF Accept, Thread, hostVars
  <2>2. QED
    BY <1>t, <1>1, <2>1 DEF SyncInv
<1>2. CASE HandleMove
  <2>1. Head(msgQ).move.mode = "line" => host = "sync"
    BY <1>t, <1>q, <1>2 DEF HandleMove, Command, Accept, Thread, SyncInv
  <2>2. QED
    BY <1>1, <1>2, <2>1 DEF HandleMove, Command
<1>3. CASE HandleHome
  <2>1. Jog(pos % Wrap, 0).mode # "line" /\ Homing(MaxHome).mode # "line"
    BY DEF Jog, Homing, NoMove
  <2>2. QED
    BY <1>1, <1>3, <2>1 DEF HandleHome, Command
<1>4. CASE HandleNothing
  BY <1>t, <1>4 DEF HandleNothing, Thread, SyncInv, hostVars, hist
<1>5. CASE HandlePause
  BY <1>t, <1>5 DEF HandlePause, Thread, SyncInv, hostVars, hist
<1>6. CASE Cancel
  BY <1>t, <1>6 DEF Cancel, Thread, SyncInv, hostVars, hist
<1>7. CASE HandleResume
  <2>1. Head(msgQ).cmd = "resume" /\ msgQ # <<>> /\ pc = "peek" /\ pc' = "launch"
    BY <1>7 DEF HandleResume, Command, Thread
  <2>2. move.mode = "line" /\ host = "sync" /\ permit = 0
    BY <1>t, <1>q, <2>1 DEF HoldInv, SyncInv
  <2>3. /\ permit' = permit /\ host' = host /\ move' = move /\ msgQ' = msgQ
    BY <1>7 DEF HandleResume
  <2>4. QED
    BY <1>t, <2>1, <2>2, <2>3 DEF SyncInv
<1>8. CASE StartJog
  BY <1>t, <1>8 DEF StartJog, Thread, SyncInv, hostVars, hist
<1>9. CASE StartLine
  <2>1. /\ pc = "start" /\ pc' = "launch" /\ move.mode = "line" /\ permit' = permit
        /\ host' = host /\ move' = move /\ msgQ' = msgQ
    BY <1>9 DEF StartLine, Thread
  <2>2. QED
    BY <1>t, <2>1 DEF SyncInv
<1>10. CASE Launch
  <2>1. /\ pc = "launch" /\ pc' = "remove" /\ move.mode = "line" /\ permit = 1
        /\ permit' = 0 /\ syncSem' = syncSem /\ msgQ' = msgQ /\ ~syncSem
    BY <1>t, <1>10 DEF Launch, Thread, TakePermit, SyncInv, hostVars
  <2>2. QED
    BY <1>t, <2>1 DEF SyncInv
<1>11. CASE Remove
  <2>1. /\ pc = "remove" /\ pc' = "peek" /\ permit' = permit /\ syncSem' = syncSem
        /\ msgQ' = Tail(msgQ) /\ move' = move /\ host' = host /\ msgQ # <<>>
    BY <1>t, <1>11 DEF Remove, Thread, hostVars, TypeOK
  <2>2. \A k \in 1..Len(msgQ') :
          msgQ'[k].cmd # "resume" /\ msgQ'[k].move.mode # "line"
    BY <1>t, <2>1, HeadAndTail DEF SyncInv
  <2>3. QED
    BY <1>t, <2>1, <2>2 DEF SyncInv
<1>12. ASSUME NEW i \in Slots, JogStep(i) PROVE SyncInv'
  BY <1>t, <1>12 DEF JogStep, Counted, SyncInv, hostVars
<1>13. CASE JogLoad
  BY <1>t, <1>13 DEF JogLoad, SyncInv, hostVars, hist
<1>14. CASE JogStore
  <2>1. move'.mode = move.mode
    BY <1>t, <1>14 DEF JogStore, TypeOK, Move
  <2>2. QED
    BY <1>t, <1>14, <2>1 DEF JogStore, SyncInv, hostVars, hist
<1>15. ASSUME NEW i \in Slots, JogEnd(i) \/ LineEnd(i) PROVE SyncInv'
  <2>1. i \in Pending /\ \E m : Stop(i, m)
    BY <1>15 DEF JogEnd, LineEnd, Due, Off, Pending
  <2>2. pc' = pc /\ pc \notin {"start", "launch"}
    BY <1>t, <2>1 DEF Stop, AlarmInv
  <2>3. permit' = permit /\ syncSem' = syncSem /\ host' = host /\ permit = 0 /\ ~syncSem
    BY <1>t, <2>1, <2>2 DEF Stop, SyncInv, hostVars
  <2>4. DEFINE b == MoveTo(Jog(2 * JogSteps, 1))
  <2>5. b \in Message /\ b.cmd = "move" /\ b.move.mode # "line"
    BY CountTypes, MoveTypes, PlainTypes DEF MoveTo, Jog, NoMove
  <2>6. msgQ' = msgQ \/ msgQ' = TryAdd(b)
    BY <2>1 DEF Stop
  <2> HIDE DEF b
  <2>7. \A k \in 1..Len(msgQ') :
          \/ k \in 1..Len(msgQ) /\ msgQ'[k] = msgQ[k]
          \/ msgQ'[k].cmd # "resume" /\ msgQ'[k].move.mode # "line"
    <3>1. CASE msgQ' = msgQ
      BY <3>1
    <3>2. CASE msgQ' = TryAdd(b)
      BY <1>t, <2>5, <3>2, Queued
    <3>3. QED
      BY <2>6, <3>1, <3>2
  <2>8. QED
    BY <1>t, <2>2, <2>3, <2>7 DEF SyncInv
<1>16. ASSUME NEW i \in Slots, LineStep(i) PROVE SyncInv'
  <2>1. move'.mode = move.mode
    BY <1>t, <1>16 DEF LineStep, TypeOK, Move
  <2>2. QED
    BY <1>t, <1>16, <2>1 DEF LineStep, Counted, SyncInv, hostVars
<1>17. ASSUME NEW m \in Message, Send(m), host = "sync" => host' = "sync",
              \/ m.cmd # "resume" /\ m.move.mode # "line"
              \/ Len(msgQ) = 0 /\ host' = "sync"
       PROVE  SyncInv'
  <2>1. /\ pc' = pc /\ permit' = permit /\ syncSem' = syncSem /\ edge' = edge
        /\ move' = move /\ msgQ' = TryAdd(m)
    BY <1>17 DEF Send, hist
  <2>2. \A k \in 1..Len(msgQ') :
          \/ k \in 1..Len(msgQ) /\ msgQ'[k] = msgQ[k]
          \/ msgQ'[k].cmd # "resume" /\ msgQ'[k].move.mode # "line"
          \/ k = 1 /\ host' = "sync"
    BY <1>t, <1>17, <2>1, Queued
  <2>3. QED
    BY <1>t, <1>17, <2>1, <2>2 DEF SyncInv
<1>18. CASE HostJog \/ HostUpdate \/ HostPause
  <2>1. \A n \in Lengths, d \in {0, 1} :
          MoveTo(Jog(n, d)) \in Message /\ MoveTo(Jog(n, d)).cmd = "move"
          /\ MoveTo(Jog(n, d)).move.mode = "jog"
    BY CountTypes, MoveTypes, PlainTypes DEF MoveTo, Jog, NoMove
  <2>2. \A c \in {"home", "update", "pause"} :
          Plain(c) \in Message /\ Plain(c).cmd = c /\ Plain(c).move.mode = "none"
    BY PlainTypes DEF Plain, NoMove
  <2>3. QED
    BY <1>17, <1>18, <2>1, <2>2 DEF HostJog, HostUpdate, HostPause
<1>19. CASE HostLine
  <2>1. \A n \in Lengths, d \in {0, 1} : MoveTo(Line(n, d)) \in Message
    BY CountTypes, MoveTypes, PlainTypes
  <2>2. pc = "peek" /\ Len(msgQ) = 0
    BY <1>t, <1>19 DEF HostLine, Send, AlarmInv
  <2>3. QED
    BY <1>17, <1>19, <2>1, <2>2 DEF HostLine
<1>20. CASE HostResume
  <2>1. Len(msgQ) = 0
    BY <1>t, <1>20 DEF HostResume, Send, HoldInv
  <2>2. QED
    BY <1>17, <1>20, <2>1, PlainTypes DEF HostResume
<1>21. CASE SyncRise
  <2>1. pc = "launch" /\ pc' = "launch" /\ move' = move /\ msgQ' = msgQ
        /\ ~syncSem' /\ edge'
    BY <1>t, <1>21 DEF SyncRise, SyncInv
  <2>2. QED
    BY <1>t, <2>1 DEF SyncInv
<1>22. CASE LimitFall
  <2>1. move'.mode = move.mode
    BY <1>t, <1>22 DEF LimitFall, StopMove, TypeOK, Move
  <2>2. QED
    BY <1>t, <1>22, <2>1 DEF LimitFall, SyncInv
<1>23. CASE LimitRise
  BY <1>t, <1>23 DEF LimitRise, SyncInv, hist
<1>24. QED
  BY <1>2, <1>3, <1>4, <1>5, <1>6, <1>7, <1>8, <1>9, <1>10, <1>11, <1>12, <1>13,
     <1>14, <1>15, <1>16, <1>18, <1>19, <1>20, <1>21, <1>22, <1>23
  DEF Next, Core1, Callback, Host

LEMMA StutterInv ==
  ASSUME MotionInv, UNCHANGED vars
  PROVE  MotionInv'
<1>1. TypeOK'
  BY TypeStep DEF MotionInv
<1>2. AlarmInv' /\ HoldInv' /\ SyncInv'
  BY DEF MotionInv, AlarmInv, HoldInv, SyncInv, Pending, HoldQueued, vars, hostVars, hist
<1>3. QED
  BY <1>1, <1>2 DEF MotionInv

\* Under the assumptions about when messages and holds arrive, an alarm always
\* belongs to the move under way, a hold finds a line and a permit is used by the
\* line it was released for.
THEOREM MotionInvariant ==
  {"prompt", "hold"} \subseteq Calm => (Spec => []MotionInv)
<1> SUFFICES ASSUME {"prompt", "hold"} \subseteq Calm PROVE Spec => []MotionInv
  OBVIOUS
<1>1. Init => MotionInv
  BY InitInv
<1>2. MotionInv /\ [Next]_vars => MotionInv'
  <2>1. ASSUME MotionInv, Next PROVE MotionInv'
    BY <2>1, AlarmStep, HoldStep, SyncStep, TypeStep DEF MotionInv
  <2>2. QED
    BY <2>1, StutterInv
<1>3. QED
  BY <1>1, <1>2, PTL DEF Spec

\* Two callbacks never step one move at once.
THEOREM MotionOneAlarm ==
  {"prompt", "hold"} \subseteq Calm => (Spec => []OneAlarm)
<1> SUFFICES ASSUME {"prompt", "hold"} \subseteq Calm PROVE Spec => []OneAlarm
  OBVIOUS
<1>1. MotionInv => OneAlarm
  BY DEF MotionInv, AlarmInv, OneAlarm, Pending
<1>2. QED
  BY <1>1, MotionInvariant, PTL

\* An axis that shows MOVE_READY has no callback left that could run into the
\* next move.
THEOREM MotionReadyIsQuiet ==
  {"prompt", "hold"} \subseteq Calm => (Spec => []ReadyIsQuiet)
<1> SUFFICES ASSUME {"prompt", "hold"} \subseteq Calm PROVE Spec => []ReadyIsQuiet
  OBVIOUS
<1>1. MotionInv => ReadyIsQuiet
  BY DEF MotionInv, AlarmInv, ReadyIsQuiet, Pending
<1>2. QED
  BY <1>1, MotionInvariant, PTL

\* No line starts, or goes on after a hold, before the sync signal has risen
\* for it.
THEOREM MotionNoEarlyStart ==
  {"prompt", "hold"} \subseteq Calm => (Spec => []NoEarlyStart)
<1> SUFFICES ASSUME {"prompt", "hold"} \subseteq Calm PROVE Spec => []NoEarlyStart
  OBVIOUS
<1>1. MotionInv => NoEarlyStart
  BY DEF MotionInv, AlarmInv, NoEarlyStart, LinePending
<1>2. QED
  BY <1>1, MotionInvariant, PTL

-----------------------------------------------------------------------------
(* The limit switch, and the count of a move's steps.                      *)

LEMMA SwitchStep ==
  ASSUME MotionInv, SwitchInv, Next, "pulse" \in Calm
  PROVE  SwitchInv'
<1>t. TypeOK /\ AlarmInv /\ move \in Move /\ late = 0
  BY DEF MotionInv, SwitchInv, TypeOK
<1>1. ASSUME NEW m, NEW n, NEW zero, Accept(m, n, zero) PROVE SwitchInv'
  BY <1>1 DEF Accept, SwitchInv
<1>2. CASE HandleMove \/ HandleHome
  BY <1>1, <1>2 DEF HandleMove, HandleHome
<1>3. CASE /\ UNCHANGED <<late, tripped, cb, inMotion, move>>
  BY <1>3 DEF SwitchInv
<1>4. CASE \/ HandleNothing \/ HandlePause \/ Cancel \/ HandleResume \/ StartJog
           \/ StartLine \/ Launch \/ Remove
  BY <1>3, <1>4 DEF HandleNothing, HandlePause, Cancel, HandleResume, StartJog,
     StartLine, Launch, Remove, hist
<1>5. CASE Host
  BY <1>3, <1>5 DEF Host, HostJog, HostLine, HostPause, HostResume, HostUpdate, Send,
     SyncRise, hist
<1>6. ASSUME NEW i \in Slots, JogStep(i) PROVE SwitchInv'
  <2>1. inMotion /\ move.steps # 0 /\ cb = Quiet
    BY <1>t, <1>6 DEF JogStep, Due, AlarmInv, Off
  <2>2. ~tripped
    BY <2>1 DEF SwitchInv
  <2>3. late' = late /\ tripped' = tripped
    BY <1>6, <2>2 DEF JogStep, Counted
  <2>4. QED
    BY <1>t, <2>2, <2>3 DEF SwitchInv
<1>7. CASE JogLoad \/ JogStore
  <2>1. cb # Quiet /\ UNCHANGED <<late, tripped>>
    BY <1>7 DEF JogLoad, JogStore, Quiet, hist
  <2>2. QED
    BY <2>1 DEF SwitchInv
<1>8. ASSUME NEW i \in Slots, JogEnd(i) \/ LineEnd(i) PROVE SwitchInv'
  BY <1>8 DEF JogEnd, LineEnd, Stop, SwitchInv, hist
<1>9. ASSUME NEW i \in Slots, LineStep(i) PROVE SwitchInv'
  <2>1. inMotion /\ ~move.stop
    BY <1>t, <1>9 DEF LineStep, Due, Ends, AlarmInv, Off
  <2>2. ~tripped
    BY <2>1 DEF SwitchInv
  <2>3. late' = late /\ tripped' = tripped
    BY <1>9, <2>2 DEF LineStep, Counted
  <2>4. QED
    BY <1>t, <2>2, <2>3 DEF SwitchInv
<1>10. CASE LimitFall
  BY <1>t, <1>10 DEF LimitFall, StopMove, SwitchInv, Move
<1>11. CASE LimitRise
  BY <1>3, <1>11 DEF LimitRise, hist
<1>12. QED
  BY <1>2, <1>4, <1>5, <1>6, <1>7, <1>8, <1>9, <1>10, <1>11 DEF Next, Core1, Callback

\* The switch stops the axis for good: no step follows until the next move.
THEOREM MotionLimitStops ==
  {"prompt", "hold", "pulse"} \subseteq Calm => (Spec => []LimitStops)
<1> SUFFICES ASSUME {"prompt", "hold", "pulse"} \subseteq Calm PROVE Spec => []LimitStops
  OBVIOUS
<1>0. {"prompt", "hold"} \subseteq Calm /\ "pulse" \in Calm
  OBVIOUS
<1>1. Init => SwitchInv
  BY DEF Init, SwitchInv
<1>2. MotionInv /\ SwitchInv /\ [Next]_vars => SwitchInv'
  <2>1. ASSUME SwitchInv, UNCHANGED vars PROVE SwitchInv'
    BY <2>1 DEF SwitchInv, vars, hist
  <2>2. QED
    BY <1>0, <2>1, SwitchStep
<1>3. SwitchInv => LimitStops
  BY DEF SwitchInv, LimitStops
<1>4. Spec => []MotionInv
  BY <1>0, MotionInvariant
<1>5. QED
  BY <1>1, <1>2, <1>3, <1>4, PTL DEF Spec

-----------------------------------------------------------------------------

\* A message that is queued keeps the messages' moves unstopped.
LEMMA UnstoppedQueue ==
  ASSUME TypeOK, NEW m \in Message, ~m.move.stop,
         \A k \in 1..Len(msgQ) : ~msgQ[k].move.stop
  PROVE  \A k \in 1..Len(TryAdd(m)) : ~TryAdd(m)[k].move.stop
BY Queued

\* Only callbacks count, and only while a move is under way.
LEMMA CountStep ==
  ASSUME MotionInv, CountInv, Next
  PROVE  CountInv'
<1>t. /\ TypeOK /\ AlarmInv /\ move \in Move /\ made \in 0..Wrap /\ want \in Count
      /\ Wrap \in Nat \ {0} /\ cb \in JogShot
  BY CountTypes DEF MotionInv, TypeOK
<1>m. move.steps \in Nat /\ move.left \in Nat /\ want \in Nat /\ made \in Nat /\ want < Wrap
  BY <1>t DEF Move, Count
<1>q. msgQ # <<>> => 1 \in 1..Len(msgQ) /\ Head(msgQ) = msgQ[1] /\ Head(msgQ) \in Message
  BY <1>t, HeadAndTail DEF TypeOK
<1>c. \A k \in 1..Len(msgQ) : ~msgQ[k].move.stop
  BY DEF CountInv
<1>1. ASSUME NEW m \in Move, NEW zero, ~m.stop,
             Accept(m, IF m.mode = "line" THEN m.left ELSE m.steps, zero)
      PROVE  CountInv'
  <2>1. /\ cb = Quiet /\ cb' = Quiet /\ move' = m /\ made' = 0 /\ ~tripped' /\ inMotion'
        /\ want' = (IF m.mode = "line" THEN m.left ELSE m.steps) /\ msgQ' = msgQ
    BY <1>1 DEF Accept, Thread
  <2>2. m.left \in Nat /\ m.steps \in Nat
    BY DEF Move, Count
  <2>3. QED
    BY <1>1, <1>c, <2>1, <2>2 DEF CountInv
<1>2. CASE HandleMove
  <2>1. msgQ # <<>> /\ Head(msgQ).move \in Move /\ ~Head(msgQ).move.stop
    BY <1>2, <1>q, <1>c DEF HandleMove, Command, Message
  <2>2. QED
    BY <1>1, <1>2, <2>1 DEF HandleMove
<1>3. CASE HandleHome
  <2>1. pos % Wrap \in Count /\ MaxHome \in Count
    BY <1>t, PosTypes, CountTypes DEF TypeOK
  <2>2. Jog(pos % Wrap, 0) \in Move /\ Homing(MaxHome) \in Move
    BY <2>1, MoveTypes
  <2>3. /\ ~Jog(pos % Wrap, 0).stop /\ Jog(pos % Wrap, 0).mode = "jog"
        /\ Jog(pos % Wrap, 0).steps = pos % Wrap
        /\ ~Homing(MaxHome).stop /\ Homing(MaxHome).mode = "homing"
        /\ Homing(MaxHome).steps = MaxHome
    BY DEF Jog, Homing, NoMove
  <2>4. QED
    BY <1>1, <1>3, <2>2, <2>3 DEF HandleHome
<1>4. ASSUME UNCHANGED <<cb, move, tripped, inMotion, made, want>>,
             \A k \in 1..Len(msgQ') : ~msgQ'[k].move.stop
      PROVE  CountInv'
  BY <1>4 DEF CountInv
<1>5. CASE \/ HandleNothing \/ HandlePause \/ Cancel \/ HandleResume \/ StartJog
           \/ StartLine \/ Launch
  <2>1. msgQ' = msgQ /\ UNCHANGED <<cb, move, tripped, inMotion, made, want>>
    BY <1>5 DEF HandleNothing, HandlePause, Cancel, HandleResume, StartJog,
       StartLine, Launch, hist
  <2>2. QED
    BY <1>4, <1>c, <2>1
<1>6. CASE Remove
  <2>1. msgQ' = Tail(msgQ) /\ msgQ # <<>> /\ UNCHANGED <<cb, move, tripped, inMotion, made, want>>
    BY <1>t, <1>6 DEF Remove, Thread, TypeOK, hist
  <2>2. \A k \in 1..Len(msgQ') : ~msgQ'[k].move.stop
    BY <1>t, <1>c, <2>1, HeadAndTail
  <2>3. QED
    BY <1>4, <2>1, <2>2
<1>7. ASSUME NEW m \in Message, ~m.move.stop, Send(m) PROVE CountInv'
  <2>1. msgQ' = TryAdd(m) /\ UNCHANGED <<cb, move, tripped, inMotion, made, want>>
    BY <1>7 DEF Send, hist
  <2>2. QED
    BY <1>t, <1>4, <1>7, <1>c, <2>1, UnstoppedQueue
<1>8. CASE HostJog \/ HostLine \/ HostPause \/ HostResume \/ HostUpdate
  <2>1. \A n \in Lengths, d \in {0, 1} :
          /\ MoveTo(Jog(n, d)) \in Message /\ ~MoveTo(Jog(n, d)).move.stop
          /\ MoveTo(Line(n, d)) \in Message /\ ~MoveTo(Line(n, d)).move.stop
    BY CountTypes, MoveTypes, PlainTypes DEF MoveTo, Jog, Line, NoMove
  <2>2. \A c \in {"home", "update", "pause", "resume"} :
          Plain(c) \in Message /\ ~Plain(c).move.stop
    BY PlainTypes DEF Plain, NoMove
  <2>3. QED
    BY <1>7, <1>8, <2>1, <2>2 DEF HostJog, HostLine, HostPause, HostResume, HostUpdate
<1>9. CASE SyncRise
  BY <1>4, <1>9, <1>c DEF SyncRise
<1>10. ASSUME NEW i \in Slots, JogStep(i) PROVE CountInv'
  <2>1. /\ inMotion /\ cb = Quiet /\ move.steps # 0 /\ move.mode # "line"
    BY <1>t, <1>10 DEF JogStep, Due, AlarmInv, Off
  <2>2. cb'.at = "pulse"
    BY <1>10 DEF JogStep
  <2>3. cb' # Quiet
    BY <2>2 DEF Quiet
  <2>4. ~tripped => made + move.steps = want /\ ~move.stop
    BY <2>1 DEF CountInv
  <2>5. ~tripped => made' = made + 1
    <3>1. made' = Bump(made)
      BY <1>10 DEF JogStep, Counted
    <3>2. ASSUME made + move.steps = want PROVE made < Wrap
      BY <1>m, <1>t, <3>2
    <3>3. ~tripped => made < Wrap
      BY <2>4, <3>2
    <3>4. QED
      BY <3>1, <3>3 DEF Bump
  <2>6. UNCHANGED <<msgQ, move, inMotion, tripped, want>>
    BY <1>10 DEF JogStep, Counted
  <2>7. ~tripped' => made' + move'.steps = want' + 1
    BY <1>m, <2>4, <2>5, <2>6
  <2>8. QED
    BY <1>c, <2>1, <2>2, <2>3, <2>4, <2>6, <2>7 DEF CountInv
<1>11. CASE JogLoad
  <2>1. /\ cb # Quiet /\ cb'.at = "load" /\ cb'.steps = move.steps
        /\ UNCHANGED <<msgQ, move, inMotion, tripped, made, want>>
    BY <1>t, <1>11 DEF JogLoad, Quiet, JogShot, hist
  <2>2. cb' # Quiet
    BY <2>1 DEF Quiet
  <2>3. QED
    BY <1>c, <2>1, <2>2 DEF CountInv
<1>12. CASE JogStore
  <2>1. /\ cb.at = "load" /\ cb # Quiet /\ cb' = Quiet /\ inMotion
        /\ UNCHANGED <<msgQ, inMotion, tripped, made, want>>
    BY <1>t, <1>12 DEF JogStore, Quiet, AlarmInv, Pending, Off, hist
  <2>2. move'.mode = move.mode /\ move'.stop = move.stop /\ move'.steps = Less(cb.steps)
    BY <1>t, <1>12 DEF JogStore, Move
  <2>3. ASSUME ~tripped PROVE move'.steps = move.steps - 1
    <3>1. cb.steps = move.steps /\ move.steps # 0
      BY <2>1, <2>3 DEF CountInv
    <3>2. move.steps - 1 \in 0..(Wrap - 1)
      BY <1>t, <3>1 DEF Move, Count
    <3>3. (move.steps - 1) % Wrap = move.steps - 1
      BY <1>t, <3>2
    <3>4. QED
      BY <2>2, <3>1, <3>3 DEF Less
  <2>4. ~tripped => /\ ~move.stop /\ move.mode # "line" /\ made + move.steps = want + 1
    BY <2>1 DEF CountInv
  <2>5. ~tripped => made' + move'.steps = want'
    <3>1. ASSUME made + move.steps = want + 1 PROVE made + (move.steps - 1) = want
      <4>1. \A a, b, c \in Nat : a + b = c + 1 => a + (b - 1) = c
        OBVIOUS
      <4>2. made \in Nat /\ move.steps \in Nat /\ want \in Nat
        BY <1>m
      <4>3. QED
        BY <3>1, <4>1, <4>2
    <3>2. QED
      BY <2>1, <2>3, <2>4, <3>1
  <2>6. QED
    BY <1>c, <2>1, <2>2, <2>4, <2>5 DEF CountInv
<1>13. ASSUME NEW i \in Slots, JogEnd(i) \/ LineEnd(i) PROVE CountInv'
  <2>1. PICK m : Stop(i, m)
    BY <1>13 DEF JogEnd, LineEnd
  <2>2. /\ inMotion /\ cb = Quiet /\ cb' = cb /\ ~inMotion'
        /\ UNCHANGED <<tripped, made, want>>
    BY <1>t, <1>13, <2>1 DEF JogEnd, LineEnd, Due, Stop, AlarmInv, Off, hist
  <2>3. ~tripped => made = want
    <3>1. CASE JogEnd(i)
      <4>1. move.steps = 0 /\ move.mode # "line"
        BY <1>t, <3>1 DEF JogEnd, Due, AlarmInv
      <4>2. QED
        BY <1>m, <2>2, <4>1 DEF CountInv
    <3>2. CASE LineEnd(i)
      <4>1. ~tripped => move.mode = "line" /\ move.left = 0
        BY <1>t, <2>2, <3>2 DEF LineEnd, Due, Ends, Arrived, AlarmInv, CountInv
      <4>2. QED
        BY <1>m, <2>2, <4>1 DEF CountInv
    <3>3. QED
      BY <1>13, <3>1, <3>2
  <2>4. DEFINE b == MoveTo(Jog(2 * JogSteps, 1))
  <2>5. b \in Message /\ ~b.move.stop
    BY CountTypes, MoveTypes, PlainTypes DEF MoveTo, Jog, NoMove
  <2>6. msgQ' = msgQ \/ msgQ' = TryAdd(b)
    BY <2>1 DEF Stop
  <2> HIDE DEF b
  <2>7. \A k \in 1..Len(msgQ') : ~msgQ'[k].move.stop
    BY <1>t, <1>c, <2>5, <2>6, UnstoppedQueue
  <2>8. QED
    BY <2>2, <2>3, <2>7 DEF CountInv
<1>14. ASSUME NEW i \in Slots, LineStep(i) PROVE CountInv'
  <2>1. /\ inMotion /\ cb = Quiet /\ move.mode = "line" /\ ~move.stop /\ move.left # 0
    BY <1>t, <1>14 DEF LineStep, Due, Ends, Arrived, AlarmInv, Off
  <2>2. /\ move'.mode = "line" /\ ~move'.stop /\ move'.left = move.left - 1
        /\ UNCHANGED <<msgQ, cb, inMotion, tripped, want>>
    BY <1>t, <1>14, <2>1 DEF LineStep, Counted, Move
  <2>3. ~tripped => made + move.left = want
    BY <2>1 DEF CountInv
  <2>4. ~tripped => made' = made + 1
    <3>1. made' = Bump(made)
      BY <1>14 DEF LineStep, Counted
    <3>2. ASSUME made + move.left = want PROVE made < Wrap
      BY <1>m, <1>t, <3>2
    <3>3. ~tripped => made < Wrap
      BY <2>3, <3>2
    <3>4. QED
      BY <3>1, <3>3 DEF Bump
  <2>5. ~tripped' => made' + move'.left = want'
    BY <1>m, <2>2, <2>3, <2>4
  <2>6. QED
    BY <1>c, <2>1, <2>2, <2>5 DEF CountInv
<1>15. CASE LimitFall
  <2>1. /\ tripped' = (tripped \/ inMotion) /\ move'.mode = move.mode
        /\ UNCHANGED <<msgQ, cb, inMotion, made, want>>
    BY <1>t, <1>15 DEF LimitFall, StopMove, Move
  <2>2. cb # Quiet => inMotion
    BY <1>t DEF AlarmInv, Pending
  <2>3. QED
    BY <1>c, <2>1, <2>2 DEF CountInv
<1>16. CASE LimitRise
  BY <1>4, <1>16, <1>c DEF LimitRise, hist
<1>17. QED
  BY <1>2, <1>3, <1>5, <1>6, <1>8, <1>9, <1>10, <1>11, <1>12, <1>13, <1>14, <1>15, <1>16
  DEF Next, Core1, Callback, Host

\* A move the switch does not end takes exactly its steps.
THEOREM MotionStepsExact ==
  {"prompt", "hold"} \subseteq Calm => (Spec => []StepsExact)
<1> SUFFICES ASSUME {"prompt", "hold"} \subseteq Calm PROVE Spec => []StepsExact
  OBVIOUS
<1>1. Init => CountInv
  <2>1. ASSUME Init PROVE Len(msgQ) = 0 /\ cb = Quiet /\ made = want /\ ~inMotion
    BY <2>1 DEF Init
  <2>2. QED
    BY <2>1 DEF CountInv
<1>2. MotionInv /\ CountInv /\ [Next]_vars => CountInv'
  <2>1. ASSUME CountInv, UNCHANGED vars PROVE CountInv'
    BY <2>1 DEF CountInv, vars, hist
  <2>2. QED
    BY <2>1, CountStep
<1>3. CountInv => StepsExact
  BY DEF CountInv, StepsExact
<1>4. Spec => []MotionInv
  BY MotionInvariant
<1>5. QED
  BY <1>1, <1>2, <1>3, <1>4, PTL DEF Spec

-----------------------------------------------------------------------------
(* Homing.                                                                 *)

\* The queue holds at most one move core1 has not begun, and no other move
\* comes between the switch and the way back.
LEMMA QueueStep ==
  ASSUME MotionInv, HomeQueue, Next, {"prompt", "hold", "alone"} \subseteq Calm
  PROVE  HomeQueue'
<1>t. /\ TypeOK /\ AlarmInv /\ HoldInv /\ pins \in Levels
      /\ pins.ready \in {0, 1} /\ pins.motion \in {0, 1} /\ Len(msgQ) \in 0..2
  BY HeadAndTail DEF MotionInv, TypeOK, Levels, QueueLen
<1>q. /\ msgQ # <<>> => 1 \in 1..Len(msgQ) /\ Head(msgQ) = msgQ[1]
      /\ inMotion => pins.ready = 0
      /\ pc \in {"start", "launch"} => inMotion
  BY <1>t, HeadAndTail DEF AlarmInv
<1>h. \A k \in 1..Len(msgQ) : IsMove(msgQ[k]) =>
       \/ k = 1 /\ pc # "peek"
       \/ pins.ready = 1 /\ Len(msgQ) = 1
       \/ ~inMotion /\ pins.motion = 0 /\ msgQ[k] = Bounce
  BY DEF HomeQueue
<1>1. ASSUME NEW m, NEW n, NEW zero, msgQ # <<>>, IsMove(Head(msgQ)), Accept(m, n, zero)
      PROVE  HomeQueue'
  <2>1. /\ pc = "peek" /\ pc' = "start" /\ inMotion' /\ msgQ' = msgQ /\ pins'.ready = 0
        /\ pins'.motion = 0
    BY <1>t, <1>1 DEF Accept, Thread, Levels
  <2>2. \A k \in 1..Len(msgQ) : IsMove(msgQ[k]) => k = 1
    <3>1. ASSUME NEW k \in 1..Len(msgQ), IsMove(msgQ[k]), k # 1 PROVE FALSE
      <4>1. k = 2 /\ Len(msgQ) = 2
        BY <1>t, <3>1
      <4>2. QED
        BY <1>q, <1>1, <2>1, <3>1, <4>1 DEF HomeQueue
    <3>2. QED
      BY <3>1
  <2>3. QED
    BY <2>1, <2>2 DEF HomeQueue
<1>2. CASE HandleMove \/ HandleHome
  BY <1>1, <1>2 DEF HandleMove, HandleHome, Command, IsMove
<1>3. ASSUME pc = "peek" => pc' # "peek", pc' = "peek" => pc = "peek",
             UNCHANGED <<msgQ, inMotion, pos, move>>,
             pins'.ready = pins.ready, pins' # pins => inMotion,
             pins'.motion # pins.motion => move.mode = "line",
             inMotion => pins.ready = 0
      PROVE  HomeQueue'
  BY <1>t, <1>3 DEF HomeQueue
<1>4. CASE HandleNothing \/ StartJog \/ Launch \/ Cancel
  BY <1>q, <1>3, <1>4 DEF HandleNothing, StartJog, Launch, Cancel, Thread
<1>5. CASE HandlePause
  <2>1. pins'.ready = pins.ready
    BY <1>t, <1>5 DEF HandlePause, HeldPins, Levels
  <2>2. inMotion /\ move.mode = "line"
    BY <1>t, <1>q, <1>5 DEF HandlePause, Command, HoldInv
  <2>3. QED
    BY <1>q, <1>3, <1>5, <2>1, <2>2 DEF HandlePause, Thread
<1>6. CASE HandleResume
  <2>1. pins'.ready = pins.ready
    BY <1>t, <1>6 DEF HandleResume, SyncReady, ResumedPins, Levels
  <2>2. inMotion /\ move.mode = "line"
    BY <1>t, <1>q, <1>6 DEF HandleResume, Command, Thread, HoldInv
  <2>3. QED
    BY <1>q, <1>3, <1>6, <2>1, <2>2 DEF HandleResume, Thread
<1>7. CASE StartLine
  <2>1. pins'.ready = pins.ready
    BY <1>t, <1>7 DEF StartLine, SyncReady, Levels
  <2>2. inMotion /\ move.mode = "line"
    BY <1>q, <1>7 DEF StartLine, Thread
  <2>3. QED
    BY <1>q, <1>3, <1>7, <2>1, <2>2 DEF StartLine, Thread
<1>8. CASE Remove
  <2>1. /\ pc = "remove" /\ pc' = "peek" /\ msgQ' = Tail(msgQ) /\ msgQ # <<>>
        /\ UNCHANGED <<inMotion, pins, pos, move>>
    BY <1>t, <1>8 DEF Remove, Thread, TypeOK
  <2>2. /\ Len(msgQ') = Len(msgQ) - 1
        /\ \A k \in 1..Len(msgQ') : k + 1 \in 1..Len(msgQ) /\ msgQ'[k] = msgQ[k + 1]
    BY <1>t, <2>1, HeadAndTail
  <2>3. \A k \in 1..Len(msgQ') : IsMove(msgQ'[k]) =>
          ~inMotion /\ pins.motion = 0 /\ msgQ'[k] = Bounce
    <3>1. ASSUME NEW k \in 1..Len(msgQ'), IsMove(msgQ'[k])
          PROVE  ~inMotion /\ pins.motion = 0 /\ msgQ'[k] = Bounce
      <4>1. /\ k + 1 \in 1..Len(msgQ) /\ msgQ'[k] = msgQ[k + 1] /\ k + 1 # 1
            /\ Len(msgQ) # 1
        BY <1>t, <2>2, <3>1
      <4>2. IsMove(msgQ[k + 1])
        BY <3>1, <4>1
      <4>3. QED
        BY <1>h, <4>1, <4>2
    <3>2. QED
      BY <3>1
  <2>4. Len(msgQ') # 2
    BY <1>t, <2>2
  <2>5. QED
    BY <2>1, <2>3, <2>4 DEF HomeQueue
<1>9. ASSUME NEW i \in Slots, JogStep(i) \/ LineStep(i) PROVE HomeQueue'
  <2>1. inMotion /\ UNCHANGED <<pc, msgQ, inMotion, pins>> /\ move'.mode = move.mode
    BY <1>t, <1>9 DEF JogStep, LineStep, Due, AlarmInv, Off, TypeOK, Move
  <2>2. QED
    BY <2>1 DEF HomeQueue
<1>10. CASE JogLoad \/ JogStore
  <2>1. UNCHANGED <<pc, msgQ, inMotion, pins, pos>> /\ move'.mode = move.mode
    BY <1>t, <1>10 DEF JogLoad, JogStore, TypeOK, Move
  <2>2. QED
    BY <2>1 DEF HomeQueue
<1>11. ASSUME NEW i \in Slots, JogEnd(i) \/ LineEnd(i) PROVE HomeQueue'
  <2>1. PICK m : Stop(i, m) /\ m.mode = move.mode
    <3>1. CASE JogEnd(i)
      BY <3>1 DEF JogEnd
    <3>2. CASE LineEnd(i)
      <4>1. [move EXCEPT !.stop = TRUE].mode = move.mode
        BY <1>t DEF TypeOK, Move
      <4>2. QED
        BY <3>2, <4>1 DEF LineEnd
    <3>3. QED
      BY <1>11, <3>1, <3>2
  <2>2. inMotion /\ ~inMotion' /\ pc' = pc
    BY <1>t, <1>11, <2>1 DEF JogEnd, LineEnd, Due, Stop, AlarmInv, Off
  <2>3. \A k \in 1..Len(msgQ) : IsMove(msgQ[k]) => k = 1 /\ pc # "peek"
    BY <1>h, <1>q, <2>2
  <2>4. CASE AtSwitch(m)
    <3>1. /\ pos' = Behind /\ pins' = pins /\ msgQ' = TryAdd(Bounce)
      BY <2>1, <2>4 DEF Stop, Bounce
    <3>2. Bounce \in Message
      BY CountTypes, MoveTypes, PlainTypes DEF Bounce
    <3>3. /\ Len(msgQ') \in {Len(msgQ), Len(msgQ) + 1}
          /\ \A k \in 1..Len(msgQ') :
              \/ k = Len(msgQ) + 1 /\ msgQ'[k] = Bounce
              \/ k \in 1..Len(msgQ) /\ msgQ'[k] = msgQ[k]
      BY <1>t, <3>1, <3>2, Queued
    <3>4. pins.motion = 0
      <4>1. move.mode = "homing"
        BY <2>1, <2>4 DEF AtSwitch
      <4>2. QED
        BY <2>2, <4>1 DEF HomeQueue
    <3>5. QED
      BY <1>q, <2>2, <2>3, <3>1, <3>3, <3>4 DEF HomeQueue
  <2>5. CASE ~AtSwitch(m)
    <3>1. /\ pins'.motion = 1 /\ msgQ' = msgQ
      BY <2>1, <2>5 DEF Stop, FreePins
    <3>2. pc = "peek" /\ Len(msgQ) = 2 => ~IsMove(msgQ[1]) \/ ~IsMove(msgQ[2])
      BY DEF HomeQueue
    <3>3. QED
      BY <2>2, <2>3, <3>1, <3>2 DEF HomeQueue
  <2>6. QED
    BY <2>4, <2>5
<1>12. ASSUME NEW m \in Message, Send(m), IsMove(m) => pins.ready = 1 PROVE HomeQueue'
  <2>1. /\ msgQ' = TryAdd(m) /\ UNCHANGED <<pc, inMotion, pins, pos, move>>
    BY <1>12 DEF Send
  <2>2. /\ Len(msgQ') \in {Len(msgQ), Len(msgQ) + 1}
        /\ \A k \in 1..Len(msgQ') :
              \/ k = Len(msgQ) + 1 /\ msgQ'[k] = m
              \/ k \in 1..Len(msgQ) /\ msgQ'[k] = msgQ[k]
        /\ Len(msgQ) = 0 => Len(msgQ') = 1 /\ msgQ'[1] = m
    BY <1>t, <1>12, <2>1, Queued
  <2>3. CASE pc = "peek" /\ Len(msgQ) = 0
    BY <1>12, <2>1, <2>2, <2>3 DEF HomeQueue
  <2>4. CASE pc \in {"start", "launch"}
    <3>1. pins.ready = 0 /\ ~IsMove(m) /\ inMotion
      BY <1>q, <1>12, <2>4
    <3>2. QED
      BY <1>h, <2>1, <2>2, <2>4, <3>1 DEF HomeQueue
  <2>5. QED
    BY <1>12, <2>3, <2>4 DEF Send
<1>13. CASE HostJog \/ HostLine
  <2>1. \A n \in Lengths, d \in {0, 1} :
          MoveTo(Jog(n, d)) \in Message /\ MoveTo(Line(n, d)) \in Message
    BY CountTypes, MoveTypes, PlainTypes
  <2>2. Plain("home") \in Message
    BY PlainTypes
  <2>3. pins.ready = 1
    BY <1>13 DEF HostJog, HostLine
  <2>4. QED
    BY <1>12, <1>13, <2>1, <2>2, <2>3 DEF HostJog, HostLine
<1>14. CASE HostPause \/ HostResume \/ HostUpdate
  <2>1. \A c \in {"update", "pause", "resume"} : Plain(c) \in Message /\ ~IsMove(Plain(c))
    BY PlainTypes DEF Plain, IsMove
  <2>2. QED
    BY <1>12, <1>14, <2>1 DEF HostPause, HostResume, HostUpdate
<1>15. CASE SyncRise \/ LimitFall \/ LimitRise
  <2>1. UNCHANGED <<pc, msgQ, inMotion, pins, pos>> /\ move'.mode = move.mode
    BY <1>t, <1>15 DEF SyncRise, LimitFall, LimitRise, StopMove, TypeOK, Move
  <2>2. QED
    BY <2>1 DEF HomeQueue
<1>16. QED
  BY <1>2, <1>4, <1>5, <1>6, <1>7, <1>8, <1>9, <1>10, <1>11, <1>13, <1>14, <1>15
  DEF Next, Core1, Callback, Host

\* A home core1 has not begun finds the axis at rest, so it stays where the user saw
\* it: at 0 or beyond, if it has been homed.
LEMMA AheadStep ==
  ASSUME MotionInv, HomeQueue, HomeAhead, Next,
         {"prompt", "hold", "alone", "ahead"} \subseteq Calm
  PROVE  HomeAhead'
<1>t. TypeOK /\ AlarmInv /\ Len(msgQ) \in 0..2
  BY HeadAndTail DEF MotionInv, TypeOK, QueueLen
<1>b. Bounce \in Message /\ Bounce.cmd = "move"
  BY CountTypes, MoveTypes, PlainTypes DEF Bounce, MoveTo
<1>h. \A k \in 1..Len(msgQ) : msgQ[k].cmd = "home" =>
       \/ k = 1 /\ pc # "peek"
       \/ pins.ready = 1 /\ Len(msgQ) = 1
  BY <1>b DEF HomeQueue, IsMove
<1>r. \A k \in 1..Len(msgQ) : msgQ[k].cmd = "home" /\ pc = "peek" => ~inMotion
  BY <1>t, <1>h DEF AlarmInv
<1>1. ASSUME UNCHANGED <<msgQ, pos, homed>>, pc' = "peek" => pc = "peek"
      PROVE  HomeAhead'
  BY <1>1 DEF HomeAhead
<1>2. CASE HandleMove \/ HandleHome
  BY <1>1, <1>2 DEF HandleMove, HandleHome, Accept, Thread
<1>3. CASE \/ HandleNothing \/ HandlePause \/ Cancel \/ HandleResume \/ StartJog
           \/ StartLine \/ Launch
  BY <1>1, <1>3 DEF HandleNothing, HandlePause, Cancel, HandleResume, StartJog,
     StartLine, Launch, Thread
<1>4. CASE Remove
  <2>1. msgQ' = Tail(msgQ) /\ msgQ # <<>>
    BY <1>t, <1>4 DEF Remove, Thread, TypeOK
  <2>2. \A k \in 1..Len(msgQ') : k + 1 \in 1..Len(msgQ) /\ msgQ'[k] = msgQ[k + 1]
    BY <1>t, <2>1, HeadAndTail
  <2>3. ASSUME NEW k \in 1..Len(msgQ') PROVE msgQ'[k].cmd # "home"
    <3>1. k + 1 \in 1..Len(msgQ) /\ k + 1 # 1 /\ Len(msgQ) # 1
      BY <1>t, <2>2
    <3>2. QED
      BY <1>h, <2>2, <3>1
  <2>4. QED
    BY <2>3 DEF HomeAhead
<1>5. ASSUME NEW m \in Message, pc' = pc, UNCHANGED <<pos, homed>>, msgQ' = TryAdd(m),
             m.cmd = "home" /\ pc = "peek" /\ homed => pos >= 0
      PROVE  HomeAhead'
  <2>1. \A k \in 1..Len(msgQ') :
              \/ k = Len(msgQ) + 1 /\ msgQ'[k] = m
              \/ k \in 1..Len(msgQ) /\ msgQ'[k] = msgQ[k]
    BY <1>t, <1>5, Queued
  <2>2. QED
    BY <1>5, <2>1 DEF HomeAhead
<1>6. ASSUME NEW i \in Slots, JogStep(i) \/ LineStep(i) \/ JogEnd(i) \/ LineEnd(i)
      PROVE  HomeAhead'
  <2>1. inMotion /\ pc' = pc
    BY <1>t, <1>6 DEF JogStep, LineStep, JogEnd, LineEnd, Stop, Due, AlarmInv, Off
  <2>2. msgQ' = msgQ \/ msgQ' = TryAdd(Bounce)
    BY <1>6 DEF JogStep, LineStep, JogEnd, LineEnd, Stop, Bounce
  <2>3. \A k \in 1..Len(msgQ') :
          \/ msgQ'[k] = Bounce
          \/ k \in 1..Len(msgQ) /\ msgQ'[k] = msgQ[k]
    BY <1>t, <1>b, <2>2, Queued
  <2>4. \A k \in 1..Len(msgQ') : ~(msgQ'[k].cmd = "home" /\ pc' = "peek")
    BY <1>b, <1>r, <2>1, <2>3
  <2>5. QED
    BY <2>4 DEF HomeAhead
<1>7. CASE JogLoad \/ JogStore \/ SyncRise \/ LimitFall \/ LimitRise
  BY <1>1, <1>7 DEF JogLoad, JogStore, SyncRise, LimitFall, LimitRise
<1>8. CASE HostJog
  <2>1. \A n \in Lengths, d \in {0, 1} :
          MoveTo(Jog(n, d)) \in Message /\ MoveTo(Jog(n, d)).cmd = "move"
    BY CountTypes, MoveTypes, PlainTypes DEF MoveTo
  <2>2. Plain("home") \in Message
    BY PlainTypes
  <2>3. QED
    BY <1>5, <1>8, <2>1, <2>2 DEF HostJog, Send
<1>9. CASE HostLine \/ HostPause \/ HostResume \/ HostUpdate
  <2>1. \A n \in Lengths, d \in {0, 1} :
          MoveTo(Line(n, d)) \in Message /\ MoveTo(Line(n, d)).cmd = "move"
    BY CountTypes, MoveTypes, PlainTypes DEF MoveTo
  <2>2. \A c \in {"pause", "resume", "update"} :
          Plain(c) \in Message /\ Plain(c).cmd # "home"
    BY PlainTypes DEF Plain
  <2>3. QED
    BY <1>5, <1>9, <2>1, <2>2 DEF HostLine, HostPause, HostResume, HostUpdate, Send
<1>10. QED
  BY <1>2, <1>3, <1>4, <1>6, <1>7, <1>8, <1>9 DEF Next, Core1, Callback, Host

\* A step towards 0 is not clipped.
LEMMA UnclippedStep ==
  ASSUME MaxPos >= 2 * JogSteps, pos \in Pos, Step
  PROVE  /\ move.dir # 1 /\ pos > 0 => pos' = pos - 1
         /\ move.dir = 1 /\ pos < 0 => pos' = pos + 1
<1>1. MaxPos \in Nat /\ JogSteps \in Nat \ {0}
  BY MotionAssumption
<1>2. pos \in Int /\ pos <= MaxPos /\ pos >= -MaxPos
  BY <1>1 DEF Pos
<1>3. move.dir # 1 /\ pos > 0 => Clip(pos - 1) = pos - 1
  BY <1>1, <1>2 DEF Clip
<1>4. move.dir = 1 /\ pos < 0 => Clip(pos + 1) = pos + 1
  BY <1>1, <1>2 DEF Clip
<1>5. QED
  BY <1>3, <1>4 DEF Step

\* Each step of a move to 0 brings the axis one nearer and the count one down.
LEMMA PathStep ==
  ASSUME MotionInv, CountInv, HomeQueue, HomeAhead, HomePath, Next,
         MaxPos >= 2 * JogSteps, {"prompt", "hold", "alone"} \subseteq Calm
  PROVE  HomePath'
<1>t. /\ TypeOK /\ AlarmInv /\ HoldInv /\ move \in Move /\ cb \in JogShot
      /\ pos \in Pos /\ pos \in Int /\ JogSteps \in Nat \ {0} /\ Wrap \in Nat \ {0}
      /\ move.dir \in {0, 1} /\ move.steps \in Nat /\ pins \in Levels
      /\ pins.motion \in {0, 1}
  BY CountTypes, PosTypes, MotionAssumption DEF MotionInv, TypeOK, Move, Count, Levels
<1>q. msgQ # <<>> => 1 \in 1..Len(msgQ) /\ Head(msgQ) = msgQ[1]
  BY <1>t, HeadAndTail
<1>1. ASSUME UNCHANGED <<toZero, tripped, inMotion, move, pos, cb>>,
             ~inMotion => pins'.motion = pins.motion
      PROVE  HomePath'
  BY <1>1 DEF HomePath, HomeAtZero, Ahead
<1>2. CASE HandleMove
  <2>1. /\ pc = "peek" /\ ~inMotion /\ inMotion' /\ cb' = Quiet /\ pos' = pos
        /\ toZero' = (pins.motion = 0) /\ move' = Head(msgQ).move
        /\ msgQ # <<>> /\ IsMove(Head(msgQ))
    BY <1>2 DEF HandleMove, Accept, Thread, Command, IsMove
  <2>2. pins.motion = 0 => Head(msgQ) = Bounce /\ pos = Behind
    BY <1>q, <2>1 DEF HomeQueue
  <2>3. /\ Bounce.move.mode = "jog" /\ Bounce.move.dir = 1
        /\ Bounce.move.steps = 2 * JogSteps /\ Behind = -(2 * JogSteps)
    BY <1>t DEF Bounce, MoveTo, Jog, NoMove, Behind
  <2>4. toZero' => /\ move'.mode = "jog" /\ move'.dir = 1 /\ move'.steps = 2 * JogSteps
                   /\ pos' = -(2 * JogSteps)
    BY <2>1, <2>2, <2>3
  <2>5. QED
    BY <2>1, <2>4 DEF HomePath, HomeAtZero, Ahead
<1>3. CASE HandleHome
  <2>1. inMotion' /\ cb' = Quiet /\ pos' = pos /\ pc = "peek"
    BY <1>3 DEF HandleHome, Accept, Thread
  <2>a. homed => pos >= 0
    BY <1>q, <1>3, <2>1 DEF HandleHome, Command, HomeAhead
  <2>2. toZero' => move' = Jog(pos % Wrap, 0) /\ pos >= 0
    BY <1>3, <2>a DEF HandleHome, Accept
  <2>3. pos >= 0 => pos % Wrap = pos
    <3>1. MaxPos < Wrap /\ MaxPos \in Nat /\ pos <= MaxPos
      BY <1>t, MotionAssumption DEF Pos
    <3>2. QED
      BY <1>t, <3>1
  <2>4. /\ Jog(pos % Wrap, 0).mode = "jog" /\ Jog(pos % Wrap, 0).dir = 0
        /\ Jog(pos % Wrap, 0).steps = pos % Wrap
    BY DEF Jog, NoMove
  <2>5. toZero' => move'.mode = "jog" /\ move'.dir = 0 /\ pos' = move'.steps
    BY <2>1, <2>2, <2>3, <2>4
  <2>6. QED
    BY <2>1, <2>5 DEF HomePath, HomeAtZero, Ahead
<1>4. CASE HandleNothing \/ StartJog \/ Launch \/ Cancel \/ Remove
  BY <1>1, <1>4 DEF HandleNothing, StartJog, Launch, Cancel, Remove, hist
<1>5. CASE HandlePause
  <2>1. inMotion
    BY <1>t, <1>q, <1>5 DEF HandlePause, Command, HoldInv
  <2>2. QED
    BY <1>1, <1>5, <2>1 DEF HandlePause, hist
<1>6. CASE HandleResume
  <2>1. inMotion
    BY <1>t, <1>q, <1>6 DEF HandleResume, Command, Thread, HoldInv
  <2>2. QED
    BY <1>1, <1>6, <2>1 DEF HandleResume
<1>7. CASE StartLine
  <2>1. inMotion
    BY <1>t, <1>7 DEF StartLine, Thread, AlarmInv
  <2>2. QED
    BY <1>1, <1>7, <2>1 DEF StartLine
<1>8. ASSUME NEW i \in Slots, JogStep(i) PROVE HomePath'
  <2>1. /\ inMotion /\ inMotion' /\ cb = Quiet /\ move.steps # 0
        /\ UNCHANGED <<toZero, tripped, move>> /\ Step
    BY <1>t, <1>8 DEF JogStep, Due, AlarmInv, Off, Counted
  <2>2. cb' # Quiet
    BY <1>8 DEF JogStep, Quiet
  <2>3. ASSUME toZero, ~tripped
        PROVE  move.mode = "jog" /\ pos' = IF move.dir = 1 THEN -(move.steps - 1) ELSE move.steps - 1
    <3>1. move.mode = "jog" /\ pos = IF move.dir = 1 THEN -move.steps ELSE move.steps
      BY <2>1, <2>3 DEF HomePath, Ahead
    <3>2. move.steps > 0
      BY <1>t, <2>1
    <3>3. CASE move.dir = 1
      BY <1>t, <2>1, <3>1, <3>2, <3>3, UnclippedStep
    <3>4. CASE move.dir # 1
      BY <1>t, <2>1, <3>1, <3>2, <3>4, UnclippedStep
    <3>5. QED
      BY <3>1, <3>3, <3>4
  <2>4. QED
    BY <2>1, <2>2, <2>3 DEF HomePath, HomeAtZero, Ahead
<1>9. CASE JogLoad
  <2>1. /\ cb # Quiet /\ cb'.at = "load"
        /\ UNCHANGED <<toZero, tripped, inMotion, move, pos, pins>>
    BY <1>t, <1>9 DEF JogLoad, Quiet, JogShot, hist
  <2>2. cb' # Quiet
    BY <2>1 DEF Quiet
  <2>3. QED
    BY <2>1, <2>2 DEF HomePath, HomeAtZero, Ahead
<1>10. CASE JogStore
  <2>1. /\ cb # Quiet /\ cb' = Quiet /\ UNCHANGED <<toZero, tripped, inMotion, pos, pins>>
        /\ cb.at = "load"
    BY <1>10 DEF JogStore, Quiet, hist
  <2>2. move'.mode = move.mode /\ move'.dir = move.dir /\ move'.steps = Less(cb.steps)
    BY <1>t, <1>10 DEF JogStore, Move
  <2>3. ASSUME ~tripped PROVE move'.steps = move.steps - 1
    <3>1. cb.steps = move.steps /\ move.steps # 0
      BY <2>1, <2>3 DEF CountInv
    <3>2. move.steps - 1 \in 0..(Wrap - 1)
      BY <1>t, <3>1 DEF Move, Count
    <3>3. (move.steps - 1) % Wrap = move.steps - 1
      BY <1>t, <3>2
    <3>4. QED
      BY <2>2, <3>1, <3>3 DEF Less
  <2>4. QED
    BY <2>1, <2>2, <2>3 DEF HomePath, HomeAtZero, Ahead
<1>11. ASSUME NEW i \in Slots, JogEnd(i) \/ LineEnd(i) PROVE HomePath'
  <2>1. /\ inMotion /\ ~inMotion' /\ cb = Quiet /\ UNCHANGED <<toZero, tripped>>
    BY <1>t, <1>11 DEF JogEnd, LineEnd, Due, Stop, AlarmInv, Off, hist
  <2>2. ASSUME toZero, ~tripped PROVE pos' = 0
    <3>1. move.mode = "jog" /\ pos = IF move.dir = 1 THEN -move.steps ELSE move.steps
      BY <2>1, <2>2 DEF HomePath, Ahead
    <3>2. JogEnd(i)
      BY <1>t, <1>11, <3>1 DEF LineEnd, Due, AlarmInv
    <3>3. move.steps = 0 /\ pos' = pos
      BY <3>1, <3>2 DEF JogEnd, Stop, AtSwitch
    <3>4. QED
      BY <3>1, <3>3
  <2>3. QED
    BY <2>1, <2>2 DEF HomePath, HomeAtZero
<1>12. ASSUME NEW i \in Slots, LineStep(i) PROVE HomePath'
  <2>1. /\ inMotion /\ inMotion' /\ move.mode = "line" /\ UNCHANGED <<toZero, tripped>>
    BY <1>t, <1>12 DEF LineStep, Due, AlarmInv, Off, Counted
  <2>2. QED
    BY <2>1 DEF HomePath, HomeAtZero
<1>13. CASE Host
  BY <1>1, <1>13 DEF Host, HostJog, HostLine, HostPause, HostResume, HostUpdate, Send,
     SyncRise, hist
<1>14. CASE LimitFall
  <2>1. tripped' = (tripped \/ inMotion) /\ UNCHANGED <<toZero, inMotion, pos, pins>>
    BY <1>14 DEF LimitFall
  <2>2. QED
    BY <2>1 DEF HomePath, HomeAtZero
<1>15. CASE LimitRise
  BY <1>1, <1>15 DEF LimitRise, hist
<1>16. QED
  BY <1>2, <1>3, <1>4, <1>5, <1>6, <1>7, <1>8, <1>9, <1>10, <1>11, <1>12, <1>13, <1>14,
     <1>15
  DEF Next, Core1, Callback

\* Homing ends at 0 if nothing else is asked of the axis meanwhile, and if an axis
\* that is homed again is at 0 or beyond; the bound on positions must leave room for
\* the way back from the switch.
THEOREM MotionHomeAtZero ==
  {"prompt", "hold", "alone", "ahead"} \subseteq Calm /\ MaxPos >= 2 * JogSteps
    => (Spec => []HomeAtZero)
<1> SUFFICES ASSUME {"prompt", "hold", "alone", "ahead"} \subseteq Calm,
                    MaxPos >= 2 * JogSteps
             PROVE  Spec => []HomeAtZero
  OBVIOUS
<1> DEFINE Inv == CountInv /\ HomeQueue /\ HomeAhead /\ HomePath
<1>0. {"prompt", "hold"} \subseteq Calm
  OBVIOUS
<1>1. Init => Inv
  <2>1. ASSUME Init
        PROVE  /\ Len(msgQ) = 0 /\ cb = Quiet /\ made = want /\ ~inMotion /\ ~toZero
               /\ pins.motion = 1
    BY <2>1 DEF Init
  <2>2. QED
    BY <2>1 DEF CountInv, HomeQueue, HomeAhead, HomePath, HomeAtZero
<1>2. MotionInv /\ Inv /\ [Next]_vars => Inv'
  <2>1. ASSUME Inv, UNCHANGED vars PROVE Inv'
    <3>1. CountInv'
      BY <2>1 DEF CountInv, vars, hist
    <3>2. HomeQueue'
      BY <2>1 DEF HomeQueue, vars, hist
    <3>3. HomeAhead'
      BY <2>1 DEF HomeAhead, vars
    <3>4. HomePath'
      BY <2>1 DEF HomePath, HomeAtZero, Ahead, vars, hist
    <3>5. QED
      BY <3>1, <3>2, <3>3, <3>4
  <2>2. ASSUME MotionInv, Inv, Next PROVE Inv'
    BY <1>0, <2>2, CountStep, QueueStep, AheadStep, PathStep
  <2>3. QED
    BY <2>1, <2>2
<1>3. Inv => HomeAtZero
  BY DEF HomePath
<1>4. Spec => []MotionInv
  BY <1>0, MotionInvariant
<1> HIDE DEF Inv
<1>5. QED
  BY <1>1, <1>2, <1>3, <1>4, PTL DEF Spec

-----------------------------------------------------------------------------

\* Only the closed switch makes an axis homed.
THEOREM MotionHomedAtSwitch == Spec => HomedAtSwitch
<1> DEFINE Closed == alarm => switch = 0
<1>1. Init => Closed
  BY DEF Init
<1>2. Closed /\ [Next]_vars => Closed' /\ (~homed /\ homed' => switch = 0)
  <2> SUFFICES ASSUME Closed, [Next]_vars
               PROVE  Closed' /\ (~homed /\ homed' => switch = 0)
    OBVIOUS
  <2>1. CASE \/ Core1 \/ Host \/ JogLoad \/ JogStore \/ UNCHANGED vars
             \/ \E i \in Slots : JogStep(i) \/ LineStep(i)
    <3>1. UNCHANGED <<alarm, switch, homed>>
      BY <2>1 DEF Core1, Host, HandleMove, HandleHome, Accept, HandleNothing, HandlePause,
         Cancel, HandleResume, StartJog, StartLine, Launch, Remove, HostJog, HostLine,
         HostPause, HostResume, HostUpdate, Send, SyncRise, JogLoad, JogStore, JogStep,
         LineStep, hostVars, vars
    <3>2. QED
      BY <3>1
  <2>2. ASSUME NEW i \in Slots, JogEnd(i) \/ LineEnd(i)
        PROVE  Closed' /\ (~homed /\ homed' => switch = 0)
    BY <2>2 DEF JogEnd, LineEnd, Stop, AtSwitch, hostVars
  <2>3. CASE LimitFall \/ LimitRise
    BY <2>3 DEF LimitFall, LimitRise
  <2>4. QED
    BY <2>1, <2>2, <2>3 DEF Next, Callback
<1>3. QED
  BY <1>1, <1>2, PTL DEF Spec, HomedAtSwitch

=============================================================================
