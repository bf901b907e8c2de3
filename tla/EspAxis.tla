------------------------------ MODULE EspAxis ------------------------------
(***************************************************************************)
(* The firmware of one ESP32 stepper: the task that carries out the host's *)
(* messages (msg_task on core 1) and the timer interrupt that makes the    *)
(* steps (step_timer_isr on core 0), which share m_status and the timers.  *)
(*                                                                         *)
(* esp/components/axis and msg_task of esp/main.  An ESP drives one axis;  *)
(* of a line or a curve it walks the whole path and makes the pulses of    *)
(* its own axis.  A step of the task ends where the interrupt can see the  *)
(* difference: at a wait for the SYNC pin, and around each assignment to   *)
(* m_status while the timers may run.                                      *)
(*                                                                         *)
(* m_status is read and written back by both without a lock.  An update    *)
(* may have read the value from before the other's latest update, which it *)
(* then undoes; `saw' is what each of the two had read.                    *)
(***************************************************************************)
EXTENDS Integers

CONSTANTS
  Far,       (* bound: lines end at most this far from 0, per axis         *)
  Jogs,      (* bound: steps of a jog                                      *)
  Radii,     (* bound: radii of curves, in steps                           *)
  Corners,   (* bound: corners a curve starts from, 0 at the right to 3    *)
  Clk,       (* TIMER_BASE_CLK, the end_step of a curve                    *)
  AxisCalm   (* what the host and the timing are assumed to respect        *)

(* "rest"   : a MOVE comes only to an ESP that is not in motion.           *)
(* "long"   : a curve makes at least two steps on every axis.              *)
(* "prompt" : the timer does not expire between its start and the stores   *)
(*            to m_status that follow.                                     *)
(* "untorn" : no update of m_status is undone by the other core.           *)
ASSUME AxisAssumption ==
  /\ Far \in Nat /\ Jogs \subseteq Nat \ {0} /\ Radii \subseteq Nat \ {0, 1}
  /\ Clk \in Nat /\ (\A n \in Jogs : n < Clk) /\ (\A r \in Radii : 8 * r < Clk)
  /\ Far < Clk /\ Corners \subseteq 0..3
  /\ AxisCalm \subseteq {"rest", "long", "prompt", "untorn"}

XY    == {"X", "Y"}
Modes == {"JOG", "LINE", "CURV", "SYNC"}
Bits  == Modes \cup {"IN_MOTION", "DIRECTION", "SYNC_READY", "MOVE_READY"}

Point == [XY -> Int]
At(x, y) == [a \in XY |-> IF a = "X" THEN x ELSE y]
Zero == At(0, 0)
Abs(n) == IF n < 0 THEN -n ELSE n
Sign(b) == IF b THEN 1 ELSE -1
Moved(p, a, d) == [p EXCEPT ![a] = @ + d]

VARIABLES
  axis,      \* m_axis
  status,    \* m_status
  mv,        \* what a move does not change: m_end_pos, m_radius, m_cw
  cur,       \* m_cur_pos
  stepAxis,  \* m_step_axis
  cnt,       \* m_cur_step, m_end_step, m_acc_step, m_dec_step
  fast,      \* m_cur_divider = DIVIDER_US
  timer,     \* STEP_TIMER counts
  isr,       \* its interrupt: "armed" or "entered"
  motionPin, \* MOTION_PIN
  axisSem,   \* m_syncSem
  msgTask,   \* msg_task
  saw,       \* m_status as the interrupt and as the task have read it
  \* history
  pos,       \* m_step_position, less its value at the start of the move
  walked,    \* steps of the path since then
  want       \* what the move was to do: pulses of this axis, steps of the path

moving == <<mv, cur, stepAxis, cnt, fast, pos, walked, want>>
axisVars == <<axis, status, timer, isr, motionPin, axisSem, msgTask, saw, moving>>

NoMove    == [end |-> Zero, radius |-> 0, cw |-> FALSE]
ResetMove == [cur |-> 0, end |-> Clk, acc |-> Clk, dec |-> Clk]
NoWant    == [pulses |-> 0, steps |-> 0, stopped |-> TRUE]

AxisInit ==
  /\ axis \in XY /\ stepAxis = "none"
  /\ status = {"MOVE_READY"}                        \* setup_timers
  /\ mv = NoMove /\ cur = Zero /\ cnt = ResetMove /\ fast = FALSE
  /\ timer = FALSE /\ isr = "armed" /\ motionPin = 0 /\ axisSem = 0
  /\ msgTask = "idle"
  /\ saw = [isr |-> status, task |-> status]
  /\ pos = 0 /\ walked = 0 /\ want = NoWant

\* The values an update of m_status may start from.
Base(who) == IF "untorn" \in AxisCalm THEN {status} ELSE {status, saw[who]}
Saw(who, s) == saw' = IF "untorn" \in AxisCalm THEN saw ELSE [saw EXCEPT ![who] = s]

\* A statement of the task that changes no more than m_status.
OnlyStatus ==
  Saw("task", status') /\ UNCHANGED <<axis, timer, isr, motionPin, axisSem, moving>>

-----------------------------------------------------------------------------
(* The paths: m_cur_pos and m_step_axis after one more step. *)

Trunc(a, b) == LET q == Abs(a) \div Abs(b) IN IF (a < 0) = (b < 0) THEN q ELSE -q

Along(a, up) == [axis |-> a, by |-> Sign(up)]

\* linear_interpolation_2D: the height of the line at x; above it or not, and
\* the quadrant of the end, decide the step.
LinearStep(p, e) ==
  LET y  == IF p["X"] # e["X"] THEN Trunc(e["Y"] * p["X"], e["X"]) ELSE e["Y"]
      up == e["Y"] > 0
  IN  IF (p["Y"] > y) # up THEN Along("Y", up) ELSE Along("X", e["X"] > 0)

\* circular_interpolation_2D: outwards from inside the circle, else inwards,
\* along the axis that also leads around the right way.
CircularStep(p, r, cw) ==
  LET inside == p["X"] * p["X"] + p["Y"] * p["Y"] < r * r
      a == p["X"] >= 0   b == p["Y"] >= 0
  IN  IF (inside = cw) = (a = b) THEN Along("X", a = inside)
                                 ELSE Along("Y", b = inside)

Corner(r, i) == CASE i = 0 -> At(r, 0) [] i = 1 -> At(0, r)
                  [] i = 2 -> At(-r, 0) [] i = 3 -> At(0, -r)

\* Once round a circle from a corner: the point n steps on, and the steps along
\* each axis until there.
Walk(r, i, cw) ==
  LET w[n \in 0..(8 * r)] ==
        IF n = 0 THEN [end |-> Corner(r, i), own |-> Zero]
        ELSE LET so == w[n - 1]
                 s  == CircularStep(so.end, r, cw)
             IN  [end |-> Moved(so.end, s.axis, s.by),
                  own |-> Moved(so.own, s.axis, 1)]
  IN  w

\* The arcs from a corner, n steps long.
Arc(r, i, cw, n) ==
  LET w == Walk(r, i, cw)
  IN  [from |-> w[0].end, end |-> w[n].end, radius |-> r, cw |-> cw, steps |-> n,
       own |-> w[n].own]
Arcs == UNION {{Arc(r, i, cw, n) : n \in 1..(8 * r)} :
               r \in Radii, i \in Corners, cw \in BOOLEAN}

\* The ends of the two, with n own steps made: a circle starts at its end.
Arrived(s, p, e, n) == p = e /\ ("LINE" \in s \/ ("CURV" \in s /\ n > 1))

\* A step in m_status and on DIR_PIN.
Directed(s, d) == IF d = 1 THEN s \cup {"DIRECTION"} ELSE s \ {"DIRECTION"}
Ready(s) == (s \ {"IN_MOTION"}) \cup {"MOVE_READY"}

-----------------------------------------------------------------------------
(* msg_task: MOVE. *)

\* axis::move as far as the wait for the SYNC pin; s is m_status, p the start and
\* n the end step of a jog or a line.
Begin(s, m, p, n, w) ==
  LET d == IF "LINE" \in s THEN LinearStep(p, m.end)
                           ELSE CircularStep(p, m.radius, m.cw)
      there == Arrived(s, p, m.end, 0)
  IN
  /\ mv' = m /\ cnt' = [ResetMove EXCEPT !.end = n] /\ want' = w /\ pos' = 0
  /\ fast' \in BOOLEAN
  /\ timer' = FALSE /\ isr' = "armed" /\ UNCHANGED motionPin
  /\ IF "JOG" \in s
     THEN status' = s /\ stepAxis' = axis /\ cur' = p /\ walked' = 0
     ELSE IF there
     THEN /\ status' = Ready(s) \cup {"SYNC_READY"} /\ UNCHANGED stepAxis
          /\ cur' = p /\ walked' = 0
     ELSE /\ status' = Directed(s, d.by) \cup {"SYNC_READY"} /\ stepAxis' = d.axis
          /\ cur' = Moved(p, d.axis, d.by) /\ walked' = 1
  /\ msgTask' = IF "SYNC" \in s THEN "sync" ELSE "go"

\* A message takes longer than an interrupt: none entered before the last message
\* is left.
MoveComes ==
  /\ msgTask = "idle" /\ isr # "entered"
  /\ "rest" \in AxisCalm => "IN_MOTION" \notin status

\* set_mode, then move: it returns if the axis is in motion.
Move(how, d, m, p, n, w) ==
  LET s == (status \ Modes) \cup how IN
  /\ IF "IN_MOTION" \in s
     THEN status' = s /\ UNCHANGED <<timer, isr, motionPin, msgTask, moving>>
     ELSE Begin(Directed(s \ {"MOVE_READY"}, d), m, p, n, w)
  /\ Saw("task", status') /\ UNCHANGED <<axis, axisSem>>

Wanted(a, s) == [pulses |-> a, steps |-> s, stopped |-> FALSE]

MoveJog == MoveComes /\ \E n \in Jogs, d \in {1, -1} :
  Move({"JOG"}, d, [NoMove EXCEPT !.end = At(n, 0)], Zero, n, Wanted(d * n, 0))

MoveLine == MoveComes /\ \E x, y \in (-Far)..Far :
  Move({"SYNC", "LINE"}, 1, [NoMove EXCEPT !.end = At(x, y)], Zero,
       Abs(At(x, y)[axis]), Wanted(At(x, y)[axis], 0))

MoveCurve == MoveComes /\ \E c \in Arcs :
  /\ "long" \in AxisCalm => \A a \in XY : c.own[a] > 1
  /\ Move({"SYNC", "CURV"}, 1, [end |-> c.end, radius |-> c.radius, cw |-> c.cw],
          c.from, Clk, Wanted(c.end[axis] - c.from[axis], c.steps))

\* xSemaphoreTake(m_syncSem), in move and in pause_timers.
Taken(next) == axisSem = 1 /\ axisSem' = 0 /\ msgTask' = next
               /\ UNCHANGED <<axis, status, timer, isr, motionPin, saw, moving>>
MoveTake == msgTask = "sync" /\ Taken("go")

\* The timers start, or there is no step to make.
MoveGo ==
  /\ msgTask = "go" /\ msgTask' = "started"
  /\ IF cnt.end # 0
     THEN /\ status' = status \cup {"IN_MOTION"} /\ motionPin' = 1 /\ timer' = TRUE
     ELSE status' = status \cup {"MOVE_READY"} /\ UNCHANGED <<motionPin, timer>>
  /\ Saw("task", status') /\ UNCHANGED <<axis, isr, axisSem, moving>>

MoveDone ==
  /\ msgTask = "started" /\ msgTask' = "idle"
  /\ \E b \in Base("task") : status' = b \ {"SYNC_READY"}
  /\ OnlyStatus

-----------------------------------------------------------------------------
(* msg_task: STOP and PAUSE. *)

StopTimers ==
  /\ msgTask = "idle" /\ msgTask' = "stopping"
  /\ timer' = FALSE /\ motionPin' = 0 /\ want' = [want EXCEPT !.stopped = TRUE]
  /\ Saw("task", status)
  /\ UNCHANGED <<axis, status, isr, axisSem>>
  /\ UNCHANGED <<mv, cur, stepAxis, cnt, fast, pos, walked>>

StopStatus ==
  /\ msgTask = "stopping" /\ msgTask' = "idle"
  /\ \E b \in Base("task") : status' = Ready(b)
  /\ OnlyStatus

PauseTimers ==
  /\ msgTask = "idle" /\ msgTask' = "pausing"
  /\ timer' = FALSE /\ motionPin' = 0
  /\ Saw("task", status)
  /\ UNCHANGED <<axis, status, isr, axisSem, moving>>

PauseStatus ==
  /\ msgTask = "pausing" /\ msgTask' = "idle"
  /\ \E b \in Base("task") : status' = b \ {"IN_MOTION"}
  /\ OnlyStatus

\* pause_timers(false): only a move that is not over goes on.
NotOver == "MOVE_READY" \notin status

Resume ==
  /\ msgTask = "idle" /\ isr # "entered" /\ NotOver /\ "IN_MOTION" \notin status
  /\ IF "SYNC" \in status
     THEN status' = status \cup {"SYNC_READY"} /\ msgTask' = "resync"
     ELSE msgTask' = "restart" /\ UNCHANGED status
  /\ OnlyStatus

ResumeTake == msgTask = "resync" /\ Taken("restart")

ResumeGo ==
  /\ msgTask = "restart" /\ msgTask' = "restarted"
  /\ timer' = TRUE /\ motionPin' = 1
  /\ Saw("task", status)
  /\ UNCHANGED <<axis, status, isr, axisSem, moving>>

ResumeStatus ==
  /\ msgTask = "restarted" /\ msgTask' = "idle"
  /\ \E b \in Base("task") : status' = (b \cup {"IN_MOTION"}) \ {"SYNC_READY"}
  /\ OnlyStatus

Task ==
  \/ MoveTake \/ MoveGo \/ MoveDone \/ StopStatus
  \/ PauseStatus \/ ResumeTake \/ ResumeGo \/ ResumeStatus

\* syncSem_release_isr: the host raises SYNC once every ESP reports SYNC_READY.
SyncEdge ==
  /\ msgTask \in {"sync", "resync"} /\ "SYNC_READY" \in status /\ axisSem = 0
  /\ axisSem' = 1
  /\ UNCHANGED <<axis, status, timer, isr, motionPin, msgTask, saw, moving>>

-----------------------------------------------------------------------------
(* step_timer_isr. *)

Alarm ==
  /\ timer /\ isr = "armed"
  /\ "prompt" \in AxisCalm => msgTask \notin {"started", "restarted"}
  /\ isr' = "entered" /\ Saw("isr", status)
  /\ UNCHANGED <<axis, status, timer, motionPin, axisSem, msgTask, moving>>

\* update_divider with n steps made: full speed is reached somewhere; then the
\* steps it took are kept for the end, or half the way is over.
BrakeFrom(n) == IF n < cnt.end \div 2 THEN cnt.end - n ELSE n

update_divider(n) ==
  IF ~fast /\ n < cnt.acc
  THEN fast' \in BOOLEAN /\ cnt' = [cnt EXCEPT !.cur = n]
  ELSE /\ UNCHANGED fast
       /\ cnt' = IF fast /\ n < cnt.acc
                 THEN [cnt EXCEPT !.cur = n, !.dec = BrakeFrom(n), !.acc = n]
                 ELSE [cnt EXCEPT !.cur = n]

TooFar(n)   == n = cnt.end + 1                       \* mutant
LastStep(n) == n = cnt.end

step_timer_isr ==
  /\ isr = "entered" /\ isr' = "armed"
  /\ \E b \in Base("isr") :
     LET own   == stepAxis = axis
         n     == cnt.cur + (IF own THEN 1 ELSE 0)
         last  == own /\ LastStep(n)
         s     == IF last THEN Ready(b) ELSE b
         there == Arrived(s, cur, mv.end, n)
         d     == IF "LINE" \in s THEN LinearStep(cur, mv.end)
                                  ELSE CircularStep(cur, mv.radius, mv.cw)
         step  == s \cap {"LINE", "CURV"} # {} /\ ~there
     IN
     /\ pos' = pos + (IF own THEN Sign("DIRECTION" \in status) ELSE 0)
     /\ timer' = (timer /\ ~last /\ ~there)
     /\ motionPin' = IF last \/ there THEN 0 ELSE motionPin
     /\ IF step
        THEN /\ cur' = Moved(cur, d.axis, d.by) /\ stepAxis' = d.axis
             /\ walked' = walked + 1
        ELSE UNCHANGED <<cur, stepAxis, walked>>
     /\ status' = IF step THEN Directed(s, d.by) ELSE IF there THEN Ready(s) ELSE s
     /\ update_divider(n)
  /\ Saw("isr", status') /\ UNCHANGED <<axis, axisSem, msgTask, mv, want>>

AxisNext ==
  \/ MoveJog \/ MoveLine \/ MoveCurve \/ StopTimers \/ PauseTimers \/ Resume
  \/ Task \/ SyncEdge \/ Alarm \/ step_timer_isr

AxisSpec == AxisInit /\ [][AxisNext]_axisVars

-----------------------------------------------------------------------------
(* Properties. *)

AxisTypeOK ==
  /\ axis \in XY /\ stepAxis \in XY \cup {"none"} /\ status \subseteq Bits
  /\ mv \in [end : Point, radius : Nat, cw : BOOLEAN] /\ cur \in Point
  /\ cnt \in [cur : 0..Clk, end : 0..Clk, acc : 0..Clk, dec : 0..Clk]
  /\ fast \in BOOLEAN /\ timer \in BOOLEAN /\ isr \in {"armed", "entered"}
  /\ motionPin \in {0, 1} /\ axisSem \in {0, 1}
  /\ msgTask \in {"idle", "sync", "go", "started", "stopping", "pausing",
                  "resync", "restart", "restarted"}
  /\ pos \in Int /\ walked \in Nat

\* A move that is reported ready, and was not stopped, has made exactly the
\* pulses of its axis, and a curve has gone round no more than it should:
\* through any pauses, and whatever was asked for meanwhile.
MovesExactly ==
  "MOVE_READY" \in status /\ ~want.stopped /\ isr # "entered" =>
    /\ pos = want.pulses
    /\ "CURV" \in status => walked = want.steps

\* Between messages and interrupts the ESP is in motion by its status, by its
\* motion pin and by its timer, or by none of them, and not ready as well.
RunsOrRests ==
  msgTask = "idle" /\ isr # "entered" =>
    /\ timer <=> "IN_MOTION" \in status
    /\ timer <=> motionPin = 1
    /\ ~ ({"IN_MOTION", "MOVE_READY"} \subseteq status)
    /\ "SYNC_READY" \notin status

\* A jog or a line that reached full speed brakes over no more steps than it
\* took to reach it.
BrakesInTime ==
  cnt.cur > cnt.dec /\ timer => cnt.end - cnt.cur <= cnt.acc

\* A move of an ESP is exact, and what it shows of it is true.
EspAxisCorrect == AxisTypeOK /\ MovesExactly /\ RunsOrRests /\ BrakesInTime

=============================================================================
