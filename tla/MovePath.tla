------------------------------ MODULE MovePath ------------------------------
(***************************************************************************)
(* One move of a stepper Pico as numbers: the path a line or a curve walks *)
(* over the grid of steps, and the speed of a jog or a line.               *)
(*                                                                         *)
(* Every Pico that takes part walks the whole path and makes the steps of  *)
(* its own axis (move.step_axis), so the pulses of all axes are counted    *)
(* here in one vector.  One step of the model is one call of               *)
(* sync_alarm_callback or of jog_alarm_callback.                           *)
(*                                                                         *)
(* stepper_common.h (line_step_2d, curve_step_2d, stepper_accel, total),   *)
(* the two callbacks of pico/src/stepper.c, stepper_move of pi_stepper.c.  *)
(* PicoMotion has the same moves among commands and interrupts, with a     *)
(* count in place of the path.                                             *)
(***************************************************************************)
EXTENDS Integers

CONSTANTS
  Far,       (* lines end at most this far from their start, per axis      *)
  Radii,     (* radii of curves, in steps                                  *)
  Jogs,      (* steps of a jog                                             *)
  Speeds,    (* records [v0, vf, accel]: min_speed, feed or jog speed      *)
  Word       (* 2^w of the unsigned speed arithmetic                       *)

\* At every speed a move can have, what the acceleration adds in one step is no
\* more than that speed, so that it can be braked without falling below 0.
\* (By default the speeds are 800 to 4800 steps/s, the acceleration 160000.)
ASSUME PathAssumption ==
  /\ Far \in Nat /\ Radii \subseteq Nat \ {0, 1} /\ Jogs \subseteq Nat \ {0}
  /\ Word \in Nat
  /\ Speeds \subseteq [v0 : Nat \ {0}, vf : Nat \ {0}, accel : Nat]
  /\ \A s \in Speeds : /\ s.v0 < Word /\ s.vf < Word
                       /\ \A n \in 1..(Word - 1) :
                            (n >= s.v0 \/ n >= s.vf) /\ (n <= s.v0 \/ n <= s.vf) =>
                               s.accel \div n \in 0..n /\ n + (s.accel \div n) < Word

Point == [x : Int, y : Int]
At(x, y) == [x |-> x, y |-> y]
Zero == At(0, 0)
Abs(n) == IF n < 0 THEN -n ELSE n
Sign(b) == IF b THEN 1 ELSE -1

total(p, q) == Abs(q.x - p.x) + Abs(q.y - p.y)

VARIABLES
  mode,      \* move.mode: "line", "curve" or "jog"
  cur,       \* move.cur
  path,      \* what no callback changes: move.end, radius and cw
  steps,     \* move.steps, counted down by a line and a jog
  stop,      \* the callback has stopped the move
  v,         \* move.v_sps
  phase,     \* move.a_phase
  aSteps,    \* move.a_steps
  sp,        \* what no callback changes: v0_sps, vf_sps and accel
  \* history
  pulses,    \* steps made by the motors, signed, per axis
  calls,     \* callbacks that made a step
  braked     \* calls of stepper_accel in its phase FINAL

vars == <<mode, cur, path, steps, stop, v, phase, aSteps, sp, pulses, calls, braked>>

Begin(m, from, p, n) ==
  /\ mode = m /\ cur = from /\ path = p /\ steps = n
  /\ sp \in Speeds /\ v = sp.v0 /\ phase = "INITIAL" /\ aSteps = 0
  /\ stop = FALSE /\ pulses = Zero /\ calls = 0 /\ braked = 0

Way(e, r, cw) == [end |-> e, radius |-> r, cw |-> cw]

\* The points of a circle around the centre that lie on an axis, numbered
\* counterclockwise.
Corner(r, i) == CASE i = 0 -> At(r, 0) [] i = 1 -> At(0, r)
                  [] i = 2 -> At(-r, 0) [] i = 3 -> At(0, -r)

\* A line starts at 0 (run() subtracts move.cur).
InitLine == \E x, y \in (-Far)..Far :
              Begin("line", Zero, Way(At(x, y), 0, FALSE), total(Zero, At(x, y)))

\* A curve goes by its own coordinates, here relative to move.center.
InitCurve == \E r \in Radii, i, j \in 0..3, cw \in BOOLEAN : i # j /\
               Begin("curve", Corner(r, i), Way(Corner(r, j), r, cw),
                     total(Corner(r, i), Corner(r, j)))

InitJog == \E n \in Jogs : Begin("jog", Zero, Way(Zero, 0, FALSE), n)

Init == InitLine \/ InitCurve \/ InitJog

-----------------------------------------------------------------------------
(* The path. *)

\* move.slope * move.cur.x, a float, assigned to an int: it loses its fraction.
Trunc(a, b) == LET q == Abs(a) \div Abs(b)
               IN  IF (a < 0) = (b < 0) THEN q ELSE -q

\* line_step_2d: the height of the line above the current x.
fx == IF cur.x = path.end.x THEN path.end.y
      ELSE Trunc(path.end.y * cur.x, path.end.x)

\* line_step_2d: above the line, a path that rises steps along x and one that
\* falls along y; the quadrant of the end gives the direction.
LineStep == LET up == path.end.y > 0 IN
  IF (cur.y > fx) # up THEN At(0, Sign(up))
                       ELSE At(Sign(path.end.x > 0), 0)

\* curve_step_2d: outwards from inside the circle, inwards from outside, along
\* the axis that also leads around in the direction of the curve.
Inside == cur.x * cur.x + cur.y * cur.y < path.radius * path.radius
Right  == cur.x > 0
Up     == cur.y > 0
AlongX == (Inside = path.cw) = (Right = Up)
CurveStep == LET out == IF Inside THEN 1 ELSE -1
             IN  IF AlongX THEN At(out * Sign(Right), 0) ELSE At(0, out * Sign(Up))

Moved(p, d) == At(p.x + d.x, p.y + d.y)

PastX   == cur.x = path.end.x                      \* mutant: x alone
Arrived == cur = path.end

-----------------------------------------------------------------------------
(* The speed: stepper_accel, called with steps already counted down to n. *)

Less(a, b) == (a - b) % Word

Capped(w)   == IF w > sp.vf THEN sp.vf ELSE w
Floored(w)  == IF w < sp.v0 THEN sp.v0 ELSE w
TooLate(n)  == n < aSteps                          \* mutant
Time(n)     == n = aSteps

Faster ==
  /\ phase = "INITIAL"
  /\ aSteps' = aSteps + 1
  /\ v' = Capped(v + (sp.accel \div v))
  /\ phase' = IF v' = sp.vf THEN "CONSTANT" ELSE "INITIAL"
  /\ UNCHANGED braked

Steady(n) ==
  /\ phase = "CONSTANT"
  /\ phase' = IF Time(n) THEN "FINAL" ELSE "CONSTANT"
  /\ UNCHANGED <<v, aSteps, braked>>

Slower ==
  /\ phase = "FINAL"
  /\ v' = Floored(Less(v, sp.accel \div v))
  /\ braked' = braked + 1
  /\ UNCHANGED <<phase, aSteps>>

SameSpeed == UNCHANGED <<v, phase, aSteps, braked>>

stepper_accel(n) == IF n = 0 THEN SameSpeed ELSE Faster \/ Steady(n) \/ Slower

\* Both callbacks call it only if the move is accelerated.
Accelerate(n) == IF sp.accel = 0 THEN SameSpeed ELSE stepper_accel(n)

-----------------------------------------------------------------------------
(* The callbacks. *)

\* sync_alarm_callback with LINE_MOVE.
LineCall ==
  /\ mode = "line" /\ ~stop /\ ~Arrived
  /\ cur' = Moved(cur, LineStep) /\ pulses' = Moved(pulses, LineStep)
  /\ steps' = steps - 1 /\ calls' = calls + 1
  /\ Accelerate(steps')
  /\ UNCHANGED <<mode, path, stop, sp>>

\* sync_alarm_callback with CURVE_MOVE: a curve keeps its speed.
CurveCall ==
  /\ mode = "curve" /\ ~stop /\ ~Arrived
  /\ cur' = Moved(cur, CurveStep) /\ pulses' = Moved(pulses, CurveStep)
  /\ calls' = calls + 1
  /\ UNCHANGED <<mode, path, steps, stop, sp>> /\ SameSpeed

\* At the end the step functions only set move.stop.  (What the last call does
\* to steps and speed is not read any more.)
PathEnd ==
  /\ mode \in {"line", "curve"} /\ ~stop /\ Arrived
  /\ stop' = TRUE
  /\ UNCHANGED <<mode, cur, path, steps, sp, pulses, calls>> /\ SameSpeed

\* jog_alarm_callback.
JogCall ==
  /\ mode = "jog" /\ steps # 0
  /\ pulses' = Moved(pulses, At(1, 0))
  /\ steps' = steps - 1 /\ calls' = calls + 1
  /\ Accelerate(steps')
  /\ UNCHANGED <<mode, cur, path, stop, sp>>

JogEnd ==
  /\ mode = "jog" /\ steps = 0 /\ ~stop
  /\ stop' = TRUE
  /\ UNCHANGED <<mode, cur, path, steps, sp, pulses, calls>> /\ SameSpeed

Next == LineCall \/ CurveCall \/ PathEnd \/ JogCall \/ JogEnd

Spec == Init /\ [][Next]_vars

-----------------------------------------------------------------------------
(* Properties. *)

TypeOK ==
  /\ mode \in {"line", "curve", "jog"} /\ cur \in Point /\ pulses \in Point
  /\ path \in [end : Point, radius : Nat, cw : BOOLEAN]
  /\ steps \in Nat /\ calls \in Nat /\ braked \in Nat /\ aSteps \in Nat
  /\ sp \in Speeds /\ v \in 1..(Word - 1) /\ stop \in BOOLEAN
  /\ phase \in {"INITIAL", "CONSTANT", "FINAL"}

\* A line ends with every axis at its end point, after exactly total() steps
\* (what the host put into move.steps), never one back and forth: line_step_2d
\* never steps past the end point.
LineExact == mode = "line" =>
  /\ calls + total(cur, path.end) = total(Zero, path.end)
  /\ steps = total(cur, path.end)
  /\ pulses = cur
  /\ stop => cur = path.end

\* On its way a line stays within one step of the straight line, measured along
\* x and y together.
LineNear == mode = "line" =>
  Abs(cur.y * path.end.x - cur.x * path.end.y) <= Abs(path.end.x) + Abs(path.end.y)

\* On its way a curve stays within one step of its circle.
CurveNear == mode = "curve" =>
  LET d == cur.x * cur.x + cur.y * cur.y
      r == path.radius
  IN  (r - 1) * (r - 1) <= d /\ d <= (r + 1) * (r + 1)

\* How many quarters of a circle lie between two of its corners.
Quarters == LET i == CHOOSE k \in 0..3 : Corner(path.radius, k) = At(cur.x - pulses.x, cur.y - pulses.y)
                j == CHOOSE k \in 0..3 : Corner(path.radius, k) = path.end
            IN  IF path.cw THEN (i - j) % 4 ELSE (j - i) % 4

\* A curve goes around the way its direction says, and takes two radii of steps
\* for every quarter: it never turns back and never misses its end,
\* so that with LineExact every move comes to its end.
CurveExact == mode = "curve" =>
  /\ calls <= 2 * path.radius * Quarters
  /\ stop => calls = 2 * path.radius * Quarters

\* The speed never leaves the range the move allows: no subtraction in
\* stepper_accel falls below 0, and no delay of a step is 0 or undefined.
SpeedInRange ==
  /\ v >= sp.v0 \/ v >= sp.vf
  /\ v <= sp.v0 \/ v <= sp.vf
  /\ phase # "INITIAL" => v <= sp.vf \/ v = sp.v0

\* A move with room for it brakes for as many steps as it took to reach its
\* speed, less the one on which stepper_accel notices that it is time and the
\* last, on which it returns at once.  (A shorter one never brakes at all.)
BrakesInTime ==
  LET n == IF mode = "jog" THEN calls + steps ELSE total(Zero, path.end)
  IN  mode # "curve" /\ sp.accel > 0 /\ steps = 0 /\ phase # "INITIAL" =>
        braked = IF n > 2 * aSteps THEN aSteps - 1 ELSE 0

\* Once a move brakes it never gets faster, and before that never slower than
\* it was, but for a feed below the start speed.
NoSurge == [][ /\ phase = "FINAL" => v' <= v \/ v' = sp.v0
               /\ phase = "INITIAL" /\ sp.vf >= sp.v0 => v' >= v
               /\ phase = "CONSTANT" => v' = v ]_vars

\* Line, curve and speed together.
MovesWell == [](LineNear /\ CurveNear /\ CurveExact /\ BrakesInTime) /\ NoSurge

Between(n, a) == (0 <= n /\ n <= a) \/ (a <= n /\ n <= 0)

\* The inductive invariant of the proofs: the point of a line stays in the
\* rectangle between its two ends, and the speed in its range.
PathInv ==
  /\ TypeOK /\ LineExact /\ SpeedInRange
  /\ mode = "line" => Between(cur.x, path.end.x) /\ Between(cur.y, path.end.y)

=============================================================================
