-------------------------- MODULE Algorithms_proofs --------------------------
(***************************************************************************)
(* For a line to any point, a curve of any radius, a jog of any length and *)
(* any speeds that the acceleration cannot bring below 0: the path arrives *)
(* at its end after exactly total() steps, a line stays within one step of *)
(* the straight one and a curve of its circle, which it goes around; the   *)
(* speed stays in its range, rises, is constant and falls, and a move that *)
(* is long enough brakes on as many steps as BrakesInTime says.            *)
(* For a jog wheel turned any way and as far as one likes: a jog is a      *)
(* click, and a click a jog.                                               *)
(* For any blocks in any order: what is sent to the Picos takes no axis    *)
(* more than a step from where the blocks say.                             *)
(* For programs of any length: the editor shows what runs, and nobody is   *)
(* left with a pointer to what Qt has deleted.                             *)
(***************************************************************************)
EXTENDS MovePath, JogWheel, BlockMove, ProgramEditor, SequenceTheorems, WellFoundedInduction,
        TLAPS

\* a \div b for natural numbers.
LEMMA DivFacts == ASSUME NEW a \in Nat, NEW b \in Nat \ {0}
                  PROVE  (a \div b) \in Nat /\ (a \div b) * b <= a
  BY SMTT(20)

LEMMA LessFactor == ASSUME NEW a \in Nat, NEW b \in Nat, NEW c \in Nat, a * c < b * c
                    PROVE  a < b
  BY SMTT(20)

LEMMA LessProduct == ASSUME NEW a \in Nat, NEW b \in Nat, NEW c \in Nat \ {0}, a < b
                     PROVE  c * a < c * b
  BY SMTT(20)

LEMMA AbsProduct == ASSUME NEW a \in Int, NEW b \in Int
                    PROVE  Abs(a * b) \in Nat /\ Abs(a * b) = Abs(a) * Abs(b)
  BY SMTT(20) DEF Abs

LEMMA ProductSign == ASSUME NEW a \in Int, NEW b \in Int
                     PROVE  /\ a > 0 => ((a * b < 0) <=> (b < 0))
                            /\ a < 0 => ((a * b < 0) <=> (b > 0))
                            /\ a * 0 = 0 /\ 0 * b = 0
  BY SMTT(20)

-----------------------------------------------------------------------------
\* Before the end of the line in x, its height is short of the height of its
\* end: what slope * cur.x loses by truncation is on the side of the start.
LEMMA TruncShort ==
  ASSUME NEW e \in Int, NEW d \in Int, NEW x \in Int, Between(x, d), x # d
  PROVE  LET t == Trunc(e * x, d) IN
         /\ t \in Int
         /\ e > 0 => 0 <= t /\ t < e
         /\ e < 0 => e < t /\ t <= 0
         /\ e = 0 => t = 0
<1> DEFINE q == Abs(e * x) \div Abs(d)
<1>1. d # 0 /\ Abs(d) \in Nat \ {0} /\ Abs(x) \in Nat /\ Abs(x) < Abs(d) /\ Abs(e) \in Nat
  BY DEF Between, Abs
<1>2. Abs(e * x) \in Nat /\ Abs(e * x) = Abs(e) * Abs(x)
  BY AbsProduct
<1>3. q \in Nat /\ q * Abs(d) <= Abs(e) * Abs(x)
  BY <1>1, <1>2, DivFacts
<1>4. e # 0 => q < Abs(e)
  <2> SUFFICES ASSUME e # 0 PROVE q < Abs(e)
    OBVIOUS
  <2>1. Abs(e) \in Nat \ {0}
    BY DEF Abs
  <2>2. Abs(e) * Abs(x) < Abs(e) * Abs(d)
    BY <1>1, <2>1, LessProduct
  <2>3. q * Abs(d) < Abs(e) * Abs(d)
    <3> HIDE DEF q
    <3>1. q * Abs(d) \in Int /\ Abs(e) * Abs(x) \in Int /\ Abs(e) * Abs(d) \in Int
      BY <1>1, <1>3
    <3>. QED BY <1>3, <2>2, <3>1
  <2>4. Abs(d) \in Nat
    BY <1>1
  <2> HIDE DEF q
  <2>. QED BY <1>1, <1>3, <2>3, <2>4, LessFactor
<1>5. x = 0 \/ e = 0 => q = 0
  <2> SUFFICES ASSUME x = 0 \/ e = 0 PROVE q = 0
    OBVIOUS
  <2>1. Abs(e) * Abs(x) = 0
    BY DEF Abs
  <2>2. Abs(e * x) = 0
    BY <1>2, <2>1
  <2>. QED BY <1>1, <2>2
<1>6. /\ x # 0 /\ e > 0 => ((e * x < 0) <=> (d < 0))
      /\ x # 0 /\ e < 0 => ((e * x < 0) <=> ~(d < 0))
  <2>1. /\ e > 0 => ((e * x < 0) <=> (x < 0))
        /\ e < 0 => ((e * x < 0) <=> (x > 0))
    BY ProductSign
  <2>2. x # 0 => ((x < 0) <=> (d < 0)) /\ ((x > 0) <=> ~(d < 0))
    BY DEF Between
  <2>. QED BY <2>1, <2>2
<1>7. Trunc(e * x, d) = IF (e * x < 0) = (d < 0) THEN q ELSE -q
  BY DEF Trunc
<1> HIDE DEF q
<1>8. Abs(e) = IF e < 0 THEN -e ELSE e
  BY DEF Abs
<1>9. CASE x = 0 \/ e = 0
  <2>1. Trunc(e * x, d) = 0
    BY <1>5, <1>7, <1>9
  <2>. QED BY <2>1
<1>10. CASE x # 0 /\ e > 0
  <2>1. Trunc(e * x, d) = q
    BY <1>6, <1>7, <1>10
  <2>. QED BY <1>3, <1>4, <1>8, <1>10, <2>1
<1>11. CASE x # 0 /\ e < 0
  <2>1. Trunc(e * x, d) = -q
    BY <1>6, <1>7, <1>11
  <2>. QED BY <1>3, <1>4, <1>8, <1>11, <2>1
<1>. QED BY <1>9, <1>10, <1>11

InBox == Between(cur.x, path.end.x) /\ Between(cur.y, path.end.y)

\* One step of a line that has not arrived: it stays in the rectangle between
\* start and end, and the way that is left is one step shorter.
LEMMA LineStepFacts ==
  ASSUME cur \in Point, path.end \in Point, InBox, ~Arrived
  PROVE  LET p == Moved(cur, LineStep) IN
         /\ LineStep \in Point /\ p \in Point
         /\ Between(p.x, path.end.x) /\ Between(p.y, path.end.y)
         /\ total(p, path.end) = total(cur, path.end) - 1
<1> DEFINE x == cur.x  y == cur.y  dx == path.end.x  dy == path.end.y
           s == LineStep  p == Moved(cur, s)
<1>1. x \in Int /\ y \in Int /\ dx \in Int /\ dy \in Int
  BY DEF Point
<1>2. ~(x = dx /\ y = dy)
  BY DEF Arrived, Point
<1>3. Between(x, dx) /\ Between(y, dy)
  BY DEF InBox
<1>4. /\ fx \in Int
      /\ x = dx => fx = dy
      /\ x # dx /\ dy > 0 => 0 <= fx /\ fx < dy
      /\ x # dx /\ dy < 0 => dy < fx /\ fx <= 0
      /\ x # dx /\ dy = 0 => fx = 0
  <2>1. CASE x = dx
    BY <1>1, <2>1 DEF fx
  <2>2. CASE x # dx
    <3>1. fx = Trunc(dy * x, dx)
      BY <2>2 DEF fx
    <3>. QED BY <1>1, <1>3, <2>2, <3>1, TruncShort
  <2>. QED BY <2>1, <2>2
<1>5. s = IF (y > fx) # (dy > 0) THEN At(0, Sign(dy > 0)) ELSE At(Sign(dx > 0), 0)
  BY DEF LineStep
<1>6. \/ s = At(0, 1) /\ y < dy /\ 0 <= y
      \/ s = At(0, -1) /\ dy < y /\ y <= 0
      \/ s = At(1, 0) /\ x < dx /\ 0 <= x
      \/ s = At(-1, 0) /\ dx < x /\ x <= 0
  <2> DEFINE f == fx  up == dy > 0  above == y > f
  <2>1. /\ f \in Int
        /\ x = dx => f = dy
        /\ x # dx /\ dy > 0 => 0 <= f /\ f < dy
        /\ x # dx /\ dy < 0 => dy < f /\ f <= 0
        /\ x # dx /\ dy = 0 => f = 0
    BY <1>4
  <2>2. s = IF above # up THEN At(0, Sign(up)) ELSE At(Sign(dx > 0), 0)
    BY <1>5
  <2>3. Sign(dx > 0) = IF dx > 0 THEN 1 ELSE -1
    BY DEF Sign
  <2> HIDE DEF x, y, dx, dy, s, f
  <2>4. CASE dy > 0 /\ ~(y > f)
    <3>1. up = TRUE /\ above = FALSE
      BY <2>4
    <3>2. s = At(0, 1)
      BY <2>2, <3>1, Zenon DEF Sign
    <3>3. y < dy /\ 0 <= y
      BY <1>1, <1>2, <1>3, <2>1, <2>4 DEF Between
    <3>. QED BY <3>2, <3>3
  <2>5. CASE dy > 0 /\ y > f
    <3>1. up = TRUE /\ above = TRUE
      BY <2>5
    <3>2. s = At(Sign(dx > 0), 0)
      BY <2>2, <3>1, Zenon
    <3>3. x # dx
      BY <1>1, <1>3, <2>1, <2>5 DEF Between
    <3>. QED BY <1>1, <1>3, <2>3, <3>2, <3>3 DEF Between
  <2>6. CASE ~(dy > 0) /\ y > f
    <3>1. up = FALSE /\ above = TRUE
      BY <2>6
    <3>2. s = At(0, -1)
      BY <2>2, <3>1, Zenon DEF Sign
    <3>3. dy < y /\ y <= 0
      BY <1>1, <1>2, <1>3, <2>1, <2>6 DEF Between
    <3>. QED BY <3>2, <3>3
  <2>7. CASE ~(dy > 0) /\ ~(y > f)
    <3>1. up = FALSE /\ above = FALSE
      BY <2>7
    <3>2. s = At(Sign(dx > 0), 0)
      BY <2>2, <3>1, Zenon
    <3>3. x # dx
      BY <1>1, <1>2, <1>3, <2>1, <2>7 DEF Between
    <3>. QED BY <1>1, <1>3, <2>3, <3>2, <3>3 DEF Between
  <2>. QED BY <2>4, <2>5, <2>6, <2>7
<1>7. s \in Point /\ p = At(x + s.x, y + s.y) /\ p \in Point
  BY <1>1, <1>6 DEF At, Point, Moved
<1>8. p.x = x + s.x /\ p.y = y + s.y
  BY <1>7 DEF At
<1>9. total(p, path.end) = Abs(dx - p.x) + Abs(dy - p.y) /\ total(cur, path.end) = Abs(dx - x) + Abs(dy - y)
  BY DEF total
<1> HIDE DEF x, y, dx, dy, s, p
<1>10. \/ p.x = x /\ p.y = y + 1 /\ y < dy /\ 0 <= y
       \/ p.x = x /\ p.y = y - 1 /\ dy < y /\ y <= 0
       \/ p.x = x + 1 /\ p.y = y /\ x < dx /\ 0 <= x
       \/ p.x = x - 1 /\ p.y = y /\ dx < x /\ x <= 0
  <2>1. \A a, b \in Int : At(a, b).x = a /\ At(a, b).y = b
    BY DEF At
  <2>. QED BY <1>1, <1>6, <1>8, <2>1
<1>11. Between(p.x, dx) /\ Between(p.y, dy)
  BY <1>1, <1>3, <1>10 DEF Between
<1>12. Abs(dx - p.x) + Abs(dy - p.y) = Abs(dx - x) + Abs(dy - y) - 1
  <2>1. \A a \in Int : (a >= 0 => Abs(a) = a) /\ (a <= 0 => Abs(a) = -a)
    BY DEF Abs
  <2>4. Abs(dx - x) \in Int /\ Abs(dy - y) \in Int
    BY <1>1 DEF Abs
  <2>2. CASE p.x = x /\ p.y = y + 1 /\ y < dy
    <3>1. Abs(dy - p.y) = dy - y - 1 /\ Abs(dy - y) = dy - y /\ Abs(dx - p.x) = Abs(dx - x)
      BY <1>1, <2>1, <2>2
    <3>. QED BY <1>1, <3>1, <2>4
  <2>3. CASE p.x = x /\ p.y = y - 1 /\ dy < y
    <3>1. Abs(dy - p.y) = y - dy - 1 /\ Abs(dy - y) = y - dy /\ Abs(dx - p.x) = Abs(dx - x)
      BY <1>1, <2>1, <2>3
    <3>. QED BY <1>1, <3>1, <2>4
  <2>5. CASE p.x = x + 1 /\ p.y = y /\ x < dx
    <3>1. Abs(dx - p.x) = dx - x - 1 /\ Abs(dx - x) = dx - x /\ Abs(dy - p.y) = Abs(dy - y)
      BY <1>1, <2>1, <2>5
    <3>. QED BY <1>1, <3>1, <2>4
  <2>6. CASE p.x = x - 1 /\ p.y = y /\ dx < x
    <3>1. Abs(dx - p.x) = x - dx - 1 /\ Abs(dx - x) = x - dx /\ Abs(dy - p.y) = Abs(dy - y)
      BY <1>1, <2>1, <2>6
    <3>. QED BY <1>1, <3>1, <2>4
  <2>. QED BY <1>10, <2>2, <2>3, <2>5, <2>6
<1>13. total(p, path.end) = total(cur, path.end) - 1
  <2>1. p.x \in Int /\ p.y \in Int
    BY <1>1, <1>10
  <2>2. Abs(dx - p.x) \in Int /\ Abs(dy - p.y) \in Int /\ Abs(dx - x) \in Int /\ Abs(dy - y) \in Int
    BY <1>1, <2>1 DEF Abs
  <2>. QED BY <1>9, <1>12, <2>2
<1>. QED BY <1>7, <1>11, <1>13 DEF dx, dy, s, p

-----------------------------------------------------------------------------
(* The speed. *)

\* The arithmetic of one call of stepper_accel.
LEMMA SpeedFacts ==
  ASSUME sp \in Speeds, v \in 1..(Word - 1), SpeedInRange
  PROVE  /\ sp.v0 \in 1..(Word - 1) /\ sp.vf \in 1..(Word - 1)
         /\ (sp.accel \div v) \in 0..v /\ v + (sp.accel \div v) < Word
         /\ Less(v, sp.accel \div v) = v - (sp.accel \div v)
<1>1. Word \in Nat /\ sp.v0 \in Nat \ {0} /\ sp.vf \in Nat \ {0} /\ sp.v0 < Word /\ sp.vf < Word
  BY PathAssumption
<1>2. (v >= sp.v0 \/ v >= sp.vf) /\ (v <= sp.v0 \/ v <= sp.vf)
  BY DEF SpeedInRange
<1>3. (sp.accel \div v) \in 0..v /\ v + (sp.accel \div v) < Word
  BY <1>2, PathAssumption
<1> DEFINE d == sp.accel \div v
<1> HIDE DEF d
<1>4. d \in 0..v
  BY <1>3 DEF d
<1>5. (v - d) % Word = v - d
  <2>1. v - d \in Nat /\ v - d < Word
    BY <1>1, <1>4
  <2>. QED BY <1>1, <2>1, SMTT(20)
<1>. QED BY <1>1, <1>3, <1>5 DEF Less, d

\* What a call of stepper_accel keeps, whatever the count of steps it sees.
Speed == /\ v \in 1..(Word - 1) /\ aSteps \in Nat /\ braked \in Nat
         /\ phase \in {"INITIAL", "CONSTANT", "FINAL"} /\ SpeedInRange

LEMMA AccelKeeps ==
  ASSUME sp \in Speeds, sp' = sp, Speed, NEW n, Accelerate(n)
  PROVE  Speed'
<1> USE DEF Speed
<1>0. /\ sp.v0 \in 1..(Word - 1) /\ sp.vf \in 1..(Word - 1)
      /\ (sp.accel \div v) \in 0..v /\ v + (sp.accel \div v) < Word
      /\ Less(v, sp.accel \div v) = v - (sp.accel \div v)
  BY SpeedFacts
<1>1. CASE SameSpeed
  BY <1>1 DEF SameSpeed, SpeedInRange
<1>2. CASE Faster
  <2> DEFINE w == v + (sp.accel \div v)
  <2>1. w \in 1..(Word - 1) /\ w >= v
    BY <1>0, PathAssumption
  <2> HIDE DEF w
  <2>2. v' = IF w > sp.vf THEN sp.vf ELSE w
    BY <1>2 DEF Faster, Capped, w
  <2>3. phase' = IF v' = sp.vf THEN "CONSTANT" ELSE "INITIAL"
    BY <1>2 DEF Faster
  <2>4. aSteps' \in Nat /\ braked' \in Nat
    BY <1>2 DEF Faster
  <2>5. SpeedInRange'
    BY <1>0, <2>1, <2>2, <2>3 DEF SpeedInRange
  <2>. QED BY <1>0, <2>1, <2>2, <2>3, <2>4, <2>5
<1>3. CASE Steady(n)
  BY <1>3 DEF Steady, SpeedInRange
<1>4. CASE Slower
  <2> DEFINE w == v - (sp.accel \div v)
  <2>1. w \in 0..v
    BY <1>0
  <2> HIDE DEF w
  <2>2. v' = IF w < sp.v0 THEN sp.v0 ELSE w
    BY <1>0, <1>4 DEF Slower, Floored, w
  <2>3. phase' = "FINAL" /\ phase = "FINAL" /\ aSteps' \in Nat /\ braked' \in Nat
    BY <1>4 DEF Slower
  <2>4. v' \in 1..(Word - 1)
    BY <1>0, <2>1, <2>2, PathAssumption
  <2>5. SpeedInRange'
    BY <1>0, <2>1, <2>2, <2>3 DEF SpeedInRange
  <2>. QED BY <2>3, <2>4, <2>5
<1>. QED BY <1>1, <1>2, <1>3, <1>4 DEF Accelerate, stepper_accel

-----------------------------------------------------------------------------
(* The invariant. *)

LEMMA TotalNat == ASSUME NEW p \in Point, NEW q \in Point PROVE total(p, q) \in Nat
  BY DEF total, Abs, Point

LEMMA PathInit == Init => PathInv
<1> SUFFICES ASSUME Init PROVE PathInv
  OBVIOUS
<1>0. \A a, b \in Int : At(a, b) \in Point /\ At(a, b).x = a /\ At(a, b).y = b
  BY DEF At, Point
<1>1. Zero \in Point /\ Zero.x = 0 /\ Zero.y = 0
  BY <1>0 DEF Zero
<1>2. ASSUME NEW m \in {"line", "curve", "jog"}, NEW from \in Point, NEW n \in Nat,
             NEW p \in [end : Point, radius : Nat, cw : BOOLEAN], Begin(m, from, p, n)
      PROVE  TypeOK /\ SpeedInRange
  <2>1. sp \in Speeds /\ v = sp.v0 /\ sp.v0 \in Nat \ {0} /\ sp.v0 < Word /\ sp.vf \in Nat
    BY <1>2, PathAssumption DEF Begin
  <2>2. v \in 1..(Word - 1)
    BY <2>1, PathAssumption
  <2>3. TypeOK
    BY <1>1, <1>2, <2>1, <2>2 DEF Begin, TypeOK
  <2>4. SpeedInRange
    BY <1>2, <2>1 DEF Begin, SpeedInRange
  <2>. QED BY <2>3, <2>4
<1>3. CASE InitLine
  <2>1. PICK x \in (-Far)..Far, y \in (-Far)..Far :
          Begin("line", Zero, Way(At(x, y), 0, FALSE), total(Zero, At(x, y)))
    BY <1>3 DEF InitLine
  <2>2. x \in Int /\ y \in Int
    BY PathAssumption
  <2>3. Way(At(x, y), 0, FALSE) \in [end : Point, radius : Nat, cw : BOOLEAN]
    BY <1>0, <2>2 DEF Way
  <2>4. total(Zero, At(x, y)) \in Nat
    BY <1>0, <1>1, <2>2, TotalNat
  <2>5. TypeOK /\ SpeedInRange
    BY <1>1, <1>2, <2>1, <2>3, <2>4
  <2>6. path.end = At(x, y) /\ cur = Zero /\ pulses = Zero /\ calls = 0 /\ ~stop
        /\ steps = total(Zero, At(x, y))
    BY <2>1 DEF Begin, Way
  <2>7. LineExact
    BY <2>4, <2>6 DEF LineExact
  <2>8. Between(cur.x, path.end.x) /\ Between(cur.y, path.end.y)
    BY <1>0, <1>1, <2>2, <2>6 DEF Between
  <2>. QED BY <2>5, <2>7, <2>8 DEF PathInv
<1>4. CASE InitCurve
  <2>1. PICK r \in Radii, i \in 0..3, j \in 0..3, cw \in BOOLEAN :
          Begin("curve", Corner(r, i), Way(Corner(r, j), r, cw),
                total(Corner(r, i), Corner(r, j)))
    BY <1>4 DEF InitCurve
  <2>2. r \in Nat
    BY PathAssumption
  <2>3. \A k \in 0..3 : Corner(r, k) \in Point
    <3>1. -r \in Int
      BY <2>2
    <3>2. At(r, 0) \in Point /\ At(0, r) \in Point /\ At(-r, 0) \in Point /\ At(0, -r) \in Point
      BY <1>0, <2>2, <3>1
    <3>. QED BY <3>2 DEF Corner
  <2>4. total(Corner(r, i), Corner(r, j)) \in Nat
    BY <2>3, TotalNat
  <2>5. Way(Corner(r, j), r, cw) \in [end : Point, radius : Nat, cw : BOOLEAN]
    BY <2>2, <2>3 DEF Way
  <2>6. TypeOK /\ SpeedInRange
    BY <1>2, <2>1, <2>3, <2>4, <2>5
  <2>7. mode = "curve"
    BY <2>1 DEF Begin
  <2>. QED BY <2>6, <2>7 DEF PathInv, LineExact
<1>5. CASE InitJog
  <2>1. PICK n \in Jogs : Begin("jog", Zero, Way(Zero, 0, FALSE), n)
    BY <1>5 DEF InitJog
  <2>2. n \in Nat /\ Way(Zero, 0, FALSE) \in [end : Point, radius : Nat, cw : BOOLEAN]
    BY <1>1, PathAssumption DEF Way
  <2>3. TypeOK /\ SpeedInRange
    BY <1>1, <1>2, <2>1, <2>2
  <2>4. mode = "jog"
    BY <2>1 DEF Begin
  <2>. QED BY <2>3, <2>4 DEF PathInv, LineExact
<1>. QED BY <1>3, <1>4, <1>5 DEF Init

LEMMA PathStep == PathInv /\ [Next]_vars => PathInv'
<1> SUFFICES ASSUME PathInv, [Next]_vars PROVE PathInv'
  OBVIOUS
<1>1. TypeOK /\ LineExact /\ SpeedInRange /\ (mode = "line" => InBox) /\ Speed
  BY DEF PathInv, InBox, TypeOK, Speed
<1>2. ASSUME Speed', mode' = mode, path' = path, sp' = sp, cur' \in Point, pulses' \in Point,
             steps' \in Nat, calls' \in Nat, stop' \in BOOLEAN
      PROVE  TypeOK' /\ SpeedInRange'
  BY <1>1, <1>2 DEF TypeOK, Speed
<1>3. ASSUME SameSpeed, sp' = sp PROVE Speed'
  BY <1>1, <1>3 DEF SameSpeed, Speed, SpeedInRange
<1>4. CASE LineCall
  <2>0. mode = "line" /\ ~stop /\ ~Arrived /\ InBox
    BY <1>1, <1>4 DEF LineCall
  <2>1. cur \in Point /\ path.end \in Point
    BY <1>1 DEF TypeOK
  <2>2. LET p == Moved(cur, LineStep) IN
         /\ LineStep \in Point /\ p \in Point
         /\ Between(p.x, path.end.x) /\ Between(p.y, path.end.y)
         /\ total(p, path.end) = total(cur, path.end) - 1
    BY <2>0, <2>1, LineStepFacts
  <2>3. cur' = Moved(cur, LineStep) /\ pulses' = Moved(pulses, LineStep)
        /\ mode' = mode /\ path' = path /\ sp' = sp /\ stop' = stop
        /\ steps' = steps - 1 /\ calls' = calls + 1 /\ Accelerate(steps')
    BY <1>4 DEF LineCall
  <2>4. pulses = cur /\ steps = total(cur, path.end)
        /\ calls + total(cur, path.end) = total(Zero, path.end)
    BY <1>1, <2>0 DEF LineExact
  <2>5. Speed'
    BY <1>1, <2>3, AccelKeeps DEF TypeOK
  <2>6. total(cur', path'.end) = total(cur, path.end) - 1 /\ cur' \in Point
    BY <2>2, <2>3
  <2>7. steps' = total(cur', path'.end) /\ steps' \in Nat
    BY <2>1, <2>3, <2>4, <2>6, TotalNat
  <2>8. calls \in Nat /\ total(cur, path.end) \in Nat
    BY <1>1, <2>1, TotalNat DEF TypeOK
  <2>9. calls' + total(cur', path'.end) = total(Zero, path'.end)
    BY <2>3, <2>4, <2>6, <2>8
  <2>10. LineExact'
    BY <2>0, <2>3, <2>4, <2>7, <2>9 DEF LineExact
  <2>11. TypeOK' /\ SpeedInRange'
    BY <1>1, <1>2, <2>2, <2>3, <2>4, <2>5, <2>7, <2>8 DEF TypeOK
  <2>. QED BY <2>2, <2>3, <2>10, <2>11 DEF PathInv
<1>5. CASE CurveCall
  <2>1. mode = "curve" /\ mode' = mode /\ path' = path /\ sp' = sp /\ stop' = stop
        /\ cur' = Moved(cur, CurveStep) /\ pulses' = Moved(pulses, CurveStep)
        /\ calls' = calls + 1 /\ steps' = steps /\ SameSpeed
    BY <1>5 DEF CurveCall
  <2>2. cur' \in Point /\ pulses' \in Point
    <3>1. CurveStep \in Point
      BY DEF CurveStep, At, Sign, Point
    <3>. QED BY <1>1, <2>1, <3>1 DEF Moved, At, Point, TypeOK
  <2>3. TypeOK' /\ SpeedInRange'
    BY <1>1, <1>2, <1>3, <2>1, <2>2 DEF TypeOK
  <2>. QED BY <2>1, <2>3 DEF PathInv, LineExact
<1>6. CASE PathEnd
  <2>1. mode' = mode /\ path' = path /\ sp' = sp /\ stop' = TRUE /\ Arrived
        /\ cur' = cur /\ pulses' = pulses /\ calls' = calls /\ steps' = steps /\ SameSpeed
    BY <1>6 DEF PathEnd
  <2>2. TypeOK' /\ SpeedInRange'
    BY <1>1, <1>2, <1>3, <2>1 DEF TypeOK
  <2>3. LineExact'
    BY <1>1, <2>1 DEF LineExact, Arrived
  <2>. QED BY <1>1, <2>1, <2>2, <2>3 DEF PathInv, InBox
<1>7. CASE JogCall
  <2>1. mode = "jog" /\ mode' = mode /\ path' = path /\ sp' = sp /\ stop' = stop /\ cur' = cur
        /\ pulses' = Moved(pulses, At(1, 0)) /\ steps # 0
        /\ steps' = steps - 1 /\ calls' = calls + 1 /\ Accelerate(steps')
    BY <1>7 DEF JogCall
  <2>2. steps' \in Nat /\ calls' \in Nat /\ pulses' \in Point
    BY <1>1, <2>1 DEF TypeOK, Moved, At, Point
  <2>3. Speed'
    BY <1>1, <2>1, AccelKeeps DEF TypeOK
  <2>4. TypeOK' /\ SpeedInRange'
    BY <1>1, <1>2, <2>1, <2>2, <2>3 DEF TypeOK
  <2>. QED BY <2>1, <2>4 DEF PathInv, LineExact
<1>8. CASE JogEnd
  <2>1. mode = "jog" /\ mode' = mode /\ path' = path /\ sp' = sp /\ stop' = TRUE
        /\ cur' = cur /\ pulses' = pulses /\ calls' = calls /\ steps' = steps /\ SameSpeed
    BY <1>8 DEF JogEnd
  <2>2. TypeOK' /\ SpeedInRange'
    BY <1>1, <1>2, <1>3, <2>1 DEF TypeOK
  <2>. QED BY <2>1, <2>2 DEF PathInv, LineExact
<1>9. CASE UNCHANGED vars
  BY <1>1, <1>9 DEF vars, PathInv, TypeOK, LineExact, SpeedInRange, InBox, Between
<1>. QED BY <1>4, <1>5, <1>6, <1>7, <1>8, <1>9 DEF Next

\* The inductive invariant of the moves holds for every line, curve and jog.
THEOREM PathInvHolds == Spec => []PathInv
<1>1. Init => PathInv
  BY PathInit
<1>2. PathInv /\ [Next]_vars => PathInv'
  BY PathStep
<1>. QED BY <1>1, <1>2, PTL DEF Spec

\* Every line is walked to its end point in exactly total() steps.
THEOREM LinesArrive == Spec => []LineExact
<1>1. PathInv => LineExact
  BY DEF PathInv
<1>. QED BY <1>1, PathInvHolds, PTL

\* No speed leaves the range of its move: no subtraction of stepper_accel falls
\* below 0 and no division is by 0.
THEOREM SpeedsInRange == Spec => []SpeedInRange
<1>1. PathInv => SpeedInRange
  BY DEF PathInv
<1>. QED BY <1>1, PathInvHolds, PTL

\* Types: the speed keeps to its word and the counts never fall below 0.
THEOREM MovesTyped == Spec => []TypeOK
<1>1. PathInv => TypeOK
  BY DEF PathInv
<1>. QED BY <1>1, PathInvHolds, PTL

-----------------------------------------------------------------------------
(* The ramp.                                                               *)

\* Up to the speed a step counts up aSteps; the move brakes only if it is then
\* further from its end than from its start, and from aSteps before its end on.
Ramp ==
  /\ phase = "INITIAL" => braked = 0 /\ (steps > 0 => aSteps = calls)
  /\ phase = "CONSTANT" => /\ braked = 0 /\ 1 <= aSteps /\ aSteps <= calls
                           /\ calls + steps > 2 * aSteps => steps > aSteps
  /\ phase = "FINAL" => /\ 1 <= aSteps /\ steps <= aSteps /\ calls + steps > 2 * aSteps
                        /\ steps > 0 => braked = aSteps - steps
                        /\ steps = 0 => braked = aSteps - 1

RampInv == PathInv /\ (mode # "curve" /\ sp.accel > 0 => Ramp)

LEMMA RampKeeps ==
  ASSUME TypeOK, Ramp, steps # 0, steps' = steps - 1, calls' = calls + 1,
         sp.accel > 0, Accelerate(steps - 1)
  PROVE  Ramp'
<1>0. steps \in Nat /\ calls \in Nat /\ aSteps \in Nat /\ braked \in Nat
      /\ phase \in {"INITIAL", "CONSTANT", "FINAL"} /\ sp.accel # 0
  BY PathAssumption DEF TypeOK
<1>1. stepper_accel(steps - 1)
  BY <1>0 DEF Accelerate
<1>2. CASE steps = 1
  <2>1. phase' = phase /\ aSteps' = aSteps /\ braked' = braked
    BY <1>1, <1>2 DEF stepper_accel, SameSpeed
  <2>. QED BY <1>0, <1>2, <2>1 DEF Ramp
<1>3. CASE steps # 1
  <2>0. Faster \/ Steady(steps - 1) \/ Slower
    BY <1>0, <1>1, <1>3 DEF stepper_accel
  <2>1. CASE Faster
    <3>1. phase = "INITIAL" /\ aSteps' = aSteps + 1 /\ braked' = braked
          /\ phase' \in {"INITIAL", "CONSTANT"}
      BY <2>1 DEF Faster
    <3>2. aSteps = calls /\ braked = 0
      BY <1>0, <3>1 DEF Ramp
    <3>. QED BY <1>0, <1>3, <3>1, <3>2 DEF Ramp
  <2>2. CASE Steady(steps - 1)
    <3>1. phase = "CONSTANT" /\ aSteps' = aSteps /\ braked' = braked
          /\ phase' = IF steps - 1 = aSteps THEN "FINAL" ELSE "CONSTANT"
      BY <2>2 DEF Steady, Time
    <3>2. braked = 0 /\ 1 <= aSteps /\ aSteps <= calls
          /\ (calls + steps > 2 * aSteps => steps > aSteps)
      BY <3>1 DEF Ramp
    <3>3. CASE steps - 1 = aSteps
      BY <1>0, <1>3, <3>1, <3>2, <3>3 DEF Ramp
    <3>4. CASE steps - 1 # aSteps
      BY <1>0, <1>3, <3>1, <3>2, <3>4 DEF Ramp
    <3>. QED BY <3>3, <3>4
  <2>3. CASE Slower
    <3>1. phase = "FINAL" /\ phase' = "FINAL" /\ aSteps' = aSteps /\ braked' = braked + 1
      BY <2>3 DEF Slower
    <3>. QED BY <1>0, <1>3, <3>1 DEF Ramp
  <2>. QED BY <2>0, <2>1, <2>2, <2>3
<1>. QED BY <1>2, <1>3

LEMMA RampInit == Init => RampInv
<1> SUFFICES ASSUME Init PROVE RampInv
  OBVIOUS
<1>1. phase = "INITIAL" /\ aSteps = 0 /\ braked = 0 /\ calls = 0
  BY DEF Init, InitLine, InitCurve, InitJog, Begin
<1>. QED BY <1>1, PathInit DEF RampInv, Ramp

LEMMA RampStep == RampInv /\ [Next]_vars => RampInv'
<1> SUFFICES ASSUME RampInv, [Next]_vars PROVE RampInv'
  OBVIOUS
<1>0. PathInv /\ PathInv' /\ TypeOK /\ LineExact /\ (mode # "curve" /\ sp.accel > 0 => Ramp)
  BY PathStep DEF RampInv, PathInv
<1>1. CASE LineCall
  <2>1. mode = "line" /\ mode' = mode /\ sp' = sp /\ ~Arrived
        /\ steps' = steps - 1 /\ calls' = calls + 1 /\ Accelerate(steps')
    BY <1>1 DEF LineCall
  <2>2. steps # 0
    <3>1. steps' \in Nat /\ steps \in Nat
      BY <1>0 DEF PathInv, TypeOK
    <3>. QED BY <2>1, <3>1
  <2>3. Accelerate(steps - 1)
    BY <2>1
  <2>. QED BY <1>0, <2>1, <2>2, <2>3, RampKeeps DEF RampInv
<1>2. CASE JogCall
  <2>1. mode = "jog" /\ mode' = mode /\ sp' = sp /\ steps # 0
        /\ steps' = steps - 1 /\ calls' = calls + 1 /\ Accelerate(steps')
    BY <1>2 DEF JogCall
  <2>2. Accelerate(steps - 1)
    BY <2>1
  <2>. QED BY <1>0, <2>1, <2>2, RampKeeps DEF RampInv
<1>3. CASE CurveCall
  BY <1>0, <1>3 DEF CurveCall, RampInv
<1>4. CASE PathEnd \/ JogEnd \/ UNCHANGED vars
  <2>1. mode' = mode /\ sp' = sp /\ steps' = steps /\ calls' = calls
        /\ phase' = phase /\ aSteps' = aSteps /\ braked' = braked
    BY <1>4 DEF PathEnd, JogEnd, SameSpeed, vars
  <2>. QED BY <1>0, <2>1 DEF RampInv, Ramp
<1>. QED BY <1>1, <1>2, <1>3, <1>4 DEF Next

LEMMA RampBrakes == RampInv => BrakesInTime
<1> SUFFICES ASSUME RampInv, mode # "curve", sp.accel > 0, steps = 0, phase # "INITIAL"
             PROVE  LET n == IF mode = "jog" THEN calls + steps ELSE total(Zero, path.end)
                    IN  braked = IF n > 2 * aSteps THEN aSteps - 1 ELSE 0
  BY DEF BrakesInTime
<1>1. TypeOK /\ LineExact /\ Ramp
  BY DEF RampInv, PathInv
<1>2. (IF mode = "jog" THEN calls + steps ELSE total(Zero, path.end)) = calls
  BY <1>1 DEF TypeOK, LineExact
<1>. QED BY <1>1, <1>2 DEF TypeOK, Ramp

\* A move of any length brakes for as many steps as it took to reach its speed,
\* less the one on which stepper_accel notices and the last; one too short for
\* that does not brake at all.
THEOREM MovesBrakeInTime == Spec => []BrakesInTime
<1>. QED BY RampInit, RampStep, RampBrakes, PTL DEF Spec

\* The speed rises, stays, and falls, in this order, at every acceleration.
THEOREM NoSpeedSurges == Spec => NoSurge
<1> DEFINE Smooth == /\ phase = "FINAL" => v' <= v \/ v' = sp.v0
                     /\ phase = "INITIAL" /\ sp.vf >= sp.v0 => v' >= v
                     /\ phase = "CONSTANT" => v' = v
<1>1. ASSUME PathInv, [Next]_vars PROVE [Smooth]_vars
  <2>0. TypeOK /\ SpeedInRange /\ v \in 1..(Word - 1) /\ sp \in Speeds
    BY <1>1 DEF PathInv, TypeOK
  <2>1. /\ sp.v0 \in 1..(Word - 1) /\ sp.vf \in 1..(Word - 1)
        /\ (sp.accel \div v) \in 0..v
        /\ Less(v, sp.accel \div v) = v - (sp.accel \div v)
    BY <2>0, SpeedFacts
  <2> DEFINE d == sp.accel \div v
  <2>1a. d \in 0..v /\ Less(v, d) = v - d /\ v \in Nat
    BY <2>0, <2>1, PathAssumption
  <2> HIDE DEF d
  <2>2. ASSUME SameSpeed PROVE Smooth
    BY <2>0, <2>2, PathAssumption DEF SameSpeed
  <2>3. ASSUME Faster PROVE Smooth
    <3>1. phase = "INITIAL" /\ v' = IF v + d > sp.vf THEN sp.vf ELSE v + d
      BY <2>3 DEF Faster, Capped, d
    <3>2. sp.vf >= sp.v0 => v <= sp.vf
      BY <2>0, <2>1, <2>1a DEF SpeedInRange
    <3>. QED BY <2>1, <2>1a, <3>1, <3>2
  <2>4. ASSUME NEW n, Steady(n) PROVE Smooth
    BY <2>4 DEF Steady
  <2>5. ASSUME Slower PROVE Smooth
    <3>1. phase = "FINAL" /\ v' = IF v - d < sp.v0 THEN sp.v0 ELSE v - d
      BY <2>1a, <2>5 DEF Slower, Floored, d
    <3>. QED BY <2>1, <2>1a, <3>1
  <2>6. ASSUME NEW n, Accelerate(n) PROVE Smooth
    <3>1. SameSpeed \/ Faster \/ Steady(n) \/ Slower
      BY <2>6 DEF Accelerate, stepper_accel
    <3> HIDE DEF Smooth
    <3>. QED BY <2>2, <2>3, <2>4, <2>5, <3>1
  <2>7. CASE UNCHANGED vars
    BY <2>7
  <2>8. CASE LineCall \/ JogCall
    BY <2>6, <2>8 DEF LineCall, JogCall
  <2>9. CASE CurveCall \/ PathEnd \/ JogEnd
    BY <2>2, <2>9 DEF CurveCall, PathEnd, JogEnd
  <2>. QED BY <1>1, <2>7, <2>8, <2>9 DEF Next
<1>2. PathInv /\ [Next]_vars => [Smooth]_vars
  BY <1>1
<1>. QED BY <1>2, PathInvHolds, PTL DEF Spec, NoSurge

-----------------------------------------------------------------------------
(* The line.                                                               *)

\* The height of a line rounds its exact height towards 0, by less than 1.
LEMMA TruncNear ==
  ASSUME NEW e \in Int, NEW d \in Int, NEW x \in Int, Between(x, d), x # d
  PROVE  LET q == Abs(Trunc(e * x, d)) IN
         /\ q \in Nat /\ q * Abs(d) <= Abs(e) * Abs(x)
         /\ Abs(e) * Abs(x) < (q + 1) * Abs(d)
<1> DEFINE q == Abs(e * x) \div Abs(d)
<1>1. Abs(d) \in Nat \ {0} /\ Abs(e * x) \in Nat /\ Abs(e * x) = Abs(e) * Abs(x)
  BY AbsProduct DEF Between, Abs
<1>2. \A a \in Nat, b \in Nat \ {0} : a < ((a \div b) + 1) * b
  BY SMTT(20)
<1>3. q \in Nat /\ q * Abs(d) <= Abs(e * x) /\ Abs(e * x) < (q + 1) * Abs(d)
  BY <1>1, <1>2, DivFacts
<1>4. Trunc(e * x, d) = q \/ Trunc(e * x, d) = -q
  BY DEF Trunc
<1> HIDE DEF q
<1>5. Abs(Trunc(e * x, d)) = q
  BY <1>3, <1>4 DEF Abs
<1>. QED BY <1>1, <1>3, <1>5

\* A step of a line: along y only from on or below the exact line, along x only
\* from less than 1 below it, in distances from the start.
LEMMA LineStepSide ==
  ASSUME cur \in Point, path.end \in Point, InBox, ~Arrived
  PROVE  LET p == Moved(cur, LineStep)
             X == Abs(cur.x)  Y == Abs(cur.y)
             A == Abs(path.end.x)  B == Abs(path.end.y)
         IN  \/ Abs(p.x) = X /\ Abs(p.y) = Y + 1 /\ Y * A <= B * X
             \/ Abs(p.x) = X + 1 /\ Abs(p.y) = Y /\ B * X < (Y + 1) * A
<1> DEFINE x == cur.x  y == cur.y  dx == path.end.x  dy == path.end.y
           s == LineStep  p == Moved(cur, s)  f == fx  up == dy > 0  above == y > f
           X == Abs(x)  Y == Abs(y)  A == Abs(dx)  B == Abs(dy)
<1>1. x \in Int /\ y \in Int /\ dx \in Int /\ dy \in Int /\ Between(x, dx) /\ Between(y, dy)
  BY DEF Point, InBox
<1>2. ~(x = dx /\ y = dy)
  BY DEF Arrived, Point
<1>3. X \in Nat /\ Y \in Nat /\ A \in Nat /\ B \in Nat /\ X <= A /\ Y <= B
  BY <1>1 DEF Between, Abs
<1>4. s = IF above # up THEN At(0, Sign(up)) ELSE At(Sign(dx > 0), 0)
  BY DEF LineStep
<1>5. p = At(x + s.x, y + s.y)
  BY DEF Moved
<1>6. CASE x = dx
  <2>1. f = dy
    BY <1>6 DEF fx
  <2>2. (up /\ y < dy /\ 0 <= y) \/ (~up /\ dy < y /\ y <= 0)
    BY <1>1, <1>2, <1>6 DEF Between
  <2>3. CASE up /\ y < dy /\ 0 <= y
    <3>1. above = FALSE /\ up = TRUE
      BY <1>1, <2>1, <2>3
    <3>2. s = At(0, 1)
      BY <1>4, <3>1, Zenon DEF Sign
    <3>3. p.x = x /\ p.y = y + 1
      BY <1>1, <1>5, <3>2 DEF At
    <3>4. Abs(p.x) = X /\ Abs(p.y) = Y + 1
      BY <1>1, <2>3, <3>3 DEF Abs
    <3>5. A = X
      BY <1>6
    <3>6. Y * A <= B * X
      <4> HIDE DEF X, Y, A, B
      <4>. QED BY <1>3, <3>5, SMTT(20)
    <3>. QED BY <3>4, <3>6
  <2>4. CASE ~up /\ dy < y /\ y <= 0
    <3>1. above = TRUE /\ up = FALSE
      BY <1>1, <2>1, <2>4
    <3>2. s = At(0, -1)
      BY <1>4, <3>1, Zenon DEF Sign
    <3>3. p.x = x /\ p.y = y - 1
      BY <1>1, <1>5, <3>2 DEF At
    <3>4. Abs(p.x) = X /\ Abs(p.y) = Y + 1
      BY <1>1, <2>4, <3>3 DEF Abs
    <3>5. A = X
      BY <1>6
    <3>6. Y * A <= B * X
      <4> HIDE DEF X, Y, A, B
      <4>. QED BY <1>3, <3>5, SMTT(20)
    <3>. QED BY <3>4, <3>6
  <2>. QED BY <2>2, <2>3, <2>4
<1>7. CASE x # dx
  <2> DEFINE q == Abs(f)
  <2>1. f = Trunc(dy * x, dx)
    BY <1>7 DEF fx
  <2>2. q \in Nat /\ q * A <= B * X /\ B * X < (q + 1) * A
    BY <1>1, <1>7, <2>1, TruncNear
  <2>3. f \in Int /\ (dy > 0 => f >= 0) /\ (dy < 0 => f <= 0) /\ (dy = 0 => f = 0)
    BY <1>1, <1>7, <2>1, TruncShort
  <2>4. above # up => Y <= q
    BY <1>1, <2>3 DEF Abs, Between
  <2>5. above = up => Y >= q
    BY <1>1, <2>3 DEF Abs, Between
  <2>6. Y <= q => Y * A <= B * X
    <3> HIDE DEF X, Y, A, B, q
    <3>1. Y <= q => Y * A <= q * A
      BY <1>3, <2>2, SMTT(20)
    <3>2. Y * A \in Int /\ q * A \in Int /\ B * X \in Int
      BY <1>3, <2>2
    <3>. QED BY <2>2, <3>1, <3>2
  <2>7. Y >= q => B * X < (Y + 1) * A
    <3> HIDE DEF X, Y, A, B, q
    <3>1. Y >= q => (q + 1) * A <= (Y + 1) * A
      BY <1>3, <2>2, SMTT(20)
    <3>2. (Y + 1) * A \in Int /\ (q + 1) * A \in Int /\ B * X \in Int
      BY <1>3, <2>2
    <3>. QED BY <2>2, <3>1, <3>2
  <2>8. CASE above # up
    <3>1. up => s = At(0, 1)
      BY <1>4, <2>8, Zenon DEF Sign
    <3>2. ~up => s = At(0, -1)
      BY <1>4, <2>8, Zenon DEF Sign
    <3>3. p.x = x /\ p.y = IF up THEN y + 1 ELSE y - 1
      BY <1>1, <1>5, <3>1, <3>2 DEF At
    <3>4. up => y >= 0
      BY <1>1 DEF Between
    <3>5. ~up => y <= 0
      BY <1>1 DEF Between
    <3>6. Abs(p.x) = X /\ Abs(p.y) = Y + 1
      <4> HIDE DEF up, p
      <4>. QED BY <1>1, <3>3, <3>4, <3>5 DEF Abs
    <3>. QED BY <2>4, <2>6, <2>8, <3>6
  <2>9. CASE above = up
    <3>1. dx > 0 => s = At(1, 0)
      BY <1>4, <2>9, Zenon DEF Sign
    <3>2. ~(dx > 0) => s = At(-1, 0)
      BY <1>4, <2>9, Zenon DEF Sign
    <3>3. p.y = y /\ p.x = IF dx > 0 THEN x + 1 ELSE x - 1
      BY <1>1, <1>5, <3>1, <3>2 DEF At
    <3>4. dx > 0 => x >= 0
      BY <1>1 DEF Between
    <3>5. ~(dx > 0) => x <= 0
      BY <1>1 DEF Between
    <3>6. Abs(p.x) = X + 1 /\ Abs(p.y) = Y
      <4> HIDE DEF p
      <4>. QED BY <1>1, <3>3, <3>4, <3>5 DEF Abs
    <3>. QED BY <2>5, <2>7, <2>9, <3>6
  <2>. QED BY <2>8, <2>9
<1>. QED BY <1>6, <1>7

\* Twice the area between the way of a line and the straight line, in the
\* distances from the start.
LEMMA CrossAbs ==
  ASSUME NEW x \in Int, NEW y \in Int, NEW dx \in Int, NEW dy \in Int,
         Between(x, dx), Between(y, dy)
  PROVE  LET g == Abs(y) * Abs(dx) - Abs(dy) * Abs(x)
         IN  y * dx - x * dy = g \/ y * dx - x * dy = -g
<1>1. (Abs(x) = x /\ Abs(dx) = dx) \/ (Abs(x) = -x /\ Abs(dx) = -dx)
  BY DEF Between, Abs
<1>2. (Abs(y) = y /\ Abs(dy) = dy) \/ (Abs(y) = -y /\ Abs(dy) = -dy)
  BY DEF Between, Abs
<1>. QED BY <1>1, <1>2, SMTT(20)

LEMMA NearKeeps ==
  ASSUME NEW X \in Nat, NEW Y \in Nat, NEW A \in Nat, NEW B \in Nat,
         -(A + B) <= Y * A - B * X, Y * A - B * X <= A + B
  PROVE  /\ Y * A <= B * X => LET g == (Y + 1) * A - B * X IN -(A + B) <= g /\ g <= A + B
         /\ B * X < (Y + 1) * A => LET g == Y * A - B * (X + 1) IN -(A + B) <= g /\ g <= A + B
<1>1. (Y + 1) * A = Y * A + A /\ B * (X + 1) = B * X + B
  BY SMTT(20)
<1>2. Y * A \in Int /\ B * X \in Int
  OBVIOUS
<1>. QED BY <1>1, <1>2

LEMMA NearStep == PathInv /\ LineNear /\ [Next]_vars => LineNear'
<1> SUFFICES ASSUME PathInv, LineNear, [Next]_vars, mode' = "line" PROVE LineNear'
  BY DEF LineNear
<1>1. CASE LineCall
  <2> DEFINE X == Abs(cur.x)  Y == Abs(cur.y)  A == Abs(path.end.x)  B == Abs(path.end.y)
             g == Y * A - B * X
  <2>1. mode = "line" /\ path' = path /\ cur' = Moved(cur, LineStep) /\ ~Arrived
    BY <1>1 DEF LineCall
  <2>2. cur \in Point /\ path.end \in Point /\ InBox
    BY <2>1 DEF PathInv, TypeOK, InBox
  <2>3. /\ cur' \in Point /\ Between(cur'.x, path.end.x) /\ Between(cur'.y, path.end.y)
    BY <2>1, <2>2, LineStepFacts
  <2>4. /\ cur.x \in Int /\ cur.y \in Int /\ path.end.x \in Int /\ path.end.y \in Int
        /\ cur'.x \in Int /\ cur'.y \in Int
    BY <2>2, <2>3 DEF Point
  <2>5. X \in Nat /\ Y \in Nat /\ A \in Nat /\ B \in Nat
    BY <2>4 DEF Abs
  <2> DEFINE c == cur.y * path.end.x - cur.x * path.end.y
             c1 == cur'.y * path.end.x - cur'.x * path.end.y
             g1 == Abs(cur'.y) * A - B * Abs(cur'.x)
  <2>6. c = g \/ c = -g
    BY <2>2, <2>4, CrossAbs DEF InBox
  <2>7. c1 = g1 \/ c1 = -g1
    BY <2>3, <2>4, CrossAbs
  <2>8. Abs(c) <= A + B
    BY <2>1 DEF LineNear
  <2>9. \/ Abs(cur'.x) = X /\ Abs(cur'.y) = Y + 1 /\ Y * A <= B * X
        \/ Abs(cur'.x) = X + 1 /\ Abs(cur'.y) = Y /\ B * X < (Y + 1) * A
    BY <2>1, <2>2, LineStepSide
  <2>10. g \in Int /\ Abs(cur'.y) \in Int /\ Abs(cur'.x) \in Int
    BY <2>4, <2>5, <2>9
  <2>11. g1 \in Int
    <3> HIDE DEF A, B
    <3>. QED BY <2>5, <2>10
  <2> HIDE DEF X, Y, A, B, c, c1
  <2>12. -(A + B) <= g /\ g <= A + B
    <3> HIDE DEF g
    <3>. QED BY <2>5, <2>6, <2>8, <2>10 DEF Abs
  <2>13. -(A + B) <= g1 /\ g1 <= A + B
    BY <2>5, <2>9, <2>12, NearKeeps
  <2>14. Abs(c1) <= A + B
    <3> HIDE DEF g1
    <3>. QED BY <2>5, <2>7, <2>11, <2>13 DEF Abs
  <2>. QED BY <2>1, <2>14 DEF LineNear, c1, A, B
<1>2. CASE CurveCall \/ JogCall \/ JogEnd
  BY <1>2 DEF CurveCall, JogCall, JogEnd
<1>3. CASE PathEnd \/ UNCHANGED vars
  BY <1>3 DEF PathEnd, vars, LineNear
<1>. QED BY <1>1, <1>2, <1>3 DEF Next

LEMMA NearInit == Init => LineNear
<1> SUFFICES ASSUME Init, mode = "line" PROVE LineNear
  BY DEF LineNear
<1>1. PathInv /\ cur = Zero
  BY PathInit DEF Init, InitLine, InitCurve, InitJog, Begin
<1>2. path.end.x \in Int /\ path.end.y \in Int /\ cur.x = 0 /\ cur.y = 0
  BY <1>1 DEF PathInv, TypeOK, Point, Zero, At
<1>3. cur.y * path.end.x - cur.x * path.end.y = 0
  BY <1>2, SMTT(20)
<1>4. Abs(path.end.x) \in Nat /\ Abs(path.end.y) \in Nat
  BY <1>2 DEF Abs
<1>. QED BY <1>3, <1>4 DEF LineNear, Abs

\* However far a line goes, it stays within one step of the straight line.
THEOREM LinesStayNear == Spec => []LineNear
<1>1. PathInv /\ LineNear /\ [Next]_vars => LineNear'
  BY NearStep
<1>. QED BY <1>1, NearInit, PathInvHolds, PTL DEF Spec

-----------------------------------------------------------------------------
(* Curves.                                                                 *)

\* The way around the circle, counterclockwise, from (r, 0) to p: 1 to 8 * r.
Around(p, r) == IF p.y > 0 THEN IF p.x > 0 THEN r - p.x + p.y ELSE 3 * r - p.x - p.y
                           ELSE IF p.x > 0 THEN 7 * r + p.x + p.y ELSE 5 * r + p.x - p.y

Turns(i, j) == IF path.cw THEN (i - j) % 4 ELSE (j - i) % 4

Left(i, j) == 2 * path.radius * Turns(i, j) - calls

\* A curve from corner i to corner j: what is left of its way leads to its end.
CurveFrom(i, j) ==
  LET r == path.radius
      a == Around(cur, r) + (IF path.cw THEN -Left(i, j) ELSE Left(i, j))
  IN  /\ i # j /\ r \in Radii
      /\ At(cur.x - pulses.x, cur.y - pulses.y) = Corner(r, i) /\ path.end = Corner(r, j)
      /\ Left(i, j) >= 0 /\ (stop => cur = path.end)
      /\ cur.x \in (-r)..r /\ cur.y \in (-r)..r
      /\ a \in {2 * r * j - 8 * r, 2 * r * j, 2 * r * j + 8 * r}

CurveInv == PathInv /\ (mode = "curve" => CurveNear /\ \E i, j \in 0..3 : CurveFrom(i, j))

\* Squares of whole numbers, on both sides of 0.
LEMMA Square == ASSUME NEW a \in Int, NEW b \in Nat
                PROVE  /\ a * a \in Nat
                       /\ a >= b => a * a >= b * b
                       /\ a <= -b => a * a >= b * b
  BY SMTT(20)

\* Inside the circle no coordinate reaches the radius; outside, next to an axis,
\* the other one has it.
LEMMA Circle ==
  ASSUME NEW r \in Nat \ {0, 1}, NEW x \in (-r)..r, NEW y \in (-r)..r
  PROVE  /\ x * x + y * y < r * r => -r < x /\ x < r /\ -r < y /\ y < r
         /\ x * x + y * y >= r * r /\ x \in -1..1 => y = r \/ y = -r
         /\ x * x + y * y >= r * r /\ y \in -1..1 => x = r \/ x = -r
<1>1. x \in Int /\ y \in Int /\ r \in Nat /\ r - 1 \in Nat
  OBVIOUS
<1>2. x * x \in Nat /\ y * y \in Nat /\ r * r \in Nat
  BY <1>1, Square
<1>3. /\ x >= r => x * x >= r * r
      /\ x <= -r => x * x >= r * r
      /\ y >= r => y * y >= r * r
      /\ y <= -r => y * y >= r * r
  BY <1>1, Square
<1>4. /\ r - 1 >= x => -x >= -(r - 1)
      /\ (r - 1) * (r - 1) = r * r - 2 * r + 1
  BY <1>1, SMTT(20)
<1>5. ASSUME NEW z \in Int, -r < z, z < r PROVE z * z <= (r - 1) * (r - 1)
  <2>1. CASE z >= 0
    <3>1. z \in Nat /\ r - 1 >= z
      BY <1>5, <2>1
    <3>. QED BY <1>1, <3>1, Square
  <2>2. CASE z < 0
    <3>1. -z \in Nat /\ r - 1 >= -z /\ (-z) * (-z) = z * z
      BY <1>5, <2>2
    <3>2. (r - 1) * (r - 1) >= (-z) * (-z)
      BY <1>1, <3>1, Square
    <3>. QED BY <3>1, <3>2
  <2>. QED BY <1>5, <2>1, <2>2
<1>6. \A z \in -1..1 : z * z \in 0..1
  OBVIOUS
<1>7. x * x + y * y < r * r => -r < x /\ x < r /\ -r < y /\ y < r
  <2> DEFINE xx == x * x  yy == y * y  rr == r * r
  <2> HIDE DEF xx, yy, rr
  <2>1. xx \in Nat /\ yy \in Nat /\ rr \in Nat
    BY <1>2 DEF xx, yy, rr
  <2>2. /\ x >= r => xx >= rr
        /\ x <= -r => xx >= rr
        /\ y >= r => yy >= rr
        /\ y <= -r => yy >= rr
    BY <1>3 DEF xx, yy, rr
  <2>3. xx + yy < rr => -r < x /\ x < r /\ -r < y /\ y < r
    BY <1>1, <2>1, <2>2
  <2>. QED BY <2>3 DEF xx, yy, rr
<1>8. ASSUME x * x + y * y >= r * r, x \in -1..1 PROVE y = r \/ y = -r
  <2>1. x * x <= 1
    BY <1>6, <1>8
  <2>2. y * y >= r * r - 1
    <3> DEFINE xx == x * x  yy == y * y  rr == r * r
    <3> HIDE DEF xx, yy, rr
    <3>1. xx \in Nat /\ yy \in Nat /\ rr \in Nat /\ xx <= 1 /\ xx + yy >= rr
      BY <1>2, <1>8, <2>1 DEF xx, yy, rr
    <3>2. yy >= rr - 1
      BY <3>1
    <3>. QED BY <3>2 DEF yy, rr
  <2>3. ~(-r < y /\ y < r)
    <3> SUFFICES ASSUME -r < y, y < r PROVE FALSE
      OBVIOUS
    <3>1. y * y <= r * r - 2 * r + 1
      BY <1>1, <1>4, <1>5
    <3>. QED BY <1>2, <2>2, <3>1
  <2>. QED BY <1>1, <2>3
<1>9. ASSUME x * x + y * y >= r * r, y \in -1..1 PROVE x = r \/ x = -r
  <2>1. y * y <= 1
    BY <1>6, <1>9
  <2>2. x * x >= r * r - 1
    <3> DEFINE xx == x * x  yy == y * y  rr == r * r
    <3> HIDE DEF xx, yy, rr
    <3>1. xx \in Nat /\ yy \in Nat /\ rr \in Nat /\ yy <= 1 /\ xx + yy >= rr
      BY <1>2, <1>9, <2>1 DEF xx, yy, rr
    <3>2. xx >= rr - 1
      BY <3>1
    <3>. QED BY <3>2 DEF xx, rr
  <2>3. ~(-r < x /\ x < r)
    <3> SUFFICES ASSUME -r < x, x < r PROVE FALSE
      OBVIOUS
    <3>1. x * x <= r * r - 2 * r + 1
      BY <1>1, <1>4, <1>5
    <3>. QED BY <1>2, <2>2, <3>1
  <2>. QED BY <1>1, <2>3
<1>. QED BY <1>7, <1>8, <1>9

\* The steps of curve_step_2d in the four quadrants.
LEMMA CurveSteps ==
  ASSUME cur \in Point, path.cw \in BOOLEAN
  PROVE  LET p == Moved(cur, CurveStep)
             Goes(a, b) == p.x = cur.x + a /\ p.y = cur.y + b
         IN  /\ Right /\ Up => IF path.cw THEN IF Inside THEN Goes(1, 0) ELSE Goes(0, -1)
                                          ELSE IF Inside THEN Goes(0, 1) ELSE Goes(-1, 0)
             /\ ~Right /\ Up => IF path.cw THEN IF Inside THEN Goes(0, 1) ELSE Goes(1, 0)
                                           ELSE IF Inside THEN Goes(-1, 0) ELSE Goes(0, -1)
             /\ ~Right /\ ~Up => IF path.cw THEN IF Inside THEN Goes(-1, 0) ELSE Goes(0, 1)
                                            ELSE IF Inside THEN Goes(0, -1) ELSE Goes(1, 0)
             /\ Right /\ ~Up => IF path.cw THEN IF Inside THEN Goes(0, -1) ELSE Goes(-1, 0)
                                           ELSE IF Inside THEN Goes(1, 0) ELSE Goes(0, 1)
<1> DEFINE s == CurveStep  p == Moved(cur, CurveStep)
<1>1. cur.x \in Int /\ cur.y \in Int
  BY DEF Point
<1>2. p.x = cur.x + s.x /\ p.y = cur.y + s.y
  BY DEF Moved, At
<1>3. Inside \in BOOLEAN /\ Right \in BOOLEAN /\ Up \in BOOLEAN
  BY DEF Inside, Right, Up
<1> DEFINE in == Inside  cw == path.cw  R == Right  U == Up
           Is(a, b) == s.x = a /\ s.y = b
<1>4. s = IF (in = cw) = (R = U)
          THEN At((IF in THEN 1 ELSE -1) * (IF R THEN 1 ELSE -1), 0)
          ELSE At(0, (IF in THEN 1 ELSE -1) * (IF U THEN 1 ELSE -1))
  BY DEF CurveStep, AlongX, Sign
<1>5. in \in BOOLEAN /\ cw \in BOOLEAN /\ R \in BOOLEAN /\ U \in BOOLEAN
  BY <1>3
<1>6. \A a, b : At(a, b).x = a /\ At(a, b).y = b
  BY DEF At
<1> HIDE DEF in, cw, R, U, s, p
<1>7. R /\ U => IF cw THEN IF in THEN Is(1, 0) ELSE Is(0, -1)
                      ELSE IF in THEN Is(0, 1) ELSE Is(-1, 0)
  BY <1>4, <1>5, <1>6
<1>8. ~R /\ U => IF cw THEN IF in THEN Is(0, 1) ELSE Is(1, 0)
                       ELSE IF in THEN Is(-1, 0) ELSE Is(0, -1)
  <2> SUFFICES ASSUME R = FALSE, U = TRUE
               PROVE  IF cw THEN IF in THEN Is(0, 1) ELSE Is(1, 0)
                            ELSE IF in THEN Is(-1, 0) ELSE Is(0, -1)
    BY <1>5
  <2>1. s = IF in = cw THEN At(0, (IF in THEN 1 ELSE -1) * (IF U THEN 1 ELSE -1))
                       ELSE At((IF in THEN 1 ELSE -1) * (IF R THEN 1 ELSE -1), 0)
    BY <1>4, <1>5, Zenon
  <2>. QED BY <1>5, <1>6, <2>1
<1>9. ~R /\ ~U => IF cw THEN IF in THEN Is(-1, 0) ELSE Is(0, 1)
                        ELSE IF in THEN Is(0, -1) ELSE Is(1, 0)
  BY <1>4, <1>5, <1>6
<1>10. R /\ ~U => IF cw THEN IF in THEN Is(0, -1) ELSE Is(-1, 0)
                        ELSE IF in THEN Is(1, 0) ELSE Is(0, 1)
  <2> SUFFICES ASSUME R = TRUE, U = FALSE
               PROVE  IF cw THEN IF in THEN Is(0, -1) ELSE Is(-1, 0)
                            ELSE IF in THEN Is(1, 0) ELSE Is(0, 1)
    BY <1>5
  <2>1. s = IF in = cw THEN At(0, (IF in THEN 1 ELSE -1) * (IF U THEN 1 ELSE -1))
                       ELSE At((IF in THEN 1 ELSE -1) * (IF R THEN 1 ELSE -1), 0)
    BY <1>4, <1>5, Zenon
  <2>. QED BY <1>5, <1>6, <2>1
<1>. QED BY <1>2, <1>7, <1>8, <1>9, <1>10 DEF in, cw, R, U, p

Near(x, y, r) == /\ (r - 1) * (r - 1) <= x * x + y * y
                 /\ x * x + y * y <= (r + 1) * (r + 1)

\* A step outwards from inside the circle, or inwards from outside, stays near.
LEMMA OutNear ==
  ASSUME NEW r \in Nat \ {0, 1}, NEW x \in (-r)..r, NEW y \in (-r)..r, NEW w \in Int,
         Near(x, y, r), x * x + y * y < r * r,
         (x >= 0 /\ w = x + 1) \/ (x <= 0 /\ w = x - 1)
  PROVE  Near(w, y, r) /\ Near(y, w, r)
<1>1. x \in Int /\ y \in Int /\ r \in Int /\ -r < x /\ x < r
  BY Circle
<1>2. /\ (r - 1) * (r - 1) = r * r - 2 * r + 1
      /\ (r + 1) * (r + 1) = r * r + 2 * r + 1
      /\ w = x + 1 => w * w = x * x + 2 * x + 1
      /\ w = x - 1 => w * w = x * x - 2 * x + 1
  BY <1>1, SMTT(20)
<1> DEFINE xx == x * x  yy == y * y  rr == r * r  ww == w * w
<1>3. xx \in Int /\ yy \in Int /\ rr \in Int /\ ww \in Int
  BY <1>1
<1>4. /\ rr - 2 * r + 1 <= xx + yy /\ xx + yy < rr
      /\ w = x + 1 => ww = xx + 2 * x + 1
      /\ w = x - 1 => ww = xx - 2 * x + 1
  BY <1>2 DEF Near
<1> HIDE DEF xx, yy, rr, ww
<1>5. rr - 2 * r + 1 <= ww + yy /\ ww + yy <= rr + 2 * r + 1
  BY <1>1, <1>3, <1>4
<1>6. Near(w, y, r)
  BY <1>2, <1>5 DEF Near, rr, ww, yy
<1>7. y * y + w * w = w * w + y * y
  BY <1>1
<1>. QED BY <1>6, <1>7 DEF Near

LEMMA InNear ==
  ASSUME NEW r \in Nat \ {0, 1}, NEW x \in (-r)..r, NEW y \in (-r)..r, NEW w \in Int,
         Near(x, y, r), x * x + y * y >= r * r,
         (x > 0 /\ w = x - 1) \/ (x <= 0 /\ w = x + 1)
  PROVE  Near(w, y, r) /\ Near(y, w, r)
<1>1. x \in Int /\ y \in Int /\ r \in Int /\ (x = 0 => y = r \/ y = -r)
  BY Circle
<1>2. /\ (r - 1) * (r - 1) = r * r - 2 * r + 1
      /\ (r + 1) * (r + 1) = r * r + 2 * r + 1
      /\ w = x + 1 => w * w = x * x + 2 * x + 1
      /\ w = x - 1 => w * w = x * x - 2 * x + 1
      /\ x = 0 => x * x = 0 /\ y * y = r * r
  BY <1>1, SMTT(20)
<1> DEFINE xx == x * x  yy == y * y  rr == r * r  ww == w * w
<1>3. xx \in Int /\ yy \in Int /\ rr \in Int /\ ww \in Int
  BY <1>1
<1>4. /\ xx + yy >= rr /\ xx + yy <= rr + 2 * r + 1
      /\ w = x + 1 => ww = xx + 2 * x + 1
      /\ w = x - 1 => ww = xx - 2 * x + 1
      /\ x = 0 => xx = 0 /\ yy = rr
  BY <1>2 DEF Near
<1> HIDE DEF xx, yy, rr, ww
<1>5. rr - 2 * r + 1 <= ww + yy /\ ww + yy <= rr + 2 * r + 1
  BY <1>1, <1>3, <1>4
<1>6. Near(w, y, r)
  BY <1>2, <1>5 DEF Near, rr, ww, yy
<1>7. y * y + w * w = w * w + y * y
  BY <1>1
<1>. QED BY <1>6, <1>7 DEF Near

\* One call of curve_step_2d: near the circle, and one step further around it.
LEMMA CircleStep ==
  ASSUME cur \in Point, path.cw \in BOOLEAN, path.radius \in Nat \ {0, 1},
         cur.x \in (-path.radius)..path.radius, cur.y \in (-path.radius)..path.radius,
         Near(cur.x, cur.y, path.radius)
  PROVE  LET p == Moved(cur, CurveStep)
             r == path.radius
             a == Around(cur, r)
             b == Around(p, r)
         IN  /\ p.x \in (-r)..r /\ p.y \in (-r)..r /\ Near(p.x, p.y, r)
             /\ IF path.cw THEN b = a - 1 \/ b = a - 1 + 8 * r
                           ELSE b = a + 1 \/ b = a + 1 - 8 * r
<1> DEFINE p == Moved(cur, CurveStep)  r == path.radius  x == cur.x  y == cur.y
           u == p.x  w == p.y  in == Inside  cw == path.cw
           Goes(a, b) == u = x + a /\ w = y + b
<1>1. x \in (-r)..r /\ y \in (-r)..r /\ r \in Nat \ {0, 1} /\ Near(x, y, r)
  OBVIOUS
<1>2. in => -r < x /\ x < r /\ -r < y /\ y < r
  BY <1>1, Circle DEF Inside
<1>3. ~in => /\ x \in -1..1 => y = r \/ y = -r
             /\ y \in -1..1 => x = r \/ x = -r
  <2> SUFFICES ASSUME ~in PROVE /\ x \in -1..1 => y = r \/ y = -r
                                /\ y \in -1..1 => x = r \/ x = -r
    OBVIOUS
  <2>1. x * x + y * y >= r * r
    <3>1. x * x \in Int /\ y * y \in Int /\ r * r \in Int
      BY <1>1
    <3>. QED BY <3>1 DEF Inside
  <2>. QED BY <1>1, <2>1, Circle
<1>4. in => /\ (x >= 0 /\ Goes(1, 0)) \/ (x <= 0 /\ Goes(-1, 0)) => Near(u, w, r)
            /\ (y >= 0 /\ Goes(0, 1)) \/ (y <= 0 /\ Goes(0, -1)) => Near(u, w, r)
  <2> SUFFICES ASSUME in PROVE
            /\ (x >= 0 /\ Goes(1, 0)) \/ (x <= 0 /\ Goes(-1, 0)) => Near(u, w, r)
            /\ (y >= 0 /\ Goes(0, 1)) \/ (y <= 0 /\ Goes(0, -1)) => Near(u, w, r)
    OBVIOUS
  <2>1. x * x + y * y < r * r /\ y * y + x * x < r * r /\ Near(y, x, r)
    <3>1. x * x + y * y = y * y + x * x
      BY <1>1
    <3>. QED BY <1>1, <3>1 DEF Inside, Near
  <2>2. ASSUME (x >= 0 /\ Goes(1, 0)) \/ (x <= 0 /\ Goes(-1, 0)) PROVE Near(u, w, r)
    <3>1. w = y /\ u \in Int /\ ((x >= 0 /\ u = x + 1) \/ (x <= 0 /\ u = x - 1))
      BY <1>1, <2>2
    <3> HIDE DEF u, w, x, y, r
    <3>2. Near(u, y, r)
      BY <1>1, <2>1, <3>1, OutNear
    <3>. QED BY <3>1, <3>2
  <2>3. ASSUME (y >= 0 /\ Goes(0, 1)) \/ (y <= 0 /\ Goes(0, -1)) PROVE Near(u, w, r)
    <3>1. u = x /\ w \in Int /\ ((y >= 0 /\ w = y + 1) \/ (y <= 0 /\ w = y - 1))
      BY <1>1, <2>3
    <3> HIDE DEF u, w, x, y, r
    <3>2. Near(x, w, r)
      BY <1>1, <2>1, <3>1, OutNear
    <3>. QED BY <3>1, <3>2
  <2>. QED BY <2>2, <2>3
<1>5. ~in => /\ (x > 0 /\ Goes(-1, 0)) \/ (x <= 0 /\ Goes(1, 0)) => Near(u, w, r)
             /\ (y > 0 /\ Goes(0, -1)) \/ (y <= 0 /\ Goes(0, 1)) => Near(u, w, r)
  <2> SUFFICES ASSUME ~in PROVE
            /\ (x > 0 /\ Goes(-1, 0)) \/ (x <= 0 /\ Goes(1, 0)) => Near(u, w, r)
            /\ (y > 0 /\ Goes(0, -1)) \/ (y <= 0 /\ Goes(0, 1)) => Near(u, w, r)
    OBVIOUS
  <2>1. x * x + y * y >= r * r /\ y * y + x * x >= r * r /\ Near(y, x, r)
    <3>1. x * x \in Int /\ y * y \in Int /\ r * r \in Int /\ x * x + y * y = y * y + x * x
      BY <1>1
    <3>. QED BY <1>1, <3>1 DEF Inside, Near
  <2>2. ASSUME (x > 0 /\ Goes(-1, 0)) \/ (x <= 0 /\ Goes(1, 0)) PROVE Near(u, w, r)
    <3>1. w = y /\ u \in Int /\ ((x > 0 /\ u = x - 1) \/ (x <= 0 /\ u = x + 1))
      BY <1>1, <2>2
    <3> HIDE DEF u, w, x, y, r
    <3>2. Near(u, y, r)
      BY <1>1, <2>1, <3>1, InNear
    <3>. QED BY <3>1, <3>2
  <2>3. ASSUME (y > 0 /\ Goes(0, -1)) \/ (y <= 0 /\ Goes(0, 1)) PROVE Near(u, w, r)
    <3>1. u = x /\ w \in Int /\ ((y > 0 /\ w = y - 1) \/ (y <= 0 /\ w = y + 1))
      BY <1>1, <2>3
    <3> HIDE DEF u, w, x, y, r
    <3>2. Near(x, w, r)
      BY <1>1, <2>1, <3>1, InNear
    <3>. QED BY <3>1, <3>2
  <2>. QED BY <2>2, <2>3
<1>6. /\ x > 0 /\ y > 0 => Around(cur, r) = r - x + y
      /\ ~(x > 0) /\ y > 0 => Around(cur, r) = 3 * r - x - y
      /\ ~(x > 0) /\ ~(y > 0) => Around(cur, r) = 5 * r + x - y
      /\ x > 0 /\ ~(y > 0) => Around(cur, r) = 7 * r + x + y
  BY DEF Around
<1>7. /\ u > 0 /\ w > 0 => Around(p, r) = r - u + w
      /\ ~(u > 0) /\ w > 0 => Around(p, r) = 3 * r - u - w
      /\ ~(u > 0) /\ ~(w > 0) => Around(p, r) = 5 * r + u - w
      /\ u > 0 /\ ~(w > 0) => Around(p, r) = 7 * r + u + w
  BY DEF Around
<1>8. /\ x > 0 /\ y > 0 => IF cw THEN IF in THEN Goes(1, 0) ELSE Goes(0, -1)
                                 ELSE IF in THEN Goes(0, 1) ELSE Goes(-1, 0)
      /\ ~(x > 0) /\ y > 0 => IF cw THEN IF in THEN Goes(0, 1) ELSE Goes(1, 0)
                                    ELSE IF in THEN Goes(-1, 0) ELSE Goes(0, -1)
      /\ ~(x > 0) /\ ~(y > 0) => IF cw THEN IF in THEN Goes(-1, 0) ELSE Goes(0, 1)
                                       ELSE IF in THEN Goes(0, -1) ELSE Goes(1, 0)
      /\ x > 0 /\ ~(y > 0) => IF cw THEN IF in THEN Goes(0, -1) ELSE Goes(-1, 0)
                                    ELSE IF in THEN Goes(1, 0) ELSE Goes(0, 1)
  BY CurveSteps DEF Right, Up
<1>9. x \in Int /\ y \in Int /\ r \in Int
  BY <1>1
<1> DEFINE a == Around(cur, r)  b == Around(p, r)
<1> HIDE DEF x, y, r, u, w, in, cw, p, a, b
<1>10. CASE x > 0 /\ y > 0
  <2>1. Near(u, w, r)
    BY <1>4, <1>5, <1>8, <1>9, <1>10
  <2>2. u \in (-r)..r /\ w \in (-r)..r
    BY <1>1, <1>2, <1>8, <1>10
  <2>3. IF cw THEN b = a - 1 \/ b = a - 1 + 8 * r ELSE b = a + 1 \/ b = a + 1 - 8 * r
    BY <1>1, <1>2, <1>3, <1>6, <1>7, <1>8, <1>10 DEF a, b
  <2>. QED BY <2>1, <2>2, <2>3 DEF x, y, r, u, w, in, cw, p, a, b
<1>11. CASE ~(x > 0) /\ y > 0
  <2>1. Near(u, w, r)
    BY <1>4, <1>5, <1>8, <1>9, <1>11
  <2>2. u \in (-r)..r /\ w \in (-r)..r
    BY <1>1, <1>2, <1>8, <1>11
  <2>3. IF cw THEN b = a - 1 \/ b = a - 1 + 8 * r ELSE b = a + 1 \/ b = a + 1 - 8 * r
    BY <1>1, <1>2, <1>3, <1>6, <1>7, <1>8, <1>11 DEF a, b
  <2>. QED BY <2>1, <2>2, <2>3 DEF x, y, r, u, w, in, cw, p, a, b
<1>12. CASE ~(x > 0) /\ ~(y > 0)
  <2>1. Near(u, w, r)
    BY <1>4, <1>5, <1>8, <1>9, <1>12
  <2>2. u \in (-r)..r /\ w \in (-r)..r
    BY <1>1, <1>2, <1>8, <1>12
  <2>3. IF cw THEN b = a - 1 \/ b = a - 1 + 8 * r ELSE b = a + 1 \/ b = a + 1 - 8 * r
    BY <1>1, <1>2, <1>3, <1>6, <1>7, <1>8, <1>12 DEF a, b
  <2>. QED BY <2>1, <2>2, <2>3 DEF x, y, r, u, w, in, cw, p, a, b
<1>13. CASE x > 0 /\ ~(y > 0)
  <2>1. Near(u, w, r)
    BY <1>4, <1>5, <1>8, <1>9, <1>13
  <2>2. u \in (-r)..r /\ w \in (-r)..r
    BY <1>1, <1>2, <1>8, <1>13
  <2>3. IF cw THEN b = a - 1 \/ b = a - 1 + 8 * r ELSE b = a + 1 \/ b = a + 1 - 8 * r
    BY <1>1, <1>2, <1>3, <1>6, <1>7, <1>8, <1>13 DEF a, b
  <2>. QED BY <2>1, <2>2, <2>3 DEF x, y, r, u, w, in, cw, p, a, b
<1>. QED BY <1>10, <1>11, <1>12, <1>13

\* Where the corners of a circle lie on the way around it.
LEMMA CornerFacts ==
  ASSUME NEW r \in Nat \ {0, 1}, NEW j \in 0..3
  PROVE  /\ Corner(r, j) \in Point
         /\ Around(Corner(r, j), r) = IF j = 0 THEN 8 * r ELSE 2 * r * j
         /\ \A i \in 0..3 : Corner(r, i) = Corner(r, j) => i = j
         /\ 2 * r * j \in {0, 2 * r, 4 * r, 6 * r}
<1>1. \A a, b \in Int : At(a, b) \in Point /\ At(a, b).x = a /\ At(a, b).y = b
  BY DEF At, Point
<1>2. r \in Int /\ -r \in Int /\ 0 \in Int
  OBVIOUS
<1>3. \A k \in 0..3 : /\ Corner(r, k).x = (IF k = 0 THEN r ELSE IF k = 2 THEN -r ELSE 0)
                      /\ Corner(r, k).y = (IF k = 1 THEN r ELSE IF k = 3 THEN -r ELSE 0)
                      /\ Corner(r, k) \in Point
  <2> TAKE k \in 0..3
  <2>1. k = 0 \/ k = 1 \/ k = 2 \/ k = 3
    OBVIOUS
  <2>2. /\ k = 0 => Corner(r, k) = At(r, 0)
        /\ k = 1 => Corner(r, k) = At(0, r)
        /\ k = 2 => Corner(r, k) = At(-r, 0)
        /\ k = 3 => Corner(r, k) = At(0, -r)
    BY DEF Corner
  <2>. QED BY <1>1, <1>2, <2>1, <2>2
<1>4. j = 0 \/ j = 1 \/ j = 2 \/ j = 3
  OBVIOUS
<1>5. 2 * r * j = IF j = 0 THEN 0 ELSE IF j = 1 THEN 2 * r ELSE IF j = 2 THEN 4 * r ELSE 6 * r
  BY <1>4
<1>6. Around(Corner(r, j), r) = IF j = 0 THEN 8 * r ELSE 2 * r * j
  BY <1>3, <1>4, <1>5 DEF Around
<1>7. \A i \in 0..3 : Corner(r, i) = Corner(r, j) => i = j
  BY <1>3
<1>. QED BY <1>3, <1>5, <1>6, <1>7

\* The way around leads from 1 to 8 * r, and is a corner's only at that corner.
LEMMA AroundFacts ==
  ASSUME NEW r \in Nat \ {0, 1}, NEW p \in Point, p.x \in (-r)..r, p.y \in (-r)..r
  PROVE  /\ Around(p, r) \in 1..(8 * r)
         /\ \A j \in 0..3 : Around(p, r) \in {2 * r * j - 8 * r, 2 * r * j, 2 * r * j + 8 * r}
                              => p = Corner(r, j)
<1> DEFINE x == p.x  y == p.y  a == Around(p, r)
<1>1. x \in Int /\ y \in Int /\ -r <= x /\ x <= r /\ -r <= y /\ y <= r /\ p = At(x, y)
  BY DEF Point, At
<1>2. /\ x > 0 /\ y > 0 => a = r - x + y
      /\ ~(x > 0) /\ y > 0 => a = 3 * r - x - y
      /\ ~(x > 0) /\ ~(y > 0) => a = 5 * r + x - y
      /\ x > 0 /\ ~(y > 0) => a = 7 * r + x + y
  BY DEF Around
<1> HIDE DEF x, y, a
<1>3. a \in 1..(8 * r)
  BY <1>1, <1>2
<1>4. /\ a = 8 * r => x = r /\ y = 0
      /\ a = 2 * r => x = 0 /\ y = r
      /\ a = 4 * r => x = -r /\ y = 0
      /\ a = 6 * r => x = 0 /\ y = -r
  BY <1>1, <1>2
<1>5. ASSUME NEW j \in 0..3, a \in {2 * r * j - 8 * r, 2 * r * j, 2 * r * j + 8 * r}
      PROVE  p = Corner(r, j)
  <2>1. CASE j = 0
    <3>1. a = 8 * r
      BY <1>3, <1>5, <2>1
    <3>. QED BY <1>1, <1>4, <2>1, <3>1 DEF Corner
  <2>2. CASE j = 1
    <3>1. a = 2 * r
      BY <1>3, <1>5, <2>2
    <3>. QED BY <1>1, <1>4, <2>2, <3>1 DEF Corner
  <2>3. CASE j = 2
    <3>1. a = 4 * r
      BY <1>3, <1>5, <2>3
    <3>. QED BY <1>1, <1>4, <2>3, <3>1 DEF Corner
  <2>4. CASE j = 3
    <3>1. a = 6 * r
      BY <1>3, <1>5, <2>4
    <3>. QED BY <1>1, <1>4, <2>4, <3>1 DEF Corner
  <2>. QED BY <2>1, <2>2, <2>3, <2>4
<1>. QED BY <1>3, <1>5 DEF a

LEMMA TurnsFacts ==
  ASSUME NEW i \in 0..3, NEW j \in 0..3, path.cw \in BOOLEAN
  PROVE  LET n == IF path.cw THEN i - j ELSE j - i
         IN  Turns(i, j) = IF n >= 0 THEN n ELSE n + 4
<1>1. \A n \in -3..3 : n % 4 = IF n >= 0 THEN n ELSE n + 4
  BY SMTT(20)
<1>2. i - j \in -3..3 /\ j - i \in -3..3
  OBVIOUS
<1>. QED BY <1>1, <1>2 DEF Turns

\* Before its end a curve has way left, at its end none.
LEMMA LeftAtEnd ==
  ASSUME TypeOK, NEW i \in 0..3, NEW j \in 0..3, CurveFrom(i, j)
  PROVE  /\ Left(i, j) \in Nat /\ path.radius \in Nat \ {0, 1}
         /\ Arrived <=> Left(i, j) = 0
<1> DEFINE r == path.radius  L == Left(i, j)  a == Around(cur, r)  m == 2 * r * j
           T == 2 * r * Turns(i, j)
<1>1. r \in Nat \ {0, 1} /\ path.end = Corner(r, j) /\ L >= 0
      /\ cur.x \in (-r)..r /\ cur.y \in (-r)..r
      /\ (a + (IF path.cw THEN -L ELSE L)) \in {m - 8 * r, m, m + 8 * r}
  BY PathAssumption DEF CurveFrom
<1>2. cur \in Point /\ calls \in Nat /\ path.cw \in BOOLEAN
  BY DEF TypeOK
<1>3. L = T - calls
  BY DEF Left
<1>4. T \in {0, 2 * r, 4 * r, 6 * r}
  <2>1. Turns(i, j) \in 0..3
    BY <1>2, TurnsFacts
  <2>2. Turns(i, j) = 0 \/ Turns(i, j) = 1 \/ Turns(i, j) = 2 \/ Turns(i, j) = 3
    BY <2>1
  <2>. QED BY <1>1, <2>2
<1> HIDE DEF L, T
<1>5. L \in Nat /\ L <= 6 * r
  BY <1>1, <1>2, <1>3, <1>4
<1>6. m \in {0, 2 * r, 4 * r, 6 * r}
  BY <1>1, CornerFacts
<1>7. ASSUME L = 0 PROVE Arrived
  <2>1. a \in {m - 8 * r, m, m + 8 * r}
    <3>1. a \in Int
      BY <1>1, <1>2, AroundFacts
    <3> HIDE DEF a, m
    <3>. QED BY <1>1, <1>7, <3>1
  <2>. QED BY <1>1, <1>2, <2>1, AroundFacts DEF Arrived
<1>8. ASSUME Arrived PROVE L = 0
  <2>1. a = IF j = 0 THEN 8 * r ELSE m
    BY <1>1, <1>8, CornerFacts DEF Arrived
  <2>2. j = 0 => m = 0
    BY <1>1
  <2>3. j # 0 => m \in {2 * r, 4 * r, 6 * r}
    <3>1. j = 1 \/ j = 2 \/ j = 3 \/ j = 0
      OBVIOUS
    <3>. QED BY <1>1, <3>1
  <2> HIDE DEF a, m
  <2>. QED BY <1>1, <1>5, <2>1, <2>2, <2>3
<1>. QED BY <1>1, <1>5, <1>7, <1>8 DEF L

LEMMA CurveCallKeeps ==
  ASSUME PathInv, CurveNear, CurveCall, NEW i \in 0..3, NEW j \in 0..3, CurveFrom(i, j)
  PROVE  CurveNear' /\ CurveFrom(i, j)'
<1> DEFINE r == path.radius  L == Left(i, j)  m == 2 * r * j  cw == path.cw
           a == Around(cur, r)  b == Around(Moved(cur, CurveStep), r)
<1>1. TypeOK /\ mode = "curve" /\ mode' = mode /\ path' = path /\ ~stop /\ stop' = stop /\ ~Arrived
      /\ cur' = Moved(cur, CurveStep) /\ pulses' = Moved(pulses, CurveStep) /\ calls' = calls + 1
  BY DEF CurveCall, PathInv
<1>2. cur \in Point /\ pulses \in Point /\ cw \in BOOLEAN /\ calls \in Nat
  BY <1>1 DEF TypeOK
<1>3. L \in Nat \ {0} /\ r \in Nat \ {0, 1}
  BY <1>1, LeftAtEnd
<1>4. /\ i # j /\ r \in Radii /\ cur.x \in (-r)..r /\ cur.y \in (-r)..r
      /\ At(cur.x - pulses.x, cur.y - pulses.y) = Corner(r, i) /\ path.end = Corner(r, j)
      /\ (a + (IF cw THEN -L ELSE L)) \in {m - 8 * r, m, m + 8 * r}
  BY DEF CurveFrom
<1>5. Near(cur.x, cur.y, r)
  BY <1>1 DEF CurveNear, Near
<1>6. /\ cur'.x \in (-r)..r /\ cur'.y \in (-r)..r /\ Near(cur'.x, cur'.y, r)
      /\ IF cw THEN b = a - 1 \/ b = a - 1 + 8 * r ELSE b = a + 1 \/ b = a + 1 - 8 * r
  BY <1>1, <1>2, <1>3, <1>4, <1>5, CircleStep
<1>7. CurveNear'
  BY <1>1, <1>6 DEF CurveNear, Near
<1>8. cur' \in Point /\ CurveStep.x \in Int /\ CurveStep.y \in Int
  BY <1>1, <1>2 DEF CurveStep, At, Sign, Moved, Point
<1>9. At(cur'.x - pulses'.x, cur'.y - pulses'.y) = Corner(r, i)
  <2>1. cur'.x = cur.x + CurveStep.x /\ cur'.y = cur.y + CurveStep.y
        /\ pulses'.x = pulses.x + CurveStep.x /\ pulses'.y = pulses.y + CurveStep.y
    BY <1>1 DEF Moved, At
  <2>2. cur.x \in Int /\ cur.y \in Int /\ pulses.x \in Int /\ pulses.y \in Int
    BY <1>2 DEF Point
  <2>3. cur'.x - pulses'.x = cur.x - pulses.x /\ cur'.y - pulses'.y = cur.y - pulses.y
    BY <1>8, <2>1, <2>2
  <2>. QED BY <1>4, <2>3
<1>10. Left(i, j)' = L - 1
  <2>1. Turns(i, j)' = Turns(i, j)
    BY <1>1 DEF Turns
  <2>2. Turns(i, j) \in Int /\ 2 * r \in Int
    BY <1>2, <1>3, TurnsFacts
  <2>3. 2 * r * Turns(i, j) \in Int
    BY <2>2
  <2>. QED BY <1>1, <1>2, <2>1, <2>3 DEF Left
<1>11. a \in 1..(8 * r) /\ b \in 1..(8 * r)
  BY <1>1, <1>2, <1>3, <1>4, <1>6, <1>8, AroundFacts
<1>12. m \in {0, 2 * r, 4 * r, 6 * r}
  BY <1>3, CornerFacts
<1>13. (b + (IF cw THEN -(L - 1) ELSE L - 1)) \in {m - 8 * r, m, m + 8 * r}
  <2> HIDE DEF a, b, m, L, r, cw
  <2>1. CASE cw
    BY <1>3, <1>4, <1>6, <1>11, <1>12, <2>1
  <2>2. CASE ~cw
    BY <1>3, <1>4, <1>6, <1>11, <1>12, <2>2
  <2>. QED BY <2>1, <2>2
<1>14. L - 1 >= 0
  BY <1>3
<1>15. Around(cur', path'.radius) = b
  BY <1>1
<1>. QED BY <1>1, <1>4, <1>6, <1>7, <1>9, <1>10, <1>13, <1>14, <1>15 DEF CurveFrom

LEMMA CurveInvStep == CurveInv /\ [Next]_vars => CurveInv'
<1> SUFFICES ASSUME CurveInv, [Next]_vars, mode' = "curve"
             PROVE  CurveNear' /\ \E i, j \in 0..3 : CurveFrom(i, j)'
  BY PathStep DEF CurveInv
<1>1. CASE CurveCall
  <2>1. mode = "curve"
    BY <1>1 DEF CurveCall
  <2>2. PICK i \in 0..3, j \in 0..3 : CurveFrom(i, j)
    BY <2>1 DEF CurveInv
  <2>. QED BY <1>1, <2>1, <2>2, CurveCallKeeps DEF CurveInv
<1>2. CASE PathEnd
  <2>1. mode = "curve" /\ path' = path /\ cur' = cur /\ pulses' = pulses /\ calls' = calls /\ cur = path.end
    BY <1>2 DEF PathEnd, Arrived
  <2>2. PICK i \in 0..3, j \in 0..3 : CurveFrom(i, j)
    BY <2>1 DEF CurveInv
  <2>3. CurveFrom(i, j)'
    BY <2>1, <2>2 DEF CurveFrom, Left, Turns, Around
  <2>4. CurveNear'
    BY <2>1 DEF CurveInv, CurveNear
  <2>. QED BY <2>3, <2>4
<1>3. CASE UNCHANGED vars
  <2>1. mode = "curve" /\ path' = path /\ cur' = cur /\ pulses' = pulses /\ calls' = calls /\ stop' = stop
    BY <1>3 DEF vars
  <2>2. PICK i \in 0..3, j \in 0..3 : CurveFrom(i, j)
    BY <2>1 DEF CurveInv
  <2>3. CurveFrom(i, j)'
    BY <2>1, <2>2 DEF CurveFrom, Left, Turns, Around
  <2>4. CurveNear'
    BY <2>1 DEF CurveInv, CurveNear
  <2>. QED BY <2>3, <2>4
<1>4. CASE LineCall \/ JogCall \/ JogEnd
  BY <1>4 DEF LineCall, JogCall, JogEnd
<1>. QED BY <1>1, <1>2, <1>3, <1>4 DEF Next

LEMMA CurveInvInit == Init => CurveInv
<1> SUFFICES ASSUME Init, mode = "curve"
             PROVE  CurveNear /\ \E i, j \in 0..3 : CurveFrom(i, j)
  BY PathInit DEF CurveInv
<1>1. InitCurve
  BY DEF Init, InitLine, InitJog, Begin
<1>2. PICK r \in Radii, i \in 0..3, j \in 0..3, cw \in BOOLEAN :
        i # j /\ Begin("curve", Corner(r, i), Way(Corner(r, j), r, cw),
                       total(Corner(r, i), Corner(r, j)))
  BY <1>1 DEF InitCurve
<1>3. r \in Nat \ {0, 1}
  BY PathAssumption
<1>4. cur = Corner(r, i) /\ pulses = Zero /\ calls = 0 /\ stop = FALSE
      /\ path.radius = r /\ path.cw = cw /\ path.end = Corner(r, j)
  BY <1>2 DEF Begin, Way
<1>5. cur \in Point /\ pulses.x = 0 /\ pulses.y = 0
  BY <1>3, <1>4, CornerFacts DEF Zero, At
<1>6. At(cur.x - pulses.x, cur.y - pulses.y) = cur
  BY <1>5 DEF At, Point
<1>7. i = 0 \/ i = 1 \/ i = 2 \/ i = 3
  OBVIOUS
<1>8. /\ cur.x \in {-r, 0, r} /\ cur.y \in {-r, 0, r}
      /\ (cur.x = 0 /\ cur.y # 0) \/ (cur.x # 0 /\ cur.y = 0)
  BY <1>3, <1>4, <1>7 DEF Corner, At
<1>9. CurveNear
  <2>1. cur.x * cur.x + cur.y * cur.y = r * r
    BY <1>3, <1>8, SMTT(20)
  <2>2. (r - 1) * (r - 1) = r * r - 2 * r + 1 /\ (r + 1) * (r + 1) = r * r + 2 * r + 1 /\ r * r \in Int
    BY <1>3, SMTT(20)
  <2>. QED BY <1>3, <1>4, <2>1, <2>2 DEF CurveNear
<1> DEFINE a == Around(cur, r)  m == 2 * r * j  T == 2 * r * Turns(i, j)
<1>10. a = IF i = 0 THEN 8 * r ELSE 2 * r * i
  BY <1>3, <1>4, CornerFacts
<1>11. LET n == IF cw THEN i - j ELSE j - i
       IN  Turns(i, j) = IF n >= 0 THEN n ELSE n + 4
  BY <1>4, TurnsFacts
<1>12. T >= 0 /\ (a + (IF cw THEN -T ELSE T)) \in {m - 8 * r, m, m + 8 * r}
  <2>1. j = 0 \/ j = 1 \/ j = 2 \/ j = 3
    OBVIOUS
  <2>2. \A n \in 0..3 : 2 * r * n = IF n = 0 THEN 0 ELSE IF n = 1 THEN 2 * r
                                    ELSE IF n = 2 THEN 4 * r ELSE 6 * r
    <3> TAKE n \in 0..3
    <3>1. n = 0 \/ n = 1 \/ n = 2 \/ n = 3
      OBVIOUS
    <3>. QED BY <1>3, <3>1
  <2>3. Turns(i, j) \in 0..3
    BY <1>11
  <2> DEFINE t == Turns(i, j)
  <2> HIDE DEF t
  <2>4. T = IF t = 0 THEN 0 ELSE IF t = 1 THEN 2 * r ELSE IF t = 2 THEN 4 * r ELSE 6 * r
    BY <2>2, <2>3 DEF t
  <2>5. m = IF j = 0 THEN 0 ELSE IF j = 1 THEN 2 * r ELSE IF j = 2 THEN 4 * r ELSE 6 * r
    BY <2>2
  <2>6. a = IF i = 0 THEN 8 * r ELSE IF i = 1 THEN 2 * r ELSE IF i = 2 THEN 4 * r ELSE 6 * r
    BY <1>10, <2>2
  <2>7. t = (IF cw THEN (IF i >= j THEN i - j ELSE i - j + 4)
                   ELSE (IF j >= i THEN j - i ELSE j - i + 4))
    BY <1>11 DEF t
  <2> HIDE DEF a, m, T
  <2>8. CASE cw
    BY <1>2, <1>3, <1>7, <2>1, <2>4, <2>5, <2>6, <2>7, <2>8
  <2>9. CASE ~cw
    BY <1>2, <1>3, <1>7, <2>1, <2>4, <2>5, <2>6, <2>7, <2>9
  <2>. QED BY <2>8, <2>9
<1>13. Left(i, j) = T
  <2>1. Turns(i, j) \in Int
    BY <1>11
  <2>2. T \in Int
    BY <1>3, <2>1
  <2>. QED BY <1>4, <2>2 DEF Left
<1>14. cur.x \in (-r)..r /\ cur.y \in (-r)..r
  BY <1>3, <1>8
<1>15. CurveFrom(i, j)
  <2> HIDE DEF a, m, T
  <2>1. Left(i, j) >= 0 /\ (a + (IF cw THEN -Left(i, j) ELSE Left(i, j))) \in {m - 8 * r, m, m + 8 * r}
    BY <1>12, <1>13
  <2>. QED BY <1>2, <1>4, <1>6, <1>14, <2>1 DEF CurveFrom, a, m
<1>. QED BY <1>9, <1>15

LEMMA CurveIsExact == CurveInv => CurveExact
<1> SUFFICES ASSUME CurveInv, mode = "curve" PROVE CurveExact
  BY DEF CurveExact
<1>1. PICK i \in 0..3, j \in 0..3 : CurveFrom(i, j)
  BY DEF CurveInv
<1>2. TypeOK
  BY DEF CurveInv, PathInv
<1>3. Left(i, j) \in Nat /\ path.radius \in Nat \ {0, 1} /\ (Arrived <=> Left(i, j) = 0)
  BY <1>1, <1>2, LeftAtEnd
<1>4. /\ At(cur.x - pulses.x, cur.y - pulses.y) = Corner(path.radius, i)
      /\ path.end = Corner(path.radius, j) /\ (stop => Arrived)
  BY <1>1 DEF CurveFrom, Arrived
<1>5. \A k, l \in 0..3 : Corner(path.radius, k) = Corner(path.radius, l) => k = l
  BY <1>3, CornerFacts
<1> DEFINE from == CHOOSE k \in 0..3 : Corner(path.radius, k) = At(cur.x - pulses.x, cur.y - pulses.y)
           to == CHOOSE k \in 0..3 : Corner(path.radius, k) = path.end
<1>6. from = i
  BY <1>4, <1>5
<1>7. to = j
  BY <1>4, <1>5
<1>8. Quarters = IF path.cw THEN (from - to) % 4 ELSE (to - from) % 4
  BY DEF Quarters
<1>9. Quarters = Turns(i, j)
  <2> HIDE DEF from, to
  <2>. QED BY <1>6, <1>7, <1>8 DEF Turns
<1>10. Turns(i, j) \in Int
  BY <1>2, TurnsFacts DEF TypeOK
<1> DEFINE T == 2 * path.radius * Quarters
<1>11. T \in Int /\ Left(i, j) = T - calls
  BY <1>3, <1>9, <1>10 DEF Left
<1> HIDE DEF T
<1>12. calls \in Nat
  BY <1>2 DEF TypeOK
<1>13. calls <= T /\ (stop => calls = T)
  BY <1>3, <1>4, <1>11, <1>12
<1>. QED BY <1>13 DEF CurveExact, T

\* A curve of any radius stays within one step of its circle, goes around it the
\* way its direction says and takes two radii of steps for every quarter.
THEOREM CurvesGoAround == Spec => [](CurveNear /\ CurveExact)
<1>1. CurveInv => CurveNear
  BY DEF CurveInv, CurveNear
<1>. QED BY <1>1, CurveInvInit, CurveInvStep, CurveIsExact, PTL DEF Spec

\* Lines, curves and jogs of any size, at every speed that can be braked.
THEOREM MovesGoWell == Spec => MovesWell
<1>. QED BY LinesStayNear, CurvesGoAround, MovesBrakeInTime, NoSpeedSurges, PTL DEF MovesWell

-----------------------------------------------------------------------------
(* The jog wheel.                                                          *)

\* What the last digits of the mask say of the way from home, where n is the quarter
\* the decoder has last seen: one, two or three quarters to the right, or to the left.
ByDigits(n) ==
  /\ n % 4 = 0 => home = n
  /\ n % 4 = 1 /\ mask[4] = 2 => home = n - 1
  /\ n % 4 = 2 /\ mask[3] = 2 /\ mask[4] = 1 => home = n - 2
  /\ n % 4 = 3 /\ mask[2] = 2 /\ mask[3] = 1 /\ mask[4] = 8 => home = n - 3
  /\ n % 4 = 3 /\ mask[4] = 1 => home = n + 1
  /\ n % 4 = 2 /\ mask[3] = 1 /\ mask[4] = 2 => home = n + 2
  /\ n % 4 = 1 /\ mask[2] = 1 /\ mask[3] = 2 /\ mask[4] = 4 => home = n + 3

\* All the reads since home went by one quarter, the same way d.
Straight(d) == \A i \in 1..Len(quarters) : quarters[i] = d

\* How many of them the decoder has seen.
Decoded == IF wheelAt = "idle" THEN Len(quarters) ELSE Len(quarters) - 1

\* What it has then put into the mask.
Digits(d, k) ==
  IF d = 1
  THEN /\ k = 1 => mask[4] = 2
       /\ k = 2 => mask[3] = 2 /\ mask[4] = 1
       /\ k = 3 => mask[2] = 2 /\ mask[3] = 1 /\ mask[4] = 8
  ELSE /\ k = 1 => mask[4] = 1
       /\ k = 2 => mask[3] = 1 /\ mask[4] = 2
       /\ k = 3 => mask[2] = 1 /\ mask[3] = 2 /\ mask[4] = 4

ByReads(n, d) ==
  Straight(d) => /\ Decoded \in 0..3 /\ n = home + d * Decoded
                 /\ Digits(d, Decoded)
                 /\ wheelAt # "idle" => rxTurn = n + d

\* The decoder has last seen the wheel at n.
Saw(n) ==
  /\ wheelAt = "idle" => n = rxTurn
  /\ wheelCur = Level(n) /\ rxTurn - n \in (-2)..2
  /\ ByDigits(n) /\ ByReads(n, 1) /\ ByReads(n, -1)

WheelInv ==
  /\ WheelTypeOK
  /\ unseen \in 0..Unseen /\ turn - rxTurn \in (-unseen)..unseen
  /\ rxTurn \in Int /\ home \in Int /\ was \in Int /\ home % 4 = 0
  /\ rx = Level(rxTurn)
  /\ quarters \in Seq(Int) /\ (wheelAt # "idle" => quarters # <<>>)
  /\ \E n \in Int : Saw(n)
  /\ JogIsClick

LEMMA Quarters4 ==
  ASSUME NEW n \in Int
  PROVE  /\ n % 4 \in 0..3
         /\ n % 4 = 0 => (n + 1) % 4 = 1 /\ (n - 1) % 4 = 3 /\ (n + 2) % 4 = 2 /\ (n - 2) % 4 = 2
         /\ n % 4 = 1 => (n + 1) % 4 = 2 /\ (n - 1) % 4 = 0 /\ (n + 2) % 4 = 3 /\ (n - 2) % 4 = 3
         /\ n % 4 = 2 => (n + 1) % 4 = 3 /\ (n - 1) % 4 = 1 /\ (n + 2) % 4 = 0 /\ (n - 2) % 4 = 0
         /\ n % 4 = 3 => (n + 1) % 4 = 0 /\ (n - 1) % 4 = 2 /\ (n + 2) % 4 = 1 /\ (n - 2) % 4 = 1
  OBVIOUS

\* The quarters around a rest.
LEMMA AroundRest ==
  ASSUME NEW h \in Int, h % 4 = 0
  PROVE  /\ (h + 1) % 4 = 1 /\ (h + 2) % 4 = 2 /\ (h + 3) % 4 = 3 /\ (h + 4) % 4 = 0
         /\ (h - 1) % 4 = 3 /\ (h - 2) % 4 = 2 /\ (h - 3) % 4 = 1 /\ (h - 4) % 4 = 0
<1>1. (h + 1) % 4 = 1 /\ (h + 2) % 4 = 2 /\ (h - 1) % 4 = 3 /\ (h - 2) % 4 = 2
  BY Quarters4
<1>2. (h + 2) + 1 = h + 3 /\ (h + 2) + 2 = h + 4 /\ (h - 2) - 1 = h - 3 /\ (h - 2) - 2 = h - 4
  OBVIOUS
<1>3. ((h + 2) + 1) % 4 = 3 /\ ((h + 2) + 2) % 4 = 0
  BY <1>1, Quarters4
<1>4. ((h - 2) - 1) % 4 = 1 /\ ((h - 2) - 2) % 4 = 0
  BY <1>1, Quarters4
<1>. QED BY <1>1, <1>2, <1>3, <1>4

LEMMA LevelIs ==
  ASSUME NEW n \in Int
  PROVE  /\ Level(n) \in Lines
         /\ Level(n)[1] = IF n % 4 \in {0, 3} THEN 1 ELSE 0
         /\ Level(n)[2] = IF n % 4 \in {0, 1} THEN 1 ELSE 0
         /\ Level(n) = Rest <=> n % 4 = 0
  BY Quarters4 DEF Level, Lines, Rest

\* A digit of the mask tells which quarter was made, in which direction.
LEMMA DigitTells ==
  ASSUME NEW n \in Int, NEW m \in Int, wheelCur = Level(n), rx = Level(m), m - n \in (-2)..2
  PROVE  /\ Digit \in 0..15
         /\ Digit = 2 <=> (n % 4 = 0 /\ m = n + 1) \/ (n % 4 = 3 /\ m = n - 1)
         /\ Digit = 1 <=> (n % 4 = 1 /\ m = n + 1) \/ (n % 4 = 0 /\ m = n - 1)
         /\ Digit = 8 <=> (n % 4 = 2 /\ m = n + 1) \/ (n % 4 = 1 /\ m = n - 1)
         /\ Digit = 4 <=> (n % 4 = 3 /\ m = n + 1) \/ (n % 4 = 2 /\ m = n - 1)
<1>1. m = n \/ m = n + 1 \/ m = n - 1 \/ m = n + 2 \/ m = n - 2
  OBVIOUS
<1>2. n % 4 \in 0..3
  BY Quarters4
<1>3. Digit = 8 * (rx[1] * (1 - wheelCur[1])) + 4 * (rx[2] * (1 - wheelCur[2]))
              + 2 * (wheelCur[1] * (1 - rx[1])) + wheelCur[2] * (1 - rx[2])
  BY DEF Digit, High, Low
<1>4. /\ wheelCur[1] = IF n % 4 \in {0, 3} THEN 1 ELSE 0
      /\ wheelCur[2] = IF n % 4 \in {0, 1} THEN 1 ELSE 0
      /\ rx[1] = IF m % 4 \in {0, 3} THEN 1 ELSE 0
      /\ rx[2] = IF m % 4 \in {0, 1} THEN 1 ELSE 0
  BY LevelIs
<1>5. CASE n % 4 = 0
  <2>1. \/ m = n /\ m % 4 = 0
        \/ m = n + 1 /\ m % 4 = 1
        \/ m = n - 1 /\ m % 4 = 3
        \/ (m = n + 2 \/ m = n - 2) /\ m % 4 = 2
    BY <1>1, <1>5, Quarters4
  <2>. QED BY <1>3, <1>4, <1>5, <2>1
<1>6. CASE n % 4 = 1
  <2>1. \/ m = n /\ m % 4 = 1
        \/ m = n + 1 /\ m % 4 = 2
        \/ m = n - 1 /\ m % 4 = 0
        \/ (m = n + 2 \/ m = n - 2) /\ m % 4 = 3
    BY <1>1, <1>6, Quarters4
  <2>. QED BY <1>3, <1>4, <1>6, <2>1
<1>7. CASE n % 4 = 2
  <2>1. \/ m = n /\ m % 4 = 2
        \/ m = n + 1 /\ m % 4 = 3
        \/ m = n - 1 /\ m % 4 = 1
        \/ (m = n + 2 \/ m = n - 2) /\ m % 4 = 0
    BY <1>1, <1>7, Quarters4
  <2>. QED BY <1>3, <1>4, <1>7, <2>1
<1>8. CASE n % 4 = 3
  <2>1. \/ m = n /\ m % 4 = 3
        \/ m = n + 1 /\ m % 4 = 0
        \/ m = n - 1 /\ m % 4 = 2
        \/ (m = n + 2 \/ m = n - 2) /\ m % 4 = 1
    BY <1>1, <1>8, Quarters4
  <2>. QED BY <1>3, <1>4, <1>8, <2>1
<1>. QED BY <1>2, <1>5, <1>6, <1>7, <1>8

LEMMA InitWheel == WheelInit => WheelInv
<1> SUFFICES ASSUME WheelInit PROVE WheelInv
  OBVIOUS
<1> USE WheelAssumption DEF WheelInit
<1>1. Level(0) = Rest /\ Rest \in Lines /\ 0 % 4 = 0
  BY DEF Level, Rest, Lines
<1>2. WheelTypeOK
  <2>1. mask \in [1..4 -> 0..15]
    BY WheelAssumption DEF WheelInit
  <2>2. turn \in (-WheelFar)..WheelFar
    OBVIOUS
  <2>3. irq \in BOOLEAN
    OBVIOUS
  <2>4. rx \in Lines /\ wheelCur \in Lines /\ wheelAt = "idle" /\ jog = "none"
    BY <1>1
  <2>. QED BY <2>1, <2>2, <2>3, <2>4 DEF WheelTypeOK
<1>3. Saw(0)
  <2>1. ByDigits(0)
    BY <1>1 DEF ByDigits
  <2>2. Decoded = 0 /\ Digits(1, Decoded) /\ Digits(-1, Decoded)
    BY DEF Decoded, Digits
  <2>3. ByReads(0, 1) /\ ByReads(0, -1)
    BY <2>2 DEF ByReads
  <2>. QED BY <1>1, <2>1, <2>3 DEF Saw
<1>4. JogIsClick
  BY DEF JogIsClick
<1>5. quarters \in Seq(Int)
  OBVIOUS
<1>. QED BY <1>1, <1>2, <1>3, <1>4, <1>5 DEF WheelInv

LEMMA KeepTurn ==
  ASSUME WheelInv, Turn
  PROVE  WheelInv'
<1> USE WheelAssumption
<1>1. PICK n \in Int : Saw(n)
  BY DEF WheelInv
<1>2. PICK d \in {1, -1} : /\ turn + d \in (-WheelFar)..WheelFar /\ unseen < Unseen
                           /\ turn' = turn + d /\ irq' = TRUE /\ unseen' = unseen + 1
  BY DEF Turn
<1>3. UNCHANGED <<wheelAt, rx, wheelCur, mask, jog, rxTurn, quarters, home, was>>
  BY DEF Turn
<1>4. turn \in Int /\ rxTurn \in Int /\ unseen \in 0..2 /\ turn - rxTurn \in (-unseen)..unseen
  BY DEF WheelInv, WheelTypeOK
<1>5. unseen' \in 0..Unseen /\ turn' - rxTurn' \in (-unseen')..(unseen')
  BY <1>2, <1>3, <1>4 DEF WheelInv
<1>6. Saw(n)'
  BY <1>1, <1>3 DEF Saw, ByDigits, ByReads, Straight, Decoded, Digits
<1>7. WheelTypeOK'
  BY <1>2, <1>3 DEF WheelInv, WheelTypeOK
<1>8. JogIsClick'
  BY <1>3 DEF WheelInv, JogIsClick
<1>9. rx' = Level(rxTurn')
  BY <1>3 DEF WheelInv
<1>. QED BY <1>1, <1>3, <1>5, <1>6, <1>7, <1>8, <1>9 DEF WheelInv

LEMMA KeepClear ==
  ASSUME WheelInv, Clear
  PROVE  WheelInv'
<1>1. PICK n \in Int : Saw(n)
  BY DEF WheelInv
<1>2. /\ UNCHANGED <<turn, rx, wheelCur, mask, jog, unseen, rxTurn, quarters, home, was>>
      /\ wheelAt = "transfer" /\ wheelAt' = "decoder" /\ irq' = FALSE
  BY DEF Clear
<1>3. Saw(n)'
  BY <1>1, <1>2 DEF Saw, ByDigits, ByReads, Straight, Decoded, Digits
<1>4. WheelTypeOK'
  BY <1>2 DEF WheelInv, WheelTypeOK
<1>5. JogIsClick' /\ rx' = Level(rxTurn')
  BY <1>2 DEF WheelInv, JogIsClick
<1>. QED BY <1>1, <1>2, <1>3, <1>4, <1>5 DEF WheelInv

LEMMA KeepSample ==
  ASSUME WheelInv, Sample
  PROVE  WheelInv'
<1> USE WheelAssumption
<1>1. PICK n \in Int : Saw(n)
  BY DEF WheelInv
<1>2. /\ wheelAt = "idle" /\ wheelAt' = "transfer"
      /\ rx' = Level(turn) /\ rxTurn' = turn /\ unseen' = 0
      /\ UNCHANGED <<turn, irq, wheelCur, mask, jog, home, was>>
  BY DEF Sample
<1>3. /\ turn \in Int /\ rxTurn \in Int /\ unseen \in 0..2 /\ turn - rxTurn \in (-unseen)..unseen
      /\ quarters \in Seq(Int) /\ n = rxTurn
  BY <1>1, <1>2 DEF WheelInv, WheelTypeOK, Saw
<1>4. turn - n \in (-2)..2
  BY <1>3
<1>5. quarters' = IF turn - n \in {1, -1} /\ Len(quarters) < 4 THEN Append(quarters, turn - n) ELSE <<0>>
  BY <1>3 DEF Sample
<1>6. quarters' \in Seq(Int) /\ quarters' # <<>>
  BY <1>3, <1>4, <1>5, AppendProperties
<1>7. ASSUME NEW d \in {1, -1} PROVE ByReads(n, d) => ByReads(n, d)'
  <2> SUFFICES ASSUME ByReads(n, d), Straight(d)'
               PROVE  /\ Decoded' \in 0..3 /\ n = home + d * Decoded'
                      /\ Digits(d, Decoded)' /\ turn = n + d
    BY <1>2 DEF ByReads
  <2>1. CASE ~ (turn - n \in {1, -1} /\ Len(quarters) < 4)
    <3>1. quarters' = <<0>>
      BY <1>5, <2>1
    <3>2. 1 \in 1..Len(quarters') /\ quarters'[1] = 0
      BY <3>1
    <3>. QED BY <3>2 DEF Straight
  <2>2. CASE turn - n \in {1, -1} /\ Len(quarters) < 4
    <3>1. quarters' = Append(quarters, turn - n)
      BY <1>5, <2>2
    <3>2. /\ Len(quarters') = Len(quarters) + 1 /\ quarters'[Len(quarters) + 1] = turn - n
          /\ \A i \in 1..Len(quarters) : quarters'[i] = quarters[i]
      BY <1>3, <3>1, AppendProperties
    <3>3. Len(quarters) \in Nat
      BY <1>3
    <3>4. turn = n + d
      BY <1>3, <3>2, <3>3 DEF Straight
    <3>5. Straight(d)
      BY <3>2, <3>3 DEF Straight
    <3>6. Decoded' = Decoded
      BY <1>2, <3>2, <3>3 DEF Decoded
    <3>7. Decoded \in 0..3 /\ n = home + d * Decoded /\ Digits(d, Decoded)
      BY <3>5 DEF ByReads
    <3>8. Digits(d, Decoded)'
      BY <1>2, <3>6, <3>7 DEF Digits
    <3>. QED BY <3>4, <3>6, <3>7, <3>8
  <2>. QED BY <2>1, <2>2
<1>8. Saw(n)'
  <2>1. ByDigits(n)'
    BY <1>1, <1>2 DEF Saw, ByDigits
  <2>. QED BY <1>1, <1>2, <1>4, <1>7, <2>1 DEF Saw
<1>9. WheelTypeOK'
  BY <1>2, <1>3, LevelIs DEF WheelInv, WheelTypeOK
<1>10. JogIsClick'
  BY <1>2 DEF WheelInv, JogIsClick
<1>11. unseen' \in 0..Unseen /\ turn' - rxTurn' \in (-unseen')..(unseen')
  BY <1>2, <1>3
<1>12. home' \in Int /\ home' % 4 = 0 /\ was' \in Int /\ rxTurn' \in Int
  BY <1>2, <1>3 DEF WheelInv
<1>. QED BY <1>2, <1>6, <1>8, <1>9, <1>10, <1>11, <1>12 DEF WheelInv

\* What the decoder makes of the read it has taken.
LEMMA KeepDecode ==
  ASSUME WheelInv, Decode
  PROVE  WheelInv'
<1>1. PICK n \in Int : Saw(n)
  BY DEF WheelInv
<1> DEFINE m == rxTurn
<1>2. /\ m \in Int /\ home \in Int /\ was \in Int /\ home % 4 = 0 /\ rx = Level(m)
      /\ wheelCur = Level(n) /\ m - n \in (-2)..2
      /\ quarters \in Seq(Int) /\ quarters # <<>> /\ mask \in [1..4 -> 0..15]
      /\ ByDigits(n) /\ ByReads(n, 1) /\ ByReads(n, -1)
  BY <1>1 DEF WheelInv, WheelTypeOK, Saw, Decode
<1>3. /\ wheelAt = "decoder" /\ wheelAt' = "idle" /\ wheelCur' = rx
      /\ UNCHANGED <<turn, irq, rx, unseen, rxTurn>>
  BY DEF Decode
<1>4. /\ Digit \in 0..15
      /\ Digit = 2 <=> (n % 4 = 0 /\ m = n + 1) \/ (n % 4 = 3 /\ m = n - 1)
      /\ Digit = 1 <=> (n % 4 = 1 /\ m = n + 1) \/ (n % 4 = 0 /\ m = n - 1)
      /\ Digit = 8 <=> (n % 4 = 2 /\ m = n + 1) \/ (n % 4 = 1 /\ m = n - 1)
      /\ Digit = 4 <=> (n % 4 = 3 /\ m = n + 1) \/ (n % 4 = 2 /\ m = n - 1)
  BY <1>2, DigitTells
<1>5. rx = Rest <=> m % 4 = 0
  BY <1>2, LevelIs
<1>6. n % 4 \in 0..3 /\ m % 4 \in 0..3
  BY <1>2, Quarters4
<1>7. /\ m = n + 1 => /\ n % 4 = 0 => m % 4 = 1
                      /\ n % 4 = 1 => m % 4 = 2
                      /\ n % 4 = 2 => m % 4 = 3
                      /\ n % 4 = 3 => m % 4 = 0
      /\ m = n - 1 => /\ n % 4 = 0 => m % 4 = 3
                      /\ n % 4 = 1 => m % 4 = 0
                      /\ n % 4 = 2 => m % 4 = 1
                      /\ n % 4 = 3 => m % 4 = 2
  <2>1. CASE m = n + 1
    BY <1>2, <2>1, Quarters4
  <2>2. CASE m = n - 1
    BY <1>2, <2>2, Quarters4
  <2>. QED BY <1>2, <2>1, <2>2
<1>8. Len(quarters) \in Nat /\ Decoded = Len(quarters) - 1
  BY <1>2, <1>3 DEF Decoded
<1>9. Shifted \in [1..4 -> 0..15]
  <2>1. mask[2] \in 0..15 /\ mask[3] \in 0..15 /\ mask[4] \in 0..15
    BY <1>2
  <2>. QED BY <1>4, <2>1 DEF Shifted
<1>10. /\ unseen' \in 0..Unseen /\ turn' - rxTurn' \in (-unseen')..(unseen')
       /\ turn' \in (-WheelFar)..WheelFar /\ rxTurn' \in Int /\ rx' = Level(rxTurn')
       /\ rx' \in Lines /\ wheelCur' \in Lines
  BY <1>3 DEF WheelInv, WheelTypeOK
<1>11. irq' \in BOOLEAN
  BY <1>3 DEF WheelInv, WheelTypeOK
<1>12. CASE rx = Rest
  <2>1. /\ jog' = Pattern(Shifted) /\ mask' = <<0, 0, 0, 0>>
        /\ home' = m /\ was' = home /\ quarters' = <<>>
    BY <1>12 DEF Decode
  <2>2. m % 4 = 0
    BY <1>5, <1>12
  <2>3. Pattern(Shifted) = "right" => m - home = 4
    <3> SUFFICES ASSUME Pattern(Shifted) = "right" PROVE m - home = 4
      OBVIOUS
    <3>1. Shifted = <<2, 1, 8, 4>>
      BY DEF Pattern
    <3>2. mask[2] = 2 /\ mask[3] = 1 /\ mask[4] = 8 /\ Digit = 4
      BY <3>1 DEF Shifted
    <3>3. n % 4 = 3 /\ m = n + 1
      BY <1>4, <1>7, <2>2, <3>2
    <3>. QED BY <1>2, <3>2, <3>3 DEF ByDigits
  <2>4. Pattern(Shifted) = "left" => home - m = 4
    <3> SUFFICES ASSUME Pattern(Shifted) = "left" PROVE home - m = 4
      OBVIOUS
    <3>1. Shifted = <<1, 2, 4, 8>>
      BY DEF Pattern
    <3>2. mask[2] = 1 /\ mask[3] = 2 /\ mask[4] = 4 /\ Digit = 8
      BY <3>1 DEF Shifted
    <3>3. n % 4 = 1 /\ m = n - 1
      BY <1>4, <1>7, <2>2, <3>2
    <3>. QED BY <1>2, <3>2, <3>3 DEF ByDigits
  <2>5. JogIsClick'
    BY <2>1, <2>3, <2>4 DEF JogIsClick
  <2>6. WheelTypeOK'
    <3>1. mask' \in [1..4 -> 0..15]
      BY <2>1
    <3>2. jog' \in {"none", "left", "right"}
      BY <2>1 DEF Pattern
    <3>. QED BY <1>3, <1>10, <1>11, <3>1, <3>2 DEF WheelTypeOK
  <2>7. Saw(m)'
    <3>1. ByDigits(m)'
      BY <1>3, <2>1, <2>2 DEF ByDigits
    <3>2. Decoded' = 0
      BY <1>3, <2>1 DEF Decoded
    <3>3. ByReads(m, 1)' /\ ByReads(m, -1)'
      BY <1>2, <1>3, <2>1, <3>2 DEF ByReads, Digits
    <3>. QED BY <1>2, <1>3, <3>1, <3>3 DEF Saw
  <2>8. /\ home' \in Int /\ was' \in Int /\ home' % 4 = 0 /\ quarters' \in Seq(Int)
    BY <1>2, <2>1, <2>2
  <2>. QED BY <1>2, <1>3, <1>10, <2>5, <2>6, <2>7, <2>8 DEF WheelInv
<1>13. CASE rx # Rest
  <2>1. jog' = "none" /\ mask' = Shifted /\ UNCHANGED <<home, was, quarters>>
    BY <1>13 DEF Decode
  <2>2. m % 4 \in 1..3
    BY <1>5, <1>6, <1>13
  <2>3. mask'[2] = mask[3] /\ mask'[3] = mask[4] /\ mask'[4] = Digit
    BY <2>1 DEF Shifted
  <2>4. JogIsClick'
    BY <2>1 DEF JogIsClick
  <2>5. WheelTypeOK'
    BY <1>3, <1>9, <1>10, <1>11, <2>1 DEF WheelTypeOK
  <2>6. ByDigits(m)'
    <3>1. m % 4 = 1 /\ Digit = 2 => home = m - 1
      BY <1>2, <1>4, <1>7 DEF ByDigits
    <3>2. m % 4 = 2 /\ mask[4] = 2 /\ Digit = 1 => home = m - 2
      BY <1>2, <1>4, <1>7 DEF ByDigits
    <3>3. m % 4 = 3 /\ mask[3] = 2 /\ mask[4] = 1 /\ Digit = 8 => home = m - 3
      BY <1>2, <1>4, <1>7 DEF ByDigits
    <3>4. m % 4 = 3 /\ Digit = 1 => home = m + 1
      BY <1>2, <1>4, <1>7 DEF ByDigits
    <3>5. m % 4 = 2 /\ mask[4] = 1 /\ Digit = 2 => home = m + 2
      BY <1>2, <1>4, <1>7 DEF ByDigits
    <3>6. m % 4 = 1 /\ mask[3] = 1 /\ mask[4] = 2 /\ Digit = 4 => home = m + 3
      BY <1>2, <1>4, <1>7 DEF ByDigits
    <3>. QED BY <1>3, <2>1, <2>2, <2>3, <3>1, <3>2, <3>3, <3>4, <3>5, <3>6 DEF ByDigits
  <2>7. ASSUME NEW d \in {1, -1}, ByReads(n, d) PROVE ByReads(m, d)'
    <3> SUFFICES ASSUME Straight(d)'
                 PROVE  Decoded' \in 0..3 /\ m = home' + d * Decoded' /\ Digits(d, Decoded)'
      BY <1>3 DEF ByReads
    <3>1. Straight(d)
      BY <2>1 DEF Straight
    <3>2. PICK k \in 0..3 : k = Decoded /\ n = home + d * k /\ Digits(d, k) /\ m = n + d
      BY <1>3, <2>7, <3>1 DEF ByReads
    <3>3. Decoded' = k + 1
      BY <1>3, <1>8, <2>1, <3>2 DEF Decoded
    <3>4. m = home + d * (k + 1)
      BY <1>2, <3>2
    <3>5. k \in 0..2
      <4> SUFFICES ASSUME k = 3 PROVE FALSE
        BY <3>2
      <4>1. m = home + 4 \/ m = home - 4
        BY <1>2, <3>4
      <4>2. (home + 4) % 4 = 0 /\ (home - 4) % 4 = 0
        BY <1>2, AroundRest
      <4>. QED BY <2>2, <4>1, <4>2
    <3>6. d = 1 \/ d = -1
      OBVIOUS
    <3>7. CASE d = 1
      <4>1. m = n + 1 /\ n = home + k
        BY <1>2, <3>2, <3>7
      <4>2. n % 4 = k
        <5>1. home % 4 = 0 /\ (home + 1) % 4 = 1 /\ (home + 2) % 4 = 2
          BY <1>2, AroundRest
        <5>2. CASE k = 0
          <6>1. n = home
            BY <1>2, <4>1, <5>2
          <6>. QED BY <5>1, <5>2, <6>1
        <5>3. CASE k = 1
          <6>1. n = home + 1
            BY <4>1, <5>3
          <6>. QED BY <5>1, <5>3, <6>1
        <5>4. CASE k = 2
          <6>1. n = home + 2
            BY <4>1, <5>4
          <6>. QED BY <5>1, <5>4, <6>1
        <5>. QED BY <3>5, <5>2, <5>3, <5>4
      <4>3. /\ k = 0 => Digit = 2
            /\ k = 1 => Digit = 1 /\ mask[4] = 2
            /\ k = 2 => Digit = 8 /\ mask[4] = 1 /\ mask[3] = 2
        BY <1>4, <3>2, <3>7, <4>1, <4>2 DEF Digits
      <4>. QED BY <2>1, <2>3, <3>3, <3>4, <3>5, <3>7, <4>3 DEF Digits
    <3>8. CASE d = -1
      <4>1. m = n - 1 /\ n = home - k
        BY <1>2, <3>2, <3>8
      <4>2. (k = 0 /\ n % 4 = 0) \/ (k = 1 /\ n % 4 = 3) \/ (k = 2 /\ n % 4 = 2)
        <5>1. home % 4 = 0 /\ (home - 1) % 4 = 3 /\ (home - 2) % 4 = 2
          BY <1>2, AroundRest
        <5>2. CASE k = 0
          <6>1. n = home
            BY <1>2, <4>1, <5>2
          <6>. QED BY <5>1, <5>2, <6>1
        <5>3. CASE k = 1
          <6>1. n = home - 1
            BY <4>1, <5>3
          <6>. QED BY <5>1, <5>3, <6>1
        <5>4. CASE k = 2
          <6>1. n = home - 2
            BY <4>1, <5>4
          <6>. QED BY <5>1, <5>4, <6>1
        <5>. QED BY <3>5, <5>2, <5>3, <5>4
      <4>3. /\ k = 0 => Digit = 1
            /\ k = 1 => Digit = 2 /\ mask[4] = 1
            /\ k = 2 => Digit = 4 /\ mask[4] = 2 /\ mask[3] = 1
        BY <1>4, <3>2, <3>8, <4>1, <4>2 DEF Digits
      <4>. QED BY <2>1, <2>3, <3>3, <3>4, <3>5, <3>8, <4>3 DEF Digits
    <3>. QED BY <3>6, <3>7, <3>8
  <2>8. Saw(m)'
    BY <1>2, <1>3, <2>6, <2>7 DEF Saw
  <2>. QED BY <1>2, <1>3, <1>10, <2>1, <2>4, <2>5, <2>8 DEF WheelInv
<1>. QED BY <1>12, <1>13

LEMMA NextWheel == WheelInv /\ [WheelNext]_wheelVars => WheelInv'
<1> SUFFICES ASSUME WheelInv, [WheelNext]_wheelVars PROVE WheelInv'
  OBVIOUS
<1>1. CASE Turn    BY <1>1, KeepTurn
<1>2. CASE Sample  BY <1>2, KeepSample
<1>3. CASE Clear   BY <1>3, KeepClear
<1>4. CASE Decode  BY <1>4, KeepDecode
<1>5. CASE UNCHANGED wheelVars
  <2>1. PICK n \in Int : Saw(n)
    BY DEF WheelInv
  <2>2. Saw(n)'
    BY <1>5, <2>1 DEF Saw, ByDigits, ByReads, Straight, Decoded, Digits, wheelVars
  <2>3. WheelTypeOK' /\ JogIsClick'
    BY <1>5 DEF WheelInv, WheelTypeOK, JogIsClick, wheelVars
  <2>. QED BY <1>5, <2>2, <2>3 DEF WheelInv, wheelVars
<1>. QED BY <1>1, <1>2, <1>3, <1>4, <1>5 DEF WheelNext

\* A click read quarter by quarter leaves its pattern in the mask.
LEMMA ClickIsSeen ==
  ASSUME WheelInv, Decode, rx = Rest, NEW d \in {1, -1}, quarters = <<d, d, d, d>>
  PROVE  jog' = IF d = 1 THEN "right" ELSE "left"
<1>1. PICK n \in Int : Saw(n)
  BY DEF WheelInv
<1>2. rxTurn \in Int /\ home \in Int /\ home % 4 = 0 /\ rx = Level(rxTurn)
  BY DEF WheelInv
<1>3. wheelAt = "decoder" /\ jog' = Pattern(Shifted)
  BY DEF Decode
<1>4. Len(quarters) = 4 /\ Straight(d)
  BY DEF Straight
<1>5. Decoded = 3
  BY <1>3, <1>4 DEF Decoded
<1>6. ByReads(n, d)
  BY <1>1 DEF Saw
<1>7. n = home + d * 3 /\ Digits(d, 3) /\ rxTurn = n + d
  BY <1>3, <1>4, <1>5, <1>6 DEF ByReads
<1>8. CASE d = 1
  <2>1. n % 4 = 3 /\ rxTurn = n + 1
    BY <1>2, <1>7, <1>8, AroundRest
  <2>2. mask[2] = 2 /\ mask[3] = 1 /\ mask[4] = 8
    BY <1>7, <1>8 DEF Digits
  <2>3. Digit = 4
    BY <1>1, <1>2, <2>1, DigitTells DEF Saw
  <2>. QED BY <1>3, <1>8, <2>2, <2>3 DEF Pattern, Shifted
<1>9. CASE d = -1
  <2>1. n % 4 = 1 /\ rxTurn = n - 1
    BY <1>2, <1>7, <1>9, AroundRest
  <2>2. mask[2] = 1 /\ mask[3] = 2 /\ mask[4] = 4
    BY <1>7, <1>9 DEF Digits
  <2>3. Digit = 8
    BY <1>1, <1>2, <2>1, DigitTells DEF Saw
  <2>. QED BY <1>3, <1>9, <2>2, <2>3 DEF Pattern, Shifted
<1>. QED BY <1>8, <1>9

\* The wheel and its decoder keep the invariant.
THEOREM WheelInvHolds == WheelSpec => []WheelInv
BY InitWheel, NextWheel, PTL DEF WheelSpec

\* A jog is a click of the wheel and a click a jog, however far the wheel turns
\* and whatever the mask held before, as long as no three quarters go by unread.
THEOREM JogsAreClicks == WheelSpec => WheelCorrect
<1>1. WheelInv => WheelTypeOK /\ JogIsClick
  BY DEF WheelInv
<1>2. WheelInv /\ [WheelNext]_wheelVars => [ClickIsJog]_wheelVars
  <2>1. ASSUME WheelInv, WheelNext PROVE ClickIsJog \/ UNCHANGED wheelVars
    <3>1. CASE Decode
      <4>1. rx = Rest /\ quarters = <<1, 1, 1, 1>> => jog' = "right"
        BY <2>1, <3>1, ClickIsSeen
      <4>2. rx = Rest /\ quarters = <<-1, -1, -1, -1>> => jog' = "left"
        BY <2>1, <3>1, ClickIsSeen
      <4>. QED BY <4>1, <4>2 DEF ClickIsJog
    <3>2. CASE ~Decode
      BY <3>2 DEF ClickIsJog
    <3>. QED BY <3>1, <3>2
  <2>. QED BY <2>1
<1>. QED BY WheelInvHolds, <1>1, <1>2, PTL DEF WheelSpec, WheelCorrect

\* A set of numbers that is not empty has a least one.
LEMMA LeastNumber ==
  ASSUME NEW T \in SUBSET Nat, T # {}
  PROVE  Min(T) \in T /\ \A y \in T : Min(T) <= y
<1> DEFINE R == {ss \in Nat \X Nat : ss[1] < ss[2]}
<1>1. IsWellFoundedOn(R, Nat)
  BY NatLessThanWellFounded DEF OpToRel
<1>2. \E x \in T : \A y \in T : ~(<<y, x>> \in R)
  <2> HIDE DEF R
  <2>. QED BY <1>1, WFMin
<1>3. \E x \in T : \A y \in T : ~(y < x)
  BY <1>2
<1>4. \E x \in T : \A y \in T : x <= y
  <2> HIDE DEF R
  <2>. QED BY <1>3
<1>. QED BY <1>4 DEF Min

-----------------------------------------------------------------------------
(* The numbers of a block. *)

\* The letters the loop has handled.
Handled == DOMAIN words \ todo

\* What the loop has made of the words for an axis: the absolute one counts, which
\* comes last.
AxisInv(a, abs, rel) ==
  IF abs \in Handled THEN rel \notin todo /\ end[a] = words[abs] /\ blockCur[a] = pos[a]
  ELSE IF rel \in Handled THEN end[a] = words[rel] /\ blockCur[a] = 0
  ELSE end[a] = 0 /\ blockCur[a] = 0

BlockInv ==
  /\ BlockTypeOK /\ NoDrift /\ AlwaysAFeed /\ feedRate > 0
  /\ IF blockAt = "idle" THEN words = <<>> /\ kind = "line" ELSE DOMAIN words # {}
  /\ DOMAIN words \cap {"Z", "W"} = {} /\ blockCur.z = 0 /\ end.z = 0
  /\ kind = "curve" => DOMAIN words \cap {"X", "Y"} = {}
  /\ AxisInv("x", "X", "U") /\ AxisInv("y", "Y", "V")
  /\ feed = IF Handled = {} THEN 0 ELSE feedRate
  /\ kind = "curve" => /\ "I" \in Handled => ctr.x = words["I"]
                       /\ "J" \in Handled => ctr.y = words["J"]

\* All that is assumed about programs.
PlainBlocks == {"words", "flat", "relative"} \subseteq BlockCalm

\* The loop takes the letters in the order of the map.
LEMMA InOrder ==
  ASSUME todo \subseteq Known, todo # {}
  PROVE  /\ letter \in todo
         /\ letter = "X" => "U" \notin todo
         /\ letter = "Y" => "V" \notin todo
<1> DEFINE S == {i \in DOMAIN MapOrder : MapOrder[i] \in todo}
<1>1. DOMAIN MapOrder = 1..9
  BY DEF MapOrder
<1>2. S \in SUBSET Nat /\ S # {}
  BY <1>1 DEF Known
<1>3. Min(S) \in S /\ \A k \in S : Min(S) <= k
  BY <1>2, LeastNumber
<1>4. letter = MapOrder[Min(S)]
  BY DEF letter
<1> HIDE DEF S
<1>5. PICK m : m = Min(S)
  OBVIOUS
<1>6. m \in 1..9 /\ letter = MapOrder[m] /\ letter \in todo
  BY <1>1, <1>3, <1>4, <1>5 DEF S
<1>7. /\ letter = "X" => m = 7
      /\ letter = "Y" => m = 8
  BY <1>6 DEF MapOrder
<1>8. ("U" \in todo => 4 \in S) /\ ("V" \in todo => 5 \in S)
  BY <1>1 DEF S, MapOrder
<1>. QED BY <1>3, <1>5, <1>6, <1>7, <1>8

LEMMA BlockStart == BlockInit => BlockInv
<1> SUFFICES ASSUME BlockInit PROVE BlockInv
  OBVIOUS
<1>1. Origin \in Vec /\ Origin.x = 0 /\ Origin.y = 0 /\ Origin.z = 0
  BY DEF Origin, Vector, Vec
<1>2. DOMAIN words = {}
  BY DEF BlockInit
<1>3. BlockTypeOK
  BY <1>1, <1>2 DEF BlockInit, BlockTypeOK, IsBlock, Kinds, Nothing
<1>4. AlwaysAFeed /\ NoDrift
  BY <1>1 DEF BlockInit, AlwaysAFeed, NoDrift, Nothing
<1>. QED BY <1>1, <1>2, <1>3, <1>4 DEF BlockInit, BlockInv, AxisInv, Handled

LEMMA KeepRun == ASSUME BlockInv, PlainBlocks, Run PROVE BlockInv'
<1>1. PICK k \in Kinds, w \in Blocks :
        /\ DOMAIN w # {} /\ DOMAIN w \cap {"Z", "W"} = {}
        /\ k = "curve" => DOMAIN w \cap {"X", "Y"} = {}
        /\ blockAt' = "words" /\ kind' = k /\ words' = w /\ todo' = DOMAIN w
        /\ blockCur' = Origin /\ end' = Origin /\ ctr' = Origin /\ feed' = 0
        /\ sent' = [Nothing EXCEPT !.feed = feedRate]
        /\ UNCHANGED <<feedRate, pos, target>>
  BY DEF Run, PlainBlocks
<1>2. Origin \in Vec /\ Origin.x = 0 /\ Origin.y = 0 /\ Origin.z = 0
  BY DEF Origin, Vector, Vec
<1>3. sent' \in [cur : Vec, ctr : Vec, feed : Nat] /\ sent'.feed = feedRate
  BY <1>1, <1>2 DEF Nothing, BlockInv, BlockTypeOK
<1>4. BlockTypeOK'
  <2>1. IsBlock(words')
    BY <1>1, BlockAssumption
  <2>. QED BY <1>1, <1>2, <1>3, <2>1 DEF BlockInv, BlockTypeOK
<1>5. Handled' = {}
  BY <1>1 DEF Handled
<1>6. NoDrift' /\ AlwaysAFeed'
  BY <1>1, <1>3 DEF NoDrift, AlwaysAFeed, BlockInv
<1>7. AxisInv("x", "X", "U")' /\ AxisInv("y", "Y", "V")'
  BY <1>1, <1>2, <1>5 DEF AxisInv
<1>. QED BY <1>1, <1>2, <1>4, <1>5, <1>6, <1>7 DEF BlockInv

\* A word more, of this axis or of another letter.
LEMMA AxisGoesOn ==
  ASSUME NEW a, NEW abs, NEW rel, AxisInv(a, abs, rel), abs # rel, letter \in todo,
         Handled' = Handled \cup {letter}, todo' = todo \ {letter}, UNCHANGED <<words, pos>>,
         \/ letter \notin {abs, rel} /\ end'[a] = end[a] /\ blockCur'[a] = blockCur[a]
         \/ letter = abs /\ rel \notin todo /\ end'[a] = words[abs] /\ blockCur'[a] = pos[a]
         \/ letter = rel /\ end'[a] = words[rel] /\ blockCur'[a] = 0
  PROVE  AxisInv(a, abs, rel)'
<1>1. letter \notin Handled
  BY DEF Handled
<1>2. CASE letter \notin {abs, rel} /\ end'[a] = end[a] /\ blockCur'[a] = blockCur[a]
  BY <1>1, <1>2 DEF AxisInv
<1>3. CASE letter = abs /\ rel \notin todo /\ end'[a] = words[abs] /\ blockCur'[a] = pos[a]
  BY <1>1, <1>3 DEF AxisInv
<1>4. CASE letter = rel /\ end'[a] = words[rel] /\ blockCur'[a] = 0
  <2>1. abs \notin Handled
    BY <1>4 DEF AxisInv
  <2>. QED BY <1>1, <1>4, <2>1 DEF AxisInv
<1>. QED BY <1>2, <1>3, <1>4

LEMMA KeepOneWord == ASSUME BlockInv, OneWord PROVE BlockInv'
<1>0. /\ blockAt = "words" /\ todo # {} /\ todo' = todo \ {letter}
      /\ UNCHANGED <<blockAt, kind, words, sent, pos, target>>
  BY DEF OneWord
<1>1. todo \subseteq DOMAIN words /\ DOMAIN words \subseteq Known
      /\ (\A l \in DOMAIN words : words[l] \in Int) /\ ("F" \in DOMAIN words => words["F"] > 0)
  BY DEF BlockInv, BlockTypeOK, IsBlock
<1>2. letter \in todo /\ (letter = "X" => "U" \notin todo) /\ (letter = "Y" => "V" \notin todo)
  BY <1>0, <1>1, InOrder
<1>3. letter \in DOMAIN words /\ words[letter] \in Int /\ letter \notin {"Z", "W"}
      /\ letter \notin Handled
  BY <1>1, <1>2 DEF BlockInv, Handled
<1>4. Handled' = Handled \cup {letter}
  BY <1>0, <1>1, <1>2 DEF Handled
<1>5. blockCur \in Vec /\ end \in Vec /\ ctr \in Vec /\ pos \in Vec /\ feed \in Nat /\ feedRate \in Nat
      /\ feedRate > 0 /\ blockCur.z = 0 /\ end.z = 0
  BY DEF BlockInv, BlockTypeOK
<1>6. feed' = feedRate' /\ feedRate' \in Nat /\ feedRate' > 0
  <2>1. CASE FeedWord(letter)
    BY <1>1, <1>3, <2>1 DEF FeedWord
  <2>2. CASE OtherFeed
    <3>1. feed = 0 \/ feed = feedRate
      BY <1>5 DEF BlockInv
    <3>. QED BY <1>5, <2>2, <3>1 DEF OtherFeed
  <2>. QED BY <2>1, <2>2 DEF OneWord, AxisWord, CentreWord
<1>7. \/ letter = "F" /\ UNCHANGED <<blockCur, end, ctr>>
      \/ letter = "X" /\ end' = [end EXCEPT !.x = words[letter]] /\ blockCur' = [blockCur EXCEPT !.x = pos.x] /\ UNCHANGED ctr
      \/ letter = "U" /\ end' = [end EXCEPT !.x = words[letter]] /\ blockCur' = [blockCur EXCEPT !.x = 0] /\ UNCHANGED ctr
      \/ letter = "Y" /\ end' = [end EXCEPT !.y = words[letter]] /\ blockCur' = [blockCur EXCEPT !.y = pos.y] /\ UNCHANGED ctr
      \/ letter = "V" /\ end' = [end EXCEPT !.y = words[letter]] /\ blockCur' = [blockCur EXCEPT !.y = 0] /\ UNCHANGED ctr
      \/ letter = "I" /\ ctr' = [ctr EXCEPT !.x = blockCur.x + words[letter]] /\ UNCHANGED <<blockCur, end>>
      \/ letter = "J" /\ ctr' = [ctr EXCEPT !.y = blockCur.y + words[letter]] /\ UNCHANGED <<blockCur, end>>
  BY <1>3 DEF OneWord, FeedWord, AxisWord, CentreWord, From, Relative
<1>8. blockCur' \in Vec /\ end' \in Vec /\ ctr' \in Vec /\ blockCur'.z = 0 /\ end'.z = 0
  BY <1>3, <1>5, <1>7 DEF Vec
<1>9. BlockTypeOK'
  BY <1>0, <1>6, <1>8 DEF BlockInv, BlockTypeOK, IsBlock
<1>10. AxisInv("x", "X", "U")'
  <2>1. AxisInv("x", "X", "U")
    BY DEF BlockInv
  <2>2. \/ letter \notin {"X", "U"} /\ end'["x"] = end["x"] /\ blockCur'["x"] = blockCur["x"]
        \/ letter = "X" /\ "U" \notin todo /\ end'["x"] = words["X"] /\ blockCur'["x"] = pos["x"]
        \/ letter = "U" /\ end'["x"] = words["U"] /\ blockCur'["x"] = 0
    BY <1>2, <1>5, <1>7 DEF Vec
  <2>. QED BY <1>0, <1>2, <1>4, <2>1, <2>2, AxisGoesOn
<1>11. AxisInv("y", "Y", "V")'
  <2>1. AxisInv("y", "Y", "V")
    BY DEF BlockInv
  <2>2. \/ letter \notin {"Y", "V"} /\ end'["y"] = end["y"] /\ blockCur'["y"] = blockCur["y"]
        \/ letter = "Y" /\ "V" \notin todo /\ end'["y"] = words["Y"] /\ blockCur'["y"] = pos["y"]
        \/ letter = "V" /\ end'["y"] = words["V"] /\ blockCur'["y"] = 0
    BY <1>2, <1>5, <1>7 DEF Vec
  <2>. QED BY <1>0, <1>2, <1>4, <2>1, <2>2, AxisGoesOn
<1>12. kind = "curve" => /\ "I" \in Handled' => ctr'.x = words["I"]
                         /\ "J" \in Handled' => ctr'.y = words["J"]
  <2> SUFFICES ASSUME kind = "curve"
               PROVE  /\ "I" \in Handled' => ctr'.x = words["I"]
                      /\ "J" \in Handled' => ctr'.y = words["J"]
    OBVIOUS
  <2>1. blockCur.x = 0 /\ blockCur.y = 0
    <3>1. "X" \notin Handled /\ "Y" \notin Handled
      BY DEF BlockInv, Handled
    <3>. QED BY <3>1 DEF BlockInv, AxisInv
  <2>2. /\ "I" \in Handled => ctr.x = words["I"]
        /\ "J" \in Handled => ctr.y = words["J"]
    BY DEF BlockInv
  <2>3. "I" \in Handled' <=> "I" \in Handled \/ letter = "I"
    BY <1>4
  <2>4. "J" \in Handled' <=> "J" \in Handled \/ letter = "J"
    BY <1>4
  <2>5. letter = "I" => ctr'.x = words["I"] /\ ctr'.y = ctr.y
    BY <1>1, <1>3, <1>5, <1>7, <2>1 DEF Vec
  <2>6. letter = "J" => ctr'.y = words["J"] /\ ctr'.x = ctr.x
    BY <1>1, <1>3, <1>5, <1>7, <2>1 DEF Vec
  <2>7. letter \notin {"I", "J"} => ctr' = ctr
    BY <1>7
  <2>. QED BY <2>2, <2>3, <2>4, <2>5, <2>6, <2>7
<1>13. NoDrift' /\ AlwaysAFeed'
  BY <1>0 DEF BlockInv, NoDrift, AlwaysAFeed
<1>14. Handled' # {}
  BY <1>4
<1>. QED BY <1>0, <1>6, <1>8, <1>9, <1>10, <1>11, <1>12, <1>13, <1>14 DEF BlockInv

\* Where an axis ends up: at most a step from where its words say, from wherever
\* it was before; and where it was if no word names it.
LEMMA AxisEnds ==
  ASSUME NEW a \in {"x", "y"}, NEW abs, NEW rel, AxisInv(a, abs, rel), BlockTypeOK, todo = {},
         pos[a] - target[a] \in -1..1,
         NEW e \in Int, NEW c \in Int,
         \/ c = 0 /\ e \in Short(end[a], blockCur[a])
         \/ c = blockCur[a] /\ e = end[a] /\ abs \notin DOMAIN words
  PROVE  /\ pos[a] + (e - c) - Meant(a, abs, rel) \in -1..1
         /\ Meant(a, abs, rel) \in Int
         /\ DOMAIN words \cap {abs, rel} = {} => pos[a] + (e - c) = pos[a]
<1>1. pos[a] \in Int /\ target[a] \in Int /\ \A l \in DOMAIN words : words[l] \in Int
  BY DEF BlockTypeOK, IsBlock, Vec
<1>2. Handled = DOMAIN words
  BY DEF Handled
<1>3. CASE abs \in DOMAIN words
  <2>1. end[a] = words[abs] /\ blockCur[a] = pos[a] /\ c = 0 /\ words[abs] \in Int
    BY <1>1, <1>2, <1>3 DEF AxisInv
  <2>2. Meant(a, abs, rel) = words[abs]
    BY <1>3 DEF Meant
  <2>. QED BY <1>1, <1>3, <2>1, <2>2 DEF Short
<1>4. CASE abs \notin DOMAIN words /\ rel \in DOMAIN words
  <2>1. end[a] = words[rel] /\ blockCur[a] = 0 /\ words[rel] \in Int
    BY <1>1, <1>2, <1>4 DEF AxisInv
  <2>2. Meant(a, abs, rel) = target[a] + words[rel]
    BY <1>4 DEF Meant
  <2>. QED BY <1>1, <1>4, <2>1, <2>2 DEF Short
<1>5. CASE abs \notin DOMAIN words /\ rel \notin DOMAIN words
  <2>1. end[a] = 0 /\ blockCur[a] = 0
    BY <1>2, <1>5 DEF AxisInv
  <2>2. Meant(a, abs, rel) = target[a]
    BY <1>5 DEF Meant
  <2>. QED BY <1>1, <2>1, <2>2 DEF Short
<1>. QED BY <1>3, <1>4, <1>5

\* The numbers of the block as they go to the Picos.
LEMMA SyncMoves ==
  ASSUME BlockInv, SyncMove
  PROVE  /\ BlockInv' /\ OnlyNamedAxes /\ CentreFromStart
<1>1. PICK c \in {IF kind = "line" THEN Origin ELSE blockCur},
           e \in (IF kind = "line" THEN Minus(end, blockCur) ELSE {end}) :
        /\ blockAt = "words" /\ todo = {}
        /\ pos' = Vector(pos.x + (e.x - c.x), pos.y + (e.y - c.y), 0)
        /\ sent' = [cur |-> c, ctr |-> ctr, feed |-> feed]
        /\ target' = Goal
        /\ blockAt' = "idle" /\ words' = <<>> /\ kind' = "line"
        /\ blockCur' = Origin /\ end' = Origin /\ ctr' = Origin /\ feed' = 0
        /\ UNCHANGED <<todo, feedRate>>
  BY DEF SyncMove
<1>2. Origin \in Vec /\ Origin.x = 0 /\ Origin.y = 0 /\ Origin.z = 0
  BY DEF Origin, Vector, Vec
<1>3. /\ BlockTypeOK /\ NoDrift /\ AxisInv("x", "X", "U") /\ AxisInv("y", "Y", "V")
      /\ blockCur \in Vec /\ end \in Vec /\ ctr \in Vec /\ pos \in Vec /\ target \in Vec
      /\ blockCur.z = 0 /\ end.z = 0 /\ kind \in {"line", "curve"}
      /\ kind = "curve" => "X" \notin DOMAIN words /\ "Y" \notin DOMAIN words
  BY DEF BlockInv, BlockTypeOK, Kinds
<1>4. /\ c \in Vec /\ e \in Vec
      /\ \/ c.x = 0 /\ e.x \in Short(end.x, blockCur.x)
         \/ c.x = blockCur.x /\ e.x = end.x /\ "X" \notin DOMAIN words
      /\ \/ c.y = 0 /\ e.y \in Short(end.y, blockCur.y)
         \/ c.y = blockCur.y /\ e.y = end.y /\ "Y" \notin DOMAIN words
  <2>1. CASE kind = "line"
    <3>1. PICK x \in Short(end.x, blockCur.x), y \in Short(end.y, blockCur.y) :
            e = Vector(x, y + (end.z - blockCur.z), 0)
      BY <2>1 DEF Minus
    <3>2. x \in Int /\ y \in Int
      BY <1>3, <3>1 DEF Short, Vec
    <3>3. e.x = x /\ e.y = y /\ e \in Vec
      BY <1>3, <3>1, <3>2 DEF Vector, Vec
    <3>. QED BY <1>2, <2>1, <3>1, <3>3
  <2>2. CASE kind = "curve"
    BY <1>3, <2>2
  <2>. QED BY <1>3, <2>1, <2>2
<1>5. pos.x - target.x \in -1..1 /\ pos.y - target.y \in -1..1
  BY <1>3 DEF NoDrift
<1>6. c.x \in Int /\ c.y \in Int /\ e.x \in Int /\ e.y \in Int
  BY <1>4 DEF Vec
<1>7. /\ pos.x + (e.x - c.x) - Meant("x", "X", "U") \in -1..1
      /\ Meant("x", "X", "U") \in Int
      /\ DOMAIN words \cap {"X", "U"} = {} => pos.x + (e.x - c.x) = pos.x
  BY <1>1, <1>3, <1>4, <1>5, <1>6, AxisEnds
<1>8. /\ pos.y + (e.y - c.y) - Meant("y", "Y", "V") \in -1..1
      /\ Meant("y", "Y", "V") \in Int
      /\ DOMAIN words \cap {"Y", "V"} = {} => pos.y + (e.y - c.y) = pos.y
  BY <1>1, <1>3, <1>4, <1>5, <1>6, AxisEnds
<1>e. pos.x \in Int /\ pos.y \in Int
  BY <1>3 DEF Vec
<1>f. /\ pos' = [x |-> pos.x + (e.x - c.x), y |-> pos.y + (e.y - c.y), z |-> 0]
      /\ target' = [x |-> Meant("x", "X", "U"), y |-> Meant("y", "Y", "V"), z |-> 0]
  BY <1>1 DEF Goal, Vector
<1>9. pos' \in Vec /\ target' \in Vec /\ pos'.x = pos.x + (e.x - c.x) /\ pos'.y = pos.y + (e.y - c.y)
      /\ target'.x = Meant("x", "X", "U") /\ target'.y = Meant("y", "Y", "V")
  <2>1. pos' \in Vec
    BY <1>6, <1>e, <1>f DEF Vec
  <2>2. target' \in Vec
    BY <1>7, <1>8, <1>f DEF Vec
  <2>. QED BY <1>f, <2>1, <2>2
<1>10. OnlyNamedAxes
  <2>1. DOMAIN words \cap {"X", "U"} = {} => pos'.x = pos.x
    BY <1>7, <1>9
  <2>2. DOMAIN words \cap {"Y", "V"} = {} => pos'.y = pos.y
    BY <1>8, <1>9
  <2>. QED BY <2>1, <2>2 DEF OnlyNamedAxes
<1>11. NoDrift'
  <2>1. pos'.x - target'.x \in -1..1
    BY <1>6, <1>7, <1>9, <1>e
  <2>2. pos'.y - target'.y \in -1..1
    BY <1>6, <1>8, <1>9, <1>e
  <2>. QED BY <2>1, <2>2 DEF NoDrift
<1>12. feed = feedRate /\ feedRate > 0 /\ feed \in Nat
  BY <1>1 DEF BlockInv, BlockTypeOK, Handled
<1>13. AlwaysAFeed'
  BY <1>1, <1>12 DEF AlwaysAFeed
<1>14. DOMAIN words' = {} /\ Handled' = {}
  BY <1>1 DEF Handled
<1>15. BlockTypeOK'
  BY <1>1, <1>2, <1>3, <1>4, <1>9, <1>12, <1>14 DEF BlockTypeOK, IsBlock, Kinds
<1>16. AxisInv("x", "X", "U")' /\ AxisInv("y", "Y", "V")'
  BY <1>1, <1>2, <1>14 DEF AxisInv
<1>17. BlockInv'
  BY <1>1, <1>2, <1>11, <1>12, <1>13, <1>14, <1>15, <1>16 DEF BlockInv
<1>18. CentreFromStart
  <2> SUFFICES ASSUME kind = "curve"
               PROVE  /\ "I" \in DOMAIN words => sent'.ctr.x - sent'.cur.x = words["I"]
                      /\ "J" \in DOMAIN words => sent'.ctr.y - sent'.cur.y = words["J"]
    BY DEF CentreFromStart
  <2>1. c.x = 0 /\ c.y = 0
    BY <1>1, <1>3 DEF AxisInv, Handled
  <2>2. /\ "I" \in DOMAIN words => ctr.x = words["I"]
        /\ "J" \in DOMAIN words => ctr.y = words["J"]
    BY <1>1 DEF BlockInv, Handled
  <2>3. ctr.x \in Int /\ ctr.y \in Int
    BY <1>3 DEF Vec
  <2>. QED BY <1>1, <2>1, <2>2, <2>3
<1>. QED BY <1>10, <1>17, <1>18

\* A block's numbers keep the invariant of the loop, for any blocks and any order of
\* them (pincStepperControl::run, sync_move).
THEOREM BlockInvHolds == ASSUME PlainBlocks PROVE BlockSpec => []BlockInv
<1>1. BlockInit => BlockInv
  BY BlockStart
<1>2. ASSUME BlockInv, UNCHANGED blockVars PROVE BlockInv'
  BY <1>2 DEF blockVars, BlockInv, BlockTypeOK, IsBlock, NoDrift, AlwaysAFeed, AxisInv, Handled
<1>3. BlockInv /\ [BlockNext]_blockVars => BlockInv'
  BY <1>2, KeepRun, KeepOneWord, SyncMoves DEF BlockNext
<1>. QED BY <1>1, <1>3, PTL DEF BlockSpec

\* No axis is ever more than a step from where the blocks say, one they do not name
\* does not move, the centre of a curve lies where I and J say, and every move has
\* its feed.
THEOREM BlocksAreCorrect == ASSUME PlainBlocks PROVE BlockSpec => BlocksCorrect
<1>1. BlockInv => BlockTypeOK /\ NoDrift /\ AlwaysAFeed
  BY DEF BlockInv
<1>2. BlockInv /\ [BlockNext]_blockVars => [OnlyNamedAxes /\ CentreFromStart]_blockVars
  BY SyncMoves DEF OnlyNamedAxes, CentreFromStart
<1>. QED BY <1>1, <1>2, BlockInvHolds, PTL DEF BlockSpec, BlocksCorrect

-----------------------------------------------------------------------------
(* The program editor. *)

\* Qt has deleted the programs shown before the one on the screen and no other;
\* the processor has the latter, or none yet.
EditorInv ==
  /\ EditorCorrect
  /\ shown \in seen /\ seen \subseteq Programs /\ Programs \ alive = seen \ {shown}
  /\ current = shown \/ (current = "cur" /\ "cur" \notin seen)

\* All that is assumed about the user.
Careful == {"once", "none", "words"} \subseteq EditorCalm

\* A block whose labels are its words keeps them so, whatever words it is given
\* or loses.
LEMMA WordsShown ==
  ASSUME NEW b \in Block, NEW t \in Texts, b.labels = b.args \cup ({b.ltr} \ {None}),
         t.ltr \in {None, b.ltr} \/ b.labels = {}
  PROVE  LET c == Changed(b, t) IN
         c \in Block /\ c.labels = c.args \cup ({c.ltr} \ {None})
<1>1. t \in [ltr : Letters \cup {None}, args : SUBSET Arguments]
  BY DEF Texts
<1>2. b.ltr \in Letters \cup {None} /\ b.args \in SUBSET Arguments
      /\ b.labels \in SUBSET (Letters \cup Arguments) /\ b.id \in Nat
  BY DEF Block
<1>3. PICK c : c = Changed(b, t)
  OBVIOUS
<1>4. /\ c.ltr = (IF t.ltr = None THEN b.ltr ELSE t.ltr) /\ c.args = b.args \cup t.args
      /\ c.labels = b.labels \cup t.args \cup ({t.ltr} \ {None}) /\ c.id = b.id
      /\ c = [ltr |-> c.ltr, args |-> c.args, labels |-> c.labels, id |-> c.id]
  BY <1>3 DEF Changed, Block
<1>5. c \in Block
  BY <1>1, <1>2, <1>4 DEF Block
<1>6. c.labels = c.args \cup ({c.ltr} \ {None})
  BY <1>1, <1>4
<1>. QED BY <1>3, <1>5, <1>6

LEMMA WordGone ==
  ASSUME NEW b \in Block, NEW l, l \in b.args, b.labels = b.args \cup ({b.ltr} \ {None})
  PROVE  LET c == Cleared(b, l) IN
         c \in Block /\ c.labels = c.args \cup ({c.ltr} \ {None})
<1>2. b.ltr \in Letters \cup {None} /\ b.args \in SUBSET Arguments
      /\ b.labels \in SUBSET (Letters \cup Arguments) /\ b.id \in Nat
  BY DEF Block
<1>3. PICK c : c = Cleared(b, l)
  OBVIOUS
<1>4. /\ c.ltr = b.ltr /\ c.args = b.args \ {l} /\ c.labels = b.labels \ {l} /\ c.id = b.id
      /\ c = [ltr |-> c.ltr, args |-> c.args, labels |-> c.labels, id |-> c.id]
  BY <1>3 DEF Cleared, Block
<1>5. c \in Block
  BY <1>2, <1>4 DEF Block
<1>6. l # b.ltr \/ l = None
  BY <1>2, EditorAssumption
<1>7. c.labels = c.args \cup ({c.ltr} \ {None})
  BY <1>4, <1>6
<1>. QED BY <1>3, <1>5, <1>7

\* Where(label) is a block of the program on the screen.
LEMMA WhereIs ==
  ASSUME EditorInv, curLabel # Nobody
  PROVE  /\ Where(curLabel) \in DOMAIN Mine
         /\ Mine \in Seq(Block) /\ Mine[Where(curLabel)] \in Block
         /\ LET b == Mine[Where(curLabel)] IN b.labels = b.args \cup ({b.ltr} \ {None})
<1>1. curLabel \in Labels(shown) /\ shown \in alive /\ shown \in Programs
  BY DEF EditorInv, EditorCorrect, EditorTypeOK, NoDangling
<1>2. PICK i \in DOMAIN Mine : curLabel \in {<<Mine[i].id, l>> : l \in Mine[i].labels}
  BY <1>1 DEF Labels, Mine
<1>3. Mine[i].id = curLabel[1]
  BY <1>2
<1>4. Where(curLabel) \in DOMAIN Mine
  BY <1>2, <1>3 DEF Where
<1>5. Mine \in Seq(Block)
  BY <1>1 DEF EditorInv, EditorCorrect, EditorTypeOK, Mine
<1>6. Mine[Where(curLabel)] \in Block
  BY <1>4, <1>5
<1>. QED BY <1>1, <1>4, <1>5, <1>6 DEF EditorInv, EditorCorrect, ShowsItsWords, Mine

\* A step after which no label is selected and only the program on the screen
\* has changed.
LEMMA Edited ==
  ASSUME EditorInv, NEW s \in Seq(Block), blocks' = [blocks EXCEPT ![shown] = s],
         \A i \in DOMAIN s : s[i].labels = s[i].args \cup ({s[i].ltr} \ {None}),
         UNCHANGED <<alive, shown, current, toRun, seen>>,
         curLabel' = Nobody, sel' = {}, made' \in Nat
  PROVE  EditorInv'
<1>1. blocks \in [Programs -> Seq(Block)] /\ shown \in Programs
  BY DEF EditorInv, EditorCorrect, EditorTypeOK
<1>2. blocks' \in [Programs -> Seq(Block)]
  BY <1>1
<1>3. EditorTypeOK'
  BY <1>2 DEF EditorTypeOK, EditorInv, EditorCorrect
<1>4. NoDangling' /\ OneSelected' /\ RunsWhatIsShown'
  BY DEF NoDangling, OneSelected, RunsWhatIsShown, EditorInv, EditorCorrect
<1>5. ShowsItsWords'
  <2>1. ASSUME NEW p \in alive, NEW i \in DOMAIN blocks'[p]
        PROVE  LET b == blocks'[p][i] IN b.labels = b.args \cup ({b.ltr} \ {None})
    <3>1. p \in Programs
      BY DEF EditorInv, EditorCorrect, EditorTypeOK
    <3>2. CASE p = shown
      <4>1. blocks'[p] = s
        BY <1>1, <3>2
      <4>. QED BY <2>1, <4>1
    <3>3. CASE p # shown
      <4>1. blocks'[p] = blocks[p]
        BY <1>1, <3>1, <3>3
      <4>. QED BY <2>1, <4>1 DEF EditorInv, EditorCorrect, ShowsItsWords
    <3>. QED BY <3>2, <3>3
  <2>. QED BY <2>1 DEF ShowsItsWords
<1>. QED BY <1>3, <1>4, <1>5 DEF EditorInv, EditorCorrect

LEMMA KeepAddLine == ASSUME EditorInv, Careful, AddLine PROVE EditorInv'
<1>1. PICK t \in Texts : t.ltr # None /\ blocks' = [blocks EXCEPT ![shown] = Append(blocks[shown], NewBlock(t))]
  BY DEF AddLine, Careful
<1>2. blocks[shown] \in Seq(Block) /\ shown \in alive /\ made \in Nat
  BY DEF EditorInv, EditorCorrect, EditorTypeOK, NoDangling
<1>3. curLabel = Nobody /\ sel = {}
  BY DEF AddLine, EditorInv, EditorCorrect, OneSelected
<1>4. curLabel' = Nobody /\ sel' = {} /\ made' \in Nat /\ UNCHANGED <<alive, shown, current, toRun, seen>>
  BY <1>2, <1>3 DEF AddLine, SetCurLabel, Unselected
<1>5. NewBlock(t) \in Block /\ NewBlock(t).labels = NewBlock(t).args \cup ({NewBlock(t).ltr} \ {None})
  <2>1. [ltr |-> None, args |-> {}, labels |-> {}, id |-> made] \in Block
    BY <1>2 DEF Block
  <2>. QED BY <2>1, WordsShown DEF NewBlock
<1>6. PICK s : s = Append(blocks[shown], NewBlock(t))
  OBVIOUS
<1>7. s \in Seq(Block) /\ DOMAIN s = 1..(Len(blocks[shown]) + 1)
      /\ \A i \in DOMAIN s : s[i] = IF i \in DOMAIN blocks[shown] THEN blocks[shown][i] ELSE NewBlock(t)
  BY <1>2, <1>5, <1>6, AppendProperties
<1>8. \A i \in DOMAIN s : s[i].labels = s[i].args \cup ({s[i].ltr} \ {None})
  BY <1>2, <1>5, <1>7 DEF EditorInv, EditorCorrect, ShowsItsWords
<1>. QED BY <1>1, <1>4, <1>6, <1>7, <1>8, Edited

\* A word of the block the selected label belongs to changes.
LEMMA OneBlock ==
  ASSUME EditorInv, curLabel # Nobody, NEW c \in Block, c.labels = c.args \cup ({c.ltr} \ {None}),
         blocks' = [blocks EXCEPT ![shown][Where(curLabel)] = c],
         UNCHANGED <<alive, shown, current, toRun, made, seen>>, curLabel' = Nobody, sel' = {}
  PROVE  EditorInv'
<1>1. PICK s : s = [Mine EXCEPT ![Where(curLabel)] = c]
  OBVIOUS
<1>2. blocks' = [blocks EXCEPT ![shown] = s]
  BY <1>1 DEF Mine
<1>3. s \in Seq(Block) /\ DOMAIN s = DOMAIN Mine
      /\ \A i \in DOMAIN s : s[i] = IF i = Where(curLabel) THEN c ELSE Mine[i]
  BY <1>1, WhereIs
<1>4. \A i \in DOMAIN s : s[i].labels = s[i].args \cup ({s[i].ltr} \ {None})
  BY <1>3 DEF EditorInv, EditorCorrect, ShowsItsWords, NoDangling, Mine
<1>5. made' \in Nat
  BY DEF EditorInv, EditorCorrect, EditorTypeOK
<1>. QED BY <1>2, <1>3, <1>4, <1>5, Edited

LEMMA KeepChangeWord == ASSUME EditorInv, Careful, ChangeWord PROVE EditorInv'
<1>1. PICK t \in Texts :
        /\ t.ltr \in {None, Mine[Where(curLabel)].ltr}
        /\ blocks' = [blocks EXCEPT ![shown][Where(curLabel)] = Changed(blocks[shown][Where(curLabel)], t)]
  BY DEF ChangeWord, Careful
<1>2. curLabel # Nobody /\ curLabel' = Nobody /\ sel' = {}
      /\ UNCHANGED <<alive, shown, current, toRun, made, seen>>
  BY DEF ChangeWord, SetCurLabel, Unselected, EditorInv, EditorCorrect, OneSelected
<1>3. PICK c : c = Changed(Mine[Where(curLabel)], t)
  OBVIOUS
<1>4. c \in Block /\ c.labels = c.args \cup ({c.ltr} \ {None})
  BY <1>1, <1>2, <1>3, WhereIs, WordsShown
<1>5. blocks' = [blocks EXCEPT ![shown][Where(curLabel)] = c]
  BY <1>1, <1>3 DEF Mine
<1>. QED BY <1>2, <1>4, <1>5, OneBlock

LEMMA KeepDeleteWord == ASSUME EditorInv, Careful, DeleteWord PROVE EditorInv'
<1>1. /\ curLabel # Nobody /\ curLabel' = Nobody
      /\ curLabel[2] \in Mine[Where(curLabel)].args
      /\ blocks' = [blocks EXCEPT ![shown][Where(curLabel)] = Cleared(blocks[shown][Where(curLabel)], curLabel[2])]
      /\ UNCHANGED <<alive, shown, current, toRun, made, seen>>
  BY DEF DeleteWord, Careful
<1>2. sel' = {}
  BY <1>1 DEF DeleteWord, EditorInv, EditorCorrect, OneSelected
<1>3. PICK c : c = Cleared(Mine[Where(curLabel)], curLabel[2])
  OBVIOUS
<1>4. c \in Block /\ c.labels = c.args \cup ({c.ltr} \ {None})
  BY <1>1, <1>3, WhereIs, WordGone
<1>5. blocks' = [blocks EXCEPT ![shown][Where(curLabel)] = c]
  BY <1>1, <1>3 DEF Mine
<1>. QED BY <1>1, <1>2, <1>4, <1>5, OneBlock

LEMMA KeepClick == ASSUME EditorInv, Click PROVE EditorInv'
<1>1. PICK l \in Labels(shown) :
        /\ IF l \in sel THEN SetCurLabel(Nobody, sel \ {l}) ELSE SetCurLabel(l, sel \cup {l})
        /\ UNCHANGED <<blocks, alive, shown, current, toRun, made, seen>>
  BY DEF Click
<1>2. l # Nobody
  BY <1>1 DEF Labels, Nobody
<1>3. sel = IF curLabel = Nobody THEN {} ELSE {curLabel}
  BY DEF EditorInv, EditorCorrect, OneSelected
<1>4. curLabel' \in {Nobody, l} /\ sel' = IF curLabel' = Nobody THEN {} ELSE {curLabel'}
  BY <1>1, <1>2, <1>3 DEF SetCurLabel, Unselected
<1>5. Labels(shown)' = Labels(shown)
  BY <1>1 DEF Labels
<1>6. EditorTypeOK' /\ RunsWhatIsShown' /\ ShowsItsWords' /\ OneSelected' /\ NoDangling'
  BY <1>1, <1>4, <1>5
  DEF EditorInv, EditorCorrect, EditorTypeOK, RunsWhatIsShown, ShowsItsWords, OneSelected, NoDangling
<1>. QED BY <1>1, <1>6 DEF EditorInv, EditorCorrect

LEMMA KeepClearProgram == ASSUME EditorInv, Careful, ClearProgram PROVE EditorInv'
<1>1. /\ blocks' = [blocks EXCEPT ![shown] = <<>>] /\ curLabel = Nobody /\ sel' \subseteq sel
      /\ UNCHANGED <<alive, shown, current, toRun, curLabel, made, seen>>
  BY DEF ClearProgram, Careful
<1>2. curLabel' = Nobody /\ sel' = {} /\ made' \in Nat
  BY <1>1 DEF EditorInv, EditorCorrect, OneSelected, EditorTypeOK
<1>3. <<>> \in Seq(Block) /\ DOMAIN <<>> = {}
  OBVIOUS
<1>. QED BY <1>1, <1>2, <1>3, Edited

LEMMA KeepMode == ASSUME EditorInv, Careful, Mode PROVE EditorInv'
<1>1. PICK p : /\ \E m \in Modes : p = ToShow(m)
               /\ p = shown \/ (curLabel = Nobody /\ p \notin seen)
               /\ current' = p /\ shown' = p /\ toRun' = p /\ seen' = seen \cup {p}
               /\ alive' = (IF p = shown THEN alive ELSE alive \ {shown})
               /\ sel' = (IF p = shown THEN sel ELSE sel \ Labels(shown))
               /\ UNCHANGED <<blocks, curLabel, made>>
  BY DEF Mode, Careful, ForProcessor
<1>2. p \in Programs
  BY <1>1 DEF ToShow, Modes, Programs, EditorInv, EditorCorrect, EditorTypeOK
<1>3. EditorTypeOK'
  BY <1>1, <1>2 DEF EditorInv, EditorCorrect, EditorTypeOK
<1>4. p \in alive' /\ Programs \ alive' = seen' \ {p} /\ seen' \subseteq Programs
  BY <1>1, <1>2 DEF EditorInv, EditorCorrect, NoDangling
<1>5. OneSelected'
  BY <1>1 DEF EditorInv, EditorCorrect, OneSelected
<1>6. curLabel' # Nobody => Labels(shown)' = Labels(shown) /\ curLabel' \in Labels(shown)
  BY <1>1 DEF EditorInv, EditorCorrect, NoDangling, Labels
<1>7. NoDangling' /\ RunsWhatIsShown'
  BY <1>1, <1>4, <1>6 DEF NoDangling, RunsWhatIsShown
<1>8. ShowsItsWords'
  BY <1>1 DEF EditorInv, EditorCorrect, ShowsItsWords
<1>. QED BY <1>1, <1>3, <1>4, <1>5, <1>7, <1>8 DEF EditorInv, EditorCorrect

\* The editor keeps its invariant, with any letters and programs of any length
\* (pincEditWindow, gProgram, gBlock and the mode handler of pinc.cpp).
THEOREM EditorInvHolds == ASSUME Careful PROVE EditorSpec => []EditorInv
<1>1. EditorInit => EditorInv
  BY DEF EditorInit, EditorInv, EditorCorrect, EditorTypeOK, NoDangling, OneSelected,
         RunsWhatIsShown, ShowsItsWords, Programs, None, Nobody
<1>2. ASSUME EditorInv, UNCHANGED editorVars PROVE EditorInv'
  <2>1. Labels(shown)' = Labels(shown)
    BY <1>2 DEF Labels, editorVars
  <2>. QED BY <1>2, <2>1 DEF EditorInv, EditorCorrect, EditorTypeOK, NoDangling, OneSelected,
         RunsWhatIsShown, ShowsItsWords, editorVars
<1>3. EditorInv /\ [EditorNext]_editorVars => EditorInv'
  BY <1>2, KeepAddLine, KeepChangeWord, KeepDeleteWord, KeepClick, KeepClearProgram, KeepMode DEF EditorNext
<1>. QED BY <1>1, <1>3, PTL DEF EditorSpec

\* What is shown is what runs, a block shows its words, and neither the window nor
\* the processor has a pointer to an object Qt has deleted.
THEOREM EditorIsCorrect == ASSUME Careful PROVE EditorSpec => []EditorCorrect
<1>1. EditorInv => EditorCorrect
  BY DEF EditorInv
<1>. QED BY <1>1, EditorInvHolds, PTL

=============================================================================
