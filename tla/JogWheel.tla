------------------------------ MODULE JogWheel ------------------------------
(***************************************************************************)
(* The jog wheel: its two lines, the interrupt of the FPGA, and the        *)
(* decoder pincJogControl::wheel_input.                                    *)
(*                                                                         *)
(* One click of the wheel takes both lines from high to low and back, one  *)
(* after the other; the order tells the direction.  The FPGA lowers its    *)
(* interrupt line at a change and raises it when the host has read its     *)
(* register (module FpgaStatus): a change between the moment at which the  *)
(* read takes its value and the moment at which it clears the line raises  *)
(* no interrupt of its own.                                                *)
(***************************************************************************)
EXTENDS Integers, Sequences

CONSTANTS
  WheelFar,   \* bound: the wheel turns at most this many quarters each way
  Unseen,     \* assumption: quarters the wheel turns between two reads
  Leftover    \* what wheel_signal.mask may hold before the first interrupt

\* Three quarters on look like one back.
ASSUME WheelAssumption ==
  WheelFar \in Nat /\ Unseen \in 0..2 /\ Leftover \subseteq [1..4 -> 0..15]

\* The lines <<a, b>> after a number of quarter turns to the right.
Lines == {0, 1} \X {0, 1}
Level(n) == CASE n % 4 = 0 -> <<1, 1>> [] n % 4 = 1 -> <<0, 1>>
              [] n % 4 = 2 -> <<0, 0>> [] n % 4 = 3 -> <<1, 0>>
Rest == <<1, 1>>        \* the register reads 0xFF

VARIABLES
  turn,      \* quarters the wheel has turned
  irq,       \* the FPGA holds its interrupt line low
  wheelAt,   \* the host: "idle", in the "transfer", or in the "decoder"
  rx,        \* what the transfer took from the register
  wheelCur,  \* wheel_signal.cur
  mask,      \* wheel_signal.mask, its four hexadecimal digits
  jog,       \* the last jog emitted: its direction, or "none"
  \* history
  unseen,    \* quarters turned since the last read took its value
  rxTurn,    \* turn at that moment
  quarters,  \* the quarters read since the last rest, each with its sign, or
             \* <<0>> when a read saw anything but the next quarter
  home, was  \* turn when the host last saw the wheel at rest, and before that

wheelVars == <<turn, irq, wheelAt, rx, wheelCur, mask, jog, unseen, rxTurn, quarters, home, was>>

\* Nothing sets wheel_signal.mask before the first interrupt.
WheelInit ==
  /\ turn = 0 /\ irq = FALSE /\ wheelAt = "idle" /\ rx = Rest
  /\ wheelCur = Rest /\ mask \in Leftover /\ jog = "none"
  /\ unseen = 0 /\ rxTurn = 0 /\ quarters = <<>> /\ home = 0 /\ was = 0

-----------------------------------------------------------------------------
\* The user turns the wheel by a quarter; the FPGA sees the change.
Turn == \E d \in {1, -1} :
  /\ turn + d \in (-WheelFar)..WheelFar /\ unseen < Unseen
  /\ turn' = turn + d /\ irq' = TRUE /\ unseen' = unseen + 1
  /\ UNCHANGED <<wheelAt, rx, wheelCur, mask, jog, rxTurn, quarters, home, was>>

\* wheel_input up to the moment at which the FPGA loads its reply.
Sample ==
  /\ wheelAt = "idle" /\ irq /\ wheelAt' = "transfer"
  /\ rx' = Level(turn) /\ rxTurn' = turn /\ unseen' = 0
  /\ quarters' = IF turn - rxTurn \in {1, -1} /\ Len(quarters) < 4
                 THEN Append(quarters, turn - rxTurn) ELSE <<0>>
  /\ UNCHANGED <<turn, irq, wheelCur, mask, jog, home, was>>

\* The end of the transfer clears the interrupt.
Clear ==
  /\ wheelAt = "transfer" /\ wheelAt' = "decoder" /\ irq' = FALSE
  /\ UNCHANGED <<turn, rx, wheelCur, mask, jog, unseen, rxTurn, quarters, home, was>>

\* signal_update: the lines that rose and those that fell.
High == <<rx[1] * (1 - wheelCur[1]), rx[2] * (1 - wheelCur[2])>>
Low  == <<wheelCur[1] * (1 - rx[1]), wheelCur[2] * (1 - rx[2])>>

\* One digit: the lines that rose above those that fell.
Digit == 8 * High[1] + 4 * High[2] + 2 * Low[1] + Low[2]

\* mask <<= 4 on 16 bits.
Shifted == <<mask[2], mask[3], mask[4], Digit>>

LastTwo(m) == IF SubSeq(m, 3, 4) = <<8, 4>> THEN "right"             \* mutant
              ELSE IF m = <<1, 2, 4, 8>> THEN "left" ELSE "none"
Pattern(m) == IF m = <<2, 1, 8, 4>> THEN "right"
              ELSE IF m = <<1, 2, 4, 8>> THEN "left" ELSE "none"

\* The rest of wheel_input.
Decode ==
  /\ wheelAt = "decoder" /\ wheelAt' = "idle"
  /\ wheelCur' = rx
  /\ IF rx = Rest
     THEN /\ jog' = Pattern(Shifted) /\ mask' = <<0, 0, 0, 0>>
          /\ home' = rxTurn /\ was' = home /\ quarters' = <<>>
     ELSE /\ jog' = "none" /\ mask' = Shifted /\ UNCHANGED <<home, was, quarters>>
  /\ UNCHANGED <<turn, irq, rx, unseen, rxTurn>>

WheelNext == Turn \/ Sample \/ Clear \/ Decode

WheelSpec == WheelInit /\ [][WheelNext]_wheelVars

-----------------------------------------------------------------------------
(* Properties. *)

WheelTypeOK ==
  /\ turn \in (-WheelFar)..WheelFar /\ irq \in BOOLEAN /\ rx \in Lines /\ wheelCur \in Lines
  /\ wheelAt \in {"idle", "transfer", "decoder"}
  /\ mask \in [1..4 -> 0..15] /\ jog \in {"none", "left", "right"}

\* A jog is emitted only for a whole click in its direction: turning back on
\* the way, reads that miss a quarter, a change that raises no interrupt and
\* what the mask held at the start never add up to one.
JogIsClick ==
  /\ jog = "right" => home - was = 4
  /\ jog = "left"  => was - home = 4

\* A click of which the host read every quarter is answered by its jog: a
\* wheel turned straight on, slowly enough, loses none.
ClickIsJog ==
  Decode /\ rx = Rest =>
    /\ quarters = <<1, 1, 1, 1>>     => jog' = "right"
    /\ quarters = <<-1, -1, -1, -1>> => jog' = "left"

\* A jog is a click of the wheel, and a click a jog.
WheelCorrect == [](WheelTypeOK /\ JogIsClick) /\ [][ClickIsJog]_wheelVars
=============================================================================
