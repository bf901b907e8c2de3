------------------------------ MODULE FpgaInputs ------------------------------
(***************************************************************************)
(* The inputs of the FPGA: each pin goes through three flip-flops (module  *)
(* sync of signal.v) and a debouncer (module db), and the limit switches   *)
(* and the sync signal together make the alarms of the two axes (main.v).  *)
(* One step is one rising edge of clk; every register takes its new value  *)
(* from the old ones, as the nonblocking assignments do.                   *)
(***************************************************************************)
EXTENDS Integers

CONSTANTS
  Tick,        \* TICK, the length of a debouncing window
  Moving       \* the pins that may change, at any clock edge

Lines == {"x", "y", "sync"}        \* x_limit, y_limit, stepper_sync
Bit   == {0, 1}

ASSUME TickAssumption   == Tick \in Nat \ {0}
ASSUME MovingAssumption == Moving \subseteq Lines

VARIABLES
  pin,                  \* the pins
  chain,                \* the three flip-flops of sync
  counting, count,      \* r_counting, r_count
  db,                   \* the debounced signal
  age, gap              \* history: edges since the pin, and out, last changed

inputVars == <<pin, chain, counting, count, db, age, gap>>

\* What the flip-flops hold after a reset.
Pull(l) == IF l = "sync" THEN 0 ELSE 1

InSync(l) == chain[l][3]

\* Edges after which a steady pin has come through, and between two changes.
Settle == Tick + 5
Window == Tick + 2

Capped(n, most) == IF n < most THEN n + 1 ELSE most

\* The registers start at 0 when the FPGA is configured.
InputsInit ==
  /\ pin \in [Lines -> Bit]
  /\ chain = [l \in Lines |-> <<0, 0, 0>>]
  /\ counting = [l \in Lines |-> FALSE] /\ count = [l \in Lines |-> 0]
  /\ db = [l \in Lines |-> 0]
  /\ age = [l \in Lines |-> 0] /\ gap = [l \in Lines |-> Window]

TooLate(l) == count[l] > Tick                           \* mutant: off by one
Last(l)    == count[l] = Tick

\* The output of a debouncer after the edge.
Debounced(l)  == IF counting[l] /\ Last(l) THEN InSync(l) ELSE db[l]

Shift(l)  == <<pin[l], chain[l][1], chain[l][2]>>

MovePins ==
  /\ pin' \in [Lines -> Bit]
  /\ \A l \in Lines \ Moving : pin'[l] = pin[l]

Clock ==
  /\ MovePins
  /\ chain' = [l \in Lines |-> Shift(l)]
  /\ db' = [l \in Lines |-> Debounced(l)]
  /\ counting' = [l \in Lines |-> IF counting[l] THEN ~Last(l) ELSE db[l] # InSync(l)]
  /\ count' = [l \in Lines |->
       IF ~counting[l] THEN count[l] ELSE IF Last(l) THEN 0 ELSE count[l] + 1]
  /\ age' = [l \in Lines |-> IF pin'[l] = pin[l] THEN Capped(age[l], Settle) ELSE 0]
  /\ gap' = [l \in Lines |-> IF db'[l] = db[l] THEN Capped(gap[l], Window) ELSE 1]

\* A clock edge with rst low.
Reset ==
  /\ MovePins
  /\ chain' = [l \in Lines |-> <<Pull(l), Pull(l), Pull(l)>>]
  /\ db' = [l \in Lines |-> InSync(l)]
  /\ counting' = [l \in Lines |-> FALSE] /\ count' = [l \in Lines |-> 0]
  /\ age' = [l \in Lines |-> 0]
  /\ gap' = [l \in Lines |-> Window]

InputsNext == Clock \/ Reset

InputsSpec == InputsInit /\ [][InputsNext]_inputVars

-----------------------------------------------------------------------------
\* any_limit and the alarms, active low.
And(a, b) == IF a = 1 /\ b = 1 THEN 1 ELSE 0
Not(a)    == 1 - a

AnyLimit == And(db["x"], db["y"])
NoSync    == 1                                          \* mutant: own limit only
SyncAlarm == Not(And(db["sync"], Not(AnyLimit)))
Alarm(l)  == And(db[l], SyncAlarm)

InputsTypeOK ==
  /\ pin \in [Lines -> Bit] /\ chain \in [Lines -> Bit \X Bit \X Bit]
  /\ counting \in [Lines -> BOOLEAN] /\ count \in [Lines -> 0..Tick]
  /\ db \in [Lines -> Bit]
  /\ age \in [Lines -> 0..Settle] /\ gap \in [Lines -> 1..Window]

\* The count runs only inside a window (db): a window never starts from a count
\* left over from the one before.
CountInWindow == \A l \in Lines : ~counting[l] => count[l] = 0

\* However the contact bounces, the debounced signal changes at most once in a
\* window (db): nothing behind it sees two edges close together.
OncePerWindow ==
  [][Clock => \A l \in Lines : db'[l] # db[l] => gap[l] >= Window]_inputVars

\* A pin that stays steady is seen, whenever in a window it changed, and after a
\* reset too (db): a limit that is held is never filtered away.
Steady(l)  == age[l] = Settle
SteadySeen == \A l \in Lines : Steady(l) => db[l] = pin[l]

\* The invariant of the proofs: how far a steady pin has come, how long a window
\* has been running, and since when the signal has not changed.
PinSeen(l) ==
  /\ \A i \in 1..3 : age[l] >= i => chain[l][i] = pin[l]
  /\ age[l] >= 4 /\ db[l] # pin[l] => counting[l] /\ count[l] >= age[l] - 4
  /\ counting[l] => gap[l] >= count[l] + 2
InputsInv == InputsTypeOK /\ CountInWindow /\ \A l \in Lines : PinSeen(l)

\* A limit switch stops its own axis, and both while the sync signal is up; with
\* both switches open nothing stops them (top).
LimitStops ==
  /\ \A l \in {"x", "y"} : Steady(l) /\ pin[l] = 0 =>
       /\ Alarm(l) = 0
       /\ Steady("sync") /\ pin["sync"] = 1 => Alarm("x") = 0 /\ Alarm("y") = 0
  /\ (\A l \in {"x", "y"} : Steady(l) /\ pin[l] = 1) => Alarm("x") = 1 /\ Alarm("y") = 1
=============================================================================
