----------------------------- MODULE Fpga_proofs -----------------------------
(***************************************************************************)
(* Proofs about the FPGA: its debouncers for every length of their window, *)
(* its status registers for every number of inputs and every order of the  *)
(* else-if chain, down to what a host that reads them knows of an input;   *)
(* and its SPI slave for every word length and every clock slow enough.    *)
(***************************************************************************)
EXTENDS FpgaInputs, FpgaStatus, FpgaSpi, SequenceTheorems, TLAPS

-----------------------------------------------------------------------------
(* The debouncers.                                                         *)

LEMMA TickNat == Tick \in Nat /\ Tick > 0
  BY TickAssumption

LEMMA InitInputs == InputsInit => InputsInv
<1> SUFFICES ASSUME InputsInit PROVE InputsInv
  OBVIOUS
<1> USE TickNat DEF InputsInit, Bit, Settle, Window
<1>1. InputsTypeOK
  BY DEF InputsTypeOK
<1>2. CountInWindow
  BY DEF CountInWindow
<1>3. \A l \in Lines : PinSeen(l)
  BY DEF PinSeen
<1>4. QED
  BY <1>1, <1>2, <1>3 DEF InputsInv

LEMMA ClockKeepsType ==
  ASSUME InputsInv, Clock
  PROVE  InputsTypeOK'
<1> USE TickNat DEF Clock, InputsInv, InputsTypeOK, Bit, Settle, Window
<1>1. pin' \in [Lines -> Bit]
  BY DEF MovePins
<1>2. chain' \in [Lines -> Bit \X Bit \X Bit]
  BY DEF Shift
<1>3. counting' \in [Lines -> BOOLEAN]
  BY Zenon DEF Last
<1>4. count' \in [Lines -> 0..Tick]
  <2>1. ASSUME NEW l \in Lines
        PROVE  (IF ~counting[l] THEN count[l] ELSE IF Last(l) THEN 0 ELSE count[l] + 1)
                 \in 0..Tick
    <3>1. count[l] \in 0..Tick
      OBVIOUS
    <3>2. ~Last(l) => count[l] + 1 \in 0..Tick
      <4>1. ASSUME NEW n \in 0..Tick, n # Tick PROVE n + 1 \in 0..Tick
        BY <4>1, TickNat
      <4>2. QED
        BY <3>1, <4>1 DEF Last
    <3>3. QED
      BY <3>1, <3>2
  <2>2. QED
    BY <2>1, Zenon
<1>5. db' \in [Lines -> Bit]
  BY DEF Debounced, InSync
<1>6. age' \in [Lines -> 0..Settle] /\ gap' \in [Lines -> 1..Window]
  BY DEF Capped
<1>7. QED
  BY <1>1, <1>2, <1>3, <1>4, <1>5, <1>6 DEF InputsTypeOK

LEMMA ClockKeepsPin ==
  ASSUME InputsInv, Clock, NEW l \in Lines
  PROVE  PinSeen(l)' /\ (~counting'[l] => count'[l] = 0)
<1> DEFINE a == age[l]
           c == count[l]
<1>1. /\ pin[l] \in Bit /\ pin'[l] \in Bit /\ db[l] \in Bit
      /\ chain[l] \in Bit \X Bit \X Bit
      /\ counting[l] \in BOOLEAN /\ c \in 0..Tick
      /\ a \in 0..Settle /\ gap[l] \in 1..Window
      /\ PinSeen(l) /\ (~counting[l] => c = 0)
  BY DEF InputsInv, InputsTypeOK, CountInWindow, Clock, MovePins
<1>2. /\ chain'[l] = Shift(l) /\ db'[l] = Debounced(l)
      /\ counting'[l] = IF counting[l] THEN ~Last(l) ELSE db[l] # InSync(l)
      /\ count'[l] = IF ~counting[l] THEN c ELSE IF Last(l) THEN 0 ELSE c + 1
      /\ age'[l] = IF pin'[l] = pin[l] THEN Capped(a, Settle) ELSE 0
      /\ gap'[l] = IF db'[l] = db[l] THEN Capped(gap[l], Window) ELSE 1
  BY DEF Clock
<1> USE TickNat DEF Bit, Settle, Window, Capped
<1>0. /\ a >= 4 /\ db[l] # pin[l] => counting[l] /\ c >= a - 4
      /\ counting[l] => gap[l] >= c + 2
      /\ Last(l) <=> c = Tick
  BY <1>1 DEF PinSeen, Last
<1>3. age'[l] \in 0..Settle /\ (age'[l] > 0 => pin'[l] = pin[l])
      /\ (age'[l] > 0 => age'[l] = a + 1 \/ (a = Settle /\ age'[l] = a))
  BY <1>1, <1>2
<1>4. \A i \in 1..3 : age'[l] >= i => chain'[l][i] = pin'[l]
  <2>1. age'[l] >= 1 => chain'[l][1] = pin'[l]
    BY <1>1, <1>2, <1>3 DEF Shift
  <2>2. age'[l] >= 2 => chain'[l][2] = pin'[l]
    BY <1>1, <1>2, <1>3 DEF Shift, PinSeen
  <2>3. age'[l] >= 3 => chain'[l][3] = pin'[l]
    BY <1>1, <1>2, <1>3 DEF Shift, PinSeen
  <2>4. QED
    BY <2>1, <2>2, <2>3
<1>5. ~counting'[l] => count'[l] = 0
  BY <1>1, <1>2
<1>6. ASSUME age'[l] >= 4, db'[l] # pin'[l]
      PROVE  counting'[l] /\ count'[l] >= age'[l] - 4
  <2>1. /\ pin'[l] = pin[l] /\ a >= 3 /\ chain[l][3] = pin[l]
        /\ age'[l] <= a + 1
    BY <1>1, <1>3, <1>6 DEF PinSeen
  <2>2. ~(counting[l] /\ Last(l)) /\ db[l] # pin[l]
    BY <1>1, <1>2, <1>6, <2>1 DEF Debounced, InSync
  <2>3. CASE counting[l]
    <3>1. counting'[l] /\ count'[l] = c + 1
      BY <1>2, <2>2, <2>3
    <3>2. a >= 4 => c >= a - 4
      BY <1>0, <2>2
    <3>3. QED
      BY <1>1, <2>1, <3>1, <3>2, <1>6, <1>3
  <2>4. CASE ~counting[l]
    <3>1. a = 3
      BY <1>0, <1>1, <2>1, <2>2, <2>4
    <3>2. counting'[l] /\ count'[l] = c
      BY <1>2, <2>1, <2>2, <2>4 DEF InSync
    <3>3. age'[l] - 4 <= 0
      BY <1>3, <2>1, <3>1
    <3>4. QED
      BY <1>1, <1>3, <3>2, <3>3
  <2>5. QED
    BY <2>3, <2>4
<1>7. ASSUME counting'[l]
      PROVE  gap'[l] >= count'[l] + 2
  <2>1. CASE counting[l]
    <3>1. ~Last(l)
      BY <1>2, <1>7, <2>1
    <3>2. count'[l] = c + 1 /\ gap'[l] = Capped(gap[l], Window)
      BY <1>2, <2>1, <3>1 DEF Debounced
    <3>3. gap[l] >= c + 2 /\ c < Tick
      BY <1>0, <1>1, <2>1, <3>1
    <3>4. QED
      BY <1>1, <3>2, <3>3
  <2>2. CASE ~counting[l]
    <3>1. db'[l] = db[l] /\ count'[l] = 0 /\ gap'[l] = Capped(gap[l], Window)
      BY <1>1, <1>2, <2>2 DEF Debounced
    <3>2. QED
      BY <1>1, <3>1
  <2>3. QED
    BY <1>1, <2>1, <2>2
<1>8. QED
  BY <1>4, <1>5, <1>6, <1>7 DEF PinSeen

LEMMA ResetKeeps ==
  ASSUME InputsInv, Reset
  PROVE  InputsInv'
<1> USE TickNat DEF Reset, InputsInv, Bit, Settle
<1>1. InputsTypeOK'
  <2>1. pin' \in [Lines -> Bit] /\ chain' \in [Lines -> Bit \X Bit \X Bit] /\ db' \in [Lines -> Bit]
    BY DEF InputsTypeOK, MovePins, InSync, Pull
  <2>2. gap' \in [Lines -> 1..Window] /\ age' \in [Lines -> 0..Settle]
    BY DEF Window
  <2>. QED BY <2>1, <2>2 DEF InputsTypeOK
<1>2. CountInWindow'
  BY DEF CountInWindow
<1>3. \A l \in Lines : PinSeen(l)'
  BY DEF PinSeen
<1>4. QED
  BY <1>1, <1>2, <1>3

LEMMA NextInputs == InputsInv /\ [InputsNext]_inputVars => InputsInv'
<1> SUFFICES ASSUME InputsInv, [InputsNext]_inputVars PROVE InputsInv'
  OBVIOUS
<1>1. CASE Clock
  <2>1. \A l \in Lines : PinSeen(l)' /\ (~counting'[l] => count'[l] = 0)
    BY <1>1, ClockKeepsPin
  <2>2. InputsTypeOK'
    BY <1>1, ClockKeepsType
  <2>3. QED
    BY <2>1, <2>2 DEF InputsInv, CountInWindow
<1>2. CASE Reset
  BY <1>2, ResetKeeps
<1>3. CASE UNCHANGED inputVars
  BY <1>3 DEF inputVars, InputsInv, InputsTypeOK, CountInWindow, PinSeen, Settle, Window
<1>4. QED
  BY <1>1, <1>2, <1>3 DEF InputsNext

\* Types, windows and ages keep to the invariant for every window length.
THEOREM InputsInvHolds == InputsSpec => []InputsInv
  BY InitInputs, NextInputs, PTL DEF InputsSpec

\* The registers of sync and db keep their types.
THEOREM InputsTyped == InputsSpec => []InputsTypeOK
<1>1. InputsInv => InputsTypeOK
  BY DEF InputsInv
<1>2. QED
  BY <1>1, InputsInvHolds, PTL

\* The arithmetic behind the next theorem: after Tick + 5 edges a window that was
\* open when the pin settled, and the one after it, are over.
LEMMA SteadyComesThrough == InputsInv => SteadySeen
<1> SUFFICES ASSUME InputsInv, NEW l \in Lines, age[l] = Settle
             PROVE  db[l] = pin[l]
  BY DEF SteadySeen, Steady
<1>1. /\ count[l] \in 0..Tick
      /\ age[l] >= 4 /\ db[l] # pin[l] => count[l] >= age[l] - 4
  BY DEF InputsInv, InputsTypeOK, PinSeen
<1>2. age[l] >= 4 /\ age[l] - 4 > Tick
  BY TickNat DEF Settle
<1>3. db[l] # pin[l] => count[l] > Tick
  <2>1. ASSUME NEW n \in 0..Tick, NEW g \in Int, n >= g, g > Tick PROVE FALSE
    BY <2>1, TickNat
  <2>2. age[l] - 4 \in Int
    BY TickNat DEF Settle
  <2>3. QED
    BY <1>1, <1>2, <2>1, <2>2
<1>4. QED
  BY <1>1, <1>3, TickNat

\* A pin that stays steady for Tick + 5 clock edges is what db puts out.
THEOREM SteadyPinIsSeen == InputsSpec => []SteadySeen
  BY SteadyComesThrough, InputsInvHolds, PTL

\* The debounced signal changes at most once in Tick + 2 clock edges.
THEOREM OneChangePerWindow == InputsSpec => OncePerWindow
<1>1. InputsInv /\ [InputsNext]_inputVars =>
        [Clock => \A l \in Lines : db'[l] # db[l] => gap[l] >= Window]_inputVars
  <2> SUFFICES ASSUME InputsInv, Clock, NEW l \in Lines, db'[l] # db[l]
               PROVE  gap[l] >= Window
    OBVIOUS
  <2>1. counting[l] /\ count[l] = Tick
    BY DEF Clock, Debounced, Last
  <2>2. QED
    BY <2>1, TickNat DEF InputsInv, InputsTypeOK, PinSeen, Window
<1>2. QED
  BY <1>1, InputsInvHolds, PTL DEF InputsSpec, OncePerWindow

\* A limit switch that is held stops its axis, and both under the sync signal.
THEOREM LimitsStop == InputsSpec => []LimitStops
<1>1. InputsInv => LimitStops
  <2> SUFFICES ASSUME InputsInv PROVE LimitStops
    OBVIOUS
  <2>1. SteadySeen
    BY SteadyComesThrough
  <2>2. QED
    BY <2>1 DEF SteadySeen, LimitStops, Alarm, SyncAlarm, AnyLimit, And, Not, Lines
<1>2. QED
  BY <1>1, InputsInvHolds, PTL

-----------------------------------------------------------------------------
(* The status registers.                                                   *)

LEMMA Constants ==
  /\ Ones \in Values /\ Gap \in Nat /\ Gap >= 4
  /\ MaxReads \in Nat /\ MaxReads >= 2 /\ MaxChanges \in Nat
  /\ None \notin Regs /\ Rank \in [Regs -> Nat]
  /\ \A r, q \in Regs : Rank[r] = Rank[q] => r = q
  BY ValuesAssumption, GapAssumption, ReadsAssumption, ChangesAssumption,
     RegsAssumption, RankAssumption

LEMMA InitFpga == Init => FpgaInv
<1> SUFFICES ASSUME Init PROVE FpgaInv
  OBVIOUS
<1> USE Constants DEF Init, Each
<1>1. TypeOK
  <2>1. /\ flip \in [Regs -> BOOLEAN] /\ stale \in [Regs -> BOOLEAN]
        /\ missed \in [Regs -> BOOLEAN] /\ wrong \in [Regs -> BOOLEAN]
    BY Zenon
  <2>2. wrValid \in BOOLEAN /\ read \in BOOLEAN /\ rdValid \in BOOLEAN
    BY Zenon
  <2>3. QED
    BY <2>1, <2>2 DEF TypeOK
<1>2. LineAnswered
  BY DEF LineAnswered
<1>3. \A r \in Regs : ~stale[r] => Follows(r)
  OBVIOUS
<1>4. QED
  BY <1>1, <1>2, <1>3 DEF FpgaInv

\* What every clock edge does to signal, the register file and the port.
Edge(asks, rises) == Signal /\ DataRegister /\ Top(asks, rises)

LEMMA EdgeTypes ==
  ASSUME FpgaInv, NEW asks \in Regs \cup {None}, NEW rises \in BOOLEAN,
         Edge(asks, rises)
  PROVE  /\ in' \in [Regs -> Values] /\ changes' \in 0..MaxChanges
         /\ out' \in [Regs -> Values]
         /\ flip' \in [Regs -> BOOLEAN] /\ intr' \in [Regs -> {0, 1}]
         /\ clr' \in Regs \cup {None} /\ rdAddr' \in Regs \cup {None}
         /\ addr' \in Regs \cup {None} /\ read' \in BOOLEAN
         /\ wrByte' \in Values /\ wrValid' \in BOOLEAN
         /\ data' \in [Regs -> Values] /\ rdByte' \in Values /\ rdValid' \in BOOLEAN
         /\ txByte' \in Values
         /\ (wrValid' => addr' \in Regs) /\ (read' => addr' \in Regs)
<1> USE DEF Edge
<1>0. TypeOK /\ (wrValid => addr \in Regs) /\ (read => addr \in Regs)
  BY DEF FpgaInv
<1>1. /\ in' \in [Regs -> Values] /\ out' \in [Regs -> Values]
      /\ flip' \in [Regs -> BOOLEAN]
  BY <1>0, Zenon DEF Signal, Flips, Changes, TypeOK
<1>2. changes' \in 0..MaxChanges
  BY <1>0, Constants DEF Signal, TypeOK
<1>3. intr' \in [Regs -> {0, 1}]
  BY <1>0 DEF Signal, Line, TypeOK
<1>4. data' \in [Regs -> Values] /\ rdByte' \in Values
  BY <1>0 DEF DataRegister, TypeOK
<1>5. rdValid' \in BOOLEAN
  BY <1>0, Zenon DEF DataRegister, TypeOK
<1>6. read' \in BOOLEAN
  BY DEF Top
<1>7. /\ clr' \in Regs \cup {None} /\ rdAddr' \in Regs \cup {None}
      /\ txByte' \in Values
  BY <1>0, Constants DEF Top, ClearOf, TypeOK
<1>8. /\ addr' \in Regs \cup {None} /\ wrByte' \in Values /\ wrValid' \in BOOLEAN
      /\ (wrValid' => addr' \in Regs) /\ (read' => addr' \in Regs)
  <2>1. CASE Flipped = {}
    BY <1>0, <2>1, Constants DEF Top, Winners, TypeOK
  <2>2. CASE Flipped # {}
    <3>1. PICK r \in Winners : wrValid' = TRUE /\ addr' = r /\ wrByte' = out[r]
      BY <2>2 DEF Top
    <3>2. r \in Regs
      BY <3>1 DEF Winners, Flipped
    <3>3. QED
      BY <1>0, <3>1, <3>2 DEF TypeOK
  <2>3. QED
    BY <2>1, <2>2
<1>9. QED
  BY <1>1, <1>2, <1>3, <1>4, <1>5, <1>6, <1>7, <1>8

\* The port gives the register its write in time, or the write is lost.
LEMMA EdgeFollows ==
  ASSUME FpgaInv, NEW asks \in Regs \cup {None}, NEW rises \in BOOLEAN,
         Edge(asks, rises), NEW r \in Regs, NEW s \in {None} \cup Regs,
         Histories(asks, s), ~stale'[r]
  PROVE  Follows(r)'
<1> USE DEF Edge
<1>0. /\ TypeOK /\ out' = in /\ flip'[r] = Changes(r)
      /\ data' = IF wrValid /\ ~read THEN [data EXCEPT ![addr] = wrByte] ELSE data
  BY DEF FpgaInv, Signal, Flips, DataRegister
<1>1. data[r] \in Values /\ out[r] \in Values /\ data \in [Regs -> Values]
      /\ flip[r] \in BOOLEAN
  BY <1>0 DEF TypeOK
<1>2. out'[r] # out[r] => flip'[r]
  BY <1>0 DEF Changes
<1>3. CASE flip[r]
  <2>1. r \in Winners /\ asks = None
    BY <1>3 DEF Histories, Lost
  <2>2. Flipped # {}
    BY <2>1 DEF Winners
  <2>3. PICK q \in Winners : wrValid' = TRUE /\ addr' = q /\ wrByte' = out[q]
    BY <2>2 DEF Top
  <2>4. q = r
    <3>1. q \in Regs /\ Rank[q] <= Rank[r] /\ Rank[r] <= Rank[q]
      BY <2>1, <2>3 DEF Winners, Flipped
    <3>2. Rank[q] \in Nat /\ Rank[r] \in Nat
      BY <3>1, Constants
    <3>3. QED
      BY <3>1, <3>2, Constants
  <2>5. ~read'
    BY <2>1 DEF Top
  <2>6. QED
    BY <1>2, <2>3, <2>4, <2>5 DEF Follows, Writing
<1>4. CASE ~flip[r]
  <2>1. Follows(r)
    BY <1>4 DEF Histories, FpgaInv
  <2>2. data'[r] = out[r]
    BY <1>0, <1>1, <1>4, <2>1 DEF Follows, Writing
  <2>3. ~Writing(r)'
    <3>1. CASE Flipped = {}
      BY <3>1 DEF Top, Winners, Writing
    <3>2. CASE Flipped # {}
      <4>1. PICK q \in Winners : addr' = q
        BY <3>2 DEF Top
      <4>2. flip[q]
        BY <4>1 DEF Winners, Flipped
      <4>3. QED
        BY <1>4, <4>1, <4>2 DEF Writing
    <3>3. QED
      BY <3>1, <3>2
  <2>4. QED
    BY <1>2, <2>2, <2>3 DEF Follows
<1>5. QED
  BY <1>1, <1>3, <1>4

\* A line that falls is owed two reads.
LEMMA EdgeAnswers ==
  ASSUME FpgaInv, Signal, NEW over \in Regs \cup {None}, DueAfter(over),
         over # None => due[over] > 0 /\ clr' = over
  PROVE  /\ due' \in [Regs -> 0..MaxReads] /\ LineAnswered'
         /\ over = None => \A r \in Regs : due[r] > 0 => due'[r] > 0
<1> DEFINE Left(r) == IF r = over THEN due[r] - 1 ELSE due[r]
<1>1. /\ due \in [Regs -> 0..MaxReads] /\ intr \in [Regs -> {0, 1}]
      /\ MaxReads \in Nat /\ MaxReads >= 2 /\ None \notin Regs
  BY Constants DEF FpgaInv, TypeOK
<1>2. \A r \in Regs : Left(r) \in 0..MaxReads
  BY <1>1
<1>3. \A n \in 0..MaxReads : Owed(n + Reads) \in 0..MaxReads /\ Owed(n + Reads) > 0
  BY <1>1 DEF Owed, Reads, Twice
<1>4. \A r \in Regs : due'[r] = IF Falls(r) THEN Owed(Left(r) + Reads) ELSE Left(r)
  BY DEF DueAfter
<1>5. due' \in [Regs -> 0..MaxReads]
  <2>1. \A r \in Regs :
          (IF Falls(r) THEN Owed(Left(r) + Reads) ELSE Left(r)) \in 0..MaxReads
    BY <1>2, <1>3
  <2>2. QED
    BY <2>1 DEF DueAfter
<1>6. LineAnswered'
  <2> SUFFICES ASSUME NEW r \in Regs, intr'[r] = 0
               PROVE  due'[r] > 0 \/ clr' = r
    BY DEF LineAnswered
  <2>1. CASE intr[r] = 1
    <3>1. Falls(r)
      BY <2>1 DEF Falls
    <3>2. QED
      BY <1>2, <1>3, <1>4, <3>1
  <2>2. CASE intr[r] = 0
    <3>1. clr # r
      BY DEF Signal, Line
    <3>2. due[r] > 0
      BY <2>2, <3>1 DEF FpgaInv, LineAnswered
    <3>3. ~Falls(r)
      BY <2>2 DEF Falls
    <3>4. QED
      BY <1>1, <1>4, <3>2, <3>3
  <2>3. QED
    BY <1>1, <2>1, <2>2
<1>7. over = None => \A r \in Regs : due[r] > 0 => due'[r] > 0
  BY <1>1, <1>2, <1>3, <1>4
<1>8. QED
  BY <1>5, <1>6, <1>7

LEMMA HistoryTypes ==
  ASSUME TypeOK, NEW asks, NEW s, Histories(asks, s)
  PROVE  stale' \in [Regs -> BOOLEAN] /\ missed' \in [Regs -> BOOLEAN]
<1>1. \A r \in Regs :
        /\ (IF flip[r] THEN Lost(r, asks) ELSE stale[r]) \in BOOLEAN
        /\ ((clr = r /\ Changes(r)) \/ (missed[r] /\ s # r)) \in BOOLEAN
  BY Zenon DEF TypeOK, Lost
<1>2. QED
  BY <1>1, Zenon DEF Histories

\* One clock edge, whatever the host does at it.
LEMMA EdgeKeeps ==
  ASSUME FpgaInv, NEW asks \in Regs \cup {None}, NEW rises \in BOOLEAN,
         NEW over \in Regs \cup {None}, NEW s \in {None} \cup Regs,
         Edge(asks, rises), DueAfter(over), Histories(asks, s),
         over # None => due[over] > 0 /\ clr' = over,
         bus' \in {"free", "sent", "loaded"}, asked' \in Regs \cup {None},
         byte' \in Values, wait' \in 0..Gap, view' \in [Regs -> Values],
         wrong' \in [Regs -> BOOLEAN],
         bus' # "free" => /\ asked' \in Regs /\ rdAddr' = asked'
                          /\ over = None /\ due[asked'] > 0,
         clr' # None => clr' = asked' /\ bus' = "free" /\ wait' = 0
  PROVE  FpgaInv'
<1>1. TypeOK /\ Signal
  BY DEF FpgaInv, Edge
<1>2. /\ due' \in [Regs -> 0..MaxReads] /\ LineAnswered'
      /\ bus' # "free" => due'[asked'] > 0
  BY <1>1, EdgeAnswers
<1>3. stale' \in [Regs -> BOOLEAN] /\ missed' \in [Regs -> BOOLEAN]
  BY <1>1, HistoryTypes
<1>4. \A r \in Regs : ~stale'[r] => Follows(r)'
  BY EdgeFollows
<1>5. TypeOK' /\ (wrValid' => addr' \in Regs) /\ (read' => addr' \in Regs)
  BY <1>2, <1>3, EdgeTypes DEF TypeOK
<1>6. QED
  BY <1>2, <1>4, <1>5 DEF FpgaInv

LEMMA NextFpga == FpgaInv /\ [Next]_vars => FpgaInv'
<1> SUFFICES ASSUME FpgaInv, [Next]_vars PROVE FpgaInv'
  OBVIOUS
<1>0. /\ bus \in {"free", "sent", "loaded"} /\ asked \in Regs \cup {None}
      /\ byte \in Values /\ wait \in 0..Gap /\ view \in [Regs -> Values]
      /\ wrong \in [Regs -> BOOLEAN] /\ txByte \in Values
      /\ rdAddr \in Regs \cup {None} /\ Gap \in Nat /\ Gap >= 4 /\ None \notin Regs
      /\ bus # "free" => asked \in Regs /\ rdAddr = asked /\ due[asked] > 0
      /\ clr # None => clr = asked /\ bus = "free" /\ wait = 0
      /\ due \in [Regs -> 0..MaxReads]
  BY Constants DEF FpgaInv, TypeOK
<1>1. CASE Quiet
  <2>1. wait' \in 0..Gap /\ clr' = None /\ rdAddr' = rdAddr
    BY <1>0, <1>1 DEF Quiet, Waits, Top
  <2>2. QED
    BY <1>0, <1>1, <2>1, EdgeKeeps DEF Quiet, Edge
<1>2. ASSUME NEW r \in Regs, Ask(r) PROVE FpgaInv'
  <2>1. clr' = None /\ rdAddr' = r
    BY <1>0, <1>2 DEF Ask, Top
  <2>2. (addr' # r) \in BOOLEAN
    OBVIOUS
  <2>3. wrong' \in [Regs -> BOOLEAN]
    BY <1>0, <1>2, <2>2, Zenon DEF Ask
  <2>4. /\ Edge(r, FALSE) /\ DueAfter(None) /\ Histories(r, None)
        /\ bus' = "sent" /\ asked' = r /\ wait' = 0 /\ byte' = byte /\ view' = view
        /\ due[r] > 0
    BY <1>2 DEF Ask, Edge
  <2>5. /\ bus' \in {"free", "sent", "loaded"} /\ asked' \in Regs \cup {None}
        /\ byte' \in Values /\ wait' \in 0..Gap /\ view' \in [Regs -> Values]
        /\ rdAddr' = asked' /\ due[asked'] > 0 /\ asked' \in Regs /\ clr' = None
    BY <1>0, <2>1, <2>4
  <2>6. QED
    BY <2>3, <2>4, <2>5, EdgeKeeps
<1>3. CASE Load
  <2>1. clr' = None /\ rdAddr' = rdAddr
    BY <1>3 DEF Load, Top
  <2>2. /\ Edge(None, FALSE) /\ DueAfter(None) /\ Histories(None, asked)
        /\ bus' = "loaded" /\ asked' = asked /\ wait' = 0 /\ byte' = txByte
        /\ view' = view /\ wrong' = wrong /\ bus = "sent"
    BY <1>3 DEF Load, Edge
  <2>3. /\ bus' \in {"free", "sent", "loaded"} /\ asked' \in Regs \cup {None}
        /\ byte' \in Values /\ wait' \in 0..Gap /\ view' \in [Regs -> Values]
        /\ rdAddr' = asked' /\ due[asked'] > 0 /\ asked' \in Regs /\ clr' = None
        /\ wrong' \in [Regs -> BOOLEAN] /\ asked \in Regs
    BY <1>0, <2>1, <2>2
  <2>4. QED
    BY <2>2, <2>3, EdgeKeeps
<1>4. CASE Finish
  <2>1. clr' = asked /\ rdAddr' = rdAddr /\ asked \in Regs
    BY <1>0, <1>4 DEF Finish, Top, ClearOf
  <2>2. due[asked] > 0
    BY <1>0, <1>4, <2>1 DEF Finish
  <2>3. /\ Edge(None, TRUE) /\ DueAfter(asked) /\ Histories(None, None)
        /\ bus' = "free" /\ asked' = asked /\ wait' = 0 /\ byte' = byte
        /\ view' = [view EXCEPT ![asked] = byte] /\ wrong' = wrong
    BY <1>4 DEF Finish, Edge
  <2>4. view' \in [Regs -> Values]
    BY <1>0, <2>3
  <2>5. /\ bus' \in {"free", "sent", "loaded"} /\ asked' \in Regs \cup {None}
        /\ byte' \in Values /\ wait' \in 0..Gap
        /\ bus' = "free" /\ clr' = asked' /\ clr' = asked /\ asked \in Regs
        /\ wrong' \in [Regs -> BOOLEAN] /\ wait' = 0
    BY <1>0, <2>1, <2>3
  <2>6. QED
    BY <2>2, <2>3, <2>4, <2>5, EdgeKeeps
<1>5. CASE UNCHANGED vars
  BY <1>5 DEF vars, signals, memory, port, host, FpgaInv, TypeOK, Follows, Writing,
              LineAnswered
<1>6. QED
  BY <1>1, <1>2, <1>3, <1>4, <1>5 DEF Next

\* The invariant of the registers, the port and the lines is kept at every edge.
THEOREM FpgaInvHolds == Spec => []FpgaInv
  BY InitFpga, NextFpga, PTL DEF Spec

\* The registers keep their types.
THEOREM FpgaTyped == Spec => []TypeOK
<1>1. FpgaInv => TypeOK
  BY DEF FpgaInv
<1>2. QED
  BY <1>1, FpgaInvHolds, PTL

\* No write is lost but for the two collisions that stale records.
THEOREM RegistersFollow == Spec => []RegisterFollows
<1>1. FpgaInv => RegisterFollows
  BY DEF FpgaInv, RegisterFollows, Follows
<1>2. QED
  BY <1>1, FpgaInvHolds, PTL

\* No line is left low with no read to come.
THEOREM LinesAnswered == Spec => []LineAnswered
<1>1. FpgaInv => LineAnswered
  BY DEF FpgaInv
<1>2. QED
  BY <1>1, FpgaInvHolds, PTL

\* Only a transfer for its own register raises a line.
THEOREM LinesAreOwn == Spec => OwnLine
<1>1. FpgaInv /\ [Next]_vars =>
        [\A r \in Regs : intr[r] = 0 /\ intr'[r] = 1 => asked = r]_vars
  <2> SUFFICES ASSUME FpgaInv, Next, NEW r \in Regs, intr[r] = 0, intr'[r] = 1
               PROVE  asked = r
    OBVIOUS
  <2>1. Signal
    BY DEF Next, Quiet, Ask, Load, Finish
  <2>2. clr = r
    BY <2>1 DEF Signal, Line
  <2>3. QED
    BY <2>2, Constants DEF FpgaInv
<1>2. QED
  BY <1>1, FpgaInvHolds, PTL DEF Spec, OwnLine
-----------------------------------------------------------------------------
(* What the host knows.  A register with two reads to come is read once    *)
(* more after anything that happens now; with one read to come, or none,   *)
(* the line is up, so that a change brings two new ones.                   *)

\* The last transfer was for r and is over; the last read of r is under way.
JustRead(r) == bus = "free" /\ asked = r
LastRead(r) == bus # "free" /\ asked = r /\ due[r] = 1

\* Where the status is on its way from the register to the host.
OnItsWay(r) ==
  /\ bus = "sent" => /\ wait = 0 => read /\ addr = r
                     /\ wait > 0 => ~read
                     /\ wait = 1 => rdValid /\ rdByte = out[r]
                     /\ wait > 1 => ~rdValid /\ txByte = out[r]
  /\ bus = "loaded" => byte = out[r]

KnowsInv(r) ==
  /\ intr[r] = 0 => due[r] > 1 \/ clr = r
  /\ flip[r] => \/ due[r] > 1
                \/ due[r] = 1 /\ JustRead(r) /\ wait <= 1
                \/ due[r] = 0 /\ missed[r]
  /\ Writing(r) /\ due[r] = 1 => JustRead(r) /\ wait <= 2
  /\ LastRead(r) /\ ~stale[r] /\ ~wrong[r] => OnItsWay(r)
  /\ due[r] = 0 /\ ~stale[r] /\ ~missed[r] /\ ~wrong[r] => view[r] = out[r]

HostInv == FpgaInv /\ \A r \in Regs : KnowsInv(r)

LEMMA Facts ==
  ASSUME HostInv, NEW r \in Regs
  PROVE  /\ TypeOK /\ KnowsInv(r) /\ r # None
         /\ due[r] \in Nat /\ intr[r] \in {0, 1} /\ wait \in Nat
         /\ flip[r] \in BOOLEAN /\ stale[r] \in BOOLEAN /\ missed[r] \in BOOLEAN
         /\ wrong[r] \in BOOLEAN
         /\ bus # "free" => asked \in Regs /\ due[asked] > 0 /\ clr = None
         /\ clr # None => clr = asked /\ bus = "free" /\ wait = 0
         /\ wait = Gap => clr = None
<1>1. TypeOK /\ Gap \in Nat /\ Gap >= 4 /\ None \notin Regs
  BY Constants DEF HostInv, FpgaInv
<1>2. /\ due[r] \in 0..MaxReads /\ intr[r] \in {0, 1} /\ wait \in 0..Gap
      /\ flip[r] \in BOOLEAN /\ stale[r] \in BOOLEAN /\ missed[r] \in BOOLEAN
      /\ wrong[r] \in BOOLEAN
  BY <1>1 DEF TypeOK
<1>3. /\ bus # "free" => asked \in Regs /\ due[asked] > 0
      /\ clr # None => clr = asked /\ bus = "free" /\ wait = 0
  BY DEF HostInv, FpgaInv
<1>4. QED
  BY <1>1, <1>2, <1>3 DEF HostInv

\* A clock edge after which at most one read is to come: the status has not
\* changed at it, unless the line was being cleared or the last read but one ended.
LEMMA FewReads ==
  ASSUME HostInv, NEW r \in Regs, Signal, NEW over \in Regs \cup {None}, DueAfter(over),
         over # None => due[over] > 0 /\ clr' = over, due'[r] <= 1
  PROVE  /\ due'[r] = IF r = over THEN due[r] - 1 ELSE due[r]
         /\ intr'[r] = 0 => clr' = r
         /\ flip'[r] <=> Changes(r)
         /\ ~Changes(r) => out'[r] = out[r]
         /\ Changes(r) => clr = r \/ (r = over /\ due[r] > 1)
<1> DEFINE Left == IF r = over THEN due[r] - 1 ELSE due[r]
<1>1. /\ due[r] \in Nat /\ intr[r] \in {0, 1} /\ KnowsInv(r) /\ r # None
      /\ MaxReads \in Nat /\ MaxReads >= 2
  BY Facts, Constants
<1>2. due'[r] = IF Falls(r) THEN Owed(Left + Reads) ELSE Left
  BY DEF DueAfter
<1>3. Left \in Nat
  BY <1>1
<1>4. Owed(Left + Reads) \in Nat /\ Owed(Left + Reads) > 1
  BY <1>1, <1>3 DEF Owed, Reads, Twice
<1>5. ~Falls(r) /\ due'[r] = Left
  BY <1>2, <1>4
<1>6. /\ out'[r] = in[r] /\ flip'[r] = Changes(r) /\ intr'[r] = Line(r)
  BY DEF Signal, Flips
<1>7. intr'[r] = 0 => intr[r] = 0 /\ clr # r
  BY <1>1, <1>5, <1>6 DEF Falls, Line
<1>8. intr[r] = 0 => due[r] > 1 \/ clr = r
  BY <1>1 DEF KnowsInv
<1>9. intr'[r] = 0 => clr' = r
  BY <1>1, <1>5, <1>7, <1>8
<1>10. Changes(r) => clr = r \/ (r = over /\ due[r] > 1)
  <2>1. Changes(r) /\ clr # r => intr'[r] = 0
    BY <1>6 DEF Line
  <2>2. QED
    BY <1>1, <1>5, <1>7, <1>8, <2>1
<1>11. QED
  BY <1>5, <1>6, <1>9, <1>10 DEF Changes

\* A write can only be on its way to a register whose input has flipped.
LEMMA WritesFlipped ==
  ASSUME NEW r \in Regs, NEW asks, NEW rises, Top(asks, rises), Writing(r)'
  PROVE  flip[r]
<1>1. CASE Flipped = {}
  BY <1>1 DEF Top, Winners, Writing
<1>2. CASE Flipped # {}
  BY <1>2 DEF Top, Winners, Flipped, Writing
<1>3. QED
  BY <1>1, <1>2

\* A register with one read to come and no recent change holds the status.
LEMMA Holds ==
  ASSUME HostInv, NEW r \in Regs, due[r] = 1, ~JustRead(r) \/ wait > 2, ~stale[r]
  PROVE  ~flip[r] /\ data[r] = out[r]
<1>1. /\ KnowsInv(r) /\ wait \in Nat /\ Follows(r)
  BY Facts DEF HostInv, FpgaInv
<1>2. ~flip[r] /\ ~Writing(r)
  BY <1>1 DEF KnowsInv
<1>3. QED
  BY <1>1, <1>2 DEF Follows

\* What every clock edge keeps, with the host's part of it as hypotheses.
LEMMA KnowsEdge ==
  ASSUME HostInv, NEW r \in Regs, NEW asks \in Regs \cup {None}, NEW rises \in BOOLEAN,
         NEW over \in Regs \cup {None}, NEW s \in {None} \cup Regs,
         Edge(asks, rises), DueAfter(over), Histories(asks, s),
         over # None => due[over] > 0 /\ clr' = over, due'[r] <= 1
  PROVE  /\ intr'[r] = 0 => clr' = r
         /\ Writing(r)' => flip[r]
         /\ ~flip[r] => stale'[r] = stale[r]
         /\ flip'[r] => clr = r \/ (r = over /\ due[r] > 1)
         /\ ~flip'[r] => out'[r] = out[r]
         /\ r # s /\ missed[r] => missed'[r]
         /\ clr = r /\ flip'[r] => missed'[r]
         /\ r # over => due'[r] = due[r]
         /\ r = over => due'[r] = due[r] - 1
<1>1. /\ intr'[r] = 0 => clr' = r
      /\ flip'[r] <=> Changes(r)
      /\ ~Changes(r) => out'[r] = out[r]
      /\ Changes(r) => clr = r \/ (r = over /\ due[r] > 1)
      /\ due'[r] = IF r = over THEN due[r] - 1 ELSE due[r]
  BY FewReads DEF Edge
<1>2. Writing(r)' => flip[r]
  BY WritesFlipped DEF Edge
<1>3. ~flip[r] => stale'[r] = stale[r]
  BY DEF Histories
<1>4. missed'[r] <=> (clr = r /\ Changes(r)) \/ (missed[r] /\ s # r)
  BY Zenon DEF Histories
<1>5. QED
  BY <1>1, <1>2, <1>3, <1>4

LEMMA DueTyped == ASSUME HostInv, Next, NEW r \in Regs PROVE due'[r] \in Nat
<1>1. TypeOK'
  BY NextFpga DEF HostInv, FpgaInv
<1>2. due'[r] \in 0..MaxReads
  BY <1>1 DEF TypeOK
<1>3. QED
  BY <1>2, Constants

\* A clock edge at which nothing happens on the SPI.
LEMMA KnowsQuiet ==
  ASSUME HostInv, Quiet, NEW r \in Regs, due'[r] <= 1
  PROVE  KnowsInv(r)'
<1>0. /\ KnowsInv(r) /\ r # None
      /\ due[r] \in Nat /\ wait \in Nat
      /\ flip[r] \in BOOLEAN /\ stale[r] \in BOOLEAN /\ missed[r] \in BOOLEAN
      /\ bus # "free" => clr = None
      /\ clr # None => clr = asked /\ bus = "free" /\ wait = 0
  BY Facts
<1>1. /\ UNCHANGED <<bus, asked, byte, view, wrong>> /\ clr' = None /\ read' = FALSE
      /\ wait' = (IF wait < Gap THEN wait + 1 ELSE wait) /\ Gap >= 4 /\ Gap \in Nat
      /\ rdValid' = read /\ txByte' = IF rdValid THEN rdByte ELSE txByte
      /\ rdByte' = IF read /\ addr # None THEN data[addr] ELSE rdByte
  BY Constants DEF Quiet, Top, Waits, DataRegister
<1>2. /\ intr'[r] # 0
      /\ Writing(r)' => flip[r]
      /\ ~flip[r] => stale'[r] = stale[r]
      /\ flip'[r] => clr = r
      /\ ~flip'[r] => out'[r] = out[r]
      /\ ~missed'[r] => ~missed[r] /\ ~flip'[r]
      /\ due'[r] = due[r]
  <2>1. Edge(None, FALSE) /\ DueAfter(None) /\ Histories(None, None)
    BY DEF Quiet, Edge
  <2>2. /\ None \in Regs \cup {None} /\ None \in {None} \cup Regs /\ FALSE \in BOOLEAN
        /\ None # None => due[None] > 0 /\ clr' = None
    OBVIOUS
  <2>3. /\ intr'[r] = 0 => clr' = r
        /\ Writing(r)' => flip[r]
        /\ ~flip[r] => stale'[r] = stale[r]
    BY <2>1, <2>2, KnowsEdge
  <2>4. /\ flip'[r] => clr = r \/ (r = None /\ due[r] > 1)
        /\ ~flip'[r] => out'[r] = out[r]
    BY <2>1, <2>2, KnowsEdge
  <2>5. /\ r # None /\ missed[r] => missed'[r]
        /\ clr = r /\ flip'[r] => missed'[r]
    BY <2>1, <2>2, KnowsEdge
  <2>6. r # None => due'[r] = due[r]
    BY <2>1, <2>2, KnowsEdge
  <2>7. QED
    BY <1>0, <1>1, <2>3, <2>4, <2>5, <2>6
<1>3. flip'[r] => (due'[r] = 1 /\ JustRead(r)' /\ wait' <= 1) \/ (due'[r] = 0 /\ missed'[r])
  BY <1>0, <1>1, <1>2 DEF JustRead
<1>4. Writing(r)' /\ due'[r] = 1 => JustRead(r)' /\ wait' <= 2
  BY <1>0, <1>1, <1>2 DEF KnowsInv, JustRead
<1>5. LastRead(r)' /\ ~stale'[r] /\ ~wrong'[r] => OnItsWay(r)'
  <2> SUFFICES ASSUME LastRead(r)', ~stale'[r], ~wrong'[r] PROVE OnItsWay(r)'
    OBVIOUS
  <2>1. LastRead(r) /\ due[r] = 1 /\ ~JustRead(r) /\ ~wrong[r] /\ clr = None
    BY <1>0, <1>1, <1>2 DEF LastRead, JustRead
  <2>2. ~flip[r] /\ ~stale[r]
    BY <1>0, <1>2, <2>1 DEF KnowsInv
  <2>3. data[r] = out[r]
    BY <2>1, <2>2, Holds
  <2>4. OnItsWay(r) /\ out'[r] = out[r]
    BY <1>0, <1>2, <2>1, <2>2 DEF KnowsInv
  <2>5. QED
    BY <1>0, <1>1, <2>3, <2>4 DEF OnItsWay
<1>6. due'[r] = 0 /\ ~stale'[r] /\ ~missed'[r] /\ ~wrong'[r] => view'[r] = out'[r]
  BY <1>0, <1>1, <1>2 DEF KnowsInv
<1>7. QED
  BY <1>2, <1>3, <1>4, <1>5, <1>6 DEF KnowsInv

\* A register that an event of the SPI, long after the one before, is not about.
LEMMA KnowsOther ==
  ASSUME HostInv, NEW r \in Regs, NEW asks \in Regs \cup {None}, NEW rises \in BOOLEAN,
         NEW over \in Regs \cup {None}, NEW s \in {None} \cup Regs,
         Edge(asks, rises), DueAfter(over), Histories(asks, s),
         over # None => due[over] > 0 /\ clr' = over, due'[r] <= 1,
         over # r, s # r, clr' # r, wait = Gap, ~LastRead(r)',
         view'[r] = view[r], wrong'[r] = wrong[r]
  PROVE  KnowsInv(r)'
<1>1. KnowsInv(r) /\ r # None /\ clr = None /\ Gap >= 4 /\ Gap \in Nat
  BY Facts, Constants
<1>2. /\ intr'[r] = 0 => clr' = r
      /\ Writing(r)' => flip[r]
      /\ ~flip[r] => stale'[r] = stale[r]
  BY KnowsEdge
<1>3. /\ flip'[r] => clr = r \/ (r = over /\ due[r] > 1)
      /\ ~flip'[r] => out'[r] = out[r]
  BY KnowsEdge
<1>4. r # s /\ missed[r] => missed'[r]
  BY KnowsEdge
<1>5. r # over => due'[r] = due[r]
  BY KnowsEdge
<1>6. ~flip'[r] /\ out'[r] = out[r] /\ due'[r] = due[r] /\ (missed[r] => missed'[r])
  BY <1>1, <1>3, <1>4, <1>5
<1>7. Writing(r)' => due'[r] # 1
  BY <1>1, <1>2, <1>6 DEF KnowsInv
<1>8. due'[r] = 0 /\ ~stale'[r] /\ ~missed'[r] /\ ~wrong'[r] => view'[r] = out'[r]
  BY <1>1, <1>2, <1>6 DEF KnowsInv
<1>9. QED
  BY <1>2, <1>6, <1>7, <1>8 DEF KnowsInv

\* The address byte of a read.
LEMMA KnowsAsk ==
  ASSUME HostInv, NEW q \in Regs, Ask(q), NEW r \in Regs, due'[r] <= 1
  PROVE  KnowsInv(r)'
<1>1. /\ Edge(q, FALSE) /\ DueAfter(None) /\ Histories(q, None)
      /\ bus' = "sent" /\ asked' = q /\ wait' = 0 /\ wait = Gap /\ bus = "free"
      /\ view' = view /\ wrong' = [wrong EXCEPT ![q] = addr' # q] /\ due[q] > 0
  BY DEF Ask, Edge
<1>2. /\ q \in Regs \cup {None} /\ None \in Regs \cup {None} /\ None \in {None} \cup Regs
      /\ FALSE \in BOOLEAN /\ None # None => due[None] > 0 /\ clr' = None
  OBVIOUS
<1>3. /\ KnowsInv(r) /\ r # None /\ clr = None /\ due[r] \in Nat /\ Gap >= 4 /\ Gap \in Nat
      /\ TypeOK
  BY <1>1, Facts, Constants
<1>4. clr' = None /\ read' = TRUE
  BY <1>1, Constants DEF Edge, Top
<1>5. /\ intr'[r] = 0 => clr' = r
      /\ Writing(r)' => flip[r]
      /\ ~flip[r] => stale'[r] = stale[r]
  BY <1>1, <1>2, KnowsEdge
<1>6. /\ flip'[r] => clr = r \/ (r = None /\ due[r] > 1)
      /\ ~flip'[r] => out'[r] = out[r]
  BY <1>1, <1>2, KnowsEdge
<1>7. r # None => due'[r] = due[r]
  BY <1>1, <1>2, KnowsEdge
<1>8. CASE r = q
  <2>1. due'[r] = 1 /\ due[r] = 1 /\ intr'[r] # 0 /\ ~flip'[r]
    BY <1>1, <1>3, <1>4, <1>5, <1>6, <1>7, <1>8
  <2>2. ~flip[r] /\ ~Writing(r)'
    BY <1>1, <1>3, <1>5, <2>1 DEF KnowsInv
  <2>3. wrong'[r] = (addr' # r)
    BY <1>1, <1>3, <1>8 DEF TypeOK
  <2>4. ~wrong'[r] => addr' = r
    BY <2>3, Zenon
  <2>5. ~wrong'[r] => OnItsWay(r)'
    BY <1>1, <1>4, <2>4 DEF OnItsWay
  <2>6. QED
    BY <2>1, <2>2, <2>5 DEF KnowsInv
<1>9. CASE r # q
  <2>1. view'[r] = view[r] /\ wrong'[r] = wrong[r]
    BY <1>1, <1>3, <1>9 DEF TypeOK
  <2>2. ~LastRead(r)'
    BY <1>1, <1>9 DEF LastRead
  <2>3. None # r /\ clr' # r
    BY <1>3, <1>4
  <2>4. QED
    BY <1>1, <1>2, <2>1, <2>2, <2>3, KnowsOther
<1>10. QED
  BY <1>8, <1>9

\* The shift register takes the byte.
LEMMA KnowsLoad ==
  ASSUME HostInv, Load, NEW r \in Regs, due'[r] <= 1
  PROVE  KnowsInv(r)'
<1>1. /\ Edge(None, FALSE) /\ DueAfter(None) /\ Histories(None, asked)
      /\ bus' = "loaded" /\ asked' = asked /\ wait' = 0 /\ wait = Gap /\ bus = "sent"
      /\ byte' = txByte /\ view' = view /\ wrong' = wrong
  BY DEF Load, Edge
<1>2. /\ KnowsInv(r) /\ r # None /\ clr = None /\ due[r] \in Nat /\ Gap >= 4 /\ Gap \in Nat
      /\ asked \in Regs /\ due[asked] > 0
  BY <1>1, Facts, Constants
<1>3. /\ None \in Regs \cup {None} /\ asked \in {None} \cup Regs
      /\ FALSE \in BOOLEAN /\ None # None => due[None] > 0 /\ clr' = None
  BY <1>2
<1>4. clr' = None
  BY <1>1 DEF Edge, Top
<1>5. /\ intr'[r] = 0 => clr' = r
      /\ Writing(r)' => flip[r]
      /\ ~flip[r] => stale'[r] = stale[r]
  BY <1>1, <1>3, KnowsEdge
<1>6. /\ flip'[r] => clr = r \/ (r = None /\ due[r] > 1)
      /\ ~flip'[r] => out'[r] = out[r]
  BY <1>1, <1>3, KnowsEdge
<1>7. r # None => due'[r] = due[r]
  BY <1>1, <1>3, KnowsEdge
<1>8. CASE r = asked
  <2>1. due'[r] = 1 /\ due[r] = 1 /\ intr'[r] # 0 /\ ~flip'[r] /\ out'[r] = out[r]
    BY <1>2, <1>4, <1>5, <1>6, <1>7, <1>8
  <2>2. ~flip[r] /\ ~Writing(r)'
    <3>1. ~JustRead(r)
      BY <1>1 DEF JustRead
    <3>2. ~flip[r]
      BY <1>2, <2>1, <3>1 DEF KnowsInv
    <3>3. QED
      BY <1>5, <3>2
  <2>3. LastRead(r)
    BY <1>1, <1>8, <2>1 DEF LastRead
  <2>4. ~stale[r] /\ ~wrong[r] => txByte = out[r]
    BY <1>1, <1>2, <2>3 DEF KnowsInv, OnItsWay
  <2>5. ~stale'[r] /\ ~wrong'[r] => OnItsWay(r)'
    BY <1>1, <1>5, <2>1, <2>2, <2>4 DEF OnItsWay
  <2>6. QED
    BY <2>1, <2>2, <2>5 DEF KnowsInv
<1>9. CASE r # asked
  <2>1. ~LastRead(r)' /\ None # r /\ clr' # r /\ view'[r] = view[r] /\ wrong'[r] = wrong[r]
    BY <1>1, <1>2, <1>4, <1>9 DEF LastRead
  <2>2. QED
    BY <1>1, <1>3, <1>9, <2>1, KnowsOther
<1>10. QED
  BY <1>8, <1>9

\* The end of a transfer.
LEMMA KnowsFinish ==
  ASSUME HostInv, Finish, NEW r \in Regs, due'[r] <= 1
  PROVE  KnowsInv(r)'
<1>1. /\ Edge(None, TRUE) /\ DueAfter(asked) /\ Histories(None, None)
      /\ bus' = "free" /\ asked' = asked /\ wait' = 0 /\ wait = Gap /\ bus = "loaded"
      /\ byte' = byte /\ view' = [view EXCEPT ![asked] = byte] /\ wrong' = wrong
  BY DEF Finish, Edge
<1>2. /\ KnowsInv(r) /\ r # None /\ clr = None /\ due[r] \in Nat /\ Gap >= 4 /\ Gap \in Nat
      /\ asked \in Regs /\ due[asked] > 0 /\ TypeOK
  BY <1>1, Facts, Constants
<1>3. clr' = asked
  <2>1. rdAddr = asked
    BY <1>1 DEF HostInv, FpgaInv
  <2>2. QED
    BY <1>1, <2>1 DEF Edge, Top, ClearOf
<1>4. /\ None \in Regs \cup {None} /\ None \in {None} \cup Regs /\ asked \in Regs \cup {None}
      /\ TRUE \in BOOLEAN /\ asked # None => due[asked] > 0 /\ clr' = asked
  BY <1>2, <1>3
<1>5. /\ intr'[r] = 0 => clr' = r
      /\ Writing(r)' => flip[r]
      /\ ~flip[r] => stale'[r] = stale[r]
  BY <1>1, <1>4, KnowsEdge
<1>6. /\ flip'[r] => clr = r \/ (r = asked /\ due[r] > 1)
      /\ ~flip'[r] => out'[r] = out[r]
  BY <1>1, <1>4, KnowsEdge
<1>7. r = asked => due'[r] = due[r] - 1
  BY <1>1, <1>4, KnowsEdge
<1>8. CASE r = asked /\ due[r] = 1
  <2>1. due'[r] = 0 /\ ~flip'[r] /\ out'[r] = out[r] /\ clr' = r
    BY <1>2, <1>3, <1>6, <1>7, <1>8
  <2>2. ~flip[r]
    <3>1. ~JustRead(r)
      BY <1>1 DEF JustRead
    <3>2. QED
      BY <1>2, <1>8, <3>1 DEF KnowsInv
  <2>3. LastRead(r)
    BY <1>1, <1>8 DEF LastRead
  <2>4. ~stale[r] /\ ~wrong[r] => byte = out[r]
    BY <1>1, <1>2, <2>3 DEF KnowsInv, OnItsWay
  <2>5. ~stale'[r] /\ ~wrong'[r] => view'[r] = out'[r]
    <3>1. view'[r] = byte
      BY <1>1, <1>2, <1>8 DEF TypeOK
    <3>2. QED
      BY <1>1, <1>5, <2>1, <2>2, <2>4, <3>1
  <2>6. QED
    BY <2>1, <2>5 DEF KnowsInv, LastRead
<1>9. CASE r = asked /\ due[r] > 1
  <2>1. due'[r] = 1 /\ clr' = r
    <3>1. due'[r] \in Nat
      BY DueTyped DEF Next
    <3>2. QED
      BY <1>2, <1>3, <1>7, <1>9, <3>1
  <2>2. JustRead(r)' /\ wait' = 0 /\ ~LastRead(r)'
    BY <1>1, <1>9 DEF JustRead, LastRead
  <2>3. QED
    BY <2>1, <2>2 DEF KnowsInv
<1>10. CASE r # asked
  <2>1. ~LastRead(r)' /\ None # r /\ clr' # r /\ view'[r] = view[r] /\ wrong'[r] = wrong[r]
    BY <1>1, <1>2, <1>3, <1>10 DEF LastRead, TypeOK
  <2>2. QED
    BY <1>1, <1>4, <1>10, <2>1, KnowsOther
<1>11. QED
  BY <1>2, <1>8, <1>9, <1>10

LEMMA InitHost == Init => HostInv
<1> SUFFICES ASSUME Init PROVE HostInv
  OBVIOUS
<1>1. FpgaInv
  BY InitFpga
<1>2. ASSUME NEW r \in Regs PROVE KnowsInv(r)
  <2>1. /\ intr[r] = 1 /\ flip[r] = FALSE /\ due[r] = 0 /\ view[r] = out[r]
        /\ wrValid = FALSE /\ bus = "free"
    BY <1>2 DEF Init, Each
  <2>2. QED
    BY <2>1 DEF KnowsInv, Writing, LastRead
<1>3. QED
  BY <1>1, <1>2 DEF HostInv

LEMMA NextHost == HostInv /\ [Next]_vars => HostInv'
<1> SUFFICES ASSUME HostInv, [Next]_vars PROVE HostInv'
  OBVIOUS
<1>1. FpgaInv'
  BY NextFpga DEF HostInv
<1>2. ASSUME Next, NEW r \in Regs PROVE KnowsInv(r)'
  <2>1. due'[r] \in Nat
    BY <1>2, DueTyped
  \* With two reads to come nothing else is claimed.
  <2>2. CASE due'[r] > 1
    BY <2>2 DEF KnowsInv, LastRead
  <2>3. CASE due'[r] <= 1
    <3>1. CASE Quiet
      BY <2>3, <3>1, KnowsQuiet
    <3>2. ASSUME NEW q \in Regs, Ask(q) PROVE KnowsInv(r)'
      BY <2>3, <3>2, KnowsAsk
    <3>3. CASE Load
      BY <2>3, <3>3, KnowsLoad
    <3>4. CASE Finish
      BY <2>3, <3>4, KnowsFinish
    <3>5. QED
      BY <1>2, <3>1, <3>2, <3>3, <3>4 DEF Next
  <2>4. QED
    BY <2>1, <2>2, <2>3
<1>3. ASSUME UNCHANGED vars, NEW r \in Regs PROVE KnowsInv(r)'
  <2>1. KnowsInv(r)
    BY DEF HostInv
  <2>2. QED
    BY <1>3, <2>1 DEF vars, signals, memory, port, host, KnowsInv, JustRead, LastRead,
                      OnItsWay, Writing
<1>4. QED
  BY <1>1, <1>2, <1>3 DEF HostInv

\* What the host knows, what is on its way to it and what is still owed to it
\* fit together at every clock edge.
THEOREM HostInvHolds == Spec => []HostInv
  BY InitHost, NextHost, PTL DEF Spec

\* The host knows the status of every input that has come to rest, but for the
\* three collisions that stale, missed and wrong record.
THEOREM HostKnowsStatus == Spec => []HostKnows
<1>1. HostInv => HostKnows
  BY DEF HostInv, HostKnows, KnowsInv, Settled
<1>2. QED
  BY <1>1, HostInvHolds, PTL

-----------------------------------------------------------------------------
(* The SPI slave.  Where it is in a transfer follows from the master's pins:*)
(* each part of the invariant gives the registers of one circuit as a       *)
(* function of the bits clocked and the edges since the clock moved.        *)

\* The bits of a byte.
B == Msb + 1

\* The rises and the falls of the clock that the slave has dealt with.
Risen  == IF sck = 1 /\ since <= Delay + 1 THEN sent - 1 ELSE sent
Fallen == IF sent > 0 /\ (sck = 1 \/ since <= Delay + 1) THEN sent - 1 ELSE sent

\* The bits clocked when the slave was last set back, for the byte it is in.
Back == sck = 0 /\ since >= Delay + 4
From == IF sent < B \/ (sent = B /\ ~Back) THEN 0
        ELSE IF sent < 2 * B \/ (sent = 2 * B /\ ~Back) THEN B ELSE 2 * B

\* Set back, and the first bit not yet on the line.
Fresh == sck = 0 /\ (\/ sent = 0 /\ since = Delay
                     \/ sent \in {B, 2 * B} /\ since = Delay + 4)

MasterInv ==
  /\ cs = 1 => sck = 0 /\ since >= Delay
  /\ sck = 1 => sent > 0
  /\ sent = 0 => since >= Delay
  /\ Len(got) = sent

\* The signals that last one edge.
SignalInv ==
  /\ prev = IF cs = 0 /\ sent > 0 /\ since <= Delay THEN 1 - sck ELSE sck
  /\ rise <=> cs = 0 /\ sck = 1 /\ since = Delay + 1
  /\ fall <=> cs = 0 /\ sck = 0 /\ sent > 0 /\ since = Delay + 1
  /\ rxValid <=> cs = 0 /\ sck = 1 /\ sent \in {B, 2 * B} /\ since = Delay + 2
  /\ txReady <=> cs = 0 /\ sck = 0 /\ sent \in {B, 2 * B} /\ since = Delay + 2
  /\ txValid <=> cs = 0 /\ sck = 0 /\ sent \in {B, 2 * B} /\ since = Delay + 3
  /\ fetch = IF cs = 0 /\ sck = 1 /\ sent = B /\ since = Delay + 3 THEN 2
             ELSE IF cs = 0 /\ sck = 1 /\ sent = B /\ since = Delay + 4 THEN 1 ELSE 0

CounterInv ==
  /\ cs = 1 /\ since > Delay =>
       edgesLeft = MaxEdge /\ rxBit = Msb /\ txBit = Msb /\ byteNum = 0
  /\ cs = 0 =>
       /\ edgesLeft = MaxEdge - (Risen - From) - (Fallen - From)
       /\ rxBit = IF Risen - From <= Msb THEN Msb - (Risen - From) ELSE 0
       /\ txBit = IF Fresh THEN Msb
                  ELSE IF Fallen - From < Msb THEN Msb - 1 - (Fallen - From) ELSE 0
       /\ byteNum = IF sent < B \/ (sent = B /\ sck = 1 /\ since <= Delay + 2) THEN 0
                    ELSE IF sent < 2 * B \/ (sent = 2 * B /\ sck = 1 /\ since <= Delay + 2)
                    THEN 1 ELSE 2

\* What has been received of the byte.
RxInv ==
  cs = 0 /\ From < 2 * B =>
    \A x \in 0..Msb : x > Msb - (Risen - From) => rxByte[x] = msg[IF From = 0 THEN 1 ELSE 2][x]

\* The register asked for.
Asked == Answer(msg[1])

TxInv ==
  cs = 0 =>
    /\ sent > B \/ (sent = B /\ (sck = 0 \/ since >= Delay + 5)) => answer = Asked
    /\ From = B => shiftByte = Asked
    /\ From = B /\ ~Fresh /\ Fallen - B <= Msb => miso = Asked[Msb - (Fallen - B)]
    /\ sck = 0 /\ B <= sent /\ sent < 2 * B /\ since >= Delay + 6 =>
         misoReg = Asked[Msb - (sent - B)]

GotInv == \A m \in 1..(2 * B) : B < m /\ m <= sent => got[m] = Asked[2 * B - m]

SpiInv == SpiTypeOK /\ MasterInv /\ SignalInv /\ CounterInv /\ RxInv /\ TxInv /\ GotInv

LEMMA SpiNumbers ==
  Msb \in Nat /\ Msb > 0 /\ Delay \in Nat /\ Half \in Nat /\ Half >= Delay + 6 /\ Bytes = 2
  BY SpiAssumption DEF Bytes

LEMMA Signals ==
  ASSUME SpiTypeOK, MasterInv, SignalInv, CounterInv, SlaveEdge
  PROVE  /\ prev' = IF cs = 0 /\ sent > 0 /\ since < Delay THEN 1 - sck ELSE sck
         /\ rise' <=> cs = 0 /\ sck = 1 /\ since = Delay
         /\ fall' <=> cs = 0 /\ sck = 0 /\ sent > 0 /\ since = Delay
         /\ rxValid' <=> cs = 0 /\ sck = 1 /\ sent \in {B, 2 * B} /\ since = Delay + 1
         /\ txReady' <=> cs = 0 /\ sck = 0 /\ sent \in {B, 2 * B} /\ since = Delay + 1
         /\ txValid' <=> cs = 0 /\ sck = 0 /\ sent \in {B, 2 * B} /\ since = Delay + 2
         /\ fetch' = IF cs = 0 /\ sck = 1 /\ sent = B /\ since = Delay + 2 THEN 2
                     ELSE IF cs = 0 /\ sck = 1 /\ sent = B /\ since = Delay + 3 THEN 1 ELSE 0
<1> USE SpiNumbers
<1>0. /\ cs \in {0, 1} /\ sck \in {0, 1} /\ since \in 0..Half /\ sent \in 0..(2 * B)
      /\ B = Msb + 1 /\ MaxEdge = 2 * B /\ prev \in {0, 1}
  BY DEF SpiTypeOK, Level, B, MaxEdge
<1>1. Seen = IF cs = 0 /\ sent > 0 /\ since < Delay THEN 1 - sck ELSE sck
  BY <1>0 DEF Seen, MasterInv
<1>2. /\ prev' = Seen
      /\ rise' <=> prev # Seen /\ Seen = 1
      /\ fall' <=> prev # Seen /\ Seen = 0
  BY Zenon DEF SlaveEdge, Edges
<1>3. prev = IF cs = 0 /\ sent > 0 /\ since <= Delay THEN 1 - sck ELSE sck
  BY DEF SignalInv
<1>4. rise' <=> cs = 0 /\ sck = 1 /\ since = Delay
  BY <1>0, <1>1, <1>2, <1>3 DEF MasterInv
<1>5. fall' <=> cs = 0 /\ sck = 0 /\ sent > 0 /\ since = Delay
  BY <1>0, <1>1, <1>2, <1>3 DEF MasterInv
<1>6. rxValid' <=> cs = 0 /\ sck = 1 /\ sent \in {B, 2 * B} /\ since = Delay + 1
  <2>1. rxValid' <=> cs = 0 /\ rise /\ rxBit = 0
    BY Zenon DEF SlaveEdge, Receive
  <2>2. rise <=> cs = 0 /\ sck = 1 /\ since = Delay + 1
    BY DEF SignalInv
  <2>3. ASSUME cs = 0, sck = 1, since = Delay + 1
        PROVE  rxBit = 0 <=> sent \in {B, 2 * B}
    BY <1>0, <2>3 DEF CounterInv, Risen, From, Back, MasterInv
  <2>. QED BY <2>1, <2>2, <2>3
<1>7. txReady' <=> cs = 0 /\ sck = 0 /\ sent \in {B, 2 * B} /\ since = Delay + 1
  <2>1. CASE cs = 0 /\ fall
    <3>1. ~txValid
      BY <1>0, <2>1 DEF SignalInv
    <3>2. txReady' = (txBit = 0 /\ LastEdge)
      BY <2>1, <3>1 DEF SlaveEdge, Miso
    <3>3. sck = 0 /\ sent > 0 /\ since = Delay + 1
      BY <2>1 DEF SignalInv
    <3>4. (txBit = 0 /\ edgesLeft = 1) <=> sent \in {B, 2 * B}
      BY <1>0, <2>1, <3>3 DEF CounterInv, Risen, Fallen, From, Back, Fresh
    <3>. QED BY <2>1, <3>2, <3>3, <3>4 DEF LastEdge
  <2>2. CASE ~(cs = 0 /\ fall)
    <3>1. ~txReady'
      BY <1>0, <2>2 DEF SlaveEdge, Miso
    <3>. QED BY <1>0, <2>2, <3>1 DEF SignalInv
  <2>. QED BY <2>1, <2>2
<1>8. txValid' <=> cs = 0 /\ sck = 0 /\ sent \in {B, 2 * B} /\ since = Delay + 2
  BY <1>0 DEF SlaveEdge, Fetch, SignalInv
<1>9. fetch' = IF cs = 0 /\ sck = 1 /\ sent = B /\ since = Delay + 2 THEN 2
               ELSE IF cs = 0 /\ sck = 1 /\ sent = B /\ since = Delay + 3 THEN 1 ELSE 0
  BY <1>0 DEF SlaveEdge, Fetch, AddressOf, SignalInv, CounterInv
<1>. QED BY <1>1, <1>2, <1>4, <1>5, <1>6, <1>7, <1>8, <1>9

LEMMA SlaveTyped ==
  ASSUME SpiTypeOK, MasterInv, SignalInv, CounterInv, SlaveEdge
  PROVE  /\ rise' \in BOOLEAN /\ fall' \in BOOLEAN /\ prev' \in Level
         /\ shiftByte' \in Byte /\ txBit' \in 0..Msb /\ rxByte' \in Byte /\ rxBit' \in 0..Msb
         /\ edgesLeft' \in 0..MaxEdge /\ miso' \in Level
         /\ txReady' \in BOOLEAN /\ txValid' \in BOOLEAN /\ rxValid' \in BOOLEAN
         /\ byteNum' \in 0..Bytes /\ answer' \in Byte /\ fetch' \in 0..2
         /\ misoReg' \in Level
<1> USE SpiNumbers
<1>1. rise' \in BOOLEAN /\ fall' \in BOOLEAN
  BY Zenon DEF SlaveEdge, Edges
<1>2. prev' \in Level
  BY DEF SlaveEdge, Edges, Seen, SpiTypeOK, Level
<1>3. shiftByte' \in Byte
  <2>1. Zero \in Byte
    BY DEF Zero, Byte, Level
  <2>2. shiftByte' \in {Zero, answer, shiftByte}
    BY Zenon DEF SlaveEdge, Miso
  <2>. QED BY <2>1, <2>2 DEF SpiTypeOK
<1>4. txBit' \in 0..Msb
  <2>1. txBit \in 0..Msb
    BY DEF SpiTypeOK
  <2>2. \/ txBit' = Msb \/ txBit' = Msb - 1 \/ txBit' = txBit
        \/ txBit > 0 /\ txBit' = txBit - 1
    BY DEF SlaveEdge, Miso
  <2>. QED BY <2>1, <2>2
<1>5. miso' \in Level
  <2>1. /\ miso \in Level /\ txBit \in 0..Msb /\ Msb \in 0..Msb
        /\ shiftByte \in [0..Msb -> Level] /\ 0 \in Level
    BY DEF SpiTypeOK, Byte, Level
  <2>2. miso' \in {0, miso, shiftByte[txBit], shiftByte[Msb]}
    BY Zenon DEF SlaveEdge, Miso
  <2>. QED BY <2>1, <2>2
<1>6. Mosi \in Level
  <2>1. Now \in 0..(2 * (Msb + 1))
    BY DEF Now, SpiTypeOK, MasterInv, Level
  <2>2. \A n \in 0..(2 * Msb + 1) : BitAt(n) \in Level
    <3>1. msg[1] \in [0..Msb -> Level] /\ msg[2] \in [0..Msb -> Level]
      BY DEF SpiTypeOK, Byte
    <3>. QED BY <3>1 DEF BitAt
  <2>. QED BY <2>1, <2>2 DEF Mosi
<1>7. rxByte' \in Byte
  <2>1. rxByte \in [0..Msb -> Level] /\ rxBit \in 0..Msb
    BY DEF SpiTypeOK, Byte
  <2>. QED BY <1>6, <2>1 DEF SlaveEdge, Receive, Byte
<1>8. rxBit' \in 0..Msb
  BY DEF SlaveEdge, Receive, FirstBit, SpiTypeOK
<1>9. edgesLeft' \in 0..MaxEdge
  BY DEF SlaveEdge, EdgeCount, MaxEdge, SpiTypeOK
<1>10. txValid' \in BOOLEAN /\ rxValid' \in BOOLEAN
  BY Zenon DEF SlaveEdge, Fetch, Receive, SpiTypeOK
<1>11. txReady' \in BOOLEAN
  BY Zenon DEF SlaveEdge, Miso
<1>12. byteNum' \in 0..Bytes
  <2>1. byteNum \in 0..2 /\ sent \in 0..(2 * (Msb + 1)) /\ since \in 0..Half
    BY DEF SpiTypeOK
  <2>2. rxValid => byteNum \in 0..1
    BY <2>1 DEF SignalInv, CounterInv
  <2>. QED BY <2>1, <2>2 DEF SlaveEdge, Fetch
<1>13. answer' \in Byte
  BY SpiAssumption DEF SlaveEdge, Fetch, SpiTypeOK
<1>14. fetch' \in 0..2
  BY DEF SlaveEdge, Fetch, SpiTypeOK
<1>15. misoReg' \in Level
  BY DEF SlaveEdge, Fetch, SpiTypeOK
<1>. QED BY <1>1, <1>2, <1>3, <1>4, <1>5, <1>7, <1>8, <1>9, <1>10, <1>11, <1>12, <1>13, <1>14, <1>15

ControlInv == SpiTypeOK /\ MasterInv /\ SignalInv /\ CounterInv

LEMMA StepTyped ==
  ASSUME ControlInv, SpiNext
  PROVE  SpiTypeOK' /\ MasterInv'
<1> USE SpiNumbers
<1>0. SpiTypeOK /\ MasterInv /\ SignalInv /\ CounterInv /\ SlaveEdge
  BY DEF ControlInv, SpiNext, Wait, Select, Rise, Fall, Deselect
<1>1. /\ cs \in Level /\ sck \in Level /\ since \in 0..Half /\ msg \in Byte \X Byte
      /\ sent \in 0..(2 * (Msb + 1)) /\ got \in Seq(Level) /\ misoReg \in Level
  BY <1>0 DEF SpiTypeOK
<1>2. /\ cs' \in Level /\ sck' \in Level /\ since' \in 0..Half /\ sent' \in 0..(2 * (Msb + 1))
      /\ msg' \in Byte \X Byte
  BY <1>0, <1>1 DEF SpiNext, Wait, Select, Rise, Fall, Deselect, Level, Over, MasterInv
<1>3. got' \in Seq(Level) /\ Len(got') = sent'
  <2>1. CASE Rise
    BY <1>0, <1>1, <2>1, AppendProperties DEF Rise, MasterInv
  <2>2. CASE Select
    BY <2>2 DEF Select
  <2>3. CASE Wait \/ Fall \/ Deselect
    BY <1>0, <1>1, <2>3 DEF Wait, Fall, Deselect, MasterInv
  <2>. QED BY <2>1, <2>2, <2>3 DEF SpiNext
<1>4. SpiTypeOK'
  BY <1>0, <1>2, <1>3, SlaveTyped DEF SpiTypeOK
<1>5. /\ cs' = 1 => sck' = 0 /\ since' >= Delay
      /\ sck' = 1 => sent' > 0
      /\ sent' = 0 => since' >= Delay
  BY <1>0, <1>1 DEF SpiNext, Wait, Select, Rise, Fall, Deselect, Level, Over, MasterInv
<1>. QED BY <1>3, <1>4, <1>5 DEF MasterInv

LEMMA StepSignals ==
  ASSUME ControlInv, SpiNext
  PROVE  SignalInv'
<1> USE SpiNumbers
<1>0. SpiTypeOK /\ MasterInv /\ SignalInv /\ CounterInv /\ SlaveEdge
  BY DEF ControlInv, SpiNext, Wait, Select, Rise, Fall, Deselect
<1>1. /\ cs \in {0, 1} /\ sck \in {0, 1} /\ since \in 0..Half /\ sent \in 0..(2 * B) /\ B = Msb + 1
  BY <1>0 DEF SpiTypeOK, Level, B
<1>2. MasterInv
  BY <1>0
<1>3. /\ prev' = IF cs = 0 /\ sent > 0 /\ since < Delay THEN 1 - sck ELSE sck
      /\ rise' <=> cs = 0 /\ sck = 1 /\ since = Delay
      /\ fall' <=> cs = 0 /\ sck = 0 /\ sent > 0 /\ since = Delay
      /\ rxValid' <=> cs = 0 /\ sck = 1 /\ sent \in {B, 2 * B} /\ since = Delay + 1
      /\ txReady' <=> cs = 0 /\ sck = 0 /\ sent \in {B, 2 * B} /\ since = Delay + 1
      /\ txValid' <=> cs = 0 /\ sck = 0 /\ sent \in {B, 2 * B} /\ since = Delay + 2
      /\ fetch' = IF cs = 0 /\ sck = 1 /\ sent = B /\ since = Delay + 2 THEN 2
                  ELSE IF cs = 0 /\ sck = 1 /\ sent = B /\ since = Delay + 3 THEN 1 ELSE 0
  BY <1>0, Signals
<1>4. CASE Wait
  <2>1. /\ cs' = cs /\ sck' = sck /\ sent' = sent
        /\ since' = IF since < Half THEN since + 1 ELSE since
    BY <1>4 DEF Wait
  <2>. QED BY <1>1, <1>2, <1>3, <2>1 DEF SignalInv, B, MasterInv
<1>5. CASE Select
  <2>1. cs = 1 /\ since = Half /\ cs' = 0 /\ sent' = 0 /\ since' = Delay /\ sck' = sck
    BY <1>5 DEF Select
  <2>. QED BY <1>1, <1>2, <1>3, <2>1 DEF SignalInv, B, MasterInv
<1>6. CASE Rise
  <2>1. cs = 0 /\ cs' = 0 /\ sck = 0 /\ since = Half /\ sck' = 1 /\ since' = 0 /\ sent' = sent + 1
    BY <1>6 DEF Rise
  <2>. QED BY <1>1, <1>2, <1>3, <2>1 DEF SignalInv, B, MasterInv
<1>7. CASE Fall
  <2>1. cs = 0 /\ cs' = 0 /\ sck = 1 /\ since = Half /\ sck' = 0 /\ since' = 0 /\ sent' = sent
    BY <1>7 DEF Fall
  <2>. QED BY <1>1, <1>2, <1>3, <2>1 DEF SignalInv, B, MasterInv
<1>8. CASE Deselect
  <2>1. cs = 0 /\ since = Half /\ sck = 0 /\ cs' = 1 /\ since' = Delay /\ sck' = sck /\ sent' = sent
    BY <1>8 DEF Deselect, Over
  <2>. QED BY <1>1, <1>2, <1>3, <2>1 DEF SignalInv, B, MasterInv
<1>. QED BY <1>4, <1>5, <1>6, <1>7, <1>8 DEF SpiNext

LEMMA StepCounters ==
  ASSUME ControlInv, SpiNext
  PROVE  CounterInv'
<1> USE SpiNumbers
<1>0. SpiTypeOK /\ MasterInv /\ SignalInv /\ CounterInv /\ SlaveEdge
  BY DEF ControlInv, SpiNext, Wait, Select, Rise, Fall, Deselect
<1>1. /\ cs \in {0, 1} /\ sck \in {0, 1} /\ since \in 0..Half /\ sent \in 0..(2 * B) /\ B = Msb + 1
      /\ edgesLeft \in 0..(2 * B) /\ rxBit \in 0..Msb /\ txBit \in 0..Msb /\ byteNum \in 0..2
      /\ MaxEdge = 2 * B
  BY <1>0 DEF SpiTypeOK, Level, B, MaxEdge
<1>2. /\ edgesLeft' = IF cs = 1 \/ txValid THEN MaxEdge
                      ELSE IF edgesLeft > 0 /\ (rise \/ fall) THEN edgesLeft - 1 ELSE edgesLeft
      /\ rxBit' = IF cs = 1 THEN Msb
                  ELSE IF rise /\ rxBit > 0 THEN rxBit - 1
                  ELSE IF txValid THEN Msb ELSE rxBit
      /\ txBit' = IF cs = 1 \/ txValid THEN Msb
                  ELSE IF fall THEN IF txBit > 0 THEN txBit - 1 ELSE txBit
                  ELSE IF edgesLeft = MaxEdge THEN Msb - 1 ELSE txBit
      /\ byteNum' = IF rxValid THEN byteNum + 1 ELSE IF cs = 1 THEN 0 ELSE byteNum
  BY <1>0, <1>1 DEF SlaveEdge, EdgeCount, Receive, FirstBit, Miso, Fetch
<1>3. /\ rise <=> cs = 0 /\ sck = 1 /\ since = Delay + 1
      /\ fall <=> cs = 0 /\ sck = 0 /\ sent > 0 /\ since = Delay + 1
      /\ rxValid <=> cs = 0 /\ sck = 1 /\ sent \in {B, 2 * B} /\ since = Delay + 2
      /\ txValid <=> cs = 0 /\ sck = 0 /\ sent \in {B, 2 * B} /\ since = Delay + 3
  BY <1>0 DEF SignalInv
<1>4. MasterInv /\ CounterInv
  BY <1>0
<1>5. ASSUME cs = 0, since = Half
      PROVE  /\ edgesLeft' = edgesLeft /\ rxBit' = rxBit /\ txBit' = txBit /\ byteNum' = byteNum
  BY <1>1, <1>2, <1>3, <1>4, <1>5 DEF CounterInv, MasterInv, Risen, Fallen, From, Back, Fresh
<1>6. CASE Select
  <2>1. cs = 1 /\ since = Half /\ cs' = 0 /\ sent' = 0 /\ since' = Delay /\ sck' = sck
    BY <1>6 DEF Select
  <2>2. ~rise /\ ~fall /\ ~rxValid /\ ~txValid
    BY <1>3, <2>1
  <2>3. edgesLeft' = 2 * B /\ rxBit' = Msb /\ txBit' = Msb /\ byteNum' = 0
    BY <1>1, <1>2, <2>1, <2>2
  <2>. QED BY <1>1, <1>4, <2>1, <2>3 DEF CounterInv, MasterInv, Risen, Fallen, From, Back, Fresh, B, MaxEdge
<1>7. CASE Rise
  <2>1. /\ cs = 0 /\ cs' = 0 /\ sck = 0 /\ since = Half /\ sck' = 1 /\ since' = 0 /\ sent' = sent + 1
        /\ sent # 2 * B
    BY <1>1, <1>7 DEF Rise, Over, Bytes
  <2>2. From' = From /\ Risen' = Risen /\ Fallen' = Fallen /\ Fresh' = Fresh
    BY <1>1, <1>4, <2>1 DEF MasterInv, Risen, Fallen, From, Back, Fresh, B
  <2>. QED BY <1>1, <1>4, <1>5, <2>1, <2>2 DEF CounterInv, B, MaxEdge
<1>8. CASE Fall
  <2>1. cs = 0 /\ cs' = 0 /\ sck = 1 /\ since = Half /\ sck' = 0 /\ since' = 0 /\ sent' = sent
    BY <1>8 DEF Fall
  <2>2. From' = From /\ Risen' = Risen /\ Fallen' = Fallen /\ Fresh' = Fresh
    BY <1>1, <1>4, <2>1 DEF MasterInv, Risen, Fallen, From, Back, Fresh, B
  <2>. QED BY <1>1, <1>4, <1>5, <2>1, <2>2 DEF CounterInv, B, MaxEdge
<1>9. CASE Deselect
  <2>1. cs' = 1 /\ since' = Delay
    BY <1>9 DEF Deselect
  <2>. QED BY <2>1 DEF CounterInv
<1>10. CASE Wait
  <2>1. /\ cs' = cs /\ sck' = sck /\ sent' = sent
        /\ since' = IF since < Half THEN since + 1 ELSE since
    BY <1>10 DEF Wait
  <2>2. CASE cs = 1
    <3>1. edgesLeft' = MaxEdge /\ rxBit' = Msb /\ txBit' = Msb /\ byteNum' = 0
      BY <1>1, <1>2, <1>3, <2>2
    <3>. QED BY <2>1, <2>2, <3>1 DEF CounterInv, MaxEdge
  <2>3. CASE cs = 0 /\ since = Half
    <3>1. since' = since
      BY <2>1, <2>3
    <3>2. From' = From /\ Risen' = Risen /\ Fallen' = Fallen /\ Fresh' = Fresh
      BY <2>1, <3>1 DEF Risen, Fallen, From, Back, Fresh, B
    <3>. QED BY <1>1, <1>4, <1>5, <2>1, <2>3, <3>1, <3>2 DEF CounterInv, B, MaxEdge
  <2>4. CASE cs = 0 /\ since < Half
    <3>1. cs' = 0 /\ since' = since + 1
      BY <2>1, <2>4
    <3>2. edgesLeft' = MaxEdge - (Risen' - From') - (Fallen' - From')
      BY <1>1, <1>2, <1>3, <1>4, <2>1, <2>4, <3>1 DEF CounterInv, MasterInv, Risen, Fallen, From, Back, B
    <3>3. rxBit' = IF Risen' - From' <= Msb THEN Msb - (Risen' - From') ELSE 0
      BY <1>1, <1>2, <1>3, <1>4, <2>1, <2>4, <3>1 DEF CounterInv, MasterInv, Risen, From, Back, B
    <3>4. txBit' = IF Fresh' THEN Msb
                   ELSE IF Fallen' - From' < Msb THEN Msb - 1 - (Fallen' - From') ELSE 0
      BY <1>1, <1>2, <1>3, <1>4, <2>1, <2>4, <3>1 DEF CounterInv, MasterInv, Risen, Fallen, From, Back, Fresh, B
    <3>5. byteNum' = IF sent < B \/ (sent = B /\ sck = 1 /\ since' <= Delay + 2) THEN 0
                     ELSE IF sent < 2 * B \/ (sent = 2 * B /\ sck = 1 /\ since' <= Delay + 2)
                     THEN 1 ELSE 2
      BY <1>1, <1>2, <1>3, <1>4, <2>1, <2>4, <3>1 DEF CounterInv, MasterInv
    <3>. QED BY <1>1, <2>1, <3>1, <3>2, <3>3, <3>4, <3>5 DEF CounterInv, B, MaxEdge
  <2>. QED BY <1>1, <2>2, <2>3, <2>4
<1>. QED BY <1>6, <1>7, <1>8, <1>9, <1>10 DEF SpiNext

\* While the clock moves, the slave rests.
LEMMA Still ==
  ASSUME ControlInv, SpiNext, cs = 0, since = Half, cs' = 0
  PROVE  /\ From' = From /\ Risen' = Risen /\ Fallen' = Fallen /\ Fresh' = Fresh /\ msg' = msg
         /\ ~rise /\ ~fall /\ ~txValid /\ fetch = 0
<1> USE SpiNumbers
<1>1. MasterInv /\ SignalInv
  BY DEF ControlInv
<1>2. cs \in {0, 1} /\ sck \in {0, 1} /\ since \in 0..Half /\ sent \in 0..(2 * B) /\ B = Msb + 1
  BY DEF ControlInv, SpiTypeOK, Level, B
<1>3. /\ \/ sck' = sck /\ sent' = sent /\ since' = since
         \/ sck = 0 /\ sck' = 1 /\ since' = 0 /\ sent' = sent + 1 /\ sent # 2 * B
         \/ sck = 1 /\ sck' = 0 /\ since' = 0 /\ sent' = sent
      /\ msg' = msg
  BY <1>2 DEF SpiNext, Wait, Select, Rise, Fall, Deselect, Over, Bytes
<1>4. From' = From /\ Risen' = Risen /\ Fallen' = Fallen /\ Fresh' = Fresh
  BY <1>1, <1>2, <1>3 DEF MasterInv, Risen, Fallen, From, Back, Fresh, B
<1>5. ~rise /\ ~fall /\ ~txValid /\ fetch = 0
  BY <1>1, <1>2 DEF SignalInv
<1>. QED BY <1>3, <1>4, <1>5

LEMMA StepRx ==
  ASSUME ControlInv, RxInv, SpiNext
  PROVE  RxInv'
<1> USE SpiNumbers
<1>0. MasterInv /\ SignalInv /\ CounterInv /\ SlaveEdge
  BY DEF ControlInv, SpiNext, Wait, Select, Rise, Fall, Deselect
<1>1. /\ cs \in {0, 1} /\ sck \in {0, 1} /\ since \in 0..Half /\ sent \in 0..(2 * B) /\ B = Msb + 1
      /\ rxByte \in [0..Msb -> Level] /\ rxBit \in 0..Msb
  BY DEF ControlInv, SpiTypeOK, Level, B, Byte
<1>2. rxByte' = IF cs = 0 /\ rise THEN [rxByte EXCEPT ![rxBit] = Mosi] ELSE rxByte
  BY <1>0 DEF SlaveEdge, Receive
<1>3. CASE cs' = 1
  BY <1>3 DEF RxInv
<1>4. CASE Select
  <2>1. sent' = 0 /\ since' = Delay /\ sck' = 0
    BY <1>0, <1>4 DEF Select, MasterInv
  <2>2. Risen' = 0 /\ From' = 0
    BY <2>1 DEF Risen, From, B
  <2>. QED BY <2>2 DEF RxInv
<1>5. CASE cs = 0 /\ since = Half /\ cs' = 0
  <2>1. From' = From /\ Risen' = Risen /\ msg' = msg /\ rxByte' = rxByte
    BY <1>2, <1>5, Still
  <2>. QED BY <1>5, <2>1 DEF RxInv, B
<1>6. CASE Wait /\ cs = 0 /\ since < Half
  <2>1. cs' = 0 /\ sck' = sck /\ sent' = sent /\ msg' = msg /\ since' = since + 1
    BY <1>6 DEF Wait
  <2>2. CASE rise
    <3>1. sck = 1 /\ since = Delay + 1 /\ sent > 0
      BY <1>0, <2>2 DEF SignalInv, MasterInv
    <3>2. PICK k \in {1, 2} : /\ From' = From /\ Risen = sent - 1 /\ Risen' = sent
                              /\ From = IF k = 1 THEN 0 ELSE B
                              /\ k = IF From = 0 THEN 1 ELSE 2
                              /\ Risen - From \in 0..Msb
      BY <1>1, <2>1, <3>1 DEF Risen, From, Back, B
    <3>3. rxBit = Msb - (Risen - From)
      BY <1>0, <1>6, <3>2 DEF CounterInv
    <3>4. Mosi = msg[k][rxBit]
      <4>1. Now = sent - 1 /\ Now <= 2 * Msb + 1 /\ Now >= 0
        BY <1>1, <3>1 DEF Now
      <4>2. Mosi = BitAt(sent - 1)
        BY <1>1, <4>1 DEF Mosi
      <4>3. CASE k = 1
        <5>1. sent - 1 <= Msb /\ rxBit = Msb - (sent - 1)
          BY <1>1, <3>1, <3>2, <3>3, <4>3
        <5>. QED BY <4>2, <4>3, <5>1 DEF BitAt
      <4>4. CASE k = 2
        <5>1. ~ (sent - 1 <= Msb) /\ rxBit = 2 * Msb + 1 - (sent - 1)
          BY <1>1, <3>1, <3>2, <3>3, <4>4
        <5>. QED BY <4>2, <4>4, <5>1 DEF BitAt
      <4>. QED BY <4>3, <4>4
    <3>5. rxByte' = [rxByte EXCEPT ![rxBit] = msg[k][rxBit]]
      BY <1>2, <1>6, <2>2, <3>4
    <3>6. \A x \in 0..Msb : x > Msb - (Risen - From) => rxByte[x] = msg[k][x]
      BY <1>1, <1>6, <3>2 DEF RxInv
    <3>7. ASSUME NEW x \in 0..Msb, x > Msb - (Risen' - From') PROVE rxByte'[x] = msg[k][x]
      <4>1. Risen - From \in 0..Msb /\ Risen' - From' = (Risen - From) + 1
        BY <1>1, <3>2
      <4>2. x = rxBit \/ x > Msb - (Risen - From)
        BY <1>1, <3>3, <3>7, <4>1
      <4>. QED BY <1>1, <3>5, <3>6, <4>2
    <3>8. k = IF From' = 0 THEN 1 ELSE 2
      BY <3>2
    <3>. QED BY <2>1, <3>7, <3>8 DEF RxInv
  <2>3. CASE ~rise
    <3>1. rxByte' = rxByte
      BY <1>2, <2>3
    <3>2. ~ (sck = 1 /\ since = Delay + 1)
      BY <1>0, <1>6, <2>3 DEF SignalInv
    <3>3. \/ From' = From /\ Risen' = Risen
          \/ Risen' - From' = 0
      BY <1>1, <2>1, <3>2 DEF Risen, From, Back, B
    <3>4. CASE Risen' - From' = 0
      BY <1>1, <3>4 DEF RxInv
    <3>5. CASE From' = From /\ Risen' = Risen
      BY <1>6, <2>1, <3>1, <3>5 DEF RxInv, B
    <3>. QED BY <3>3, <3>4, <3>5
  <2>. QED BY <2>2, <2>3
<1>. QED
  BY <1>1, <1>3, <1>4, <1>5, <1>6 DEF SpiNext, Wait, Select, Rise, Fall, Deselect

\* A byte that is complete is the one that was sent.
LEMMA Complete ==
  ASSUME ControlInv, RxInv, NEW k \in {1, 2}, cs = 0, sent = k * B, sck = 1, since >= Delay + 2
  PROVE  rxByte = msg[k]
<1> USE SpiNumbers
<1>1. /\ since \in 0..Half /\ B = Msb + 1 /\ sent \in Nat
      /\ rxByte \in [0..Msb -> Level] /\ msg[k] \in [0..Msb -> Level]
  BY DEF ControlInv, SpiTypeOK, B, Byte
<1>2. Msb - (Risen - From) = -1 /\ From < 2 * B /\ k = IF From = 0 THEN 1 ELSE 2
  BY <1>1 DEF Risen, From, Back, B
<1>3. ASSUME NEW x \in 0..Msb PROVE rxByte[x] = msg[k][x]
  <2>1. x > -1
    OBVIOUS
  <2>. QED BY <1>2, <2>1 DEF RxInv
<1>4. rxByte = [x \in 0..Msb |-> rxByte[x]] /\ msg[k] = [x \in 0..Msb |-> msg[k][x]]
  BY <1>1
<1>5. [x \in 0..Msb |-> rxByte[x]] = [x \in 0..Msb |-> msg[k][x]]
  BY <1>3
<1>. QED BY <1>4, <1>5

LEMMA StepTx ==
  ASSUME ControlInv, RxInv, TxInv, SpiNext
  PROVE  TxInv'
<1> USE SpiNumbers
<1>0. MasterInv /\ SignalInv /\ CounterInv /\ SlaveEdge
  BY DEF ControlInv, SpiNext, Wait, Select, Rise, Fall, Deselect
<1>1. /\ cs \in {0, 1} /\ sck \in {0, 1} /\ since \in 0..Half /\ sent \in 0..(2 * B) /\ B = Msb + 1
      /\ MaxEdge = 2 * B
  BY DEF ControlInv, SpiTypeOK, Level, B, MaxEdge
<1>2. CASE cs' = 1
  BY <1>2 DEF TxInv
<1>3. CASE Select
  <2>1. sent' = 0 /\ From' = 0
    BY <1>3 DEF Select, From, B
  <2>. QED BY <1>1, <2>1 DEF TxInv, B
<1>4. CASE cs = 0 /\ cs' = 0
  <2>1. /\ msg' = msg /\ Asked' = Asked
        /\ \/ sck' = sck /\ sent' = sent /\ since' = IF since < Half THEN since + 1 ELSE since
           \/ since = Half /\ sck = 0 /\ sck' = 1 /\ since' = 0 /\ sent' = sent + 1 /\ sent # 2 * B
           \/ since = Half /\ sck = 1 /\ sck' = 0 /\ since' = 0 /\ sent' = sent
    BY <1>1, <1>4 DEF SpiNext, Wait, Select, Rise, Fall, Deselect, Over, Bytes, Asked
  <2>2. since = Half =>
          /\ From' = From /\ Fallen' = Fallen /\ Fresh' = Fresh
          /\ ~fall /\ ~txValid
    BY <1>4, Still
  <2>3. /\ txValid <=> sck = 0 /\ sent \in {B, 2 * B} /\ since = Delay + 3
        /\ fall <=> sck = 0 /\ sent > 0 /\ since = Delay + 1
    BY <1>0, <1>4 DEF SignalInv
  \* The register is fetched in the high half of the last clock of the address.
  <2>4. ASSUME sent' > B \/ (sent' = B /\ (sck' = 0 \/ since' >= Delay + 5))
        PROVE  answer' = Asked
    <3>1. CASE fetch = 1
      <4>1. sck = 1 /\ sent = 1 * B /\ since = Delay + 4
        BY <1>1, <3>1 DEF ControlInv, SignalInv
      <4>2. rxByte = msg[1]
        BY <1>1, <1>4, <4>1, Complete
      <4>. QED BY <1>0, <3>1, <4>2 DEF SlaveEdge, Fetch, Asked
    <3>2. CASE fetch # 1
      <4>1. ~ (sck = 1 /\ sent = B /\ since = Delay + 4)
        BY <1>1, <1>4, <3>2 DEF ControlInv, SignalInv
      <4>2. sent > B \/ (sent = B /\ (sck = 0 \/ since >= Delay + 5))
        BY <1>1, <2>1, <2>4, <4>1
      <4>3. answer = Asked
        BY <1>4, <4>2 DEF TxInv
      <4>. QED BY <1>0, <3>2, <4>3 DEF SlaveEdge, Fetch
    <3>. QED BY <3>1, <3>2
  <2>5. ASSUME From' = B PROVE shiftByte' = Asked
    <3>1. CASE txValid
      <4>1. sent = B /\ sck = 0
        BY <1>1, <2>1, <2>2, <2>3, <2>5, <3>1 DEF From, Back, B
      <4>2. answer = Asked
        BY <1>1, <1>4, <4>1 DEF TxInv
      <4>. QED BY <1>0, <1>4, <3>1, <4>2 DEF SlaveEdge, Miso
    <3>2. CASE ~txValid
      <4>1. From = B
        BY <1>1, <2>1, <2>2, <2>3, <2>5, <3>2 DEF From, Back, B
      <4>2. shiftByte' = shiftByte
        BY <1>0, <1>4, <3>2 DEF SlaveEdge, Miso
      <4>. QED BY <1>4, <4>1, <4>2 DEF TxInv
    <3>. QED BY <3>1, <3>2
  <2>6. ASSUME From' = B, ~Fresh', Fallen' - B <= Msb
        PROVE  miso' = Asked[Msb - (Fallen' - B)]
    <3>1. ~txValid /\ From = B /\ shiftByte = Asked
      BY <1>1, <1>4, <2>1, <2>2, <2>3, <2>6 DEF From, Back, Fresh, B, TxInv
    <3>2. CASE fall
      <4>1. since < Half /\ ~Fresh /\ Fallen = sent - 1 /\ Fallen' = sent
        BY <1>1, <2>1, <2>2, <2>3, <3>2 DEF Fallen, Fresh
      <4>2. txBit = Msb - (Fallen' - B)
        BY <1>0, <1>1, <1>4, <2>6, <3>1, <4>1 DEF CounterInv
      <4>. QED BY <1>0, <1>4, <3>1, <3>2, <4>2 DEF SlaveEdge, Miso
    <3>3. CASE ~fall /\ edgesLeft = MaxEdge
      <4>1. Fallen' = B
        BY <1>0, <1>1, <1>4, <2>1, <2>2, <2>3, <3>1, <3>3 DEF CounterInv, MasterInv, Risen, Fallen, From, Back, B
      <4>2. miso' = shiftByte[Msb] /\ Msb - (B - B) = Msb
        BY <1>0, <1>1, <1>4, <3>1, <3>3 DEF SlaveEdge, Miso
      <4>. QED BY <3>1, <4>1, <4>2
    <3>4. CASE ~fall /\ edgesLeft # MaxEdge
      <4>1. Fallen' = Fallen /\ ~Fresh
        BY <1>0, <1>1, <1>4, <2>1, <2>2, <2>3, <3>1, <3>4 DEF CounterInv, MasterInv, Risen, Fallen, From, Back, Fresh, B
      <4>2. miso' = miso
        BY <1>0, <1>4, <3>1, <3>4 DEF SlaveEdge, Miso
      <4>. QED BY <1>4, <2>6, <3>1, <4>1, <4>2 DEF TxInv
    <3>. QED BY <3>2, <3>3, <3>4
  <2>7. ASSUME sck' = 0, B <= sent', sent' < 2 * B, since' >= Delay + 6
        PROVE  misoReg' = Asked[Msb - (sent' - B)]
    <3>1. sck = 0 /\ sent' = sent /\ since >= Delay + 5
      BY <1>1, <2>1, <2>7
    <3>2. From = B /\ ~Fresh /\ Fallen = sent /\ Fallen - B <= Msb
      BY <1>1, <2>7, <3>1 DEF From, Fresh, Back, Fallen
    <3>3. miso = Asked[Msb - (Fallen - B)]
      BY <1>4, <3>2 DEF TxInv
    <3>. QED BY <1>0, <3>1, <3>2, <3>3 DEF SlaveEdge, Fetch
  <2>. QED BY <1>1, <2>1, <2>4, <2>5, <2>6, <2>7 DEF TxInv, B
<1>. QED
  BY <1>1, <1>2, <1>3, <1>4 DEF SpiNext, Wait, Select, Rise, Fall, Deselect

LEMMA StepGot ==
  ASSUME ControlInv, TxInv, GotInv, SpiNext
  PROVE  GotInv'
<1> USE SpiNumbers
<1>1. /\ cs \in {0, 1} /\ sck \in {0, 1} /\ since \in 0..Half /\ sent \in 0..(2 * B) /\ B = Msb + 1
      /\ got \in Seq(Level) /\ misoReg \in Level /\ Len(got) = sent
  BY DEF ControlInv, SpiTypeOK, MasterInv, Level, B
<1>2. CASE Select
  BY <1>1, <1>2 DEF Select, GotInv, B
<1>3. CASE Rise
  <2>1. /\ cs = 0 /\ sck = 0 /\ since = Half /\ sent' = sent + 1 /\ got' = Append(got, misoReg)
        /\ sent < 2 * B /\ Asked' = Asked
    BY <1>1, <1>3 DEF Rise, Over, Bytes, Asked
  <2>2. ASSUME NEW m \in 1..(2 * B), B < m, m <= sent + 1
        PROVE  got'[m] = Asked[2 * B - m]
    <3>1. CASE m = sent + 1
      <4>1. misoReg = Asked[Msb - (sent - B)]
        BY <1>1, <2>1, <2>2, <3>1 DEF TxInv
      <4>2. Msb - (sent - B) = 2 * B - m
        BY <1>1, <3>1
      <4>3. got'[m] = misoReg
        BY <1>1, <2>1, <3>1, AppendProperties
      <4>. QED BY <4>1, <4>2, <4>3
    <3>2. CASE m <= sent
      <4>1. got'[m] = got[m]
        BY <1>1, <2>1, <2>2, <3>2, AppendProperties
      <4>. QED BY <2>2, <3>2, <4>1 DEF GotInv
    <3>. QED BY <1>1, <2>2, <3>1, <3>2
  <2>. QED BY <2>1, <2>2 DEF GotInv, B
<1>4. CASE Wait \/ Fall \/ Deselect
  <2>1. sent' = sent /\ got' = got /\ Asked' = Asked
    BY <1>4 DEF Wait, Fall, Deselect, Asked
  <2>. QED BY <2>1 DEF GotInv, B
<1>. QED BY <1>2, <1>3, <1>4 DEF SpiNext

LEMMA InitSpi == SpiInit => SpiInv
<1> SUFFICES ASSUME SpiInit PROVE SpiInv
  OBVIOUS
<1> USE SpiNumbers DEF SpiInit
<1>1. Zero \in Byte /\ 0 \in Level /\ 1 \in Level
  BY DEF Zero, Byte, Level
<1>2. SpiTypeOK
  <2>1. cs \in Level /\ sck \in Level /\ prev \in Level /\ miso \in Level /\ misoReg \in Level
    BY <1>1
  <2>2. msg \in Byte \X Byte /\ shiftByte \in Byte /\ rxByte \in Byte /\ answer \in Byte
    BY <1>1
  <2>3. /\ since \in 0..Half /\ sent \in 0..(Bytes * (Msb + 1)) /\ txBit \in 0..Msb
        /\ rxBit \in 0..Msb /\ edgesLeft \in 0..MaxEdge /\ byteNum \in 0..Bytes /\ fetch \in 0..2
    BY DEF MaxEdge
  <2>4. got \in Seq(Level)
    OBVIOUS
  <2>5. /\ rise \in BOOLEAN /\ fall \in BOOLEAN
        /\ txReady \in BOOLEAN /\ txValid \in BOOLEAN /\ rxValid \in BOOLEAN
    BY Zenon
  <2>. QED BY <2>1, <2>2, <2>3, <2>4, <2>5 DEF SpiTypeOK
<1>3. MasterInv
  BY DEF MasterInv
<1>4. SignalInv /\ CounterInv
  BY DEF SignalInv, CounterInv
<1>5. RxInv /\ TxInv /\ GotInv
  BY DEF RxInv, TxInv, GotInv, B
<1>. QED BY <1>2, <1>3, <1>4, <1>5 DEF SpiInv

LEMMA NextSpi == SpiInv /\ [SpiNext]_spiVars => SpiInv'
<1> SUFFICES ASSUME SpiInv, [SpiNext]_spiVars PROVE SpiInv'
  OBVIOUS
<1>1. CASE SpiNext
  <2>1. ControlInv /\ RxInv /\ TxInv /\ GotInv
    BY DEF SpiInv, ControlInv
  <2>. QED BY <1>1, <2>1, StepTyped, StepSignals, StepCounters, StepRx, StepTx, StepGot DEF SpiInv
<1>2. CASE UNCHANGED spiVars
  <2> USE <1>2 DEF spiVars, master, slave, top
  <2>1. SpiTypeOK' /\ MasterInv'
    BY DEF SpiInv, SpiTypeOK, MasterInv
  <2>2. From' = From /\ Risen' = Risen /\ Fallen' = Fallen /\ Fresh' = Fresh /\ Asked' = Asked
    BY DEF From, Risen, Fallen, Fresh, Back, Asked, B
  <2>3. SignalInv' /\ CounterInv'
    BY <2>2 DEF SpiInv, SignalInv, CounterInv, B, MaxEdge
  <2>4. RxInv' /\ TxInv' /\ GotInv'
    BY <2>2 DEF SpiInv, RxInv, TxInv, GotInv, B
  <2>. QED BY <2>1, <2>3, <2>4 DEF SpiInv
<1>. QED BY <1>1, <1>2

\* Every register of the slave, and every signal between it and top, is where
\* the master's clock has brought it, at every edge.
THEOREM SpiInvHolds == SpiSpec => []SpiInv
  BY InitSpi, NextSpi, PTL DEF SpiSpec

LEMMA InvImpliesExact == SpiInv => TransferExact
<1> SUFFICES ASSUME SpiInv PROVE TransferExact
  OBVIOUS
<1> USE SpiNumbers
<1>1. /\ ControlInv /\ RxInv /\ GotInv /\ SignalInv /\ CounterInv
      /\ sent \in 0..(2 * B) /\ since \in 0..Half /\ B = Msb + 1
  BY DEF SpiInv, ControlInv, SpiTypeOK, B
<1>2. BytesArrive
  <2> SUFFICES ASSUME rxValid PROVE byteNum < 2 /\ rxByte = msg[byteNum + 1]
    BY DEF BytesArrive
  <2>1. cs = 0 /\ sck = 1 /\ sent \in {B, 2 * B} /\ since = Delay + 2
    BY <1>1 DEF SignalInv
  <2>2. byteNum \in {0, 1} /\ sent = (byteNum + 1) * B
    BY <1>1, <2>1 DEF CounterInv
  <2>3. byteNum + 1 \in {1, 2}
    BY <2>2
  <2>. QED BY <1>1, <2>1, <2>2, <2>3, Complete
<1>3. AnswerArrives
  <2> SUFFICES ASSUME Over PROVE Received(2) = Asked
    BY DEF AnswerArrives, Asked
  <2>1. sent = 2 * B /\ Asked \in [0..Msb -> Level]
    BY SpiAssumption DEF SpiInv, SpiTypeOK, Asked, Over, Byte, B
  <2>2. \A i \in 0..Msb : got[2 * (Msb + 1) - i] = Asked[i]
    BY <1>1, <2>1 DEF GotInv
  <2>3. Asked = [i \in 0..Msb |-> Asked[i]]
    BY <2>1
  <2>4. [i \in 0..Msb |-> got[2 * (Msb + 1) - i]] = [i \in 0..Msb |-> Asked[i]]
    BY <2>2
  <2>. QED BY <2>3, <2>4 DEF Received
<1>4. AllCounted
  BY <1>1 DEF AllCounted, Over, CounterInv
<1>. QED BY <1>2, <1>3, <1>4 DEF TransferExact

\* Two bytes go over the SPI exactly, in both directions, whatever the word
\* length, the delay of the clock pin and the registers, as long as half a
\* period of spi_clk is Delay + 6 edges or more.
THEOREM TransfersAreExact == SpiSpec => []TransferExact
  BY SpiInvHolds, InvImpliesExact, PTL
=============================================================================
