------------------------ MODULE StepperControl_proofs ------------------------
(***************************************************************************)
(* ControlInv of StepperControl is inductive for every number of axes and  *)
(* every length of the programs, when the user keeps to Calm; the safety   *)
(* properties of StepperControl follow from it.  That no axis carries out  *)
(* a block twice does not depend on the user: OrderInv is inductive for    *)
(* any Calm.                                                               *)
(***************************************************************************)
EXTENDS StepperControl, TLAPS

AllCalm == Calm = {"rest", "alone", "seen", "steady"}

USE ControlAssumption

(* Helpers: the longest program, the pins, queues of one message.          *)

LEMMA LastIsLongest == Last \in Nat /\ \A p \in Programs : Blocks[p] \in Nat /\ Blocks[p] <= Last
<1> DEFINE S == {Blocks[p] : p \in Programs}
<1>1. \A p \in Programs : Blocks[p] \in Nat
  OBVIOUS
<1>2. \E n \in S : \A p \in Programs : n >= Blocks[p]
  <2>1. \A i, j, l \in Nat : \E n \in {i, j, l} : n >= i /\ n >= j /\ n >= l
    OBVIOUS
  <2>2. S = {Blocks["cur"], Blocks["auto"], Blocks["mdi"]}
    BY DEF Programs
  <2> QED
    BY <1>1, <2>1, <2>2 DEF Programs
<1>3. Last \in S /\ \A p \in Programs : Last >= Blocks[p]
  BY <1>2 DEF Last
<1> QED
  BY <1>1, <1>3

LEMMA PinLevels ==
  /\ Pins("armed") = Pins("run")
  /\ Pins("idle").ready /\ Pins("idle").still /\ Pins("idle").sync
  /\ ~Pins("run").ready /\ ~Pins("run").still /\ ~Pins("run").sync
  /\ ~Pins("held").ready /\ Pins("held").still /\ Pins("held").sync
  /\ ~Pins("jog").ready /\ ~Pins("jog").still /\ Pins("jog").sync
<1>1. ASSUME NEW s
      PROVE  /\ Pins(s).ready = (s = "idle")
             /\ Pins(s).still = (s \in {"idle", "held"})
             /\ Pins(s).sync = (s \notin {"armed", "run"})
  BY Zenon DEF Pins
<1>2. Pins("armed") = Pins("run")
  BY DEF Pins
<1>3. ASSUME NEW s
      PROVE  /\ Pins(s).ready <=> s = "idle"
             /\ Pins(s).still <=> s \in {"idle", "held"}
             /\ Pins(s).sync <=> s \notin {"armed", "run"}
  BY <1>1, Zenon
<1> QED
  BY <1>2, <1>3

LEMMA PinsTyped == ASSUME NEW s \in State PROVE Pins(s) \in Level
<1>1. /\ (s = "idle") \in BOOLEAN /\ (s \in {"idle", "held"}) \in BOOLEAN
      /\ (s \notin {"armed", "run"}) \in BOOLEAN
  OBVIOUS
<1> QED
  BY <1>1 DEF Pins, Level

LEMMA OneMessage ==
  ASSUME NEW S, NEW m \in S
  PROVE  /\ Append(<<>>, m) = <<m>> /\ Head(<<m>>) = m /\ Tail(<<m>>) = <<>>
         /\ Len(<<m>>) = 1 /\ <<m>> # <<>> /\ <<m>> \in Seq(S) /\ <<m>>[1] = m
OBVIOUS

LEMMA Messages ==
  /\ \A c \in {"line", "jog", "pause", "resume"} : Plain(c) \in Command /\ Plain(c).cmd = c
  /\ NoBlock \in Block
BY LastIsLongest DEF Plain, Command, NoBlock, Block, Programs

LEMMA CurrentTyped ==
  ASSUME TypeOK, prog # "none"
  PROVE  Current \in Block /\ Line \in Command /\ Line.cmd = "line" /\ Line.block = Current
BY DEF TypeOK, Current, Line, Block, Command

(* An axis that a step leaves alone keeps its invariant.                   *)

LEMMA SameAxis ==
  ASSUME NEW b \in Axes, AxisInv(b), UNCHANGED <<pc, k, proc, lap>>,
         st'[b] = st[b], q'[b] = q[b], view'[b] = view[b], sem'[b] = sem[b],
         permit'[b] = permit[b], blk'[b] = blk[b]
  PROVE  AxisInv(b)'
BY DEF AxisInv, Free, Jogging, Going, Holding, Called, Rest, Follows, Waited, Running,
       Held, Owed, Current, Line, proc

-----------------------------------------------------------------------------
(* What an axis can find in its queue, and where the handler is then.      *)

LineAsked(a)   == /\ q[a] = <<Line>> /\ st[a] = "idle" /\ view[a] = Pins("idle")
                  /\ Follows(a)
                  /\ (pc \in {"line", "resume"} /\ a < k) \/ (pc = "wait" /\ ~(a < k))
ResumeAsked(a) == /\ q[a] = <<Plain("resume")>> /\ st[a] = "held" /\ view[a] = Pins("held")
                  /\ blk[a] = Current
                  /\ (pc \in {"line", "resume"} /\ a < k) \/ (pc = "wait" /\ ~(a < k))
PauseAsked(a)  == /\ q[a] = <<Plain("pause")>> /\ st[a] = "run" /\ view[a] = Pins("run")
                  /\ blk[a] = Current
                  /\ (pc = "pause" /\ a < k) \/ (Free /\ paused)
JogAsked(a)    == /\ q[a] = <<Plain("jog")>> /\ st[a] = "idle"
                  /\ view[a] \in {Pins("idle"), Pins("jog")}
                  /\ Free /\ ~running

LEMMA QueueCases ==
  ASSUME ControlInv, NEW a \in Axes
  PROVE  \/ q[a] = <<>> \/ LineAsked(a) \/ ResumeAsked(a) \/ PauseAsked(a) \/ JogAsked(a)
<1>1. AxisInv(a) /\ TypeOK
  BY DEF ControlInv
<1>2. CASE Free
  BY <1>1, <1>2 DEF AxisInv, Free, Jogging, Going, Holding, JogAsked, PauseAsked
<1>3. CASE pc = "line"
  BY <1>1, <1>3 DEF AxisInv, Called, Rest, LineAsked, ResumeAsked
<1>4. CASE pc = "wait"
  BY <1>1, <1>4 DEF AxisInv, Called, Waited, LineAsked, ResumeAsked
<1>5. CASE pc = "pause"
  BY <1>1, <1>5 DEF AxisInv, Holding, Running, PauseAsked
<1>6. CASE pc = "resume"
  BY <1>1, <1>6 DEF AxisInv, Called, Held, LineAsked, ResumeAsked
<1> QED
  BY <1>1, <1>2, <1>3, <1>4, <1>5, <1>6 DEF TypeOK, Free

-----------------------------------------------------------------------------
(* The steps of an axis.                                                   *)

LEMMA TakeCases ==
  ASSUME ControlInv, NEW a \in Axes, NEW c, Take(a, c)
  PROVE  /\ q' = [q EXCEPT ![a] = <<>>]
         /\ c = "line" => LineAsked(a) /\ Head(q[a]).block = Current
         /\ c = "jog" => JogAsked(a)
         /\ c = "pause" => PauseAsked(a)
         /\ c = "resume" => ResumeAsked(a)
<1>1. /\ Plain("resume").cmd = "resume" /\ Plain("pause").cmd = "pause"
      /\ Plain("jog").cmd = "jog" /\ Line.cmd = "line" /\ Line.block = Current
  BY DEF Plain, Line
<1>2. \A m : Head(<<m>>) = m /\ Tail(<<m>>) = <<>>
  OBVIOUS
<1>3. q[a] # <<>> /\ Head(q[a]).cmd = c /\ q' = [q EXCEPT ![a] = Tail(q[a])]
  BY DEF Take
<1>4. \/ LineAsked(a) /\ q[a] = <<Line>>
      \/ ResumeAsked(a) /\ q[a] = <<Plain("resume")>>
      \/ PauseAsked(a) /\ q[a] = <<Plain("pause")>>
      \/ JogAsked(a) /\ q[a] = <<Plain("jog")>>
  BY <1>3, QueueCases DEF LineAsked, ResumeAsked, PauseAsked, JogAsked
<1>5. \A m : q[a] = <<m>> => q' = [q EXCEPT ![a] = <<>>] /\ Head(q[a]) = m /\ m.cmd = c
  BY <1>2, <1>3
<1>6. CASE LineAsked(a) /\ q[a] = <<Line>>
  <2>1. c = "line" /\ Head(q[a]) = Line /\ q' = [q EXCEPT ![a] = <<>>]
    BY <1>1, <1>5, <1>6
  <2>2. QED
    BY <1>1, <1>6, <2>1
<1>7. CASE ResumeAsked(a) /\ q[a] = <<Plain("resume")>>
  <2>1. c = "resume" /\ q' = [q EXCEPT ![a] = <<>>]
    BY <1>1, <1>5, <1>7
  <2>2. QED
    BY <1>7, <2>1
<1>8. CASE PauseAsked(a) /\ q[a] = <<Plain("pause")>>
  <2>1. c = "pause" /\ q' = [q EXCEPT ![a] = <<>>]
    BY <1>1, <1>5, <1>8
  <2>2. QED
    BY <1>8, <2>1
<1>9. CASE JogAsked(a) /\ q[a] = <<Plain("jog")>>
  <2>1. c = "jog" /\ q' = [q EXCEPT ![a] = <<>>]
    BY <1>1, <1>5, <1>9
  <2>2. QED
    BY <1>9, <2>1
<1> QED
  BY <1>4, <1>6, <1>7, <1>8, <1>9

LEMMA TakeTyped ==
  ASSUME TypeOK, NEW a \in Axes, q' = [q EXCEPT ![a] = <<>>]
  PROVE  q' \in [Axes -> Seq(Command)] /\ \A b \in Axes : Len(q'[b]) <= QueueLen
BY DEF TypeOK, QueueLen

LEMMA LineStep ==
  ASSUME ControlInv, NEW a \in Axes, HandleLine(a)
  PROVE  ControlInv'
<1> USE DEF HandleLine, gui, proc
<1>1. LineAsked(a) /\ q' = [q EXCEPT ![a] = <<>>] /\ blk' = [blk EXCEPT ![a] = Current]
  BY TakeCases
<1>2. running /\ prog # "none" /\ Current \in Block
  BY <1>1, CurrentTyped DEF ControlInv, HandlerInv, LineAsked
<1>3. TypeOK'
  <2>1. /\ q' \in [Axes -> Seq(Command)] /\ \A b \in Axes : Len(q'[b]) <= QueueLen
        /\ TypeOK
    BY <1>1, TakeTyped DEF ControlInv
  <2> QED
    BY <2>1, <1>1, <1>2 DEF TypeOK, State
<1>4. HandlerInv'
  BY <1>1 DEF ControlInv, HandlerInv, LineAsked
<1>5. AxisInv(a)'
  <2>1. q'[a] = <<>> /\ st'[a] = "armed" /\ blk'[a] = Current'
    BY <1>1 DEF Current, ControlInv, TypeOK
  <2> QED
    BY <2>1, <1>1, PinLevels
       DEF ControlInv, AxisInv, Free, Called, Waited, Owed, LineAsked
<1>6. \A b \in Axes \ {a} : AxisInv(b)'
  BY <1>1, SameAxis DEF ControlInv, TypeOK
<1> QED
  BY <1>3, <1>4, <1>5, <1>6 DEF ControlInv

LEMMA JogStep ==
  ASSUME ControlInv, NEW a \in Axes, HandleJog(a)
  PROVE  ControlInv'
<1> USE DEF HandleJog, gui, proc
<1>1. JogAsked(a) /\ q' = [q EXCEPT ![a] = <<>>]
  BY TakeCases
<1>2. TypeOK'
  <2>1. /\ q' \in [Axes -> Seq(Command)] /\ \A b \in Axes : Len(q'[b]) <= QueueLen
        /\ TypeOK
    BY <1>1, TakeTyped DEF ControlInv
  <2> QED
    BY <2>1 DEF TypeOK, State
<1>3. HandlerInv'
  BY <1>1 DEF ControlInv, HandlerInv, JogAsked
<1>4. AxisInv(a)'
  BY <1>1, PinLevels DEF ControlInv, TypeOK, HandlerInv, AxisInv, Free, Jogging, Owed, JogAsked
<1>5. \A b \in Axes \ {a} : AxisInv(b)'
  BY <1>1, SameAxis DEF ControlInv, TypeOK
<1> QED
  BY <1>2, <1>3, <1>4, <1>5 DEF ControlInv

LEMMA NothingIgnored ==
  ASSUME ControlInv, NEW a \in Axes
  PROVE  ~HandleIgnored(a)
BY TakeCases DEF HandleIgnored, LineAsked, JogAsked

LEMMA PauseStep ==
  ASSUME ControlInv, NEW a \in Axes, HandlePause(a)
  PROVE  ControlInv'
<1> USE DEF HandlePause, HeldNow, gui, proc
<1>1. PauseAsked(a) /\ q' = [q EXCEPT ![a] = <<>>]
  BY TakeCases
<1>2. TypeOK'
  <2>1. /\ q' \in [Axes -> Seq(Command)] /\ \A b \in Axes : Len(q'[b]) <= QueueLen
        /\ TypeOK
    BY <1>1, TakeTyped DEF ControlInv
  <2> QED
    BY <2>1 DEF TypeOK, State
<1>3. HandlerInv'
  BY <1>1 DEF ControlInv, HandlerInv, PauseAsked
<1>4. AxisInv(a)'
  <2>1. q'[a] = <<>> /\ st'[a] = "held" /\ blk'[a] = Current'
    BY <1>1 DEF Current, ControlInv, TypeOK, PauseAsked
  <2> QED
    BY <2>1, <1>1, PinLevels
       DEF ControlInv, HandlerInv, AxisInv, Free, Holding, Owed, PauseAsked
<1>5. \A b \in Axes \ {a} : AxisInv(b)'
  BY <1>1, SameAxis DEF ControlInv, TypeOK
<1> QED
  BY <1>2, <1>3, <1>4, <1>5 DEF ControlInv

LEMMA ResumeStep ==
  ASSUME ControlInv, NEW a \in Axes, HandleResume(a)
  PROVE  ControlInv'
<1> USE DEF HandleResume, gui, proc
<1>1. ResumeAsked(a) /\ q' = [q EXCEPT ![a] = <<>>]
  BY TakeCases
<1>2. TypeOK'
  <2>1. /\ q' \in [Axes -> Seq(Command)] /\ \A b \in Axes : Len(q'[b]) <= QueueLen
        /\ TypeOK
    BY <1>1, TakeTyped DEF ControlInv
  <2> QED
    BY <2>1 DEF TypeOK, State
<1>3. HandlerInv'
  BY <1>1 DEF ControlInv, HandlerInv, ResumeAsked
<1>4. AxisInv(a)'
  <2>1. q'[a] = <<>> /\ st'[a] = "armed" /\ blk'[a] = Current'
    BY <1>1 DEF Current, ControlInv, TypeOK, ResumeAsked
  <2> QED
    BY <2>1, <1>1, PinLevels
       DEF ControlInv, AxisInv, Free, Called, Waited, Owed, ResumeAsked
<1>5. \A b \in Axes \ {a} : AxisInv(b)'
  BY <1>1, SameAxis DEF ControlInv, TypeOK
<1> QED
  BY <1>2, <1>3, <1>4, <1>5 DEF ControlInv

LEMMA LaunchStep ==
  ASSUME ControlInv, NEW a \in Axes, Launch(a)
  PROVE  ControlInv'
<1> USE DEF Launch, gui, proc
<1>1. Free /\ running /\ ~paused /\ Going(a) /\ "mode" \notin enabled /\ st[a] = "armed"
  BY PinLevels
     DEF ControlInv, TypeOK, HandlerInv, AxisInv, Free, Jogging, Going, Holding
<1>2. TypeOK'
  BY DEF ControlInv, TypeOK, State
<1>3. HandlerInv'
  BY <1>1 DEF ControlInv, HandlerInv
<1>4. AxisInv(a)'
  <2>1. st'[a] = "run" /\ ~permit'[a] /\ Current' = Current
    BY DEF Current, ControlInv, TypeOK
  <2> QED
    BY <2>1, <1>1, PinLevels DEF ControlInv, AxisInv, Free, Going, Owed
<1>5. \A b \in Axes \ {a} : AxisInv(b)'
  BY <1>1, SameAxis DEF ControlInv, TypeOK
<1> QED
  BY <1>2, <1>3, <1>4, <1>5 DEF ControlInv

LEMMA EndStep ==
  ASSUME ControlInv, NEW a \in Axes, MoveEnd(a)
  PROVE  ControlInv'
<1> USE DEF MoveEnd, gui, proc
<1>1. ASSUME st[a] = "jog" PROVE AxisInv(a)'
  <2>1. Free /\ ~running /\ Jogging(a)
    BY <1>1, PinLevels
       DEF ControlInv, TypeOK, AxisInv, Free, Jogging, Going, Holding, Called, Rest,
           Waited, Running, Held
  <2> QED
    BY <1>1, <2>1, PinLevels
       DEF ControlInv, TypeOK, HandlerInv, AxisInv, Free, Jogging, Owed
<1>2. ASSUME st[a] = "run", ~HoldComes PROVE AxisInv(a)'
  <2>1. q[a] = <<>>
    <3>1. /\ 1 \in 1..Len(<<Plain("pause")>>) /\ <<Plain("pause")>>[1].cmd = "pause"
      BY DEF Plain
    <3> QED
      BY <1>2, <3>1, QueueCases
         DEF HoldComes, LineAsked, ResumeAsked, PauseAsked, JogAsked
  <2>2. Free /\ running /\ ~paused
    <3>1. pc # "pause" /\ <<Plain("pause")>> # <<>>
      BY <1>2 DEF HoldComes
    <3> QED
      BY <1>2, <2>1, <3>1
         DEF ControlInv, TypeOK, AxisInv, Free, Jogging, Holding, Called, Rest, Waited, Held
  <2>3. Going(a) /\ "mode" \notin enabled
    BY <1>2, <2>2 DEF ControlInv, HandlerInv, AxisInv
  <2>4. st'[a] = "idle" /\ Current' = Current
    BY DEF Current, ControlInv, TypeOK
  <2> QED
    BY <2>2, <2>3, <2>4, <1>2, PinLevels DEF ControlInv, AxisInv, Free, Going, Owed
<1>3. AxisInv(a)'
  BY <1>1, <1>2
<1>4. TypeOK'
  BY DEF ControlInv, TypeOK, State
<1>5. HandlerInv'
  BY DEF ControlInv, TypeOK, HandlerInv
<1>6. \A b \in Axes \ {a} : AxisInv(b)'
  BY SameAxis DEF ControlInv, TypeOK
<1> QED
  BY <1>3, <1>4, <1>5, <1>6 DEF ControlInv

-----------------------------------------------------------------------------
(* A reader thread.                                                        *)

LEMMA ReadStep ==
  ASSUME AllCalm, ControlInv, NEW a \in Axes, ReadStatus(a)
  PROVE  ControlInv'
<1> USE DEF ReadStatus, Post, gui, proc, axes
<1>1. view' = [view EXCEPT ![a] = Pins(st[a])] /\ Pins(st[a]) \in Level
  BY PinsTyped DEF ControlInv, TypeOK
<1>2. sem' \in [Axes -> Nat] /\ \A b \in Axes \ {a} : sem'[b] = sem[b]
  BY DEF ControlInv, TypeOK
<1>3. TypeOK'
  BY <1>1, <1>2 DEF ControlInv, TypeOK
<1>4. HandlerInv'
  BY <1>1 DEF AllCalm, ControlInv, HandlerInv
<1>5. /\ view'[a] = Pins(st[a]) /\ view[a] # Pins(st[a]) /\ AxisInv(a) /\ st[a] \in State
      /\ sem'[a] = IF view[a].sync /\ ~Pins(st[a]).sync THEN sem[a] + 1 ELSE sem[a]
      /\ Current' = Current /\ Line' = Line
  BY DEF ControlInv, TypeOK, Current, Line
<1>6. AxisInv(a)'
  <2>1. CASE Free /\ ~running
    BY <2>1, <1>5, PinLevels DEF ControlInv, HandlerInv, AxisInv, Free, Jogging, Owed
  <2>2. CASE Free /\ running /\ ~paused
    BY <2>2, <1>5, PinLevels DEF AxisInv, Free, Going, Owed
  <2>3. CASE Free /\ paused
    BY <2>3, <1>5, PinLevels DEF ControlInv, HandlerInv, AxisInv, Free, Holding, Owed
  <2>4. CASE pc = "line"
    BY <2>4, <1>5, PinLevels DEF AxisInv, Free, Called, Rest, Follows, Owed
  <2>5. CASE pc = "wait"
    <3>1. a \in Int /\ k \in Int
      BY DEF ControlInv, TypeOK, Axes
    <3>2. CASE a < k
      BY <2>5, <3>1, <3>2, <1>5, PinLevels DEF AxisInv, Waited
    <3>3. CASE ~(a < k)
      BY <2>5, <3>1, <3>3, <1>5, PinLevels DEF AxisInv, Free, Called, Owed
    <3> QED
      BY <3>2, <3>3
  <2>6. CASE pc = "pause"
    BY <2>6, <1>5, PinLevels DEF AxisInv, Free, Holding, Running, Owed
  <2>7. CASE pc = "resume"
    BY <2>7, <1>5, PinLevels DEF AxisInv, Free, Called, Held, Owed
  <2> QED
    BY <2>1, <2>2, <2>3, <2>4, <2>5, <2>6, <2>7 DEF ControlInv, TypeOK, Free
<1>7. \A b \in Axes \ {a} : AxisInv(b)'
  BY <1>1, <1>2, SameAxis DEF ControlInv, TypeOK
<1> QED
  BY <1>3, <1>4, <1>6, <1>7 DEF ControlInv

-----------------------------------------------------------------------------
(* The handlers of the GUI thread.  A loop step moves axis k to the side of *)
(* the axes that are done.                                                 *)

LEMMA LoopStep ==
  ASSUME N \in Nat, k \in Axes, NEW here, NEW there, Loop(here, there), here # there
  PROVE  /\ k' \in Axes /\ pc = here /\ pc' \in {here, there}
         /\ \A a \in Axes : pc' = here => (a < k' <=> a < k \/ a = k)
         /\ \A a \in Axes : pc' = there => k' = 1 /\ ~(a < k') /\ (a < k \/ a = k)
         /\ pc' = here <=> k < N
BY DEF Loop, Axes

LEMMA SendOne ==
  ASSUME TypeOK, NEW a \in Axes, NEW m \in Command, q[a] = <<>>, Send(a, m)
  PROVE  /\ q' = [q EXCEPT ![a] = <<m>>]
         /\ q' \in [Axes -> Seq(Command)] /\ \A b \in Axes : Len(q'[b]) <= QueueLen
<1>1. Len(<<>>) < QueueLen /\ Append(<<>>, m) = <<m>> /\ Len(<<m>>) <= QueueLen
      /\ <<m>> \in Seq(Command)
  BY DEF QueueLen
<1> QED
  BY <1>1 DEF TypeOK, Send, Room, QueueLen

LEMMA SendLineStep ==
  ASSUME ControlInv, SendLine
  PROVE  ControlInv'
<1> USE DEF SendLine, gui, proc
<1>1. /\ TypeOK /\ k \in Axes /\ pc = "line" /\ running /\ ~paused /\ sync = 0
      /\ prog # "none" /\ Line \in Command /\ Rest(k)
  <2>1. TypeOK /\ k \in Axes /\ pc = "line" /\ HandlerInv /\ AxisInv(k) /\ ~(k < k)
    BY DEF ControlInv, TypeOK, Loop, Axes
  <2>2. running /\ ~paused /\ sync = 0 /\ prog # "none" /\ Rest(k)
    BY <2>1 DEF HandlerInv, AxisInv
  <2> QED
    BY <2>1, <2>2, CurrentTyped
<1>2. /\ q' = [q EXCEPT ![k] = <<Line>>]
      /\ q' \in [Axes -> Seq(Command)] /\ \A b \in Axes : Len(q'[b]) <= QueueLen
  BY <1>1, SendOne DEF Rest, Line, Current
<1>3. /\ k' \in Axes /\ pc' \in {"line", "wait"}
      /\ \A a \in Axes : pc' = "line" => (a < k' <=> a < k \/ a = k)
      /\ \A a \in Axes : pc' = "wait" => k' = 1 /\ ~(a < k') /\ (a < k \/ a = k)
  BY <1>1, LoopStep
<1>4. TypeOK'
  BY <1>1, <1>2, <1>3 DEF TypeOK
<1>5. HandlerInv'
  BY <1>1, <1>3 DEF ControlInv, HandlerInv
<1>6. ASSUME NEW a \in Axes PROVE AxisInv(a)'
  <2>1. /\ Current' = Current /\ Line' = Line /\ AxisInv(a) /\ ~(k < k)
        /\ Follows(a)' <=> Follows(a)
    BY <1>1 DEF ControlInv, Current, Line, Axes, Follows
  <2>2. CASE a = k
    BY <1>1, <1>2, <1>3, <2>1, <2>2, PinLevels
       DEF AxisInv, Called, Rest, Free, Owed, TypeOK
  <2>3. CASE a # k
    <3>1. /\ pc' = "line" => (a < k' <=> a < k)
          /\ pc' = "wait" => a < k /\ ~(a < k')
          /\ q'[a] = q[a] /\ ~permit[a]
      BY <1>1, <1>2, <1>3, <2>1, <2>3 DEF AxisInv, Free, TypeOK
    <3>2. a < k => Called(a)' /\ sem[a] = IF st[a] = "armed" /\ view[a] = Pins("run") THEN 1 ELSE 0
      BY <1>1, <2>1, <3>1 DEF AxisInv, Called, Owed
    <3>3. ~(a < k) => (Rest(a) /\ Follows(a))' /\ sem[a] = 0
      BY <1>1, <2>1, <3>1 DEF AxisInv, Rest, Follows, Owed
    <3>4. a >= k' <=> ~(a < k')
      BY <1>3 DEF Axes
    <3> QED
      BY <1>1, <1>3, <3>1, <3>2, <3>3, <3>4 DEF AxisInv, Free, Owed, Rest
  <2> QED
    BY <2>2, <2>3
<1> QED
  BY <1>4, <1>5, <1>6 DEF ControlInv

LEMMA NeverRefused ==
  ASSUME ControlInv
  PROVE  ~LineRefused
<1>1. k \in Axes /\ AxisInv(k) /\ ~(k < k)
  BY DEF ControlInv, TypeOK, Axes
<1> QED
  BY <1>1, PinLevels DEF LineRefused, At, AxisInv, Rest

LEMMA WaitStep ==
  ASSUME ControlInv, WaitSync
  PROVE  ControlInv'
<1> USE DEF WaitSync, WaitEach, gui, proc
<1>1. /\ TypeOK /\ k \in Axes /\ pc = "wait" /\ running /\ ~paused /\ sync = 0
      /\ prog # "none" /\ Owed(k) /\ sem[k] = 1 /\ ~(k < k) /\ Called(k)
      /\ "mode" \notin enabled
  BY DEF ControlInv, TypeOK, HandlerInv, AxisInv, Loop, Axes
<1>2. /\ k' \in Axes /\ pc' \in {"wait", "idle"}
      /\ \A a \in Axes : pc' = "wait" => (a < k' <=> a < k \/ a = k)
      /\ \A a \in Axes : pc' = "idle" => k' = 1 /\ (a < k \/ a = k)
      /\ pc' = "wait" <=> k < N
  BY <1>1, LoopStep
<1>3. /\ sem' = [sem EXCEPT ![k] = 0] /\ Current' = Current /\ Line' = Line
      /\ \A a \in Axes : Follows(a)' <=> Follows(a)
      /\ k < N => UNCHANGED <<sync, permit, timer>>
      /\ ~(k < N) => permit' = [a \in Axes |-> TRUE] /\ sync' = 1 /\ timer' = TRUE
  BY <1>1 DEF Drive, Current, Line, Axes, Follows
<1>4. TypeOK'
  <2>1. sem' \in [Axes -> Nat] /\ sync' \in {0, 1}
    BY <1>1, <1>3 DEF TypeOK
  <2>2. permit' \in [Axes -> BOOLEAN] /\ timer' \in BOOLEAN
    <3>1. CASE k < N
      BY <1>1, <1>3, <3>1 DEF TypeOK
    <3>2. CASE ~(k < N)
      BY <1>3, <3>2
    <3> QED
      BY <3>1, <3>2
  <2> QED
    BY <1>1, <1>2, <2>1, <2>2 DEF TypeOK
<1>5. HandlerInv'
  BY <1>1, <1>2, <1>3 DEF ControlInv, HandlerInv
<1>6. ASSUME NEW a \in Axes PROVE AxisInv(a)'
  <2>1. AxisInv(a) /\ a \in Int /\ k \in Int
    BY <1>1 DEF ControlInv, Axes
  <2>2. a < k \/ a = k => Waited(a)
    BY <1>1, <2>1, PinLevels DEF AxisInv, Called, Owed, Waited
  <2>3. CASE pc' = "wait"
    <3>1. UNCHANGED permit /\ ~permit[a]
      BY <1>1, <1>2, <1>3, <2>1, <2>3 DEF AxisInv, Free
    <3>2. CASE a = k
      BY <1>1, <1>2, <1>3, <2>1, <2>2, <2>3, <3>1, <3>2 DEF AxisInv, Free, Waited, Owed, TypeOK
    <3>3. CASE a # k
      BY <1>1, <1>2, <1>3, <2>1, <2>2, <2>3, <3>1, <3>3 DEF AxisInv, Free, Waited, Called, Owed, TypeOK
    <3> QED
      BY <3>2, <3>3
  <2>4. CASE pc' = "idle"
    <3>1. Waited(a) /\ permit'[a] = TRUE /\ sem'[a] = 0
      BY <1>1, <1>2, <1>3, <2>1, <2>2, <2>4 DEF AxisInv, Owed, TypeOK
    <3> QED
      BY <1>1, <2>4, <3>1, <1>3 DEF AxisInv, Free, Waited, Going, Owed
  <2> QED
    BY <1>2, <2>3, <2>4
<1> QED
  BY <1>4, <1>5, <1>6 DEF ControlInv

LEMMA SendPauseStep ==
  ASSUME ControlInv, SendPause
  PROVE  ControlInv'
<1> USE DEF SendPause, gui, proc
<1>1. /\ TypeOK /\ k \in Axes /\ pc = "pause" /\ running /\ paused
      /\ Running(k) /\ ~(k < k) /\ Plain("pause") \in Command
      /\ "mode" \notin enabled
  <2>1. TypeOK /\ k \in Axes /\ pc = "pause" /\ HandlerInv /\ AxisInv(k) /\ ~(k < k)
    BY DEF ControlInv, TypeOK, Loop, Axes
  <2> QED
    BY <2>1, Messages DEF HandlerInv, AxisInv
<1>2. /\ q' = [q EXCEPT ![k] = <<Plain("pause")>>]
      /\ q' \in [Axes -> Seq(Command)] /\ \A b \in Axes : Len(q'[b]) <= QueueLen
  BY <1>1, SendOne DEF Running
<1>3. /\ k' \in Axes /\ pc' \in {"pause", "idle"}
      /\ \A a \in Axes : pc' = "pause" => (a < k' <=> a < k \/ a = k)
      /\ \A a \in Axes : pc' = "idle" => k' = 1 /\ (a < k \/ a = k)
      /\ pc' = "pause" <=> k < N
  BY <1>1, LoopStep
<1>4. TypeOK'
  BY <1>1, <1>2, <1>3 DEF TypeOK
<1>5. HandlerInv'
  BY <1>1, <1>3 DEF ControlInv, HandlerInv, Axes
<1>6. ASSUME NEW a \in Axes PROVE AxisInv(a)'
  <2>1. Current' = Current /\ AxisInv(a) /\ ~permit[a] /\ sem[a] = 0
    BY <1>1 DEF ControlInv, Current, AxisInv, Free, Owed
  <2>2. a < k \/ a = k => Holding(a)'
    <3>1. CASE a = k
      BY <1>1, <1>2, <2>1, <3>1 DEF Holding, Running, TypeOK
    <3>2. CASE a # k /\ a < k
      BY <1>1, <1>2, <2>1, <3>2 DEF AxisInv, Holding
    <3> QED
      BY <3>1, <3>2
  <2>3. ~(a < k) /\ a # k => Running(a)'
    BY <1>1, <1>2, <2>1 DEF AxisInv, Running
  <2> QED
    BY <1>1, <1>3, <2>1, <2>2, <2>3 DEF AxisInv, Free, Owed
<1> QED
  BY <1>4, <1>5, <1>6 DEF ControlInv

LEMMA SendResumeStep ==
  ASSUME ControlInv, SendResume
  PROVE  ControlInv'
<1> USE DEF SendResume, gui, proc
<1>1. /\ TypeOK /\ k \in Axes /\ pc = "resume" /\ running /\ ~paused /\ sync = 0
      /\ Held(k) /\ ~(k < k) /\ Plain("resume") \in Command /\ "mode" \notin enabled
  <2>1. TypeOK /\ k \in Axes /\ pc = "resume" /\ HandlerInv /\ AxisInv(k) /\ ~(k < k)
    BY DEF ControlInv, TypeOK, Loop, Axes
  <2> QED
    BY <2>1, Messages DEF HandlerInv, AxisInv
<1>2. /\ q' = [q EXCEPT ![k] = <<Plain("resume")>>]
      /\ q' \in [Axes -> Seq(Command)] /\ \A b \in Axes : Len(q'[b]) <= QueueLen
  BY <1>1, SendOne DEF Held
<1>3. /\ k' \in Axes /\ pc' \in {"resume", "wait"}
      /\ \A a \in Axes : pc' = "resume" => (a < k' <=> a < k \/ a = k)
      /\ \A a \in Axes : pc' = "wait" => k' = 1 /\ ~(a < k') /\ (a < k \/ a = k)
  BY <1>1, LoopStep
<1>4. TypeOK'
  BY <1>1, <1>2, <1>3 DEF TypeOK
<1>5. HandlerInv'
  BY <1>1, <1>3 DEF ControlInv, HandlerInv
<1>6. ASSUME NEW a \in Axes PROVE AxisInv(a)'
  <2>1. /\ Current' = Current /\ Line' = Line /\ AxisInv(a) /\ ~permit[a]
        /\ a >= k' <=> ~(a < k')
        /\ Follows(a)' <=> Follows(a)
    BY <1>1, <1>3 DEF ControlInv, Current, Line, AxisInv, Free, Axes, Follows
  <2>2. a < k \/ a = k => Called(a)'
    <3>1. CASE a = k
      BY <1>1, <1>2, <2>1, <3>1 DEF Called, Held, TypeOK
    <3>2. CASE a # k /\ a < k
      BY <1>1, <1>2, <2>1, <3>2 DEF AxisInv, Called
    <3> QED
      BY <3>1, <3>2
  <2>3. ~(a < k) /\ a # k => Held(a)'
    BY <1>1, <1>2, <2>1 DEF AxisInv, Held
  <2>4. sem[a] = IF st[a] = "armed" /\ view[a] = Pins("run") THEN 1 ELSE 0
    BY <1>1, <2>1 DEF AxisInv, Owed
  <2> QED
    BY <1>1, <1>3, <2>1, <2>2, <2>3, <2>4 DEF AxisInv, Free, Owed
<1> QED
  BY <1>4, <1>5, <1>6 DEF ControlInv

\* Steps of update(): nothing but what it has read changes.
LEMMA StillFree ==
  ASSUME ControlInv, Free, Free', UNCHANGED <<proc, view, sem, axes>>, NEW a \in Axes
  PROVE  AxisInv(a)'
BY DEF ControlInv, AxisInv, Free, Jogging, Going, Holding, Owed, Current, proc, axes

LEMMA TimeoutStep ==
  ASSUME ControlInv, Timeout
  PROVE  ControlInv'
<1> USE DEF Timeout, At
<1>1. TypeOK'
  BY DEF ControlInv, TypeOK, proc, axes
<1>2. HandlerInv'
  BY DEF ControlInv, HandlerInv, TypeOK, proc, axes, Axes
<1>3. ASSUME NEW a \in Axes PROVE AxisInv(a)'
  BY StillFree DEF Free
<1> QED
  BY <1>1, <1>2, <1>3 DEF ControlInv

LEMMA ReadStillStep ==
  ASSUME ControlInv, ReadStill
  PROVE  ControlInv'
<1> USE DEF ReadStill, At
<1>1. TypeOK'
  BY DEF ControlInv, TypeOK, Level, proc, axes
<1>2. HandlerInv'
  BY DEF ControlInv, HandlerInv, TypeOK, proc, axes
<1>3. ASSUME NEW a \in Axes PROVE AxisInv(a)'
  BY StillFree DEF Free
<1> QED
  BY <1>1, <1>2, <1>3 DEF ControlInv

LEMMA ReadReadyStep ==
  ASSUME ControlInv, ReadReady
  PROVE  ControlInv'
<1> USE DEF ReadReady, At, NextAxis, AfterRead
<1>1. TypeOK'
  BY DEF ControlInv, TypeOK, Level, proc, axes, Axes
<1>2. HandlerInv'
  BY SMTT(30) DEF ControlInv, HandlerInv, TypeOK, proc, axes, Axes
<1>3. ASSUME NEW a \in Axes PROVE AxisInv(a)'
  BY StillFree DEF Free
<1> QED
  BY <1>1, <1>2, <1>3 DEF ControlInv

\* When every axis has been seen ready, every axis is at rest with the last
\* block behind it; so the next one may be sent, or the program is over.
LEMMA DecideStep ==
  ASSUME ControlInv, Decide
  PROVE  ControlInv'
<1> USE DEF Decide
<1>1. /\ TypeOK /\ pc = "decide" /\ k = 1 /\ Free
      /\ \A a \in Axes : AxisInv(a)
  BY DEF ControlInv, HandlerInv, Free
<1>2. moveReady => noMotion /\ \A a \in Axes : view[a].ready
  <2>1. ASSUME moveReady, NEW b \in Axes PROVE view[b].ready /\ view[b].still
    <3>1. view[b] \in {Pins("idle"), Pins("jog"), Pins("run"), Pins("held")} /\ view[b].ready
      BY <1>1, <2>1 DEF ControlInv, HandlerInv, AxisInv, Jogging, Going, Holding
    <3> QED
      BY <3>1, PinLevels
  <2> QED
    BY <1>1, <2>1 DEF ControlInv, HandlerInv, Axes
<1>3. CASE moveReady /\ GoesOn /\ MoreBlocks
  <2>1. /\ running /\ ~paused /\ "mode" \notin enabled /\ prog \in Programs
        /\ pc' = "line" /\ blockID' = blockID + 1 /\ sync' = 0 /\ ~timer'
        /\ blockID + 1 <= Last
    BY <1>1, <1>2, <1>3, LastIsLongest
       DEF ControlInv, HandlerInv, TypeOK, GoesOn, MoreBlocks, Following
  <2>2. TypeOK'
    <3>1. blockID' \in 0..Last /\ sync' \in {0, 1} /\ timer' \in BOOLEAN
      BY <1>1, <2>1, LastIsLongest DEF TypeOK
    <3> QED
      BY <1>1, <1>3, <2>1, <3>1 DEF TypeOK, axes
  <2>3. HandlerInv'
    BY <1>1, <1>3, <2>1, LastIsLongest DEF ControlInv, HandlerInv, TypeOK
  <2>4. ASSUME NEW a \in Axes PROVE AxisInv(a)'
    <3>1. Going(a) /\ view[a].ready
      BY <1>1, <1>2, <1>3, <2>1 DEF AxisInv
    <3>2. Rest(a) /\ blk[a] = Current
      BY <3>1, <2>1, PinLevels DEF Going, Rest
    <3>3. Rest(a)' /\ Follows(a)'
      <4>1. blockID' - 1 = blockID /\ Rest(a)'
        BY <1>1, <3>2, <2>1 DEF Rest, axes, TypeOK
      <4>2. [Current EXCEPT !.id = blockID - 1]' = Current
        BY <1>1, <2>1, <4>1 DEF Current, axes
      <4> QED
        BY <3>2, <4>1, <4>2 DEF Follows, axes
    <3>4. ~(a < k)
      BY <1>1 DEF Axes
    <3> QED
      BY <1>1, <2>1, <3>2, <3>3, <3>4, PinLevels DEF AxisInv, Free, Owed, Rest, axes
  <2> QED
    BY <2>2, <2>3, <2>4 DEF ControlInv
<1>4. CASE moveReady /\ GoesOn /\ ~MoreBlocks
  <2>1. /\ running /\ ~paused /\ pc' = "idle" /\ enabled' = enabled \cup {"mode"}
        /\ sync' = 0 /\ ~timer' /\ blockID' \in 0..Last
        /\ UNCHANGED <<running, paused, fresh, prog, mode, view, sem, axes, k>>
    BY <1>1, <1>2, <1>3, <1>4, LastIsLongest DEF TypeOK, GoesOn, Following
  <2>2. ASSUME NEW a \in Axes PROVE st[a] = "idle" /\ q[a] = <<>> /\ view[a] = Pins("idle")
    BY <1>1, <1>2, <1>4, <2>1, PinLevels DEF AxisInv, Going
  <2>3. TypeOK'
    BY <1>1, <1>4, <2>1 DEF TypeOK, axes
  <2>4. HandlerInv'
    BY <1>1, <2>1, <2>2, LastIsLongest DEF ControlInv, HandlerInv, TypeOK, axes
  <2>5. ASSUME NEW a \in Axes PROVE AxisInv(a)'
    BY <1>1, <2>1, <2>2 DEF AxisInv, Free, Going, Owed, axes
  <2> QED
    BY <2>3, <2>4, <2>5 DEF ControlInv
<1>5. CASE ~(moveReady /\ GoesOn)
  <2>1. /\ pc' = "idle" /\ UNCHANGED <<proc, k, view, sem, axes, noMotion, moveReady>>
        /\ sync' \in {0, sync} /\ timer' \in BOOLEAN
    BY <1>1, <1>5 DEF proc, TypeOK
  <2>2. TypeOK'
    BY <1>1, <2>1 DEF TypeOK, proc, axes
  <2>3. HandlerInv'
    BY <1>1, <2>1 DEF ControlInv, HandlerInv, TypeOK, proc, axes
  <2>4. ASSUME NEW a \in Axes PROVE AxisInv(a)'
    BY <1>1, <2>1, StillFree DEF Free
  <2> QED
    BY <2>2, <2>3, <2>4 DEF ControlInv
<1> QED
  BY <1>3, <1>4, <1>5

-----------------------------------------------------------------------------
(* The user.                                                               *)

LEMMA StartStep ==
  ASSUME AllCalm, ControlInv, Start
  PROVE  ControlInv'
<1> USE DEF Start, At
<1>1. /\ TypeOK /\ k = 1 /\ sync = 0 /\ ~running /\ ~paused /\ blockID = 0
      /\ \A a \in Axes : AxisInv(a) /\ Rest(a)
  BY DEF AllCalm, ControlInv, HandlerInv, AtRest, Quiet, Rest
<1>2. TypeOK'
  <2>1. lap' \in 0..MaxRuns /\ blockID' = blockID /\ enabled' \subseteq {"mode", "jog", "edit"}
    BY <1>1 DEF TypeOK
  <2>2. running' \in BOOLEAN /\ paused' \in BOOLEAN /\ fresh' \in BOOLEAN
    OBVIOUS
  <2> QED
    BY <1>1, <2>1, <2>2 DEF TypeOK, Block
<1>3. HandlerInv'
  BY <1>1, LastIsLongest DEF HandlerInv
<1>4. ASSUME NEW a \in Axes PROVE AxisInv(a)'
  <2>1. ~(a < k)
    BY <1>1 DEF Axes
  <2>2. sem[a] = 0 /\ ~permit[a] /\ Rest(a)' /\ Follows(a)'
    BY <1>1, PinLevels DEF AxisInv, Owed, Rest, Follows
  <2> QED
    BY <2>1, <2>2, PinLevels DEF AxisInv, Owed, Free, Rest
<1> QED
  BY <1>2, <1>3, <1>4 DEF ControlInv

LEMMA UserResumeStep ==
  ASSUME AllCalm, ControlInv, Resume
  PROVE  ControlInv'
<1> USE DEF Resume, At
<1>1. /\ TypeOK /\ k = 1 /\ sync = 0 /\ running /\ paused /\ "mode" \notin enabled
      /\ \A a \in Axes : AxisInv(a) /\ Holding(a) /\ view[a] = Pins("held")
  BY DEF AllCalm, ControlInv, HandlerInv, AxisInv, Free
<1>2. TypeOK'
  BY <1>1 DEF TypeOK, axes
<1>3. HandlerInv'
  BY <1>1 DEF ControlInv, HandlerInv
<1>4. ASSUME NEW a \in Axes PROVE AxisInv(a)'
  <2>1. ~(a < k)
    BY <1>1 DEF Axes
  <2>2. Held(a) /\ sem[a] = 0 /\ ~permit[a]
    BY <1>1, PinLevels DEF AxisInv, Owed, Held, Holding
  <2>3. Held(a)'
    BY <2>2 DEF Held, Current, axes
  <2> QED
    BY <2>1, <2>2, <2>3 DEF AxisInv, Owed, Free, Held, axes
<1> QED
  BY <1>2, <1>3, <1>4 DEF ControlInv

LEMMA HoldStep ==
  ASSUME ControlInv, Hold
  PROVE  ControlInv'
<1> USE DEF Hold, At, UnderWay
<1>1. /\ TypeOK /\ k = 1 /\ 1 \in Axes /\ running /\ ~paused /\ pc = "idle"
      /\ \A a \in Axes : AxisInv(a) /\ Going(a)
  BY DEF ControlInv, HandlerInv, AxisInv, Free, Axes
<1>2. "mode" \notin enabled
  BY <1>1 DEF ControlInv, HandlerInv
<1>3. TypeOK'
  BY <1>1 DEF TypeOK, axes
<1>4. HandlerInv'
  BY <1>1, <1>2 DEF ControlInv, HandlerInv
<1>5. ASSUME NEW a \in Axes PROVE AxisInv(a)'
  <2>1. ~(a < k)
    BY <1>1 DEF Axes
  <2>2. Running(a) /\ sem[a] = 0 /\ ~permit[a]
    BY <1>1, <1>2 DEF AxisInv, Owed, Running, Going
  <2>3. Running(a)'
    BY <2>2 DEF Running, Current, axes
  <2> QED
    BY <2>1, <2>2, <2>3 DEF AxisInv, Owed, Free, Running, axes
<1> QED
  BY <1>3, <1>4, <1>5 DEF ControlInv

LEMMA ResetStep ==
  ASSUME AllCalm, ControlInv, Reset
  PROVE  ControlInv'
<1> USE DEF Reset, FirstBlock
<1>1. /\ TypeOK /\ \A a \in Axes : AxisInv(a) /\ Rest(a)
  BY DEF AllCalm, ControlInv, AtRest, Quiet, Rest
<1>2. TypeOK'
  <2>1. /\ blockID' \in 0..Last /\ enabled' \subseteq {"mode", "jog", "edit"}
    BY <1>1, LastIsLongest DEF TypeOK
  <2>2. running' \in BOOLEAN /\ paused' \in BOOLEAN /\ fresh' \in BOOLEAN
    OBVIOUS
  <2> QED
    BY <1>1, <2>1, <2>2 DEF TypeOK, gui, axes
<1>3. HandlerInv'
  BY DEF ControlInv, HandlerInv, gui
<1>4. ASSUME NEW a \in Axes PROVE AxisInv(a)'
  BY <1>1, PinLevels DEF AxisInv, Owed, Free, Jogging, Rest, gui, axes
<1> QED
  BY <1>2, <1>3, <1>4 DEF ControlInv

LEMMA ModeStep ==
  ASSUME ControlInv, NEW m \in Modes, SetMode(m)
  PROVE  ControlInv'
<1> USE DEF SetMode, ModeButton, ProgramOf
<1>1. /\ TypeOK /\ "mode" \in enabled /\ pc = "idle" /\ ~paused /\ "mode" \in enabled'
      /\ prog' \in Programs /\ enabled' \subseteq {"mode", "jog", "edit"}
  <2>1. TypeOK /\ ~paused
    BY DEF ControlInv, HandlerInv
  <2>2. m \in {"AUTO", "MDI", "JOG", "HOME", "EDIT", "MANUAL"}
    OBVIOUS
  <2>3. prog' \in Programs
    BY <2>1 DEF TypeOK, Programs
  <2>4. "mode" \in enabled' /\ enabled' \subseteq {"mode", "jog", "edit"}
    BY <2>1, <2>2 DEF TypeOK, ModePanels
  <2> QED
    BY <2>1, <2>3, <2>4
<1>2. TypeOK'
  BY <1>1 DEF TypeOK, gui, axes
<1>3. HandlerInv'
  BY <1>1 DEF ControlInv, HandlerInv, Programs, gui, axes
<1>4. ASSUME NEW a \in Axes PROVE AxisInv(a)'
  <2>1. CASE running
    <3>1. st[a] = "idle" /\ AxisInv(a)
      BY <1>1, <2>1 DEF ControlInv, HandlerInv
    <3> QED
      BY <1>1, <2>1, <3>1 DEF AxisInv, Owed, Free, Going, gui, axes
  <2>2. CASE ~running
    BY <1>1, <2>2 DEF ControlInv, AxisInv, Owed, Free, Jogging, gui, axes
  <2> QED
    BY <2>1, <2>2
<1> QED
  BY <1>2, <1>3, <1>4 DEF ControlInv

LEMMA UserJogStep ==
  ASSUME AllCalm, ControlInv, NEW a \in Axes, Jog(a)
  PROVE  ControlInv'
<1> USE DEF Jog, proc
<1>1. /\ TypeOK /\ pc = "idle" /\ ~running /\ Plain("jog") \in Command
      /\ \A b \in Axes : AxisInv(b) /\ Rest(b)
  BY Messages DEF AllCalm, ControlInv, AtRest, Quiet, Rest
<1>2. /\ q' = [q EXCEPT ![a] = <<Plain("jog")>>]
      /\ q' \in [Axes -> Seq(Command)] /\ \A b \in Axes : Len(q'[b]) <= QueueLen
  BY <1>1, SendOne DEF Rest
<1>3. TypeOK'
  BY <1>1, <1>2 DEF TypeOK
<1>4. HandlerInv'
  BY <1>1 DEF ControlInv, HandlerInv
<1>5. ASSUME NEW b \in Axes PROVE AxisInv(b)'
  <2>1. Jogging(b)'
    BY <1>1, <1>2 DEF Jogging, Rest, TypeOK
  <2>2. sem[b] = 0 /\ ~permit[b] /\ ~paused
    BY <1>1 DEF ControlInv, HandlerInv, AxisInv, Owed, Rest
  <2> QED
    BY <1>1, <2>1, <2>2 DEF AxisInv, Owed, Free
<1> QED
  BY <1>3, <1>4, <1>5 DEF ControlInv

-----------------------------------------------------------------------------
(* The theorems.                                                           *)

LEMMA InitControl == Init => ControlInv
<1> SUFFICES ASSUME Init PROVE ControlInv
  OBVIOUS
<1>1. /\ Pins("idle") \in Level /\ NoBlock \in Block /\ Last \in Nat /\ 1 \in Axes
      /\ MaxRuns \in Nat
  BY PinsTyped, Messages, LastIsLongest DEF State, Axes
<1>2. TypeOK
  <2>1. /\ q \in [Axes -> Seq(Command)] /\ \A a \in Axes : Len(q[a]) <= QueueLen
        /\ enabled \subseteq {"mode", "jog", "edit"}
    BY DEF Init, QueueLen
  <2>2. /\ view \in [Axes -> Level] /\ sem \in [Axes -> Nat] /\ st \in [Axes -> State]
        /\ permit \in [Axes -> BOOLEAN] /\ blk \in [Axes -> Block]
    BY <1>1 DEF Init, State
  <2>3. /\ noMotion \in BOOLEAN /\ moveReady \in BOOLEAN /\ timer \in BOOLEAN
        /\ running \in BOOLEAN /\ paused \in BOOLEAN /\ fresh \in BOOLEAN
    BY DEF Init
  <2> QED
    BY <1>1, <2>1, <2>2, <2>3 DEF Init, TypeOK
<1>3. HandlerInv
  BY DEF Init, HandlerInv
<1>4. ASSUME NEW a \in Axes PROVE AxisInv(a)
  BY DEF Init, AxisInv, Free, Jogging, Owed
<1> QED
  BY <1>2, <1>3, <1>4 DEF ControlInv

LEMMA NextControl ==
  ASSUME AllCalm, ControlInv, [Next]_vars
  PROVE  ControlInv'
<1>1. CASE Handler
  BY <1>1, SendLineStep, NeverRefused, WaitStep, SendPauseStep, SendResumeStep,
     ReadStillStep, ReadReadyStep, DecideStep DEF Handler
<1>2. CASE Timeout
  BY <1>2, TimeoutStep
<1>3. CASE User
  BY <1>3, StartStep, UserResumeStep, HoldStep, ResetStep, ModeStep, UserJogStep DEF User
<1>4. ASSUME NEW a \in Axes, ReadStatus(a) \/ Pico(a) PROVE ControlInv'
  BY <1>4, ReadStep, LineStep, JogStep, NothingIgnored, PauseStep, ResumeStep, LaunchStep,
     EndStep DEF Pico
<1>5. CASE UNCHANGED vars
  <2>1. TypeOK' /\ HandlerInv'
    BY <1>5 DEF vars, gui, proc, axes, ControlInv, TypeOK, HandlerInv
  <2>2. ASSUME NEW a \in Axes PROVE AxisInv(a)'
    BY <1>5, SameAxis DEF vars, gui, proc, axes, ControlInv
  <2> QED
    BY <2>1, <2>2 DEF ControlInv
<1> QED
  BY <1>1, <1>2, <1>3, <1>4, <1>5 DEF Next

\* With a user who keeps to Calm, ControlInv always holds.
THEOREM ControlInvHolds == AllCalm => (Spec => []ControlInv)
<1> SUFFICES ASSUME AllCalm PROVE Spec => []ControlInv
  OBVIOUS
<1>1. ControlInv /\ [Next]_vars => ControlInv'
  BY NextControl
<1> QED
  BY <1>1, InitControl, PTL DEF Spec

\* Every variable keeps its type.
THEOREM ControlTyped == AllCalm => (Spec => []TypeOK)
<1> SUFFICES ASSUME AllCalm PROVE Spec => []TypeOK
  OBVIOUS
<1>1. ControlInv => TypeOK
  BY DEF ControlInv
<1> QED
  BY <1>1, ControlInvHolds, PTL

\* No axis is left armed without its permit when a handler is over.
THEOREM NoAxisLeftArmed == AllCalm => (Spec => []NoneLeftArmed)
<1> SUFFICES ASSUME AllCalm PROVE Spec => []NoneLeftArmed
  OBVIOUS
<1>1. ASSUME ControlInv PROVE NoneLeftArmed
  <2> SUFFICES ASSUME pc = "idle", NEW a \in Axes, Armed(a) PROVE permit[a]
    BY DEF NoneLeftArmed
  <2>1. st[a] = "armed" /\ AxisInv(a) /\ Free /\ TypeOK
    BY <1>1 DEF ControlInv, Armed, Free
  <2> QED
    BY <2>1 DEF AxisInv, Jogging, Going, Holding, TypeOK
<1> QED
  BY <1>1, ControlInvHolds, PTL

\* No permit of a semaphore is left over.
THEOREM SemaphoresEmpty == AllCalm => (Spec => []NothingLeftOver)
<1> SUFFICES ASSUME AllCalm PROVE Spec => []NothingLeftOver
  OBVIOUS
<1>1. ControlInv => NothingLeftOver
  BY DEF ControlInv, NothingLeftOver, AxisInv, Owed
<1> QED
  BY <1>1, ControlInvHolds, PTL

\* A hold stops every axis until it is resumed.
THEOREM HoldIsKept == AllCalm => (Spec => []HoldHolds)
<1> SUFFICES ASSUME AllCalm PROVE Spec => []HoldHolds
  OBVIOUS
<1>1. ASSUME ControlInv PROVE HoldHolds
  <2> SUFFICES ASSUME paused, pc # "pause", NEW a \in Axes, q[a] = <<>> PROVE st[a] = "held"
    BY DEF HoldHolds
  <2>1. Free /\ AxisInv(a) /\ <<Plain("pause")>> # <<>>
    BY <1>1 DEF ControlInv, HandlerInv, TypeOK, Free
  <2> QED
    BY <2>1 DEF AxisInv, Holding
<1> QED
  BY <1>1, ControlInvHolds, PTL

\* The sync signal rises only when every axis is armed with the same block.
THEOREM AxesStartTogether == AllCalm => (Spec => StartTogether)
<1> SUFFICES ASSUME AllCalm PROVE Spec => StartTogether
  OBVIOUS
<1>1. ASSUME ControlInv, [Next]_vars, sync' > sync, NEW a \in Axes, NEW b \in Axes
      PROVE  Armed(a) /\ blk[a] = blk[b]
  <2>1. TypeOK /\ TypeOK'
    BY <1>1, NextControl DEF ControlInv
  <2>2. sync = 0 /\ sync' = 1
    <3>1. sync \in {0, 1} /\ sync' \in {0, 1}
      BY <2>1 DEF TypeOK
    <3> QED
      BY <1>1, <3>1
  <2>3. WaitSync /\ k = N
    BY <1>1, <2>2
       DEF Next, Handler, User, Pico, vars, gui, proc, axes, SendLine, LineRefused, WaitSync,
           SendPause, SendResume, ReadStill, ReadReady, AfterRead, Decide, Timeout, Start, Resume, Hold,
           Reset, SetMode, Jog, ReadStatus, HandleLine, HandleJog, HandleIgnored, HandlePause,
           HandleResume, Launch, MoveEnd
  <2>4. ASSUME NEW c \in Axes PROVE st[c] = "armed" /\ blk[c] = Current
    <3>1. pc = "wait" /\ AxisInv(c) /\ AxisInv(k) /\ (c < k \/ c = k) /\ ~(k < k)
      BY <1>1, <2>1, <2>3 DEF WaitSync, Loop, ControlInv, TypeOK, Axes
    <3>2. sem[k] > 0
      BY <2>3 DEF WaitSync, WaitEach
    <3>3. Owed(k)
      BY <3>1, <3>2 DEF AxisInv
    <3> QED
      BY <3>1, <3>3 DEF AxisInv, Waited, Called, Owed
  <2> QED
    BY <2>4 DEF Armed
<1>2. ControlInv /\ [Next]_vars =>
        [sync' > sync => \A a, b \in Axes : Armed(a) /\ blk[a] = blk[b]]_vars
  BY <1>1
<1> QED
  BY <1>2, ControlInvHolds, PTL DEF Spec, StartTogether

\* An axis carries out the blocks of a program one after the other.
THEOREM BlocksInOrder == AllCalm => (Spec => BlockAfterBlock)
<1> SUFFICES ASSUME AllCalm PROVE Spec => BlockAfterBlock
  OBVIOUS
<1> DEFINE InOrder(a) == \/ blk'[a].id = 0
                         \/ /\ blk'[a].prog = blk[a].prog /\ blk'[a].lap = blk[a].lap
                            /\ blk'[a].id = blk[a].id + 1
<1>1. ASSUME ControlInv, [Next]_vars, NEW a \in Axes, TakesLine(a) PROVE InOrder(a)
  <2>1. TypeOK
    BY <1>1 DEF ControlInv
  <2>2. HandleLine(a)
    <3>1. st[a] = "idle" /\ st'[a] = "armed"
      BY <1>1 DEF TakesLine
    <3>2. PICK c \in Axes : Pico(c)
      BY <1>1, <3>1
         DEF Next, Handler, User, vars, gui, proc, axes, SendLine, LineRefused, WaitSync,
             SendPause, SendResume, ReadStill, ReadReady, AfterRead, Decide, Timeout, Start, Resume,
             Hold, Reset, SetMode, Jog, ReadStatus
    <3>3. c = a
      BY <2>1, <3>1, <3>2
         DEF TypeOK, Pico, HandleLine, HandleJog, HandleIgnored, HandlePause, HandleResume,
             Launch, MoveEnd
    <3> QED
      BY <2>1, <3>1, <3>2, <3>3
         DEF TypeOK, Pico, HandleJog, HandleIgnored, HandlePause, HeldNow, HandleResume,
             Launch, MoveEnd
  <2>3. Take(a, "line")
    BY <2>2 DEF HandleLine
  <2>4. LineAsked(a) /\ Head(q[a]).block = Current
    BY <1>1, <2>3, TakeCases
  <2>5. Follows(a) /\ blk'[a] = Current
    <3>1. blk' = [blk EXCEPT ![a] = Current]
      BY <2>2, <2>4 DEF HandleLine
    <3> QED
      BY <2>1, <2>4, <3>1 DEF LineAsked, TypeOK
  <2>6. CASE blockID = 0
    BY <2>5, <2>6 DEF Current
  <2>7. CASE blockID > 0
    BY <2>1, <2>5, <2>7 DEF Current, Follows, TypeOK
  <2> QED
    BY <2>1, <2>6, <2>7 DEF TypeOK
<1>2. ControlInv /\ [Next]_vars => [\A a \in Axes : TakesLine(a) => InOrder(a)]_vars
  BY <1>1
<1> QED
  BY <1>2, ControlInvHolds, PTL DEF Spec, BlockAfterBlock

\* The mode, and the program with it, is not changed under a block.
THEOREM ModeIsFixed == AllCalm => (Spec => ModeFixed)
<1> SUFFICES ASSUME AllCalm PROVE Spec => ModeFixed
  OBVIOUS
<1>1. ASSUME ControlInv, [Next]_vars, mode' # mode \/ prog' # prog, NEW a \in Axes
      PROVE  st[a] \notin {"armed", "run", "held"}
  <2>1. pc = "idle" /\ "mode" \in enabled
    BY <1>1
       DEF Next, Handler, User, Pico, vars, gui, proc, axes, SendLine, LineRefused, WaitSync,
           SendPause, SendResume, ReadStill, ReadReady, AfterRead, Decide, Timeout, Start, Resume, Hold,
           Reset, SetMode, ModeButton, Jog, ReadStatus, HandleLine, HandleJog, HandleIgnored,
           HandlePause, HandleResume, Launch, MoveEnd
  <2> QED
    BY <1>1, <2>1 DEF ControlInv, HandlerInv, AxisInv, Free, Jogging
<1>2. ControlInv /\ [Next]_vars =>
        [<<mode, prog>>' # <<mode, prog>> =>
           \A a \in Axes : st[a] \notin {"armed", "run", "held"}]_vars
  BY <1>1
<1> QED
  BY <1>2, ControlInvHolds, PTL DEF Spec, ModeFixed

-----------------------------------------------------------------------------
(* Whatever the user and the readers do (any Calm): the blocks an axis has *)
(* carried out and those in its queue are in the order they were sent.     *)

\* Block b has been sent to axis a: none is later than the one now being sent.
Sent(a, b) ==
  /\ b.lap <= lap
  /\ running /\ b.lap = lap =>
       IF pc = "line" /\ ~(a < k) THEN b.id < blockID ELSE b.id <= blockID

\* The same after a step.
SentAfter(a, b) ==
  /\ b.lap <= lap'
  /\ running' /\ b.lap = lap' =>
       IF pc' = "line" /\ ~(a < k') THEN b.id < blockID' ELSE b.id <= blockID'

InOrder(a) ==
  /\ Sent(a, blk[a])
  /\ \A i \in 1..Len(q[a]) :
       q[a][i].cmd = "line" => Sent(a, q[a][i].block) /\ Before(blk[a], q[a][i].block)
  /\ \A i, j \in 1..Len(q[a]) :
       i < j /\ q[a][i].cmd = "line" /\ q[a][j].cmd = "line" =>
         Before(q[a][i].block, q[a][j].block)

OrderInv ==
  /\ TypeOK
  /\ running => prog # "none"
  /\ pc = "line" => running
  /\ \A a \in Axes : InOrder(a)

\* What a step may do to the queue of an axis and the block it carries out.
LeavesAlone(a) == q'[a] = q[a] /\ blk'[a] = blk[a]
Receives(a, m) == /\ Len(q[a]) < QueueLen /\ q'[a] = Append(q[a], m) /\ blk'[a] = blk[a]
                  /\ m.cmd = "line" => a = k /\ SendLine /\ m.block = Current
Takes(a)       == /\ q[a] # <<>> /\ q'[a] = Tail(q[a])
                  /\ \/ blk'[a] = blk[a]
                     \/ Head(q[a]).cmd = "line" /\ blk'[a] = Head(q[a]).block

LEMMA SendStep ==
  ASSUME TypeOK, NEW c \in Axes, NEW m \in Command, Send(c, m), UNCHANGED blk,
         m.cmd = "line" => c = k /\ SendLine /\ m.block = Current
  PROVE  /\ \A a \in Axes : LeavesAlone(a) \/ (\E n \in Command : Receives(a, n))
         /\ q' \in [Axes -> Seq(Command)] /\ \A a \in Axes : Len(q'[a]) <= QueueLen
<1>1. q \in [Axes -> Seq(Command)] /\ \A a \in Axes : Len(q[a]) <= QueueLen
  BY DEF TypeOK
<1>2. CASE Len(q[c]) < Room(c)
  <2>1. /\ q' = [q EXCEPT ![c] = Append(q[c], m)] /\ Len(q[c]) < QueueLen
        /\ Append(q[c], m) \in Seq(Command) /\ Len(Append(q[c], m)) = Len(q[c]) + 1
        /\ Len(q[c]) \in Nat
    BY <1>1, <1>2 DEF Send, Room, QueueLen
  <2>2. Receives(c, m)
    BY <1>1, <2>1 DEF Receives
  <2>3. \A a \in Axes \ {c} : LeavesAlone(a)
    BY <1>1, <2>1 DEF LeavesAlone
  <2> QED
    BY <1>1, <2>1, <2>2, <2>3 DEF QueueLen
<1>3. CASE ~(Len(q[c]) < Room(c))
  BY <1>1, <1>3 DEF Send, LeavesAlone
<1> QED
  BY <1>2, <1>3

LEMMA TakeStep ==
  ASSUME TypeOK, NEW c \in Axes, NEW d, Take(c, d),
         \/ UNCHANGED blk
         \/ d = "line" /\ blk' = [blk EXCEPT ![c] = Head(q[c]).block]
  PROVE  /\ \A a \in Axes : LeavesAlone(a) \/ Takes(a)
         /\ q' \in [Axes -> Seq(Command)] /\ \A a \in Axes : Len(q'[a]) <= QueueLen
         /\ blk' \in [Axes -> Block]
<1>1. /\ q \in [Axes -> Seq(Command)] /\ \A a \in Axes : Len(q[a]) <= QueueLen
      /\ blk \in [Axes -> Block]
  BY DEF TypeOK
<1>2. /\ q[c] # <<>> /\ Head(q[c]) \in Command /\ Tail(q[c]) \in Seq(Command)
      /\ Len(Tail(q[c])) = Len(q[c]) - 1 /\ Len(q[c]) \in Nat
  BY <1>1 DEF Take
<1>3. q' = [q EXCEPT ![c] = Tail(q[c])] /\ Head(q[c]).cmd = d
  BY DEF Take
<1>4. Head(q[c]).block \in Block
  BY <1>2 DEF Command
<1>5. Takes(c)
  BY <1>1, <1>2, <1>3 DEF Takes
<1>6. \A a \in Axes \ {c} : LeavesAlone(a)
  BY <1>1, <1>3 DEF LeavesAlone
<1>7. \A a \in Axes : LeavesAlone(a) \/ Takes(a)
  BY <1>5, <1>6, Zenon
<1>8. q' \in [Axes -> Seq(Command)]
  BY <1>1, <1>2, <1>3
<1>9. \A a \in Axes : Len(q'[a]) <= QueueLen
  BY <1>1, <1>2, <1>3 DEF QueueLen
<1>10. blk' \in [Axes -> Block]
  <2> DEFINE taken == Head(q[c]).block
  <2>1. CASE UNCHANGED blk
    BY <1>1, <2>1
  <2>2. CASE blk' = [blk EXCEPT ![c] = taken]
    <3> HIDE DEF taken
    <3>1. taken \in Block
      BY <1>4 DEF taken
    <3>2. QED
      BY <1>1, <2>2, <3>1
  <2>3. QED
    BY <2>1, <2>2
<1>11. QED
  BY <1>7, <1>8, <1>9, <1>10, Zenon

LEMMA QueuesStep ==
  ASSUME OrderInv, Next
  PROVE  /\ \A a \in Axes : \/ LeavesAlone(a) \/ Takes(a)
                            \/ \E m \in Command : Receives(a, m)
         /\ q' \in [Axes -> Seq(Command)] /\ \A a \in Axes : Len(q'[a]) <= QueueLen
         /\ blk' \in [Axes -> Block]
<1> DEFINE Goal == /\ \A a \in Axes : \/ LeavesAlone(a) \/ Takes(a)
                                      \/ \E m \in Command : Receives(a, m)
                   /\ q' \in [Axes -> Seq(Command)]
                   /\ \A a \in Axes : Len(q'[a]) <= QueueLen
                   /\ blk' \in [Axes -> Block]
<1>0. TypeOK /\ k \in Axes
  BY DEF OrderInv, TypeOK
<1>1. ASSUME UNCHANGED <<q, blk>> PROVE Goal
  BY <1>0, <1>1 DEF TypeOK, LeavesAlone
<1>2. ASSUME NEW c \in Axes, NEW m \in Command, Send(c, m), UNCHANGED blk,
             m.cmd = "line" => c = k /\ SendLine /\ m.block = Current
      PROVE  Goal
  BY <1>0, <1>2, SendStep DEF TypeOK
<1>3. ASSUME NEW c \in Axes, NEW d, Take(c, d),
             \/ UNCHANGED blk
             \/ d = "line" /\ blk' = [blk EXCEPT ![c] = Head(q[c]).block]
      PROVE  Goal
  BY <1>0, <1>3, TakeStep
<1>4. CASE Handler
  <2>1. CASE SendLine
    <3>1. Line \in Command /\ Line.cmd = "line" /\ Line.block = Current
      BY <1>0, <2>1, CurrentTyped DEF OrderInv, SendLine, Loop
    <3>2. Send(k, Line) /\ UNCHANGED blk
      BY <2>1 DEF SendLine, Line, Current
    <3> QED
      BY <1>0, <1>2, <2>1, <3>1, <3>2
  <2>2. CASE SendPause
    BY <1>0, <1>2, <2>2, Messages DEF SendPause
  <2>3. CASE SendResume
    BY <1>0, <1>2, <2>3, Messages DEF SendResume
  <2>4. CASE LineRefused \/ WaitSync \/ ReadStill \/ ReadReady \/ Decide
    BY <1>1, <2>4 DEF LineRefused, WaitSync, ReadStill, ReadReady, Decide, axes
  <2> QED
    BY <1>4, <2>1, <2>2, <2>3, <2>4 DEF Handler
<1>5. CASE Timeout \/ Start \/ Resume \/ Hold \/ Reset \/ \E m \in Modes : SetMode(m)
  BY <1>1, <1>5 DEF Timeout, Start, Resume, Hold, Reset, SetMode, axes
<1>6. ASSUME NEW c \in Axes, Jog(c) PROVE Goal
  BY <1>2, <1>6, Messages DEF Jog
<1>7. ASSUME NEW c \in Axes, ReadStatus(c) \/ Launch(c) \/ MoveEnd(c) PROVE Goal
  BY <1>1, <1>7 DEF ReadStatus, Launch, MoveEnd, axes
<1>8. ASSUME NEW c \in Axes, HandleLine(c) PROVE Goal
  BY <1>3, <1>8 DEF HandleLine
<1>9. ASSUME NEW c \in Axes, HandleJog(c) PROVE Goal
  BY <1>3, <1>9 DEF HandleJog
<1>10. ASSUME NEW c \in Axes, HandleIgnored(c) PROVE Goal
  BY <1>3, <1>10 DEF HandleIgnored
<1>11. ASSUME NEW c \in Axes, HandlePause(c) PROVE Goal
  BY <1>3, <1>11 DEF HandlePause
<1>12. ASSUME NEW c \in Axes, HandleResume(c) PROVE Goal
  BY <1>3, <1>12 DEF HandleResume
<1> QED
  BY <1>4, <1>5, <1>6, <1>7, <1>8, <1>9, <1>10, <1>11, <1>12 DEF Next, User, Pico

\* What is behind stays behind: the program counter goes up, a program that is
\* started anew gets a new lap.
LEMMA SentStep ==
  ASSUME OrderInv, Next, NEW a \in Axes, NEW b \in Block, Sent(a, b)
  PROVE  Sent(a, b)'
<1>0. /\ TypeOK /\ b.lap \in Int /\ b.id \in Int /\ lap \in Int /\ blockID \in Int
      /\ k \in Int /\ a \in Int /\ N \in Int
  <2>1. TypeOK /\ lap \in 0..MaxRuns /\ blockID \in 0..Last /\ k \in 1..N
    BY DEF OrderInv, TypeOK, Axes
  <2>2. b.lap \in 0..MaxRuns /\ b.id \in 0..Last /\ a \in 1..N /\ N \in Nat
    BY DEF Block, Axes
  <2> QED
    BY <2>1, <2>2, LastIsLongest
<1>1. ASSUME UNCHANGED <<lap, running, blockID>>, pc' = "line" => pc = "line" /\ k' >= k, k' \in Int
      PROVE  Sent(a, b)'
  BY <1>0, <1>1 DEF Sent
<1>2. ASSUME UNCHANGED <<lap, running, blockID>>, pc' # "line"
      PROVE  Sent(a, b)'
  BY <1>0, <1>2 DEF Sent
<1>3. CASE Handler
  <2>1. CASE SendLine
    BY <1>0, <1>1, <2>1 DEF SendLine, Loop, proc
  <2>2. CASE LineRefused \/ WaitSync \/ SendPause \/ SendResume \/ ReadStill \/ ReadReady
    BY <1>2, <2>2
       DEF LineRefused, WaitSync, SendPause, SendResume, ReadStill, ReadReady, AfterRead, At,
           Loop, proc, axes
  <2>3. CASE Decide
    <3>1. pc = "decide" /\ UNCHANGED <<lap, running, k>>
      BY <2>3 DEF Decide, axes
    <3>2. \/ pc' = "line" /\ blockID' = blockID + 1
          \/ pc' = "idle" /\ (blockID' = blockID + 1 \/ blockID' = blockID)
      BY <2>3 DEF Decide, Following
    <3> QED
      BY <1>0, <3>1, <3>2 DEF Sent
  <2> QED
    BY <1>3, <2>1, <2>2, <2>3 DEF Handler
<1>4. CASE Start
  BY <1>0, <1>4 DEF Start, Sent
<1>5. CASE Reset
  BY <1>0, <1>5 DEF Reset, Sent, axes
<1>6. CASE Timeout \/ Resume \/ Hold
  BY <1>2, <1>6 DEF Timeout, Resume, Hold, At, proc, axes
<1>7. ASSUME NEW m \in Modes, SetMode(m) PROVE Sent(a, b)'
  BY <1>2, <1>7 DEF SetMode, gui, axes
<1>8. ASSUME NEW c \in Axes, Jog(c) PROVE Sent(a, b)'
  BY <1>2, <1>8 DEF Jog, proc
<1>9. ASSUME NEW c \in Axes, ReadStatus(c) \/ Pico(c) PROVE Sent(a, b)'
  <2>1. UNCHANGED <<pc, k, lap, running, blockID>>
    BY <1>9
       DEF ReadStatus, Pico, HandleLine, HandleJog, HandleIgnored, HandlePause, HandleResume,
           Launch, MoveEnd, gui, proc, axes
  <2> QED
    BY <1>0, <1>1, <2>1
<1> QED
  BY <1>3, <1>4, <1>5, <1>6, <1>7, <1>8, <1>9 DEF Next, User

LEMMA InOrderStep ==
  ASSUME OrderInv, Next, NEW a \in Axes
  PROVE  InOrder(a)'
<1>0. /\ TypeOK /\ InOrder(a) /\ q[a] \in Seq(Command) /\ blk[a] \in Block
      /\ \A i \in 1..Len(q[a]) : q[a][i] \in Command /\ q[a][i].block \in Block
  <2>1. TypeOK /\ InOrder(a) /\ q[a] \in Seq(Command) /\ blk[a] \in Block
    BY DEF OrderInv, TypeOK
  <2>2. \A i \in 1..Len(q[a]) : q[a][i] \in Command
    BY <2>1
  <2> QED
    BY <2>1, <2>2 DEF Command
<1>1. \A b \in Block : Sent(a, b) => SentAfter(a, b)
  BY SentStep DEF Sent, SentAfter
<1>2. CASE LeavesAlone(a)
  BY <1>0, <1>1, <1>2 DEF LeavesAlone, InOrder, Before, Sent, SentAfter
<1>3. CASE Takes(a)
  <2>1. /\ q'[a] = Tail(q[a]) /\ Len(q[a]) \in Nat /\ Len(q[a]) > 0
        /\ Len(q'[a]) = Len(q[a]) - 1
        /\ \A i \in 1..Len(q'[a]) : i + 1 \in 1..Len(q[a]) /\ q'[a][i] = q[a][i + 1]
        /\ Head(q[a]) = q[a][1] /\ 1 \in 1..Len(q[a])
    BY <1>0, <1>3 DEF Takes
  <2>2. \/ blk'[a] = blk[a]
        \/ q[a][1].cmd = "line" /\ blk'[a] = q[a][1].block
    BY <1>3, <2>1 DEF Takes
  <2>3. SentAfter(a, blk'[a])
    BY <1>0, <1>1, <2>1, <2>2 DEF InOrder
  <2>4. \A i \in 1..Len(q'[a]) : q'[a][i].cmd = "line" =>
          SentAfter(a, q'[a][i].block) /\ Before(blk'[a], q'[a][i].block)
    <3> SUFFICES ASSUME NEW i \in 1..Len(q'[a]), q'[a][i].cmd = "line"
                 PROVE  SentAfter(a, q'[a][i].block) /\ Before(blk'[a], q'[a][i].block)
      OBVIOUS
    <3>1. i + 1 \in 1..Len(q[a]) /\ q'[a][i] = q[a][i + 1] /\ 1 < i + 1
      BY <2>1
    <3>2. SentAfter(a, q[a][i + 1].block) /\ Before(blk'[a], q[a][i + 1].block)
      BY <1>0, <1>1, <2>1, <2>2, <3>1 DEF InOrder
    <3> QED
      BY <3>1, <3>2
  <2>5. \A i, j \in 1..Len(q'[a]) :
          i < j /\ q'[a][i].cmd = "line" /\ q'[a][j].cmd = "line" =>
            Before(q'[a][i].block, q'[a][j].block)
    <3> SUFFICES ASSUME NEW i \in 1..Len(q'[a]), NEW j \in 1..Len(q'[a]), i < j,
                        q'[a][i].cmd = "line", q'[a][j].cmd = "line"
                 PROVE  Before(q'[a][i].block, q'[a][j].block)
      OBVIOUS
    <3>1. /\ i + 1 \in 1..Len(q[a]) /\ q'[a][i] = q[a][i + 1]
          /\ j + 1 \in 1..Len(q[a]) /\ q'[a][j] = q[a][j + 1] /\ i + 1 < j + 1
      BY <2>1
    <3> QED
      BY <1>0, <3>1 DEF InOrder
  <2> QED
    BY <2>3, <2>4, <2>5 DEF InOrder, Sent, SentAfter, Before
<1>4. ASSUME NEW m \in Command, Receives(a, m) PROVE InOrder(a)'
  <2>1. /\ q'[a] = Append(q[a], m) /\ blk'[a] = blk[a] /\ Len(q[a]) \in Nat
        /\ Len(q'[a]) = Len(q[a]) + 1 /\ q'[a][Len(q[a]) + 1] = m
        /\ \A i \in 1..Len(q[a]) : q'[a][i] = q[a][i]
    BY <1>0, <1>4 DEF Receives
  <2>2. m.cmd = "line" =>
          /\ SentAfter(a, m.block) /\ Before(blk[a], m.block)
          /\ \A i \in 1..Len(q[a]) : q[a][i].cmd = "line" => Before(q[a][i].block, m.block)
    <3> SUFFICES ASSUME m.cmd = "line"
                 PROVE  /\ SentAfter(a, m.block) /\ Before(blk[a], m.block)
                        /\ \A i \in 1..Len(q[a]) :
                             q[a][i].cmd = "line" => Before(q[a][i].block, m.block)
      OBVIOUS
    <3>1. a = k /\ SendLine /\ m.block = Current
      BY <1>4 DEF Receives
    <3>2. /\ pc = "line" /\ running /\ UNCHANGED <<lap, running, blockID>>
          /\ pc' = "line" => a < k'
      BY <3>1, <1>0 DEF SendLine, Loop, proc, OrderInv, TypeOK, Axes
    <3>3. Current.lap = lap /\ Current.id = blockID /\ lap \in Int /\ blockID \in Int
      BY <1>0, LastIsLongest DEF Current, TypeOK
    <3>4. ~(a < k)
      BY <3>1, <1>0 DEF TypeOK, Axes
    <3>5. \A b \in Block : Sent(a, b) => Before(b, Current)
      BY <3>2, <3>3, <3>4, LastIsLongest DEF Sent, Before, Block
    <3>6. SentAfter(a, m.block)
      BY <3>1, <3>2, <3>3 DEF SentAfter
    <3> QED
      BY <1>0, <3>1, <3>5, <3>6 DEF InOrder
  <2>3. /\ SentAfter(a, blk'[a])
        /\ \A i \in 1..Len(q[a]) : q[a][i].cmd = "line" => SentAfter(a, q[a][i].block)
    BY <1>0, <1>1, <2>1 DEF InOrder
  <2>4. \A i \in 1..Len(q'[a]) : i \in 1..Len(q[a]) \/ i = Len(q[a]) + 1
    BY <2>1
  <2>5. \A i \in 1..Len(q'[a]) : q'[a][i].cmd = "line" =>
          SentAfter(a, q'[a][i].block) /\ Before(blk'[a], q'[a][i].block)
    BY <1>0, <2>1, <2>2, <2>3, <2>4 DEF InOrder
  <2>6. \A i, j \in 1..Len(q'[a]) :
          i < j /\ q'[a][i].cmd = "line" /\ q'[a][j].cmd = "line" =>
            Before(q'[a][i].block, q'[a][j].block)
    BY <1>0, <2>1, <2>2, <2>4 DEF InOrder
  <2> QED
    BY <2>3, <2>5, <2>6 DEF InOrder, Sent, SentAfter, Before
<1> QED
  BY <1>2, <1>3, <1>4, QueuesStep

LEMMA OrderTyped ==
  ASSUME OrderInv, Next
  PROVE  TypeOK' /\ (running' => prog' # "none") /\ (pc' = "line" => running')
<1> DEFINE Goal == TypeOK' /\ (running' => prog' # "none") /\ (pc' = "line" => running')
<1>0. /\ TypeOK /\ (running => prog # "none") /\ (pc = "line" => running)
      /\ k \in 1..N /\ N \in Nat /\ sem \in [Axes -> Nat] /\ Axes = 1..N
  BY DEF OrderInv, TypeOK, Axes
<1>1. /\ q' \in [Axes -> Seq(Command)] /\ \A a \in Axes : Len(q'[a]) <= QueueLen
      /\ blk' \in [Axes -> Block]
  BY QueuesStep
<1> USE <1>0, <1>1
<1>2. CASE Handler
  <2>1. ASSUME NEW h, NEW t, Loop(h, t) PROVE k' \in Axes
    BY <2>1 DEF Loop
  <2>2. CASE SendLine
    BY <2>1, <2>2 DEF SendLine, TypeOK, Loop, proc
  <2>3. CASE LineRefused
    BY <2>3 DEF LineRefused, TypeOK, At, proc, axes
  <2>4. CASE WaitSync
    <3>1. sem' \in [Axes -> Nat]
      BY <2>4 DEF WaitSync, WaitEach
    <3>2. /\ sync' \in {0, 1} /\ permit' \in [Axes -> BOOLEAN] /\ timer' \in BOOLEAN
      BY <2>4 DEF WaitSync, Drive, TypeOK
    <3> QED
      BY <2>1, <2>4, <3>1, <3>2 DEF WaitSync, TypeOK, Loop, proc
  <2>5. CASE SendPause
    BY <2>1, <2>5 DEF SendPause, TypeOK, Loop, proc
  <2>6. CASE SendResume
    BY <2>1, <2>6 DEF SendResume, TypeOK, Loop, proc
  <2>7. CASE ReadStill
    <3>1. noMotion' \in BOOLEAN
      BY <2>7, Zenon DEF ReadStill
    <3> QED
      BY <2>7, <3>1 DEF ReadStill, TypeOK, At, proc, axes
  <2>8. CASE ReadReady
    <3>1. moveReady' \in BOOLEAN
      BY <2>8, Zenon DEF ReadReady
    <3>2. k' \in Axes /\ pc' \in {"still", "decide"}
      BY <2>8 DEF ReadReady, NextAxis, At, AfterRead
    <3> QED
      BY <2>8, <3>1, <3>2 DEF ReadReady, TypeOK, proc, axes
  <2>9. CASE Decide
    <3>1. timer' \in BOOLEAN
      BY <2>9, Zenon DEF Decide
    <3>2. sync' \in {0, 1}
      BY <2>9 DEF Decide, TypeOK
    <3>3. /\ blockID' \in 0..Last /\ pc' \in {"line", "idle"}
          /\ pc' = "line" => running
      <4>1. ASSUME GoesOn, MoreBlocks PROVE blockID + 1 \in 0..Last
        BY <4>1, LastIsLongest DEF GoesOn, MoreBlocks, TypeOK
      <4> QED
        BY <2>9, <4>1, LastIsLongest DEF Decide, Following, TypeOK, GoesOn
    <3>4. enabled' \subseteq {"mode", "jog", "edit"}
      BY <2>9 DEF Decide, TypeOK
    <3> QED
      BY <2>9, <3>1, <3>2, <3>3, <3>4 DEF Decide, TypeOK, axes
  <2> QED
    BY <1>2, <2>2, <2>3, <2>4, <2>5, <2>6, <2>7, <2>8, <2>9 DEF Handler
<1>3. CASE Timeout
  BY <1>3 DEF Timeout, TypeOK, At, proc, axes
<1>4. CASE User
  <2>1. CASE Start
    <3>1. lap' \in 0..MaxRuns /\ enabled' \subseteq {"mode", "jog", "edit"}
      BY <2>1 DEF Start, TypeOK
    <3>2. running' /\ prog # "none" /\ UNCHANGED prog
      BY <2>1 DEF Start
    <3> QED
      BY <2>1, <3>1, <3>2 DEF Start, TypeOK, At
  <2>2. CASE Resume
    BY <2>2 DEF Resume, TypeOK, At, axes
  <2>3. CASE Hold
    BY <2>3 DEF Hold, TypeOK, At, axes
  <2>4. CASE Reset
    <3>1. 0 \in 0..Last /\ enabled' \subseteq {"mode", "jog", "edit"}
      BY <2>4, LastIsLongest DEF Reset, TypeOK
    <3>2. pc' = "idle" /\ ~running'
      BY <2>4 DEF Reset, gui
    <3> QED
      BY <2>4, <3>1, <3>2 DEF Reset, FirstBlock, TypeOK, gui, axes
  <2>5. ASSUME NEW m \in Modes, SetMode(m) PROVE Goal
    <3>1. prog' \in Programs
      BY <2>5 DEF SetMode, ProgramOf, TypeOK, Programs
    <3>2. enabled' \subseteq {"mode", "jog", "edit"}
      BY <2>5 DEF SetMode, ModePanels, TypeOK
    <3>3. prog' # "none"
      BY <3>1 DEF Programs
    <3> QED
      BY <2>5, <3>1, <3>2, <3>3 DEF SetMode, TypeOK, gui, axes
  <2>6. ASSUME NEW a \in Axes, Jog(a) PROVE Goal
    BY <2>6 DEF Jog, TypeOK, proc
  <2> QED
    BY <1>4, <2>1, <2>2, <2>3, <2>4, <2>5, <2>6 DEF User
<1>5. ASSUME NEW a \in Axes, ReadStatus(a) PROVE Goal
  <2>1. st[a] \in State
    BY DEF TypeOK
  <2>2. view' \in [Axes -> Level]
    BY <1>5, <2>1, PinsTyped DEF ReadStatus, TypeOK
  <2>3. sem' \in [Axes -> Nat]
    <3>1. sem \in [Axes -> Nat]
      BY DEF TypeOK
    <3>2. [sem EXCEPT ![a] = @ + 1] \in [Axes -> Nat]
      BY <3>1
    <3>3. sem' = sem \/ sem' = [sem EXCEPT ![a] = @ + 1]
      BY <1>5 DEF ReadStatus, Post
    <3>4. QED
      BY <3>1, <3>2, <3>3
  <2> QED
    BY <1>5, <2>2, <2>3 DEF ReadStatus, TypeOK, gui, proc, axes
<1>6. ASSUME NEW a \in Axes, Pico(a) PROVE Goal
  <2>1. /\ UNCHANGED <<gui, proc, view, sem, lap>>
        /\ st' \in [Axes -> State] /\ permit' \in [Axes -> BOOLEAN]
    BY <1>6
       DEF Pico, HandleLine, HandleJog, HandleIgnored, HandlePause, HeldNow, HandleResume,
           Launch, MoveEnd, TypeOK, State
  <2> QED
    BY <2>1 DEF TypeOK, gui, proc
<1> QED
  BY <1>2, <1>3, <1>4, <1>5, <1>6 DEF Next

LEMMA OrderInit == Init => OrderInv
<1> SUFFICES ASSUME Init PROVE OrderInv
  OBVIOUS
<1>1. TypeOK
  BY InitControl DEF ControlInv
<1>2. \A a \in Axes : q[a] = <<>> /\ blk[a] = NoBlock /\ lap = 0 /\ ~running
  BY DEF Init
<1>3. \A a \in Axes : InOrder(a)
  BY <1>2 DEF InOrder, Sent, NoBlock
<1> QED
  BY <1>1, <1>3 DEF OrderInv, Init

\* The blocks an axis has been sent and not carried out lie after the one it
\* carries out, each behind the one before, whatever the user does (sync_move,
\* pincProcessor::next).
THEOREM BlocksQueueInOrder == Spec => []OrderInv
<1>1. OrderInv /\ [Next]_vars => OrderInv'
  <2>1. ASSUME OrderInv, Next PROVE OrderInv'
    BY <2>1, OrderTyped, InOrderStep DEF OrderInv
  <2>2. ASSUME OrderInv, UNCHANGED vars PROVE OrderInv'
    BY <2>2 DEF vars, gui, proc, axes, OrderInv, TypeOK, InOrder, Sent
  <2> QED
    BY <2>1, <2>2
<1> QED
  BY <1>1, OrderInit, PTL DEF Spec

\* No axis carries out a block twice or goes back, whatever the user does.
THEOREM NoBlockTwice == Spec => NeverTwice
<1>1. ASSUME OrderInv, Next, NEW a \in Axes, TakesLine(a)
      PROVE  Before(blk[a], blk'[a])
  <2>1. TypeOK /\ InOrder(a) /\ st[a] = "idle" /\ st'[a] = "armed"
    BY <1>1 DEF OrderInv, TakesLine
  <2>2. HandleLine(a)
    <3>1. PICK c \in Axes : Pico(c)
      BY <1>1, <2>1
         DEF Next, Handler, User, gui, proc, axes, SendLine, LineRefused, WaitSync,
             SendPause, SendResume, ReadStill, ReadReady, AfterRead, Decide, Timeout, Start,
             Resume, Hold, Reset, SetMode, Jog, ReadStatus
    <3> QED
      BY <2>1, <3>1
         DEF TypeOK, Pico, HandleLine, HandleJog, HandleIgnored, HandlePause, HeldNow,
             HandleResume, Launch, MoveEnd
  <2>3. /\ q[a] \in Seq(Command) /\ q[a] # <<>> /\ Head(q[a]).cmd = "line"
        /\ blk'[a] = Head(q[a]).block
    BY <2>1, <2>2 DEF HandleLine, Take, TypeOK
  <2>4. 1 \in 1..Len(q[a]) /\ Head(q[a]) = q[a][1]
    BY <2>3
  <2> QED
    BY <2>1, <2>3, <2>4 DEF InOrder
<1>2. OrderInv /\ [Next]_vars =>
        [\A a \in Axes : TakesLine(a) => Before(blk[a], blk'[a])]_vars
  BY <1>1
<1> QED
  BY <1>2, BlocksQueueInOrder, PTL DEF Spec, NeverTwice

=============================================================================
