--------------------------- MODULE StepperControl ---------------------------
(***************************************************************************)
(* The GUI thread of the host: the program processor, the control mode,    *)
(* and the stepper control that sends the blocks of a program to the axes  *)
(* and lets them start together by the sync signal.                        *)
(*                                                                         *)
(*   toolbar, mode buttons, jog panel   events of the GUI thread           *)
(*   timer                              update(): asks every axis, and     *)
(*                                      when all are ready sends a block   *)
(*   reader threads                     copy an axis' status into          *)
(*                                      status_sig.cur, post its sync_sem  *)
(*   axes                               Picos, as in PicoMotion: a queue   *)
(*                                      of two commands, and a permit      *)
(*                                                                         *)
(* GUI handlers run to their end, but they wait for the axes and read      *)
(* shared state on the way, so each is a sequence of steps (pc).           *)
(* Assumed throughout: the blocks are lines and curves; a hold reaches     *)
(* every axis before the end of its line (PicoMotion says why); a mode has *)
(* been chosen before the program is run.                                  *)
(***************************************************************************)
EXTENDS Integers, Sequences

CONSTANTS
  N,       (* number of axes, in the order of m_steppers                   *)
  Blocks,  (* number of blocks of each program                             *)
  Modes,   (* control modes the user chooses from                         *)
  MaxRuns, (* bound: how often a program is started                        *)
  Calm     (* assumptions about the user and the reader threads:           *)
           (* "rest"   run starts a program, reset is pressed, while every *)
           (*          axis is at rest and seen so, and the sync signal    *)
           (*          down again                                          *)
           (* "alone"  jog and home likewise, and not between the first    *)
           (*          block of a program and the reset after its last     *)
           (* "seen"   run resumes a program after the hold has been seen  *)
           (* "steady" readers store no status in the middle of update()   *)

Programs == {"cur", "auto", "mdi"}

ASSUME ControlAssumption ==
  /\ N \in Nat \ {0}
  /\ Modes \subseteq {"AUTO", "MDI", "JOG", "HOME", "EDIT", "MANUAL"}
  /\ Blocks \in [Programs -> Nat \ {0}] /\ MaxRuns \in Nat
  /\ Calm \subseteq {"rest", "alone", "seen", "steady"}

Axes     == 1..N
QueueLen == 2
Last     == CHOOSE n \in {Blocks[p] : p \in Programs} : \A p \in Programs : n >= Blocks[p]
Block    == [prog : Programs, id : 0..Last, lap : 0..MaxRuns]
NoBlock  == [prog |-> "cur", id |-> 0, lap |-> 0]
Plain(c) == [cmd |-> c, block |-> NoBlock]
Command  == [cmd : {"line", "jog", "pause", "resume"}, block : Block]
Level    == [ready : BOOLEAN, still : BOOLEAN, sync : BOOLEAN]
State    == {"idle", "armed", "run", "held", "jog"}

VARIABLES
  pc, k,             \* the GUI thread and the axis its loop is at
  noMotion, moveReady, \* locals of update()
  sync, timer,       \* SYNC_PIN, m_timer
  running, paused, fresh, blockID, \* m_program*; fresh is m_programReset
  prog, mode,        \* m_program, m_ctrlMode
  enabled,           \* panels that are enabled
  view, sem,         \* per axis: status_sig.cur, sync_sem
  st, q, permit,     \* per axis: what it does, its queue, its permit
  blk,               \* history: the block it carries out, or did last
  lap                \* history: programs started

gui  == <<pc, k, noMotion, moveReady, sync, timer>>
proc == <<running, paused, fresh, blockID, prog, mode, enabled>>
axes == <<st, q, permit, blk, lap>>
vars == <<gui, proc, view, sem, axes>>

\* The status pins of an axis.
Pins(s) == [ready |-> s = "idle", still |-> s \in {"idle", "held"},
            sync |-> s \notin {"armed", "run"}]

Init ==
  /\ pc = "idle" /\ k = 1 /\ noMotion = TRUE /\ moveReady = TRUE
  /\ sync = 0 /\ timer = FALSE
  /\ running = FALSE /\ paused = FALSE /\ fresh = TRUE /\ blockID = 0
  /\ prog = "none" /\ mode \in Modes /\ enabled = {"mode", "jog", "edit"}
  /\ view = [a \in Axes |-> Pins("idle")] /\ sem = [a \in Axes |-> 0]
  /\ st = [a \in Axes |-> "idle"] /\ q = [a \in Axes |-> <<>>]
  /\ permit = [a \in Axes |-> FALSE] /\ blk = [a \in Axes |-> NoBlock]
  /\ lap = 0

-----------------------------------------------------------------------------
(* Steps of the GUI thread.                                                *)

At(here, there) == pc = here /\ pc' = there

\* A loop over the axes: body again for the next one, or go on.
Loop(here, there) ==
  /\ pc = here
  /\ IF k < N THEN k' = k + 1 /\ pc' = here ELSE k' = 1 /\ pc' = there

\* The command an armed axis waits in keeps its place in the queue.
Room(a) == IF st[a] = "armed" THEN QueueLen - 1 ELSE QueueLen

\* stepper_move, stepper_pause, stepper_jog ...: a full queue drops the message.
Send(a, m) ==
  q' = IF Len(q[a]) < Room(a) THEN [q EXCEPT ![a] = Append(@, m)] ELSE q

SameLevel(v) == sync' = v /\ UNCHANGED permit          \* mutant: no edge
Drive(v)     == /\ sync' = v
                /\ permit' = IF v > sync THEN [a \in Axes |-> TRUE] ELSE permit

\* sync_move: the block goes to one axis after the other; an axis that is not
\* ready ends the call where it stands.
SendLine ==
  LET block == [prog |-> prog, id |-> blockID, lap |-> lap] IN
  /\ view[k].ready
  /\ Loop("line", "wait")
  /\ Send(k, [cmd |-> "line", block |-> block])
  /\ UNCHANGED <<noMotion, moveReady, sync, timer, proc, view, sem, st, permit, blk, lap>>

LineRefused ==
  /\ ~view[k].ready
  /\ At("line", "idle")
  /\ k' = 1
  /\ UNCHANGED <<noMotion, moveReady, sync, timer, proc, view, sem, axes>>

\* sync_move and pause(false) wait until every axis is armed, then let them go.
WaitLast == k < N \/ sem[k] > 0                         \* mutant: last axis only
WaitEach == sem[k] > 0

WaitSync ==
  /\ WaitEach
  /\ Loop("wait", "idle")
  /\ sem' = [sem EXCEPT ![k] = IF @ > 0 THEN @ - 1 ELSE 0]
  /\ IF k = N THEN Drive(1) /\ timer' = TRUE ELSE UNCHANGED <<sync, permit, timer>>
  /\ UNCHANGED <<noMotion, moveReady, proc, view, st, q, blk, lap>>

SendPause ==
  /\ Loop("pause", "idle")
  /\ Send(k, Plain("pause"))
  /\ sync' = IF k = N THEN 0 ELSE sync
  /\ UNCHANGED <<noMotion, moveReady, timer, proc, view, sem, st, permit, blk, lap>>

SendResume ==
  /\ Loop("resume", "wait")
  /\ Send(k, Plain("resume"))
  /\ UNCHANGED <<noMotion, moveReady, sync, timer, proc, view, sem, st, permit, blk, lap>>

\* update(): for each axis first IN_MOTION, then MOVE_READY.
Timeout ==
  /\ timer
  /\ At("idle", "still")
  /\ noMotion' = TRUE /\ moveReady' = TRUE
  /\ UNCHANGED <<k, sync, timer, proc, view, sem, axes>>

ReadStill ==
  /\ At("still", "ready")
  /\ noMotion' = (noMotion /\ view[k].still)
  /\ UNCHANGED <<k, moveReady, sync, timer, proc, view, sem, axes>>

NextAxis  == IF k < N THEN k + 1 ELSE 1
OnAndOn   == "still"                                    \* mutant: no end
AfterRead == IF k < N THEN "still" ELSE "decide"

ReadReady ==
  /\ At("ready", AfterRead)
  /\ k' = NextAxis
  /\ moveReady' = (moveReady /\ view[k].ready)
  /\ UNCHANGED <<noMotion, sync, timer, proc, view, sem, axes>>

GoesOn      == running /\ ~paused
MoreBlocks  == blockID + 1 < Blocks[prog]
SkippingOne == blockID + 2                              \* mutant
SameAgain   == blockID                                  \* mutant
Following   == blockID + 1

\* The end of update(), and pincProcessor::next by the signal moveReady.
Decide ==
  /\ pc = "decide"
  /\ sync' = IF noMotion THEN 0 ELSE sync
  /\ timer' = (timer /\ ~noMotion)
  /\ \/ /\ moveReady /\ GoesOn /\ MoreBlocks
        /\ pc' = "line"
        /\ blockID' = Following
        /\ UNCHANGED enabled
     \/ /\ moveReady /\ GoesOn /\ ~MoreBlocks
        /\ pc' = "idle"
        /\ blockID' = IF blockID < Last THEN Following ELSE blockID
        /\ enabled' = enabled \cup {"mode"}
     \/ /\ ~(moveReady /\ GoesOn)
        /\ pc' = "idle"
        /\ UNCHANGED <<blockID, enabled>>
  /\ UNCHANGED <<k, noMotion, moveReady, running, paused, fresh, prog, mode, view, sem,
                 axes>>

-----------------------------------------------------------------------------
(* Events the GUI thread handles: toolbar, mode buttons, jog panel.        *)

Quiet(a) == st[a] = "idle" /\ q[a] = <<>> /\ view[a] = Pins("idle")
AtRest   == sync = 0 /\ \A a \in Axes : Quiet(a)

Start ==
  /\ At("idle", "line")
  /\ prog # "none"
  /\ ~(running /\ paused) /\ fresh
  /\ "rest" \in Calm => AtRest
  /\ lap < MaxRuns /\ lap' = lap + 1
  /\ fresh' = FALSE /\ running' = TRUE /\ paused' = FALSE
  /\ enabled' = enabled \ {"mode"}
  /\ UNCHANGED <<k, noMotion, moveReady, sync, timer, blockID, prog, mode, view, sem,
                 st, q, permit, blk>>

Resume ==
  /\ At("idle", "resume")
  /\ running /\ paused
  /\ "seen" \in Calm => \A a \in Axes : view[a] = Pins("held")
  /\ paused' = FALSE
  /\ UNCHANGED <<k, noMotion, moveReady, sync, timer, running, fresh, blockID, prog,
                 mode, enabled, view, sem, axes>>

UnderWay == \A a \in Axes : st[a] = "run" /\ q[a] = <<>>

Hold ==
  /\ At("idle", "pause")
  /\ running /\ ~paused
  /\ UnderWay
  /\ paused' = TRUE
  /\ UNCHANGED <<k, noMotion, moveReady, sync, timer, running, fresh, blockID, prog,
                 mode, enabled, view, sem, axes>>

FirstBlock == 0

Reset ==
  /\ pc = "idle" /\ ~fresh
  /\ "rest" \in Calm => AtRest
  /\ running' = FALSE /\ paused' = FALSE /\ fresh' = TRUE /\ blockID' = FirstBlock
  /\ enabled' = enabled \cup {"mode"}
  /\ UNCHANGED <<gui, prog, mode, view, sem, axes>>

\* controlModeChange: the mode's program, then setMode.
ModePanels(m) ==
  CASE m \in {"AUTO", "MDI"}  -> enabled \ {"jog"}
    [] m \in {"JOG", "HOME"} -> enabled \cup {"jog"}
    [] m = "EDIT"            -> enabled \cup {"edit"}
    [] m = "MANUAL"          -> enabled \ {"edit"}

\* curProgram: the modes AUTO and MDI have their own, the others keep it.
ProgramOf(m) == CASE m = "AUTO" -> "auto" [] m = "MDI" -> "mdi"
                  [] OTHER -> IF prog = "none" THEN "cur" ELSE prog

ModeButton == "mode" \in enabled

SetMode(m) ==
  /\ pc = "idle" /\ ModeButton
  /\ mode' = m
  /\ prog' = ProgramOf(m)
  /\ enabled' = IF m = mode THEN enabled ELSE ModePanels(m)
  /\ UNCHANGED <<gui, running, paused, fresh, blockID, view, sem, axes>>

\* jogHandle passes it on in two modes; of them home() does not ask whether the
\* axis is ready.
JogPasses(a) == (mode = "JOG" /\ view[a].ready) \/ mode = "HOME"

\* A button of the jog panel, or the wheel, which works whether the panel is
\* enabled or not.
Jog(a) ==
  /\ pc = "idle" /\ JogPasses(a)
  /\ "alone" \in Calm => AtRest /\ ~running
  /\ Send(a, Plain("jog"))
  /\ timer' = TRUE
  /\ UNCHANGED <<pc, k, noMotion, moveReady, sync, proc, view, sem, st, permit, blk, lap>>

-----------------------------------------------------------------------------
(* A reader thread: stepper_read_fpga, as far as the GUI sees it.          *)

NoPost(a) == sem                                        \* mutant
Post(a)   == IF view[a].sync /\ ~Pins(st[a]).sync THEN [sem EXCEPT ![a] = @ + 1] ELSE sem

ReadStatus(a) ==
  /\ view[a] # Pins(st[a])
  /\ "steady" \in Calm => pc \notin {"still", "ready", "decide"}
  /\ view' = [view EXCEPT ![a] = Pins(st[a])]
  /\ sem' = Post(a)
  /\ UNCHANGED <<gui, proc, axes>>

-----------------------------------------------------------------------------
(* An axis.  While it is armed it handles no message.                      *)

Take(a, c) == /\ st[a] # "armed" /\ q[a] # <<>> /\ Head(q[a]).cmd = c
              /\ q' = [q EXCEPT ![a] = Tail(@)]

HandleLine(a) ==
  /\ Take(a, "line") /\ st[a] = "idle"
  /\ st' = [st EXCEPT ![a] = "armed"]
  /\ blk' = [blk EXCEPT ![a] = Head(q[a]).block]
  /\ UNCHANGED <<gui, proc, view, sem, permit, lap>>

HandleJog(a) ==
  /\ Take(a, "jog") /\ st[a] = "idle"
  /\ st' = [st EXCEPT ![a] = "jog"]
  /\ UNCHANGED <<gui, proc, view, sem, permit, blk, lap>>

\* A move while another is under way is ignored.
HandleIgnored(a) ==
  /\ Take(a, "line") \/ Take(a, "jog")
  /\ st[a] # "idle"
  /\ UNCHANGED <<gui, proc, view, sem, st, permit, blk, lap>>

NotHeld(a)  == st[a]                                    \* mutant: hold is lost
HeldNow(a)  == "held"

HandlePause(a) ==
  /\ Take(a, "pause")
  /\ st' = [st EXCEPT ![a] = HeldNow(a)]
  /\ UNCHANGED <<gui, proc, view, sem, permit, blk, lap>>

HandleResume(a) ==
  /\ Take(a, "resume") /\ st[a] = "held"
  /\ st' = [st EXCEPT ![a] = "armed"]
  /\ UNCHANGED <<gui, proc, view, sem, permit, blk, lap>>

Launch(a) ==
  /\ st[a] = "armed" /\ permit[a]
  /\ st' = [st EXCEPT ![a] = "run"]
  /\ permit' = [permit EXCEPT ![a] = FALSE]
  /\ UNCHANGED <<gui, proc, view, sem, q, blk, lap>>

HoldComes == pc = "pause" \/ \E a \in Axes : \E i \in 1..Len(q[a]) : q[a][i].cmd = "pause"

MoveEnd(a) ==
  /\ st[a] = "jog" \/ (st[a] = "run" /\ ~HoldComes)
  /\ st' = [st EXCEPT ![a] = "idle"]
  /\ UNCHANGED <<gui, proc, view, sem, q, permit, blk, lap>>

-----------------------------------------------------------------------------
Handler == \/ SendLine \/ LineRefused \/ WaitSync \/ SendPause \/ SendResume
           \/ ReadStill \/ ReadReady \/ Decide
User    == \/ Start \/ Resume \/ Hold \/ Reset
           \/ (\E m \in Modes : SetMode(m)) \/ (\E a \in Axes : Jog(a))
Pico(a) == \/ HandleLine(a) \/ HandleJog(a) \/ HandleIgnored(a) \/ HandlePause(a)
           \/ HandleResume(a) \/ Launch(a) \/ MoveEnd(a)

Next == Handler \/ Timeout \/ User \/ \E a \in Axes : ReadStatus(a) \/ Pico(a)

Spec == Init /\ [][Next]_vars

\* The GUI thread, the readers and the axes run on their own, the timer comes
\* up again and again, and a move that is held and resumed goes on where it
\* was; of the user only that a held program is resumed.
Fairness == /\ WF_vars(Handler) /\ SF_vars(Timeout) /\ SF_vars(Resume)
            /\ \A a \in Axes : /\ SF_vars(ReadStatus(a)) /\ SF_vars(Pico(a))
                              /\ SF_vars(MoveEnd(a))

FairSpec == Spec /\ Fairness

-----------------------------------------------------------------------------
(* Properties.                                                             *)

TypeOK ==
  /\ pc \in {"idle", "line", "wait", "pause", "resume", "still", "ready", "decide"}
  /\ k \in Axes /\ noMotion \in BOOLEAN /\ moveReady \in BOOLEAN
  /\ sync \in {0, 1} /\ timer \in BOOLEAN
  /\ running \in BOOLEAN /\ paused \in BOOLEAN /\ fresh \in BOOLEAN
  /\ blockID \in 0..Last /\ prog \in Programs \cup {"none"} /\ mode \in Modes
  /\ enabled \subseteq {"mode", "jog", "edit"}
  /\ view \in [Axes -> Level] /\ sem \in [Axes -> Nat]
  /\ st \in [Axes -> State] /\ q \in [Axes -> Seq(Command)]
  /\ \A a \in Axes : Len(q[a]) <= QueueLen
  /\ permit \in [Axes -> BOOLEAN] /\ blk \in [Axes -> Block]
  /\ lap \in 0..MaxRuns

Armed(a) == st[a] = "armed"

\* The sync signal rises only when every axis waits for it with the same block
\* (sync_move, pause): they start together.
StartTogether ==
  [][sync' > sync => \A a, b \in Axes : Armed(a) /\ blk[a] = blk[b]]_vars

\* No axis is left behind armed once the handler that armed it is over: the
\* signal has really risen for it.
NoneLeftArmed == pc = "idle" => \A a \in Axes : Armed(a) => permit[a]

TakesLine(a) == st[a] = "idle" /\ st'[a] = "armed"

\* An axis carries out every block of the program, in order: the next one
\* follows the last in the same program, or a program has been started anew.
BlockAfterBlock ==
  [][\A a \in Axes : TakesLine(a) =>
       \/ blk'[a].id = 0
       \/ /\ blk'[a].prog = blk[a].prog /\ blk'[a].lap = blk[a].lap
          /\ blk'[a].id = blk[a].id + 1]_vars

\* No axis carries out a block twice or goes back to an earlier one, whatever the
\* user and the readers do: a line that is refused or ignored is not sent again
\* (sync_move, pincProcessor::next).
Before(b, c) == b.lap < c.lap \/ (b.lap = c.lap /\ b.id < c.id)
NeverTwice ==
  [][\A a \in Axes : TakesLine(a) => Before(blk[a], blk'[a])]_vars

\* sync_sem holds nothing over: a permit left from a call that did not wait for
\* it would let the next one go before the axis is armed.
NothingLeftOver == pc \in {"idle", "still", "ready", "decide", "pause"} =>
                     \A a \in Axes : sem[a] = 0

\* A hold stops every axis, and none starts again before the resume.
HoldHolds == paused /\ pc # "pause" /\ (\A a \in Axes : q[a] = <<>>) =>
               \A a \in Axes : st[a] = "held"

\* The control mode, and with it the program, stays while a block is under way.
ModeFixed == [][<<mode, prog>>' # <<mode, prog>> =>
                  \A a \in Axes : st[a] \notin {"armed", "run", "held"}]_vars

\* The GUI never hangs in sync_move or pause, and a program comes to its end:
\* the mode buttons are enabled again.
NeverHangs  == pc # "idle" ~> pc = "idle"
ProgramEnds == running ~> "mode" \in enabled

-----------------------------------------------------------------------------
(* Why it works: an inductive invariant, under all of Calm.                *)

Current == [prog |-> prog, id |-> blockID, lap |-> lap]
Line    == [cmd |-> "line", block |-> Current]

\* What an axis can be doing: nothing; a jog; what is left of its line;
Rest(a)    == st[a] = "idle" /\ q[a] = <<>> /\ view[a] = Pins("idle")
Jogging(a) == /\ \/ st[a] \in {"idle", "jog"} /\ q[a] = <<>>
                 \/ st[a] = "idle" /\ q[a] = <<Plain("jog")>>
              /\ view[a] \in {Pins("idle"), Pins("jog")}
Going(a)   == /\ q[a] = <<>> /\ (blk[a] = Current \/ "mode" \in enabled)
              /\ \/ st[a] = "armed" /\ permit[a] /\ view[a] = Pins("run")
                 \/ st[a] = "run" /\ view[a] = Pins("run")
                 \/ st[a] = "idle" /\ view[a] \in {Pins("run"), Pins("idle")}

\* done with the block before; told to go, up to the post of its semaphore;
\* waited for;
Follows(a) == blockID > 0 => blk[a] = [Current EXCEPT !.id = blockID - 1]
Called(a)  ==
  \/ /\ st[a] = "idle" /\ q[a] = <<Line>> /\ view[a] = Pins("idle")
     /\ Follows(a)
  \/ /\ st[a] = "held" /\ q[a] = <<Plain("resume")>> /\ view[a] = Pins("held")
     /\ blk[a] = Current
  \/ /\ st[a] = "armed" /\ q[a] = <<>> /\ blk[a] = Current
     /\ view[a] \in {Pins("idle"), Pins("held"), Pins("run")}
Waited(a)  == /\ st[a] = "armed" /\ q[a] = <<>> /\ blk[a] = Current
              /\ view[a] = Pins("run")

\* told to hold, and held.
Running(a) == /\ st[a] = "run" /\ q[a] = <<>> /\ blk[a] = Current
              /\ view[a] = Pins("run")
Holding(a) == /\ blk[a] = Current
              /\ \/ st[a] = "run" /\ q[a] = <<Plain("pause")>> /\ view[a] = Pins("run")
                 \/ st[a] = "held" /\ q[a] = <<>> /\ view[a] \in {Pins("run"), Pins("held")}
Held(a)    == /\ st[a] = "held" /\ q[a] = <<>> /\ blk[a] = Current
              /\ view[a] = Pins("held")

Free       == pc \in {"idle", "still", "ready", "decide"}

\* Its semaphore has been posted and not yet waited for.
Owed(a) == /\ st[a] = "armed" /\ view[a] = Pins("run")
           /\ (pc \in {"line", "resume"} \/ (pc = "wait" /\ a >= k))

\* Each axis, by where the handler is: the axes before k are a step further.
AxisInv(a) ==
  /\ Free /\ ~running => Jogging(a)
  /\ Free /\ running /\ ~paused => Going(a)
  /\ Free /\ paused => Holding(a)
  /\ pc = "line" => IF a < k THEN Called(a) ELSE Rest(a) /\ Follows(a)
  /\ pc = "wait" => IF a < k THEN Waited(a) ELSE Called(a)
  /\ pc = "pause" => IF a < k THEN Holding(a) ELSE Running(a)
  /\ pc = "resume" => IF a < k THEN Called(a) ELSE Held(a)
  /\ permit[a] => Free /\ st[a] = "armed"
  /\ sem[a] = IF Owed(a) THEN 1 ELSE 0

\* The handler itself: the sync signal is low whenever axes are being armed;
\* what update() has read so far; once a program has ended no update runs.
HandlerInv ==
  /\ pc \in {"line", "wait", "resume"} => running /\ ~paused /\ sync = 0
  /\ pc = "pause" => paused
  /\ paused => running /\ (pc # "pause" => sync = 0)
  /\ pc \in {"idle", "decide"} => k = 1
  /\ running => prog # "none" /\ blockID < Last + 1
  /\ ~running => fresh /\ blockID = 0
  /\ running => ~fresh
  /\ "mode" \in enabled /\ running =>
       /\ pc = "idle" /\ ~timer /\ ~paused
       /\ \A a \in Axes : st[a] = "idle"
  /\ pc \in {"still", "ready", "decide"} =>
       \A a \in Axes :
         /\ moveReady /\ (a < k \/ pc = "decide") => view[a].ready
         /\ ~noMotion => \E b \in Axes : ~view[b].still

ControlInv == TypeOK /\ HandlerInv /\ \A a \in Axes : AxisInv(a)

=============================================================================
