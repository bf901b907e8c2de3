---------------------------- MODULE LaserProgram ----------------------------
(***************************************************************************)
(* The laser machine on the host: pincLaser2D, which runs a program block  *)
(* by block, the stepper group it drives, and the laser.                   *)
(*                                                                         *)
(* Everything happens in the thread of the user interface: the buttons of  *)
(* the control panel and the timers that watch a block.  A handler is one  *)
(* step; a handler that waits for ever leaves the program "hung", one that *)
(* follows a null pointer "crashed".  The ESPs move meanwhile (EspAxis,    *)
(* EspLink); of their status the host sees moving, held and ready.         *)
(*                                                                         *)
(* What a block's numbers mean is left out: which axes it moves is open.   *)
(***************************************************************************)
EXTENDS Integers, Sequences, FiniteSets, FiniteSetsExt

CONSTANTS
  Programs,   (* sequences of Blocks                                       *)
  MaxTimers,  (* bound: timers of the group that run at once               *)
  LaserCalm   (* what the operator is assumed to respect                   *)

Blocks      == {"line", "curve", "on", "off", "set", "ena", "other"}
LaserBlocks == {"on", "off", "set", "ena"}   \* L1; L0; L2 with a power; any other L

(* "clean" : RESET only while every timer that runs is in m_timerID (not   *)
(*           during a line).                                               *)
(* "held"  : RUN during a program only if both axes are held.              *)
(* "still" : RUN and RESET not while an axis jogs.                         *)
(* "motion": HOLD during a program only while an axis is in motion.        *)
(* "dark"  : the laser panel is used between RUN and RESET only.           *)
ASSUME LaserAssumption ==
  /\ Programs \subseteq Seq(Blocks)
  /\ MaxTimers \in Nat \ {0}
  /\ LaserCalm \subseteq {"clean", "held", "still", "motion", "dark"}

Axes == {"x", "y"}
None == <<"no program">>          \* the null pointer in m_cur_program

VARIABLES
  mode,       \* m_panelMode
  prog,       \* m_cur_program
  pid,        \* m_cur_program_id
  inProgram,  \* m_in_program
  reset,      \* m_reset
  ax,         \* the axes: "ready", "moving", "held", "jog"
  timers,     \* ids of the group's timers
  timerId,    \* m_timerID
  beam,       \* the laser's PWM is at the laser's power, and not off
  dead,       \* "no", "hung" or "crashed"
  holding     \* history: HOLD was pressed in the program, and not RUN since

program == <<prog, pid, inProgram, reset>>
watch   == <<timers, timerId>>
laserVars == <<mode, program, ax, watch, beam, dead, holding>>

\* m_timerID is not initialised; an id that is not running makes no difference.
LaserInit ==
  /\ mode \in {"AUTO", "JOG", "EDIT"} /\ prog = <<>> /\ pid = 0
  /\ inProgram = FALSE /\ reset = TRUE
  /\ ax = [a \in Axes |-> "ready"]
  /\ timers = {} /\ timerId \in 0..1
  /\ beam = FALSE /\ dead = "no" /\ holding = FALSE

InMotion(a) == ax[a] \in {"moving", "jog"}
BothReady == \A a \in Axes : ax[a] = "ready"

NewTimer(ts) == CHOOSE t \in 1..(MaxTimers + 1) : t \notin ts

-----------------------------------------------------------------------------
(* espStepperGroup. *)

\* move: an axis in motion ignores the message and never reports SYNC_READY;
\* else all start together, those with a step to make.
moveAxes ==
  IF \E a \in Axes : InMotion(a)
  THEN dead' = "hung" /\ UNCHANGED ax
  ELSE /\ UNCHANGED dead
       /\ \E s \in SUBSET Axes : ax' = [a \in Axes |-> IF a \in s THEN "moving" ELSE "ready"]

\* runBlock, with the timers ts: a line's timer is not remembered.
runBlock(blk, ts) ==
  CASE blk = "line"  -> moveAxes /\ timers' = ts \cup {NewTimer(ts)} /\ timerId' = 0
    [] blk = "curve" -> moveAxes /\ timers' = ts \cup {NewTimer(ts)} /\ timerId' = NewTimer(ts)
    [] blk = "other" -> timers' = ts /\ timerId' = 0 /\ UNCHANGED <<ax, dead>>

\* pause kills the timer it knows; a held axis stays where it is, one that is ready stays ready.
HalfPaused == [ax EXCEPT !["x"] = IF InMotion("x") THEN "held" ELSE @]  \* mutant: X only
Paused == [a \in Axes |-> IF InMotion(a) THEN "held" ELSE ax[a]]
Killed == timers \ {timerId}

-----------------------------------------------------------------------------
(* pincLaser2D. *)

\* run_next: the laser's blocks up to the next of the group or the end.
Skips(p, i) == Min({k \in i..Len(p) : p[k] \notin LaserBlocks} \cup {Len(p) + 1})
Told(p, i, k) == {j \in i..(k - 1) : p[j] # "ena"}
Lit(p, i, k)  == IF Told(p, i, k) = {} THEN beam ELSE p[Max(Told(p, i, k))] # "off"

Next1(k) == k

run_next(p, i, ts) ==
  LET k == Skips(p, i + 1) IN
  /\ prog' = p /\ beam' = Lit(p, i + 1, k)
  /\ reset' = (reset /\ i >= Len(p))
  /\ IF k > Len(p)
     THEN /\ pid' = Len(p) /\ inProgram' = FALSE
          /\ timers' = ts /\ timerId' = 0 /\ UNCHANGED <<ax, dead>>
     ELSE /\ pid' = Next1(k) /\ inProgram' = TRUE
          /\ runBlock(p[k], ts)

modeChange ==
  /\ dead = "no" /\ ~inProgram /\ mode' \in {"AUTO", "JOG", "EDIT"}
  /\ UNCHANGED <<program, ax, watch, beam, dead, holding>>

\* A jog message to an axis in motion is ignored.
jog(a) ==
  /\ dead = "no" /\ mode = "JOG"
  /\ ax' = [ax EXCEPT ![a] = IF InMotion(a) THEN @ ELSE "jog"]
  /\ UNCHANGED <<mode, program, watch, beam, dead, holding>>

Jogging == \E a \in Axes : ax[a] = "jog"

\* run with m_reset, in AUTO or MDI (which differ in where the program is from).
Start == \E p \in Programs :
  /\ dead = "no" /\ mode = "AUTO" /\ reset /\ Cardinality(timers) < MaxTimers
  /\ "still" \in LaserCalm => ~Jogging
  /\ run_next(p, pid, timers) /\ holding' = FALSE /\ UNCHANGED mode

Watched   == timers \cup {NewTimer(timers)}

\* resume: an axis that is ready does not report SYNC_READY any more.
resume ==
  /\ IF \A a \in Axes : ax[a] = "held"
     THEN ax' = [a \in Axes |-> "moving"] /\ UNCHANGED dead
     ELSE dead' = "hung" /\ UNCHANGED ax
  /\ timers' = Watched /\ UNCHANGED timerId

m_paused == inProgram /\ ~reset /\ ~ \E a \in Axes : InMotion(a)

Continue ==
  /\ dead = "no" /\ mode = "AUTO" /\ ~reset /\ m_paused
  /\ "held" \in LaserCalm => \A a \in Axes : ax[a] = "held"
  /\ Cardinality(timers) < MaxTimers
  /\ resume /\ holding' = FALSE
  /\ UNCHANGED <<mode, program, beam>>

hold ==
  /\ dead = "no"
  /\ "motion" \in LaserCalm /\ inProgram => \E a \in Axes : InMotion(a)
  /\ IF inProgram THEN ax' = Paused /\ timers' = Killed /\ timerId' = 0 /\ holding' = TRUE
                  ELSE UNCHANGED <<ax, watch, holding>>
  /\ UNCHANGED <<mode, program, beam, dead>>

\* reset: hold, the laser off, the group's stop, and no program any more.
Off   == FALSE
ResetAll ==
  /\ dead = "no"
  /\ "clean" \in LaserCalm => timers \subseteq {timerId}
  /\ "still" \in LaserCalm => ~Jogging
  /\ ax' = [a \in Axes |-> "ready"] /\ timers' = Killed /\ timerId' = 0
  /\ beam' = Off /\ prog' = None /\ pid' = 0 /\ inProgram' = FALSE /\ reset' = TRUE
  /\ holding' = FALSE /\ UNCHANGED <<mode, dead>>

\* timerEvent, blockCompleted: the first timer that finds both axes ready goes on.
Completed == BothReady

Tick(t) ==
  /\ dead = "no" /\ t \in timers /\ Completed
  /\ IF prog = None
     THEN dead' = "crashed" /\ UNCHANGED <<program, ax, watch, beam>>
     ELSE run_next(prog, pid, timers \ {t})
  /\ UNCHANGED <<mode, holding>>

\* The laser panel: on, and inc and dec, which end in on; off.
LaserPanel ==
  /\ dead = "no" /\ ("dark" \in LaserCalm => ~reset) /\ beam' \in BOOLEAN
  /\ UNCHANGED <<mode, program, ax, watch, dead, holding>>

\* An ESP comes to the end of its move.
Arrive(a) ==
  /\ InMotion(a) /\ ax' = [ax EXCEPT ![a] = "ready"]
  /\ UNCHANGED <<mode, program, watch, beam, dead, holding>>

LaserNext ==
  \/ modeChange \/ Start \/ Continue \/ hold \/ ResetAll \/ LaserPanel
  \/ (\E a \in Axes : jog(a) \/ Arrive(a)) \/ (\E t \in timers : Tick(t))

LaserSpec == LaserInit /\ [][LaserNext]_laserVars

-----------------------------------------------------------------------------
(* Properties. *)

LaserTypeOK ==
  /\ mode \in {"AUTO", "JOG", "EDIT"} /\ prog \in Programs \cup {<<>>, None}
  /\ pid \in Nat /\ (prog # None => pid <= Len(prog)) /\ inProgram \in BOOLEAN /\ reset \in BOOLEAN
  /\ ax \in [Axes -> {"ready", "moving", "held", "jog"}]
  /\ timers \subseteq 1..(MaxTimers + 1) /\ timerId \in 0..(MaxTimers + 1)
  /\ beam \in BOOLEAN /\ holding \in BOOLEAN /\ dead \in {"no", "hung", "crashed"}

\* The user interface never waits for a SYNC_READY that does not come.
NeverHangs == dead # "hung"

\* No timer of a block outlives RESET to find no program.
NeverCrashes == dead # "crashed"

\* A block starts when the one before has ended on both axes, and every block
\* of the program takes its turn.
BlockByBlock == pid' # pid /\ inProgram' /\ pid' # 0 =>
                  /\ BothReady
                  /\ \A k \in (pid + 1)..(pid' - 1) : prog'[k] \in LaserBlocks

\* After HOLD nothing of the program moves before RUN.
HoldHolds == holding /\ inProgram => \A a \in Axes : ~InMotion(a)

\* After RESET the laser is off and the axes rest until the next program, but
\* for jogs.
ResetDark == reset /\ ~inProgram /\ prog = None => ~beam /\ \A a \in Axes : ax[a] # "moving"

\* Programs run block by block, hold and reset hold, and the user interface
\* neither hangs nor crashes.
LaserCorrect ==
  /\ [](LaserTypeOK /\ NeverHangs /\ NeverCrashes /\ HoldHolds /\ ResetDark)
  /\ [][BlockByBlock]_laserVars

=============================================================================
