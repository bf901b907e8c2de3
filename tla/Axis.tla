-------------------------------- MODULE Axis --------------------------------
(***************************************************************************)
(* What a stepper Pico promises to the host that commands it: the axis as  *)
(* its three status pins show it.                                          *)
(*                                                                         *)
(*   idle   ready for a move            jog    a jog or homing under way   *)
(*   armed  has a line, waits for SYNC  run    carries it out              *)
(*   held   a line under a hold                                            *)
(*                                                                         *)
(* Commands are taken in their order, none while the axis is armed.        *)
(* StepperControl has one such axis for each stepper.                      *)
(***************************************************************************)
EXTENDS Naturals, Sequences

VARIABLES
  st,      \* what it does
  q,       \* commands it has yet to take
  permit   \* the sync signal has risen for it

axisVars == <<st, q, permit>>

QueueLen == 2
Commands == {"line", "jog", "pause", "resume"}

\* The command an armed axis waits in keeps its place in the queue.
Room == IF st = "armed" THEN QueueLen - 1 ELSE QueueLen

Init == st = "idle" /\ q = <<>> /\ permit = FALSE

\* The host: a command, and the rising sync signal.
Post(c) ==
  /\ q' = IF Len(q) < Room THEN Append(q, c) ELSE q
  /\ UNCHANGED <<st, permit>>

Edge == permit' = TRUE /\ UNCHANGED <<st, q>>

\* The axis takes command c.
Take(c, from, to) ==
  /\ q # <<>> /\ Head(q) = c /\ q' = Tail(q)
  /\ st = from /\ st' = to
  /\ UNCHANGED permit

HandleLine   == Take("line", "idle", "armed")
HandleJog    == Take("jog", "idle", "jog")
HandlePause  == Take("pause", "run", "held")
HandleResume == Take("resume", "held", "armed")

\* A move while another is under way is ignored.
HandleIgnored ==
  \E c \in {"line", "jog"}, s \in {"jog", "run", "held"} : Take(c, s, s)

Handle == HandleLine \/ HandleJog \/ HandlePause \/ HandleResume \/ HandleIgnored

\* A line starts by the signal and by nothing else, and takes it away.
Launch ==
  /\ st = "armed" /\ permit
  /\ st' = "run" /\ permit' = FALSE
  /\ UNCHANGED q

MoveEnd ==
  /\ st \in {"jog", "run"} /\ st' = "idle"
  /\ UNCHANGED <<q, permit>>

Next == (\E c \in Commands : Post(c)) \/ Edge \/ Handle \/ Launch \/ MoveEnd

Spec == Init /\ [][Next]_axisVars

\* Commands are taken, the signal is obeyed, and a move ends, however often it
\* is held and resumed on the way.
FairSpec == Spec /\ WF_axisVars(Handle) /\ WF_axisVars(Launch) /\ SF_axisVars(MoveEnd)
=============================================================================
