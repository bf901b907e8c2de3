------------------------------ MODULE BlockMove ------------------------------
(***************************************************************************)
(* From a G-code block to the numbers the Picos get:                       *)
(* pincStepperControl::run and sync_move, with pincVec.                    *)
(*                                                                         *)
(* The words of a block lie in a map ordered by letter, and run() handles  *)
(* them in that order: I, J before X, Y.  X and Y are absolute (move.cur   *)
(* is the position the Picos report), U and V relative (move.cur is 0).    *)
(*                                                                         *)
(* All lengths are in steps.  The code has them in mm, as doubles: a       *)
(* length times spmm is exact, the difference of two lengths times spmm    *)
(* may fall short of a whole number and step() cuts it off, which costs    *)
(* one step.                                                               *)
(***************************************************************************)
EXTENDS Integers, Sequences, FiniteSetsExt

CONSTANTS
  Blocks,      (* blocks: their words, letter -> value                     *)
  MaxPos,      (* bound: no axis goes further than this                    *)
  BlockCalm    (* assumptions about programs:                              *)
               (* "words"     a block has a word                           *)
               (* "flat"      no Z and no W                                *)
               (* "relative"  curves use U and V                           *)

(* The letters run() knows but K and R, in the order of QMap.              *)
MapOrder == <<"F", "I", "J", "U", "V", "W", "X", "Y", "Z">>
Known == {MapOrder[i] : i \in DOMAIN MapOrder}

IsBlock(w) == /\ DOMAIN w \subseteq Known
              /\ \A l \in DOMAIN w : w[l] \in Int /\ (l = "F" => w[l] > 0)

ASSUME BlockAssumption ==
  /\ \A w \in Blocks : IsBlock(w)
  /\ MaxPos \in Nat /\ BlockCalm \subseteq {"words", "flat", "relative"}

Vec == [x : Int, y : Int, z : Int]
Vector(a, b, c) == [x |-> a, y |-> b, z |-> c]
Origin == Vector(0, 0, 0)

Kinds == {"line", "curve"}

VARIABLES
  blockAt,   \* "idle", or in the loop over the "words"
  kind,      \* the number of the block: 1, or 2 and 3
  words,     \* block.args()
  todo,      \* the letters the loop has still to handle
  blockCur, end, ctr,   \* move.cur, move.end, move.ctr
  feed, feedRate,  \* move.feed and the modal feedRate
  sent,      \* what sync_move has just sent to the Picos
  pos,       \* the positions the steppers report
  \* history
  target     \* where the blocks so far say the axes should be

blockVars == <<blockAt, kind, words, todo, blockCur, end, ctr, feed, feedRate, sent, pos, target>>

Nothing == [cur |-> Origin, ctr |-> Origin, feed |-> 10]

BlockInit ==
  /\ blockAt = "idle" /\ kind = "line" /\ words = <<>> /\ todo = {}
  /\ blockCur = Origin /\ end = Origin /\ ctr = Origin /\ feed = 0 /\ feedRate = 10
  /\ sent = Nothing /\ pos = Origin /\ target = Origin

-----------------------------------------------------------------------------
\* run is called with the next block; memset(&move).
Run == blockAt = "idle" /\ \E k \in Kinds, w \in Blocks :
  /\ "words" \in BlockCalm => DOMAIN w # {}
  /\ "flat" \in BlockCalm => DOMAIN w \cap {"Z", "W"} = {}
  /\ k = "curve" /\ "relative" \in BlockCalm => DOMAIN w \cap {"X", "Y"} = {}
  /\ blockAt' = "words" /\ kind' = k /\ words' = w
  /\ todo' = DOMAIN w
  /\ blockCur' = Origin /\ end' = Origin /\ ctr' = Origin /\ feed' = 0
  /\ sent' = [Nothing EXCEPT !.feed = feedRate]
  /\ UNCHANGED <<feedRate, pos, target>>

\* The first of the letters left.
letter == MapOrder[Min({i \in DOMAIN MapOrder : MapOrder[i] \in todo})]

\* case 'F'
FeedWord(l) ==
  /\ l = "F"
  /\ feedRate' = words[l] /\ feed' = words[l]
  /\ UNCHANGED <<blockCur, end, ctr>>

\* After every word: a block without F takes the last feed.
OtherFeed == feedRate' = feedRate /\ feed' = IF feed = 0 THEN feedRate ELSE feed

\* cases 'X', 'U' and so on: pos(axis) for the absolute letter, 0 for the other.
From(l, a) == IF l \in {"X", "Y", "Z"} THEN pos[a] ELSE 0
AxisWord(l, a) ==
  /\ end' = [end EXCEPT ![a] = words[l]]
  /\ blockCur' = [blockCur EXCEPT ![a] = From(l, a)]
  /\ OtherFeed /\ UNCHANGED ctr

\* cases 'I', 'J'
Relative(l, a) == blockCur[a] + words[l]
CentreWord(l, a) ==
  /\ ctr' = [ctr EXCEPT ![a] = Relative(l, a)]
  /\ OtherFeed /\ UNCHANGED <<blockCur, end>>

OneWord ==
  /\ blockAt = "words" /\ todo # {}
  /\ LET l == letter IN
     /\ todo' = todo \ {l}
     /\ \/ FeedWord(l)
        \/ l \in {"X", "U"} /\ AxisWord(l, "x")
        \/ l \in {"Y", "V"} /\ AxisWord(l, "y")
        \/ l \in {"Z", "W"} /\ AxisWord(l, "z")
        \/ l = "I" /\ CentreWord(l, "x")
        \/ l = "J" /\ CentreWord(l, "y")
  /\ UNCHANGED <<blockAt, kind, words, sent, pos, target>>

\* move.end - move.cur: pincVec::operator- adds z to y.  step() cuts off.
Short(a, b) == IF b = 0 \/ a = b THEN {a - b}
               ELSE {a - b, IF a > b THEN a - b - 1 ELSE a - b + 1}
Swapped(p, q) == {Vector(q.x - p.x, q.y - p.y, 0)}     \* mutant: the wrong way
Minus(p, q) == {Vector(x, y + (p.z - q.z), 0) : x \in Short(p.x, q.x), y \in Short(p.y, q.y)}

\* What the blocks mean, for the properties.
Meant(a, abs, rel) == IF abs \in DOMAIN words THEN words[abs]
                      ELSE IF rel \in DOMAIN words THEN target[a] + words[rel] ELSE target[a]
Goal == Vector(Meant("x", "X", "U"), Meant("y", "Y", "V"), 0)

\* The end of run, and sync_move: the Picos carry out what they get (module
\* MovePath) and report where they are.
SyncMove == \E c \in {IF kind = "line" THEN Origin ELSE blockCur},
               e \in (IF kind = "line" THEN Minus(end, blockCur) ELSE {end}) :
  /\ blockAt = "words" /\ todo = {}
  /\ LET p == Vector(pos.x + (e.x - c.x), pos.y + (e.y - c.y), 0) IN
     /\ {p.x, p.y} \subseteq (-MaxPos)..MaxPos
     /\ pos' = p
  /\ sent' = [cur |-> c, ctr |-> ctr, feed |-> feed]
  /\ target' = Goal
  /\ blockAt' = "idle" /\ words' = <<>> /\ kind' = "line"
  /\ blockCur' = Origin /\ end' = Origin /\ ctr' = Origin /\ feed' = 0
  /\ UNCHANGED <<todo, feedRate>>

BlockNext == Run \/ OneWord \/ SyncMove

BlockSpec == BlockInit /\ [][BlockNext]_blockVars

-----------------------------------------------------------------------------
(* Properties. *)

BlockTypeOK ==
  /\ blockAt \in {"idle", "words"} /\ kind \in Kinds /\ pos \in Vec /\ target \in Vec
  /\ blockCur \in Vec /\ end \in Vec /\ ctr \in Vec /\ feed \in Nat /\ feedRate \in Nat
  /\ IsBlock(words) /\ todo \subseteq DOMAIN words
  /\ sent \in [cur : Vec, ctr : Vec, feed : Nat]

\* The step a rounded difference loses is not lost for good: after any number
\* of blocks, absolute and relative, no axis is more than a step from where
\* the blocks so far say it should be.
NoDrift == {pos.x - target.x, pos.y - target.y} \subseteq -1..1

\* An axis no word of the block names does not move.
OnlyNamedAxes ==
  SyncMove => /\ DOMAIN words \cap {"X", "U"} = {} => pos'.x = pos.x
              /\ DOMAIN words \cap {"Y", "V"} = {} => pos'.y = pos.y

\* The centre of a curve lies where I and J say, seen from its start.
CentreFromStart ==
  SyncMove /\ kind = "curve" =>
    /\ "I" \in DOMAIN words => sent'.ctr.x - sent'.cur.x = words["I"]
    /\ "J" \in DOMAIN words => sent'.ctr.y - sent'.cur.y = words["J"]

\* Every move that is sent has a feed (the Picos divide by it): the F word of
\* its block or the last one before it.
AlwaysAFeed == sent.feed > 0 /\ (blockAt = "idle" => sent.feed = feedRate)

\* A block moves the axes it names to where it says, and no other.
BlocksCorrect ==
  /\ [](BlockTypeOK /\ NoDrift /\ AlwaysAFeed)
  /\ [][OnlyNamedAxes /\ CentreFromStart]_blockVars

=============================================================================
