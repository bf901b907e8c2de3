----------------------------- MODULE MCAlgorithms -----------------------------
(***************************************************************************)
(* The sequential parts of the program side by side: a behaviour is one of *)
(* them, with inputs of every kind, while the others rest in a state of    *)
(* their own.  They share no state and call each other nowhere.            *)
(***************************************************************************)
EXTENDS MovePath, JogWheel, BlockMove, ProgramEditor, SearchTree

VARIABLES
  part        \* the part that runs: "path", "wheel", "block", "editor", "map", "tree"

\* Feeds above, at and below the start speed, and one move without
\* acceleration; ramps of 1 to 8 steps.
SomeSpeeds == {[v0 |-> 4, vf |-> 12, accel |-> 8], [v0 |-> 4, vf |-> 9, accel |-> 16],
               [v0 |-> 4, vf |-> 4, accel |-> 5], [v0 |-> 6, vf |-> 3, accel |-> 9],
               [v0 |-> 4, vf |-> 12, accel |-> 0]}

\* What the mask of the wheel may hold at the start: nothing, or a click begun.
SomeMasks == {<<0, 0, 0, 0>>, <<0, 0, 0, 2>>, <<0, 0, 2, 1>>, <<0, 2, 1, 8>>,
              <<0, 1, 2, 4>>, <<4, 8, 1, 2>>}

\* Blocks of up to three words.
SomeBlocks ==
  {w \in UNION {[S -> {-1, 2, 5}] : S \in UNION {kSubset(n, Known) : n \in 0..3}} :
     \A l \in DOMAIN w : w[l] = 5 <=> l = "F"}

\* A tree with few keys in any order, and one with more that ascend.
FewKeys == TreeNext /\ (new' # Null => heap'[new'].key <= 4)
Rising  == TreeNext /\ ascending' /\ (new' # Null => heap'[new'].data = 1)

MCInit ==
  /\ part \in {"path", "wheel", "block", "editor", "map", "tree"}
  /\ IF part = "path" THEN Init ELSE InitJog /\ steps = 1 /\ sp = [v0 |-> 4, vf |-> 4, accel |-> 5]
  /\ WheelInit /\ (part # "wheel" => mask = <<0, 0, 0, 0>>)
  /\ BlockInit /\ EditorInit
  /\ TreeInit

MCNext ==
  /\ \/ part = "path" /\ Next /\ UNCHANGED <<wheelVars, blockVars, editorVars, treeVars>>
     \/ part = "wheel" /\ WheelNext /\ UNCHANGED <<vars, blockVars, editorVars, treeVars>>
     \/ part = "block" /\ BlockNext /\ UNCHANGED <<vars, wheelVars, editorVars, treeVars>>
     \/ part = "editor" /\ EditorNext /\ UNCHANGED <<vars, wheelVars, blockVars, treeVars>>
     \/ part = "map" /\ FewKeys /\ UNCHANGED <<vars, wheelVars, blockVars, editorVars>>
     \/ part = "tree" /\ Rising /\ UNCHANGED <<vars, wheelVars, blockVars, editorVars>>
  /\ UNCHANGED part

MCSpec == MCInit /\ [][MCNext]_<<part, vars, wheelVars, blockVars, editorVars, treeVars>>

=============================================================================
