----------------------------- MODULE SearchTree -----------------------------
(***************************************************************************)
(* The binary search tree of c/algorithm/bst.c: insertion by key with the  *)
(* rotations that are to keep it balanced, search, and the removal of the  *)
(* whole tree leaf by leaf.                                                *)
(*                                                                         *)
(* The heap is a function from nodes to their fields, 0 the NULL pointer.  *)
(* One step is one level of a recursion: of tree_insert_node on the way    *)
(* down, of tree_balance on the way up, of tree_delete.                    *)
(*                                                                         *)
(* tree_balance tests the skew of the left child for -1 where the right    *)
(* child calls for it, so it rotates the wrong way when the left side of a *)
(* node is too high: it may follow a NULL pointer (3, 2, 1 do) and it does *)
(* not always restore the balance.                                         *)
(*                                                                         *)
(* Not modelled: node_remove of an inner node, node_prev and node_next,    *)
(* which nothing calls; tree_first and tree_last they rest on call         *)
(* themselves with the same node for ever.                                 *)
(***************************************************************************)
EXTENDS Integers, FiniteSets, FiniteSetsExt

CONSTANTS
  Keys,       (* keys, natural numbers                                     *)
  Data,       (* what the caller's data pointers can lead to               *)
  MaxNodes    (* bound: nodes malloc'ed and not freed                      *)

ASSUME TreeAssumption == Keys \subseteq Nat /\ MaxNodes \in Nat /\ 0 \notin Data

Nodes == 1..MaxNodes
Null  == 0
Free  == [key |-> 0, data |-> 0, parent |-> Null, left |-> Null, right |-> Null,
          height |-> 0, size |-> 0, used |-> FALSE]
Fresh(k, d) == [Free EXCEPT !.key = k, !.data = d, !.used = TRUE]

VARIABLES
  heap,     \* the nodes
  root,     \* the caller's pointer
  pc,       \* the function under way, "idle", or "crashed"
  treeAt,   \* its argument
  new,      \* the node tree_insert_pair made
  call,     \* the caller's request, as in OrderedMap
  ascending \* history: no new key was below one in the tree so far

treeVars == <<heap, root, pc, treeAt, new, call, ascending>>

Map == INSTANCE OrderedMap WITH map <- <<>>, NoData <- 0

TreeInit ==
  /\ heap = [n \in Nodes |-> Free] /\ root = Null
  /\ pc = "idle" /\ treeAt = Null /\ new = Null /\ call = Map!Idle
  /\ ascending = TRUE

-----------------------------------------------------------------------------
(* Heights and rotations, on a heap h. *)

Height(h, n) == IF n = Null THEN 0 ELSE h[n].height
Size(h, n)   == IF n = Null THEN 0 ELSE h[n].size

skew(h, n) == IF n = Null THEN 0 ELSE Height(h, h[n].right) - Height(h, h[n].left)

node_augment(h, n) ==
  [h EXCEPT ![n].height = 1 + Max({Height(h, h[n].left), Height(h, h[n].right)}),
            ![n].size   = 1 + Size(h, h[n].left) + Size(h, h[n].right)]

\* A pointer may be NULL; what is stored through it then is not stored.
Stored(h, n, f, v) == IF n = Null THEN h
                  ELSE CASE f = "parent" -> [h EXCEPT ![n].parent = v]
                         [] f = "left"   -> [h EXCEPT ![n].left = v]
                         [] f = "right"  -> [h EXCEPT ![n].right = v]

\* What the parent of n has for n, it now has for m.
Replaced(h, n, m) == LET p == h[n].parent IN
  IF p = Null THEN h ELSE IF h[p].left = n THEN Stored(h, p, "left", m) ELSE Stored(h, p, "right", m)

Unparented(h, n, up, down) ==                                           \* mutant
  LET r  == h[n][up]
      h1 == Stored(Stored(Replaced(h, n, r), n, "parent", r), n, up, h[r][down])
  IN  node_augment(node_augment(Stored(Stored(h1, r, "parent", h[n].parent), r, down, n), n), r)
\* The child on one side comes up, the node goes down on the other side, and
\* the child's child between them changes over.
Rotated(h, n, up, down) ==
  LET r     == h[n][up]
      pivot == h[r][down]
      h1    == Replaced(Stored(h, pivot, "parent", n), n, r)
      h2    == Stored(Stored(h1, n, "parent", r), n, up, pivot)
      h3    == Stored(Stored(h2, r, "parent", h[n].parent), r, down, n)
  IN  node_augment(node_augment(h3, n), r)

tree_rotate_right(h, n) == Rotated(h, n, "left", "right")
tree_rotate_left(h, n)  == Rotated(h, n, "right", "left")

-----------------------------------------------------------------------------
(* The calls. *)

InTree == {n \in Nodes : heap[n].used /\ (n = root \/ heap[n].parent # Null)}

tree_insert_pair == \E k \in Keys, d \in Data :
  /\ pc = "idle" /\ \E n \in Nodes : ~heap[n].used
  /\ new' = Min({n \in Nodes : ~heap[n].used})
  /\ heap' = [heap EXCEPT ![new'] = Fresh(k, d)]
  /\ pc' = "insert" /\ treeAt' = root /\ call' = Map!Put(k, d)
  /\ ascending' = (ascending /\ \A n \in InTree : heap[n].key <= k)
  /\ UNCHANGED root

\* tree_insert_node: the key is there.  new is forgotten; that it is not freed
\* is left out, the model may use it again.
Overwrite ==
  /\ pc = "insert" /\ treeAt # Null /\ heap[treeAt].key = heap[new].key
  /\ heap' = [heap EXCEPT ![treeAt].data = heap[new].data, ![new] = Free]
  /\ pc' = "balance" /\ new' = Null /\ UNCHANGED <<root, treeAt, call>>

\* tree_insert_node: to the child on that side.
Flipped == IF heap[treeAt].key > heap[new].key THEN "right" ELSE "left"      \* mutant
Side == IF heap[treeAt].key > heap[new].key THEN "left" ELSE "right"

Descend ==
  /\ pc = "insert" /\ treeAt # Null /\ heap[treeAt].key # heap[new].key
  /\ heap[treeAt][Side] # Null /\ treeAt' = heap[treeAt][Side]
  /\ UNCHANGED <<heap, root, pc, new, call>>

\* tree_insert_before, tree_insert_after: the child is missing, new takes its
\* place; with an empty tree new is the tree.
Attach ==
  /\ pc = "insert"
  /\ \/ treeAt = Null /\ UNCHANGED heap
     \/ /\ treeAt # Null /\ heap[treeAt].key # heap[new].key /\ heap[treeAt][Side] = Null
        /\ heap' = Stored(Stored(heap, treeAt, Side, new), new, "parent", treeAt)
  /\ pc' = "balance" /\ treeAt' = new /\ new' = Null
  /\ UNCHANGED <<root, call>>

tree_delete ==
  /\ pc = "idle" /\ root # Null
  /\ pc' = "delete" /\ treeAt' = root /\ call' = Map!Clearing
  /\ UNCHANGED <<heap, root, new>>

DeleteDown ==
  /\ pc = "delete" /\ treeAt # Null
  /\ LET n == heap[treeAt] IN
     /\ n.left # Null \/ n.right # Null
     /\ treeAt' = IF n.left # Null THEN n.left ELSE n.right
  /\ UNCHANGED <<heap, root, pc, new, call>>

\* node_remove and node_free of a leaf; tree_balance goes on with its parent,
\* or there is no tree left.
DeleteLeaf ==
  /\ pc = "delete" /\ treeAt # Null /\ heap[treeAt].left = Null /\ heap[treeAt].right = Null
  /\ heap' = [Replaced(heap, treeAt, Null) EXCEPT ![treeAt] = Free]
  /\ treeAt' = heap[treeAt].parent
  /\ IF treeAt' = Null THEN root' = Null /\ UNCHANGED pc ELSE pc' = "balance" /\ UNCHANGED root
  /\ UNCHANGED <<new, call>>

\* tree_delete(NULL).
DeleteDone ==
  /\ pc = "delete" /\ treeAt = Null
  /\ pc' = "idle" /\ call' = Map!Idle /\ UNCHANGED <<heap, root, treeAt, new>>

\* tree_balance, one level: the heap after the rotations at a.
RightHigh(h, a) == skew(h, a) > 1
LeftHigh(h, a)  == skew(h, a) < -1

Inward(h, n) == skew(h, n) = -1

Balanced(h, a) ==
  LET l == h[a].left  r == h[a].right IN
  IF RightHigh(h, a)
  THEN tree_rotate_left(IF Inward(h, r) THEN tree_rotate_right(h, r) ELSE h, a)
  ELSE IF LeftHigh(h, a)
  THEN tree_rotate_right(IF skew(h, l) = -1 THEN tree_rotate_left(h, l) ELSE h, a)
  ELSE h

\* The double rotation follows a child of a's child, NULL or not.
FollowsNull(h, a) ==
  LET l == h[a].left  r == h[a].right IN
  \/ RightHigh(h, a) /\ Inward(h, r) /\ h[r].left = Null
  \/ LeftHigh(h, a) /\ skew(h, l) = -1 /\ h[l].right = Null

tree_balance ==
  /\ pc = "balance"
  /\ LET h == node_augment(heap, treeAt)
         b == Balanced(h, treeAt)
         top == IF RightHigh(h, treeAt) \/ LeftHigh(h, treeAt) THEN b[treeAt].parent ELSE treeAt
     IN  IF FollowsNull(h, treeAt)
         THEN pc' = "crashed" /\ UNCHANGED <<heap, root, treeAt, call>>
         ELSE /\ heap' = b
              /\ IF b[top].parent # Null
                 THEN treeAt' = b[top].parent /\ UNCHANGED <<root, pc, call>>
                 ELSE /\ root' = top
                      /\ IF call.name = "clear"
                         THEN pc' = "delete" /\ treeAt' = top /\ UNCHANGED call
                         ELSE pc' = "idle" /\ treeAt' = Null /\ call' = Map!Idle
  /\ UNCHANGED new

TreeNext ==
  \/ tree_insert_pair
  \/ /\ \/ Overwrite \/ Descend \/ Attach \/ tree_balance
        \/ tree_delete \/ DeleteDown \/ DeleteLeaf \/ DeleteDone
     /\ UNCHANGED ascending

TreeSpec == TreeInit /\ [][TreeNext]_treeVars

-----------------------------------------------------------------------------
(* Search. *)

\* The top of the tree: the caller's pointer, but while tree_balance is under way.
Top == IF pc \in {"balance", "crashed"}
       THEN CHOOSE n \in Nodes : heap[n].used /\ heap[n].parent = Null
       ELSE root

\* node_find, one call: it stays where the key is, and at NULL.
Onward(h, k) == [n \in 0..MaxNodes |->
  IF n = Null THEN n
  ELSE IF h[n].key = k THEN n
  ELSE IF h[n].key > k THEN h[n].left ELSE h[n].right]

\* Where that many calls have come to; no more than there are nodes are needed.
node_find(k) ==
  LET find[i \in 0..MaxNodes] == IF i = 0 THEN Top ELSE Onward(heap, k)[find[i - 1]]
  IN  IF Top = Null THEN Null ELSE find[MaxNodes]

Found(k) == LET n == node_find(k) IN IF n = Null THEN 0 ELSE heap[n].data

-----------------------------------------------------------------------------
(* Properties. *)

TreeTypeOK ==
  /\ heap \in [Nodes -> [key : Nat, data : Data \cup {0}, parent : 0..MaxNodes, left : 0..MaxNodes,
                         right : 0..MaxNodes, height : Nat, size : Nat, used : BOOLEAN]]
  /\ root \in 0..MaxNodes /\ treeAt \in 0..MaxNodes /\ new \in 0..MaxNodes
  /\ pc \in {"idle", "insert", "balance", "delete", "crashed"} /\ ascending \in BOOLEAN

\* The tree is a map: whatever rotations are under way, and however unbalanced it
\* has become, a search finds every key with its latest data and no other, a call
\* to insert changes one key and one only, and tree_delete leaves none.
Search == INSTANCE OrderedMap WITH map <- [k \in Keys |-> Found(k)], NoData <- 0
IsAMap == Search!Spec

\* Between calls the pointers of the tree agree with each other (a child knows
\* its parent, nobody has two), and the sizes and heights of all nodes are
\* those of their subtrees.
LinksAgree == pc = "idle" =>
  \A n \in InTree : LET t == heap[n] IN
    /\ \A s \in {t.left, t.right} \ {Null} : heap[s].used /\ heap[s].parent = n
    /\ t.left = t.right => t.left = Null
    /\ t.height = 1 + Max({Height(heap, t.left), Height(heap, t.right)})
    /\ t.size = 1 + Size(heap, t.left) + Size(heap, t.right)

\* No node's two sides differ by more than one level between calls.
InBalance == pc = "idle" => \A n \in InTree : skew(heap, n) \in -1..1

\* No rotation follows a NULL pointer.
NeverCrashes == pc # "crashed"

\* The tree keeps its links, and its balance as long as the keys ascend: otherwise
\* the balance is lost, and a rotation may crash.
TreeSound == TreeTypeOK /\ LinksAgree /\ (ascending => InBalance /\ NeverCrashes)

=============================================================================
