------------------------- MODULE SearchTree_proofs -------------------------
(***************************************************************************)
(* Proofs about the search tree, for every set of keys and of data and     *)
(* every number of nodes.                                                  *)
(*                                                                         *)
(* That the links are those of a tree is said without recursion: a node    *)
(* is in the tree if the search for its key comes to it, and a search      *)
(* comes to a node if every set of nodes with the top in it that the       *)
(* search does not leave has the node (Reach).  So an operation on the     *)
(* heap is shown to keep the tree by following one search at a time:       *)
(* through a rotation (TurnedWalk), past a node that is hung in or taken   *)
(* out (Attached, PluckedReach).                                           *)
(*                                                                         *)
(* TreeInv says this of every step, with heights and sizes exact but for   *)
(* the node tree_balance is at.  With ascending keys it also says (Level)  *)
(* how far that node can be out of balance, and why: the tree grows at its *)
(* right edge and is taken down at its left.  From it follow the links and *)
(* balance the caller sees (TreeIsSound), and that the tree is a map: the  *)
(* search of the model ends at the node with the key (WalkFinds), and each *)
(* step changes the data found as the map allows (TreeIsAMap).             *)
(***************************************************************************)
EXTENDS SearchTree, SequenceTheorems, WellFoundedInduction, FiniteSetTheorems, TLAPS


-----------------------------------------------------------------------------
(* The heap of a search tree. *)

Ptr  == 0..MaxNodes
Cell == [key : Nat, data : Data \cup {0}, parent : Ptr, left : Ptr, right : Ptr,
         height : Nat, size : Nat, used : BOOLEAN]
Heap == [Nodes -> Cell]

Sides == {"left", "right"}

\* The nodes of the tree: all but the one that is on its way in.
Members == {n \in Nodes : heap[n].used} \ {new}

\* A child knows its parent, a parent its child, and nobody is a child twice.
LinkedIn(h, T, n) ==
  /\ \A s \in Sides : h[n][s] # Null => h[n][s] \in T /\ h[h[n][s]].parent = n
  /\ h[n].left = h[n].right => h[n].left = Null
  /\ h[n].parent # Null => h[n].parent \in T /\ \E s \in Sides : h[h[n].parent][s] = n

\* Height and size are those of the children and one more.
Exact(h, n) ==
  /\ h[n].height = 1 + Max({Height(h, h[n].left), Height(h, h[n].right)})
  /\ h[n].size = 1 + Size(h, h[n].left) + Size(h, h[n].right)

\* A walk by g from t comes to m: m is in every set with t that g does not leave.
Reach(g, t, m) == \A S \in SUBSET Ptr : t \in S /\ (\A x \in S : g[x] \in S) => m \in S

\* The links of T, and no others, are those of a tree with top t, and a search for the
\* key of a member finds that member.
IsTree(h, T, t) ==
  /\ h \in Heap /\ T \subseteq Nodes
  /\ t \in T /\ h[t].parent = Null
  /\ \A n \in Nodes \ T : h[n].left = Null /\ h[n].right = Null
  /\ \A n \in T : LinkedIn(h, T, n) /\ Reach(Onward(h, h[n].key), t, n)

LEMMA PtrFacts == /\ MaxNodes \in Nat /\ Nodes \subseteq Ptr /\ Null \in Ptr
                  /\ \A n \in Ptr : n # Null <=> n \in Nodes
                  /\ \A n \in Nodes : n # Null
  BY TreeAssumption DEF Nodes, Ptr, Null

LEMMA CellFacts ==
  ASSUME NEW h \in Heap, NEW n \in Nodes
  PROVE  /\ h[n].parent \in Ptr /\ h[n].left \in Ptr /\ h[n].right \in Ptr
         /\ \A s \in Sides : h[n][s] \in Ptr
         /\ h[n].key \in Nat /\ h[n].height \in Nat /\ h[n].size \in Nat
         /\ h[n]["left"] = h[n].left /\ h[n]["right"] = h[n].right
         /\ h[n].data \in Data \cup {0} /\ h[n].used \in BOOLEAN
  BY DEF Heap, Cell, Sides

LEMMA Larger == ASSUME NEW a \in Nat, NEW b \in Nat
                PROVE  /\ Max({a, b}) = IF a > b THEN a ELSE b
                       /\ Max({a, b}) \in Nat
<1> DEFINE c == IF a > b THEN a ELSE b
<1>1. Max({a, b}) = CHOOSE x \in {a, b} : \A y \in {a, b} : x >= y
  BY DEF Max
<1>2. c \in {a, b} /\ \A y \in {a, b} : c >= y
  OBVIOUS
<1>3. \A x \in {a, b} : (\A y \in {a, b} : x >= y) => x = c
  OBVIOUS
<1>. QED BY <1>1, <1>2, <1>3

LEMMA Heights ==
  ASSUME NEW h \in Heap, NEW n \in Ptr
  PROVE  Height(h, n) \in Nat /\ Size(h, n) \in Nat
  BY PtrFacts, CellFacts DEF Height, Size

LEMMA OnwardIs ==
  ASSUME NEW h \in Heap, NEW k \in Int
  PROVE  /\ Onward(h, k) \in [Ptr -> Ptr]
         /\ Onward(h, k)[Null] = Null
         /\ \A n \in Nodes :
              Onward(h, k)[n] = IF h[n].key = k THEN n
                                ELSE IF h[n].key > k THEN h[n].left ELSE h[n].right
  BY PtrFacts, CellFacts DEF Onward, Ptr

-----------------------------------------------------------------------------
(* Walks. *)

LEMMA ReachSelf == ASSUME NEW g, NEW t PROVE Reach(g, t, t)
  BY DEF Reach

LEMMA ReachOn ==
  ASSUME NEW g, NEW t, NEW m, Reach(g, t, m)
  PROVE  Reach(g, t, g[m])
  BY DEF Reach

\* A walk that comes to m goes on from everything on the way to it.
LEMMA ReachRest ==
  ASSUME NEW g \in [Ptr -> Ptr], NEW t \in Ptr, NEW m \in Ptr, NEW n \in Ptr,
         Reach(g, t, m), Reach(g, t, n), g[m] = m
  PROVE  Reach(g, n, m)
<1> DEFINE S == {x \in Ptr : Reach(g, x, m)}
<1>1. t \in S
  OBVIOUS
<1>2. \A x \in S : g[x] \in S
  <2> SUFFICES ASSUME NEW x \in S PROVE Reach(g, g[x], m)
    OBVIOUS
  <2>1. CASE x = m
    BY <2>1
  <2>2. CASE x # m
    <3> SUFFICES ASSUME NEW U \in SUBSET Ptr, g[x] \in U, \A y \in U : g[y] \in U
                 PROVE  m \in U
      BY DEF Reach
    <3>1. m \in U \cup {x}
      <4>1. Reach(g, x, m) /\ x \in Ptr
        OBVIOUS
      <4>2. /\ U \cup {x} \in SUBSET Ptr
            /\ x \in U \cup {x} /\ \A y \in U \cup {x} : g[y] \in U \cup {x}
        BY <4>1
      <4>. QED BY <4>1, <4>2 DEF Reach
    <3>. QED BY <2>2, <3>1
  <2>. QED BY <2>1, <2>2
<1>3. n \in S
  <2>1. S \in SUBSET Ptr
    OBVIOUS
  <2> HIDE DEF S
  <2>. QED BY <1>1, <1>2, <2>1 DEF Reach
<1>. QED BY <1>3

\* One call of the search in a tree: to a child, or nowhere.
LEMMA OnwardInTree ==
  ASSUME NEW h \in Heap, NEW T, T \subseteq Nodes, \A n \in T : LinkedIn(h, T, n), NEW k \in Int,
         NEW x \in T
  PROVE  /\ Onward(h, k)[x] \in T \cup {Null}
         /\ \/ Onward(h, k)[x] = x \/ Onward(h, k)[x] = Null
            \/ h[Onward(h, k)[x]].parent = x
<1>1. \/ Onward(h, k)[x] = x
      \/ \E s \in Sides : Onward(h, k)[x] = h[x][s]
  BY OnwardIs, CellFacts DEF Sides
<1>. QED BY <1>1 DEF LinkedIn

\* What a walk comes to but does not start from, it comes to from its parent.
LEMMA ReachBack ==
  ASSUME NEW h \in Heap, NEW T, NEW t, NEW m \in T, NEW k \in Int,
         T \subseteq Nodes, t \in T, h[t].parent = Null,
         \A n \in T : LinkedIn(h, T, n),
         Reach(Onward(h, k), t, m), m # t
  PROVE  /\ h[m].parent \in T
         /\ Onward(h, k)[h[m].parent] = m
         /\ Reach(Onward(h, k), t, h[m].parent)
<1> DEFINE g == Onward(h, k)
           S == {y \in T \cup {Null} : Reach(g, t, y)} \ {m}
<1>1. /\ g[Null] = Null
      /\ \A x \in T : /\ g[x] \in T \cup {Null}
                      /\ g[x] = x \/ g[x] = Null \/ h[g[x]].parent = x
  BY OnwardIs, OnwardInTree
<1>2. S \in SUBSET Ptr /\ t \in S /\ m \notin S /\ m # Null
  BY ReachSelf, PtrFacts
<1>3. \A x \in S : Reach(g, t, g[x])
  BY ReachOn
<1>4. Reach(g, t, m)
  OBVIOUS
<1> HIDE DEF g
<1>5. PICK x \in S : g[x] \notin S
  <2> HIDE DEF S
  <2>. QED BY <1>2, <1>4 DEF Reach
<1>6. g[x] = m /\ x \in T /\ x # m /\ Reach(g, t, x)
  BY <1>1, <1>2, <1>3, <1>5
<1>7. h[m].parent = x
  BY <1>1, <1>2, <1>6
<1>. QED BY <1>6, <1>7 DEF g

\* A rotation, by which r comes up over n, as a walk to m sees it: the walk turned at n
\* to r and on over r, or at r to what now is at n, or not at n to r.
WalkTurned(g, f, n, r, m) ==
  /\ n # r
  /\ \A x \in Ptr \ {n, r} : g[x] # r /\ f[x] = IF g[x] = n THEN r ELSE g[x]
  /\ \/ m # n /\ g[n] = r /\ f[r] = g[r]
     \/ m # r /\ g[n] = r /\ g[r] = f[n] /\ f[r] = n
     \/ m # r /\ g[n] # r /\ f[n] = g[n] /\ f[r] = n

LEMMA TurnedWalk ==
  ASSUME NEW g \in [Ptr -> Ptr], NEW f \in [Ptr -> Ptr],
         NEW n \in Ptr, NEW r \in Ptr, NEW t \in Ptr, NEW m \in Ptr, t # r,
         NEW u, u = IF t = n THEN r ELSE t,
         WalkTurned(g, f, n, r, m), Reach(g, t, m)
  PROVE  Reach(f, u, m)
<1>0. /\ n # r
      /\ \A x \in Ptr \ {n, r} : g[x] # r /\ f[x] = IF g[x] = n THEN r ELSE g[x]
      /\ \/ m # n /\ g[n] = r /\ f[r] = g[r]
         \/ m # r /\ g[n] = r /\ g[r] = f[n] /\ f[r] = n
         \/ m # r /\ g[n] # r /\ f[n] = g[n] /\ f[r] = n
  BY DEF WalkTurned
<1> SUFFICES ASSUME NEW S \in SUBSET Ptr, u \in S,
                    \A x \in S : f[x] \in S
             PROVE  m \in S
  BY DEF Reach
<1>1. ASSUME NEW U \in SUBSET Ptr, t \in U, \A x \in U : g[x] \in U PROVE m \in U
  BY <1>1 DEF Reach
<1>2. ASSUME m # n, g[n] = r, f[r] = g[r] PROVE m \in S
  <2>1. CASE r \in S
    <3> DEFINE U == S \cup {n}
    <3>1. t \in U /\ \A x \in U : g[x] \in U
      BY <1>0, <1>2, <2>1
    <3>2. m \in U
      BY <1>1, <3>1
    <3>. QED BY <1>2, <3>2
  <2>2. CASE r \notin S
    <3> DEFINE U == S \ {n}
    <3>1. t \in U /\ \A x \in U : g[x] \in U
      BY <1>0, <1>2, <2>2
    <3>2. m \in U
      BY <1>1, <3>1
    <3>. QED BY <3>2
  <2>. QED BY <2>1, <2>2
<1>3. ASSUME m # r, g[n] = r, g[r] = f[n], f[r] = n PROVE m \in S
  <2>1. CASE n \in S
    <3> DEFINE U == S \cup {r}
    <3>1. t \in U /\ \A x \in U : g[x] \in U
      BY <1>0, <1>3, <2>1
    <3>2. m \in U
      BY <1>1, <3>1
    <3>. QED BY <1>3, <3>2
  <2>2. CASE n \notin S
    <3>1. t \in S /\ \A x \in S : g[x] \in S
      BY <1>0, <1>3, <2>2
    <3>. QED BY <1>1, <3>1
  <2>. QED BY <2>1, <2>2
<1>4. ASSUME m # r, g[n] # r, f[n] = g[n], f[r] = n PROVE m \in S
  <2> DEFINE U == S \ {r}
  <2>1. t \in U /\ \A x \in U : g[x] \in U
    BY <1>0, <1>4
  <2>2. m \in U
    BY <1>1, <2>1
  <2>. QED BY <2>2
<1>. QED BY <1>0, <1>2, <1>3, <1>4

-----------------------------------------------------------------------------
(* What is stored in a heap. *)

\* Nothing but the links of the nodes has changed.
SameData(h, s, x) == s[x].key = h[x].key /\ s[x].data = h[x].data /\ s[x].used = h[x].used
SameSize(h, s, x) == s[x].height = h[x].height /\ s[x].size = h[x].size

LEMMA StoredIs ==
  ASSUME NEW h \in Heap, NEW n \in Ptr, NEW f \in {"parent"} \cup Sides, NEW v \in Ptr
  PROVE  /\ Stored(h, n, f, v) \in Heap
         /\ \A x \in Nodes :
              /\ SameData(h, Stored(h, n, f, v), x) /\ SameSize(h, Stored(h, n, f, v), x)
              /\ Stored(h, n, f, v)[x].parent = IF x = n /\ f = "parent" THEN v ELSE h[x].parent
              /\ \A s \in Sides :
                   Stored(h, n, f, v)[x][s] = IF x = n /\ f = s THEN v ELSE h[x][s]
<1>1. CASE n = Null
  <2>1. Stored(h, n, f, v) = h
    BY <1>1 DEF Stored
  <2>. QED BY <1>1, <2>1, PtrFacts DEF SameData, SameSize
<1>2. CASE n \in Nodes /\ f = "parent"
  <2>1. Stored(h, n, f, v) = [h EXCEPT ![n].parent = v]
    BY <1>2, PtrFacts DEF Stored
  <2>. QED BY <1>2, <2>1 DEF Heap, Cell, SameData, SameSize, Sides
<1>3. CASE n \in Nodes /\ f = "left"
  <2>1. Stored(h, n, f, v) = [h EXCEPT ![n].left = v]
    BY <1>3, PtrFacts DEF Stored
  <2>. QED BY <1>3, <2>1 DEF Heap, Cell, SameData, SameSize, Sides
<1>4. CASE n \in Nodes /\ f = "right"
  <2>1. Stored(h, n, f, v) = [h EXCEPT ![n].right = v]
    BY <1>4, PtrFacts DEF Stored
  <2>. QED BY <1>4, <2>1 DEF Heap, Cell, SameData, SameSize, Sides
<1>. QED BY <1>1, <1>2, <1>3, <1>4, PtrFacts DEF Sides

LEMMA ParentStored ==
  ASSUME NEW h \in Heap, NEW n \in Ptr, NEW v \in Ptr
  PROVE  /\ Stored(h, n, "parent", v) \in Heap
         /\ \A x \in Nodes :
              /\ SameData(h, Stored(h, n, "parent", v), x) /\ SameSize(h, Stored(h, n, "parent", v), x)
              /\ Stored(h, n, "parent", v)[x].parent = IF x = n THEN v ELSE h[x].parent
              /\ \A s \in Sides : Stored(h, n, "parent", v)[x][s] = h[x][s]
<1>1. "parent" \in {"parent"} \cup Sides /\ \A s \in Sides : "parent" # s
  BY DEF Sides
<1> DEFINE f == "parent"
<1> HIDE DEF f
<1>2. f \in {"parent"} \cup Sides /\ f = "parent" /\ \A s \in Sides : f # s
  BY <1>1 DEF f
<1>3. /\ Stored(h, n, f, v) \in Heap
      /\ \A x \in Nodes :
              /\ SameData(h, Stored(h, n, f, v), x) /\ SameSize(h, Stored(h, n, f, v), x)
              /\ Stored(h, n, f, v)[x].parent = IF x = n THEN v ELSE h[x].parent
              /\ \A s \in Sides : Stored(h, n, f, v)[x][s] = h[x][s]
  BY <1>2, StoredIs
<1>. QED BY <1>3 DEF f

LEMMA ChildStored ==
  ASSUME NEW h \in Heap, NEW n \in Ptr, NEW f \in Sides, NEW v \in Ptr
  PROVE  /\ Stored(h, n, f, v) \in Heap
         /\ \A x \in Nodes :
              /\ SameData(h, Stored(h, n, f, v), x) /\ SameSize(h, Stored(h, n, f, v), x)
              /\ Stored(h, n, f, v)[x].parent = h[x].parent
              /\ \A s \in Sides :
                   Stored(h, n, f, v)[x][s] = IF x = n /\ f = s THEN v ELSE h[x][s]
<1>1. f \in {"parent"} \cup Sides /\ f # "parent"
  BY DEF Sides
<1>. QED BY <1>1, StoredIs

LEMMA AugmentIs ==
  ASSUME NEW h \in Heap, NEW n \in Nodes, h[n].left # n, h[n].right # n
  PROVE  /\ node_augment(h, n) \in Heap
         /\ Exact(node_augment(h, n), n)
         /\ \A x \in Nodes :
              /\ SameData(h, node_augment(h, n), x)
              /\ node_augment(h, n)[x].parent = h[x].parent
              /\ node_augment(h, n)[x].left = h[x].left
              /\ node_augment(h, n)[x].right = h[x].right
              /\ x # n => SameSize(h, node_augment(h, n), x)
<1> DEFINE hh == 1 + Max({Height(h, h[n].left), Height(h, h[n].right)})
           ss == 1 + Size(h, h[n].left) + Size(h, h[n].right)
           a  == node_augment(h, n)
<1>1. hh \in Nat /\ ss \in Nat
  BY Heights, CellFacts, Larger
<1>2. a = [h EXCEPT ![n].height = hh, ![n].size = ss]
  BY DEF node_augment
<1> HIDE DEF hh, ss
<1>3. /\ a \in Heap
      /\ a[n].height = hh /\ a[n].size = ss
      /\ \A x \in Nodes :
           /\ SameData(h, a, x) /\ a[x].parent = h[x].parent
           /\ a[x].left = h[x].left /\ a[x].right = h[x].right
           /\ x # n => SameSize(h, a, x)
  <2> DEFINE c == [h[n] EXCEPT !.height = hh, !.size = ss]
  <2>1. a = [h EXCEPT ![n] = c]
    BY <1>2 DEF Heap
  <2>2. c \in Cell /\ c.height = hh /\ c.size = ss
    BY <1>1 DEF Heap, Cell
  <2>3. /\ c.key = h[n].key /\ c.data = h[n].data /\ c.used = h[n].used
        /\ c.parent = h[n].parent /\ c.left = h[n].left /\ c.right = h[n].right
    BY DEF Heap, Cell
  <2> HIDE DEF a, c
  <2>. QED BY <2>1, <2>2, <2>3 DEF Heap, SameData, SameSize
<1> HIDE DEF a
<1>4. Height(a, h[n].left) = Height(h, h[n].left) /\ Height(a, h[n].right) = Height(h, h[n].right)
  BY <1>3, CellFacts, PtrFacts DEF Height, SameSize
<1>5. Size(a, h[n].left) = Size(h, h[n].left) /\ Size(a, h[n].right) = Size(h, h[n].right)
  BY <1>3, CellFacts, PtrFacts DEF Size, SameSize
<1>6. Exact(a, n)
  BY <1>3, <1>4, <1>5 DEF Exact, hh, ss
<1>. QED BY <1>3, <1>6 DEF a

-----------------------------------------------------------------------------
(* Rotations. *)

\* Whoever follows the parents up from n does not come to n again, not in three steps.
LEMMA NoCircle ==
  ASSUME NEW h, NEW T, NEW t, IsTree(h, T, t), NEW n \in T
  PROVE  LET p == h[n].parent IN
         /\ p # n
         /\ p # Null => p \in T /\ h[p].parent # n
         /\ p # Null /\ h[p].parent # Null => h[h[p].parent].parent # n
         /\ n # t => p # Null
<1> DEFINE k == h[n].key
           g == Onward(h, k)
           p == h[n].parent
<1>1. /\ h \in Heap /\ n \in Nodes /\ T \subseteq Nodes /\ k \in Int
      /\ t \in T /\ h[t].parent = Null
      /\ \A x \in T : LinkedIn(h, T, x)
      /\ n # Null /\ t # Null
  BY CellFacts, PtrFacts DEF IsTree
<1>2. Reach(g, t, n)
  BY <1>1 DEF IsTree
<1>3. n # t => p \in T
  BY <1>1, <1>2, ReachBack
<1>4. /\ g[Null] = Null
      /\ \A x \in T : /\ g[x] \in T \cup {Null}
                      /\ g[x] = x \/ g[x] = Null \/ h[g[x]].parent = x
  BY <1>1, OnwardIs, OnwardInTree
<1> HIDE DEF g
\* No way leads into a set that has n and the parents of its nodes, but not the top.
<1>5. ASSUME NEW C \in SUBSET T, n \in C, \A x \in C : h[x].parent \in C
      PROVE  FALSE
  <2> DEFINE S == (T \cup {Null}) \ C
  <2>1. C \subseteq T /\ Null \notin C
    BY <1>1, PtrFacts
  <2>2. t \in S /\ n \notin S /\ S \in SUBSET Ptr
    BY <1>1, <1>5, <2>1, PtrFacts
  <2>3. \A x \in S : g[x] \in S
    BY <1>4, <1>5, <2>1
  <2> HIDE DEF S
  <2>. QED BY <1>2, <2>2, <2>3 DEF Reach
<1>6. p # n
  <2> SUFFICES ASSUME p = n PROVE FALSE
    OBVIOUS
  <2> DEFINE C == {n}
  <2>1. C \in SUBSET T /\ n \in C /\ \A x \in C : h[x].parent \in C
    OBVIOUS
  <2> HIDE DEF C
  <2>. QED BY <1>5, <2>1
<1>7. \A x \in T : h[x].parent \in T \cup {Null}
  BY <1>1 DEF LinkedIn
<1>8. ~(p # Null /\ h[p].parent = n)
  <2> SUFFICES ASSUME p # Null, h[p].parent = n PROVE FALSE
    OBVIOUS
  <2> DEFINE C == {n, p}
  <2>1. C \in SUBSET T /\ n \in C /\ \A x \in C : h[x].parent \in C
    BY <1>7
  <2> HIDE DEF C
  <2>. QED BY <1>5, <2>1
<1>9. ~(p # Null /\ h[p].parent # Null /\ h[h[p].parent].parent = n)
  <2> DEFINE q == h[p].parent
             C == {n, p, q}
  <2> SUFFICES ASSUME p # Null, q # Null, h[q].parent = n PROVE FALSE
    OBVIOUS
  <2>1. C \in SUBSET T /\ n \in C /\ \A x \in C : h[x].parent \in C
    BY <1>7
  <2> HIDE DEF C
  <2>. QED BY <1>5, <2>1
<1>. QED BY <1>1, <1>3, <1>6, <1>7, <1>8, <1>9, PtrFacts

\* Which way a search turns at a node that has a child on a side.
LEMMA OnPath ==
  ASSUME NEW h, NEW T, NEW t, IsTree(h, T, t), NEW n \in T, NEW s \in Sides, h[n][s] # Null
  PROVE  /\ h[n][s] \in T /\ h[n][s] # t /\ h[n][s] # n /\ h[h[n][s]].parent = n
         /\ s = "left" => h[h[n][s]].key < h[n].key
         /\ s = "right" => h[h[n][s]].key > h[n].key
<1> DEFINE r == h[n][s]
           g == Onward(h, h[r].key)
<1>1. /\ h \in Heap /\ T \subseteq Nodes /\ n \in Nodes
      /\ t \in T /\ h[t].parent = Null
      /\ \A x \in T : LinkedIn(h, T, x)
      /\ n # Null
  BY PtrFacts DEF IsTree
<1>2. r \in T /\ h[r].parent = n
  BY <1>1 DEF LinkedIn
<1>3. r # t /\ r # n /\ h[r].key \in Int /\ h[n].key \in Nat /\ h[r].key \in Nat
  BY <1>1, <1>2, NoCircle, CellFacts
<1>4. Reach(g, t, r)
  BY <1>2 DEF IsTree
<1>5. g[n] = r
  BY <1>1, <1>2, <1>3, <1>4, ReachBack
<1>6. h[n].key # h[r].key
  BY <1>1, <1>3, <1>5, OnwardIs
<1>7. h[n].left # h[n].right
  BY <1>1, <1>2, PtrFacts, CellFacts DEF LinkedIn, Sides
<1>8. r = IF h[n].key > h[r].key THEN h[n].left ELSE h[n].right
  BY <1>1, <1>3, <1>5, <1>6, OnwardIs
<1>9. /\ s = "left" => r = h[n].left
      /\ s = "right" => r = h[n].right
  BY <1>1, CellFacts
<1>. QED BY <1>2, <1>3, <1>6, <1>7, <1>8, <1>9

\* Where the links of a node go after r, its child on one side, has come up over n.
Turned(h, R, n, up, down) ==
  LET r == h[n][up]  v == h[r][down]  p == h[n].parent IN
  /\ R \in Heap
  /\ \A x \in Nodes : SameData(h, R, x)
  /\ \A x \in Nodes \ {n, r} :
       /\ SameSize(h, R, x)
       /\ R[x].parent = IF x = v THEN n ELSE h[x].parent
       /\ \A s \in Sides : R[x][s] = IF x = p /\ h[x][s] = n THEN r ELSE h[x][s]
  /\ R[n].parent = r /\ R[n][up] = v /\ R[n][down] = h[n][down]
  /\ R[r].parent = p /\ R[r][down] = n /\ R[r][up] = h[r][up]
  /\ Exact(R, n) /\ Exact(R, r)

\* Who is who at a rotation: six different nodes, or NULL.
LEMMA Around4 ==
  ASSUME NEW h, NEW T, NEW t, IsTree(h, T, t), NEW n \in T,
         NEW up \in Sides, NEW down \in Sides, up # down, h[n][up] # Null
  PROVE  LET r == h[n][up]  v == h[r][down]  p == h[n].parent  w == h[n][down] IN
         /\ h \in Heap /\ T \subseteq Nodes /\ n \in Nodes
         /\ r \in T /\ r # n /\ r # t /\ h[r].parent = n
         /\ v # n /\ v # r /\ (v # Null => v \in T /\ v # t /\ h[v].parent = r)
         /\ p # n /\ p # r /\ (p # Null => p \in T /\ p # v) /\ (p = Null <=> n = t)
         /\ p # Null => \E s \in Sides : h[p][s] = n /\ \A q \in Sides : q # s => h[p][q] # n
         /\ w # n /\ w # r /\ (w # Null => w # v /\ w # p)
         /\ h[r][up] # n /\ h[r][up] # r /\ (h[r][up] # Null => h[r][up] # v)
<1> DEFINE r == h[n][up]
           v == h[r][down]
           p == h[n].parent
           w == h[n][down]
           q == h[r][up]
<1>1. /\ h \in Heap /\ T \subseteq Nodes /\ n \in Nodes /\ n # Null
      /\ t \in T /\ h[t].parent = Null
      /\ \A x \in T : LinkedIn(h, T, x)
  BY PtrFacts DEF IsTree
<1>2. r \in T /\ r # t /\ r # n /\ h[r].parent = n
  BY OnPath
<1>3. \A s \in Sides : h[r][s] # Null =>
           h[r][s] \in T /\ h[r][s] # t /\ h[r][s] # r /\ h[h[r][s]].parent = r
  BY <1>2, OnPath
<1>4. \A s \in Sides : h[n][s] # Null =>
           h[n][s] \in T /\ h[n][s] # t /\ h[n][s] # n /\ h[h[n][s]].parent = n
  BY OnPath
<1>5. p # n /\ (p # Null => p \in T /\ h[p].parent # n) /\ (n # t => p # Null)
  BY NoCircle
<1>6. p # r
  BY <1>1, <1>2, <1>5, PtrFacts
<1>7. v # n /\ v # r
  BY <1>1, <1>2, <1>3, <1>5, <1>6, PtrFacts
<1>8. q # n /\ q # r
  BY <1>1, <1>2, <1>3, <1>5, <1>6, PtrFacts
<1>9. /\ \A x \in T : h[x]["left"] = h[x].left /\ h[x]["right"] = h[x].right
      /\ (up = "left" /\ down = "right") \/ (up = "right" /\ down = "left")
  BY <1>1, CellFacts DEF Sides
<1>10. w # r /\ (q # Null => q # v)
  <2>1. \A x \in T : h[x][up] = h[x][down] => h[x][up] = Null
    BY <1>1, <1>9 DEF LinkedIn
  <2>. QED BY <1>1, <1>2, <2>1
<1>11. w # n /\ (w # Null => w # v /\ w # p)
  BY <1>1, <1>2, <1>3, <1>4, <1>5, PtrFacts
<1>12. p # Null => p # v
  <2> SUFFICES ASSUME p # Null, p = v PROVE FALSE
    OBVIOUS
  <2>1. h[p].parent = r /\ r # Null
    BY <1>1, <1>2, <1>3, PtrFacts
  <2>. QED BY <1>2, <2>1, NoCircle
<1>13. ASSUME p # Null
       PROVE  \E s \in Sides : h[p][s] = n /\ \A d \in Sides : d # s => h[p][d] # n
  <2>1. PICK s \in Sides : h[p][s] = n
    BY <1>1, <1>13 DEF LinkedIn
  <2>2. h[p].left = h[p].right => h[p].left = Null
    BY <1>1, <1>5, <1>13 DEF LinkedIn
  <2>. QED BY <1>1, <1>5, <1>9, <1>13, <2>1, <2>2 DEF Sides
<1>. QED BY <1>1, <1>2, <1>3, <1>5, <1>6, <1>7, <1>8, <1>10, <1>11, <1>12, <1>13

LEMMA RotatedIs ==
  ASSUME NEW h, NEW T, NEW t, IsTree(h, T, t), NEW n \in T,
         NEW up \in Sides, NEW down \in Sides, up # down, h[n][up] # Null
  PROVE  Turned(h, Rotated(h, n, up, down), n, up, down)
<1> DEFINE r == h[n][up]
           v == h[r][down]
           p == h[n].parent
           w == h[n][down]
           h0 == Stored(h, v, "parent", n)
           h1 == Replaced(h0, n, r)
           h2 == Stored(h1, n, "parent", r)
           h3 == Stored(h2, n, up, v)
           h4 == Stored(h3, r, "parent", p)
           h5 == Stored(h4, r, down, n)
           h6 == node_augment(h5, n)
           h7 == node_augment(h6, r)
<1>1. /\ h \in Heap /\ T \subseteq Nodes /\ n \in Nodes
      /\ r \in T /\ r # n /\ h[r].parent = n
      /\ v # n /\ v # r /\ (v # Null => v \in T)
      /\ p # n /\ p # r /\ (p # Null => p \in T /\ p # v)
      /\ p # Null => \E s \in Sides : h[p][s] = n /\ \A q \in Sides : q # s => h[p][q] # n
      /\ w # n /\ w # r /\ h[r][up] # n /\ h[r][up] # r
  BY Around4
<1>2. /\ r \in Nodes /\ v \in Ptr /\ p \in Ptr /\ r \in Ptr /\ n \in Ptr
      /\ n # Null /\ r # Null
  BY <1>1, CellFacts, PtrFacts
<1>3. Rotated(h, n, up, down) = h7
  BY DEF Rotated
<1>0. h[n][up] = r /\ h[n][down] = w /\ h[r][down] = v /\ h[n].parent = p
  OBVIOUS
<1> HIDE DEF r, v, p, w
<1>4. h0 \in Heap /\ \A x \in Nodes :
        /\ SameData(h, h0, x) /\ SameSize(h, h0, x)
        /\ h0[x].parent = IF x = v THEN n ELSE h[x].parent
        /\ \A s \in Sides : h0[x][s] = h[x][s]
  BY <1>1, <1>2, ParentStored
<1> HIDE DEF h0
<1>5. h1 \in Heap /\ \A x \in Nodes :
        /\ SameData(h, h1, x) /\ SameSize(h, h1, x)
        /\ h1[x].parent = h0[x].parent
        /\ \A s \in Sides : h1[x][s] = IF x = p /\ h[x][s] = n THEN r ELSE h[x][s]
  <2>1. h0[n].parent = p
    BY <1>1, <1>4 DEF p
  <2>2. CASE p = Null
    <3>1. h1 = h0
      BY <2>1, <2>2 DEF Replaced
    <3>. QED BY <1>4, <2>2, <3>1, PtrFacts
  <2>3. CASE p # Null
    <3>1. p \in Nodes
      BY <1>1, <2>3
    <3>2. PICK s \in Sides : h[p][s] = n /\ \A q \in Sides : q # s => h[p][q] # n
      BY <1>1, <2>3
    <3>3. h0[p].left = n <=> s = "left"
      BY <1>4, <3>1, <3>2, CellFacts DEF Sides
    <3>4. h1 = Stored(h0, p, s, r)
      BY <2>1, <2>3, <3>3 DEF Replaced, Sides
    <3> DEFINE c == Stored(h0, p, s, r)
    <3>5. c \in Heap /\ \A x \in Nodes :
            /\ SameData(h0, c, x) /\ SameSize(h0, c, x)
            /\ c[x].parent = h0[x].parent
            /\ \A q \in Sides : c[x][q] = IF x = p /\ s = q THEN r ELSE h0[x][q]
      BY <1>2, <1>4, ChildStored
    <3> HIDE DEF h1, c
    <3>6. h1 = c
      BY <3>4 DEF c
    <3>. QED BY <1>4, <3>2, <3>5, <3>6 DEF SameData, SameSize
  <2>. QED BY <2>2, <2>3
<1> HIDE DEF h1
<1>6. h2 \in Heap /\ \A x \in Nodes :
        /\ SameData(h1, h2, x) /\ SameSize(h1, h2, x)
        /\ h2[x].parent = IF x = n THEN r ELSE h1[x].parent
        /\ \A s \in Sides : h2[x][s] = h1[x][s]
  BY <1>2, <1>5, ParentStored
<1> HIDE DEF h2
<1>7. h3 \in Heap /\ \A x \in Nodes :
        /\ SameData(h2, h3, x) /\ SameSize(h2, h3, x)
        /\ h3[x].parent = h2[x].parent
        /\ \A s \in Sides : h3[x][s] = IF x = n /\ up = s THEN v ELSE h2[x][s]
  BY <1>2, <1>6, ChildStored
<1> HIDE DEF h3
<1>8. h4 \in Heap /\ \A x \in Nodes :
        /\ SameData(h3, h4, x) /\ SameSize(h3, h4, x)
        /\ h4[x].parent = IF x = r THEN p ELSE h3[x].parent
        /\ \A s \in Sides : h4[x][s] = h3[x][s]
  BY <1>2, <1>7, ParentStored
<1> HIDE DEF h4
<1>9. h5 \in Heap /\ \A x \in Nodes :
        /\ SameData(h4, h5, x) /\ SameSize(h4, h5, x)
        /\ h5[x].parent = h4[x].parent
        /\ \A s \in Sides : h5[x][s] = IF x = r /\ down = s THEN n ELSE h4[x][s]
  BY <1>2, <1>8, ChildStored
<1> HIDE DEF h5
<1>10. \A x \in Nodes : SameData(h, h5, x) /\ SameSize(h, h5, x)
  BY <1>5, <1>6, <1>7, <1>8, <1>9 DEF SameData, SameSize
<1>11. /\ \A x \in Nodes \ {n, r} :
            /\ h5[x].parent = IF x = v THEN n ELSE h[x].parent
            /\ \A s \in Sides : h5[x][s] = IF x = p /\ h[x][s] = n THEN r ELSE h[x][s]
       /\ h5[n].parent = r /\ h5[n][up] = v /\ h5[n][down] = w
       /\ h5[r].parent = p /\ h5[r][down] = n /\ h5[r][up] = h[r][up]
  <2>1. \A x \in Nodes \ {n, r} :
            /\ h5[x].parent = IF x = v THEN n ELSE h[x].parent
            /\ \A s \in Sides : h5[x][s] = IF x = p /\ h[x][s] = n THEN r ELSE h[x][s]
    BY <1>4, <1>5, <1>6, <1>7, <1>8, <1>9
  <2>2. h5[n].parent = r /\ h5[r].parent = p
    BY <1>0, <1>1, <1>2, <1>4, <1>5, <1>6, <1>7, <1>8, <1>9
  <2>3. h5[n][up] = v /\ h5[n][down] = w
    BY <1>0, <1>1, <1>2, <1>5, <1>6, <1>7, <1>8, <1>9
  <2>4. h5[r][down] = n /\ h5[r][up] = h[r][up]
    BY <1>0, <1>1, <1>2, <1>5, <1>6, <1>7, <1>8, <1>9
  <2>. QED BY <2>1, <2>2, <2>3, <2>4
<1>12. \A x \in {n, r} : h5[x].left # x /\ h5[x].right # x
  <2>1. \A x \in {n, r} : h5[x][up] # x /\ h5[x][down] # x
    BY <1>1, <1>11
  <2>. QED BY <1>2, <1>9, <2>1, CellFacts DEF Sides
<1>13. /\ h6 \in Heap /\ Exact(h6, n)
       /\ \A x \in Nodes :
            /\ SameData(h5, h6, x) /\ h6[x].parent = h5[x].parent
            /\ h6[x].left = h5[x].left /\ h6[x].right = h5[x].right
            /\ x # n => SameSize(h5, h6, x)
  <2>1. h5[n].left # n /\ h5[n].right # n
    BY <1>12
  <2>. QED BY <1>1, <1>9, <2>1, AugmentIs
<1> HIDE DEF h6
<1>14. /\ h7 \in Heap /\ Exact(h7, r)
       /\ \A x \in Nodes :
            /\ SameData(h6, h7, x) /\ h7[x].parent = h6[x].parent
            /\ h7[x].left = h6[x].left /\ h7[x].right = h6[x].right
            /\ x # r => SameSize(h6, h7, x)
  BY <1>2, <1>12, <1>13, AugmentIs
<1> HIDE DEF h7
<1>15. Exact(h7, n)
  <2>1. h7[n].left # r /\ h7[n].right # r
    <3>1. h5[n].left # r /\ h5[n].right # r
      <4>1. \A s \in Sides : h5[n][s] # r
        BY <1>1, <1>11 DEF Sides
      <4>2. h5[n]["left"] = h5[n].left /\ h5[n]["right"] = h5[n].right
        BY <1>1, <1>9, CellFacts
      <4>. QED BY <4>1, <4>2 DEF Sides
    <3>. QED BY <1>1, <1>13, <1>14, <3>1
  <2>2. \A c \in {h6[n].left, h6[n].right} : Height(h7, c) = Height(h6, c) /\ Size(h7, c) = Size(h6, c)
    BY <1>2, <1>13, <1>14, <2>1, CellFacts, PtrFacts DEF Height, Size, SameSize
  <2>. QED BY <1>1, <1>2, <1>13, <1>14, <2>2 DEF Exact, SameSize
<1>16. \A x \in Nodes : \A s \in Sides : h7[x][s] = h5[x][s] /\ h7[x].parent = h5[x].parent
  BY <1>9, <1>13, <1>14, CellFacts DEF Sides
<1>17. \A x \in Nodes : SameData(h, h7, x) /\ (x \notin {n, r} => SameSize(h, h7, x))
  BY <1>10, <1>13, <1>14 DEF SameData, SameSize
<1>18. /\ \A x \in Nodes \ {n, r} :
            /\ h7[x].parent = IF x = v THEN n ELSE h[x].parent
            /\ \A s \in Sides : h7[x][s] = IF x = p /\ h[x][s] = n THEN r ELSE h[x][s]
       /\ h7[n].parent = r /\ h7[n][up] = v /\ h7[n][down] = w
       /\ h7[r].parent = p /\ h7[r][down] = n /\ h7[r][up] = h[r][up]
  BY <1>1, <1>2, <1>11, <1>16
<1>19. Turned(h, h7, n, up, down)
  BY <1>0, <1>14, <1>15, <1>17, <1>18 DEF Turned
<1>. QED BY <1>3, <1>19

\* The children of x have the heights and sizes they had.
SameBelow(h, R, x) ==
  \A s \in Sides : Height(R, R[x][s]) = Height(h, h[x][s]) /\ Size(R, R[x][s]) = Size(h, h[x][s])

LEMMA StillExact ==
  ASSUME NEW h \in Heap, NEW R \in Heap, NEW x \in Nodes, SameBelow(h, R, x)
  PROVE  /\ SameSize(h, R, x) /\ Exact(h, x) => Exact(R, x)
         /\ skew(R, x) = skew(h, x)
  BY CellFacts, PtrFacts DEF SameBelow, SameSize, Exact, skew, Sides

\* After the rotation the links are those of a tree again.
LEMMA TurnedLinks ==
  ASSUME NEW h, NEW T, NEW t, IsTree(h, T, t), NEW n \in T,
         NEW up \in Sides, NEW down \in Sides, up # down, h[n][up] # Null,
         NEW R, Turned(h, R, n, up, down)
  PROVE  \A x \in T : LinkedIn(R, T, x)
<1> DEFINE r == h[n][up]
           v == h[r][down]
           p == h[n].parent
           w == h[n][down]
           q == h[r][up]
<1>1. /\ h \in Heap /\ T \subseteq Nodes /\ n \in Nodes /\ r \in T /\ r \in Nodes
      /\ \A x \in T : LinkedIn(h, T, x)
      /\ r # n /\ h[r].parent = n
      /\ v # n /\ v # r /\ (v # Null => v \in T /\ h[v].parent = r)
      /\ p # n /\ p # r /\ (p # Null => p \in T /\ p # v)
      /\ p # Null => \E s \in Sides : h[p][s] = n /\ \A d \in Sides : d # s => h[p][d] # n
      /\ w # n /\ w # r /\ (w # Null => w # v /\ w # p)
      /\ q # n /\ q # r /\ (q # Null => q # v)
      /\ n # Null /\ r # Null
  BY Around4, PtrFacts DEF IsTree
<1>2. /\ R \in Heap
      /\ \A x \in Nodes \ {n, r} :
           /\ R[x].parent = IF x = v THEN n ELSE h[x].parent
           /\ \A s \in Sides : R[x][s] = IF x = p /\ h[x][s] = n THEN r ELSE h[x][s]
      /\ R[n].parent = r /\ R[n][up] = v /\ R[n][down] = w
      /\ R[r].parent = p /\ R[r][down] = n /\ R[r][up] = q
  BY DEF Turned
<1>3. /\ h[n][up] = r /\ h[n][down] = w /\ h[r][down] = v /\ h[r][up] = q /\ h[n].parent = p
      /\ \A s \in Sides : s = up \/ s = down
      /\ \A x \in T : R[x]["left"] = R[x].left /\ R[x]["right"] = R[x].right
      /\ \A x \in T : h[x]["left"] = h[x].left /\ h[x]["right"] = h[x].right
  BY <1>1, <1>2, CellFacts DEF Sides
<1> HIDE DEF r, v, p, w, q
<1>4. \A x \in T : \A s \in Sides : h[x][s] # Null => h[x][s] \in T /\ h[h[x][s]].parent = x
  BY <1>1 DEF LinkedIn
<1>5. \A x \in T : h[x].parent # Null => h[x].parent \in T /\ \E s \in Sides : h[h[x].parent][s] = x
  BY <1>1 DEF LinkedIn
<1>6. ASSUME NEW x \in T, NEW s \in Sides, R[x][s] # Null
      PROVE  R[x][s] \in T /\ R[R[x][s]].parent = x
  <2>1. CASE x = n
    BY <1>1, <1>2, <1>3, <1>4, <1>6, <2>1
  <2>2. CASE x = r
    BY <1>1, <1>2, <1>3, <1>4, <1>6, <2>2
  <2>3. CASE x \notin {n, r} /\ x = p /\ h[x][s] = n
    BY <1>1, <1>2, <2>3
  <2>4. CASE x \notin {n, r} /\ ~(x = p /\ h[x][s] = n)
    <3> DEFINE c == h[x][s]
    <3>1. R[x][s] = c /\ c # Null
      BY <1>1, <1>2, <1>6, <2>4
    <3>2. c \in T /\ h[c].parent = x
      BY <1>4, <3>1
    <3>3. c # n /\ c # r /\ c # v
      BY <1>1, <1>3, <2>4, <3>1, <3>2
    <3>. QED BY <1>1, <1>2, <3>1, <3>2, <3>3
  <2>. QED BY <2>1, <2>2, <2>3, <2>4
<1>7. ASSUME NEW x \in T, R[x].left = R[x].right PROVE R[x].left = Null
  <2>1. R[x][up] = R[x][down]
    BY <1>3, <1>7 DEF Sides
  <2>2. CASE x \in {n, r}
    BY <1>1, <1>2, <1>3, <2>1, <2>2 DEF Sides
  <2>3. CASE x \notin {n, r}
    <3>1. h[x][up] # r /\ h[x][down] # r
      BY <1>1, <1>4, <2>3
    <3>2. h[x].left = h[x].right => h[x].left = Null
      BY <1>1 DEF LinkedIn
    <3>3. h[x][up] = h[x][down] => h[x][up] = Null
      BY <1>3, <3>2 DEF Sides
    <3>. QED BY <1>1, <1>2, <1>3, <2>1, <2>3, <3>1, <3>3 DEF Sides
  <2>. QED BY <2>2, <2>3
<1>8. ASSUME NEW x \in T, R[x].parent # Null
      PROVE  R[x].parent \in T /\ \E s \in Sides : R[R[x].parent][s] = x
  <2>1. CASE x \in {n, r, v}
    BY <1>1, <1>2, <1>3, <1>8, <2>1
  <2>2. CASE x \notin {n, r, v}
    <3> DEFINE d == h[x].parent
    <3>1. R[x].parent = d
      BY <1>1, <1>2, <2>2
    <3>2. PICK s \in Sides : d \in T /\ h[d][s] = x
      BY <1>5, <1>8, <3>1
    <3>3. CASE d = n
      BY <1>1, <1>2, <1>3, <2>2, <3>1, <3>2, <3>3
    <3>4. CASE d = r
      BY <1>1, <1>2, <1>3, <2>2, <3>1, <3>2, <3>4
    <3>5. CASE d \notin {n, r}
      BY <1>1, <1>2, <2>2, <3>1, <3>2, <3>5
    <3>. QED BY <3>3, <3>4, <3>5
  <2>. QED BY <2>1, <2>2
<1>. QED BY <1>6, <1>7, <1>8 DEF LinkedIn

\* Every walk comes where it came, but for the two nodes that turned.
LEMMA TurnedReach ==
  ASSUME NEW h, NEW T, NEW t, IsTree(h, T, t), NEW n \in T,
         NEW up \in Sides, NEW down \in Sides, up # down, h[n][up] # Null,
         NEW R, Turned(h, R, n, up, down),
         NEW k \in Int, NEW m \in T, Reach(Onward(h, k), t, m),
         m \in {n, h[n][up]} => k = h[m].key
  PROVE  Reach(Onward(R, k), IF t = n THEN h[n][up] ELSE t, m)
<1> DEFINE r == h[n][up]
           v == h[r][down]
           p == h[n].parent
           g == Onward(h, k)
           f == Onward(R, k)
<1>1. /\ h \in Heap /\ T \subseteq Nodes /\ n \in Nodes /\ r \in T /\ r \in Nodes
      /\ \A x \in T : LinkedIn(h, T, x)
      /\ \A x \in Nodes \ T : h[x].left = Null /\ h[x].right = Null
      /\ r # n /\ r # t /\ t \in T /\ h[r].parent = n
      /\ v # n /\ v # r
      /\ n # Null /\ r # Null /\ n \in Ptr /\ r \in Ptr /\ t \in Ptr /\ m \in Ptr
      /\ h[n].key \in Nat /\ h[r].key \in Nat
  <2>1. /\ h \in Heap /\ T \subseteq Nodes /\ n \in Nodes /\ r \in T /\ t \in T
        /\ \A x \in T : LinkedIn(h, T, x)
        /\ \A x \in Nodes \ T : h[x].left = Null /\ h[x].right = Null
        /\ r # n /\ r # t /\ h[r].parent = n
        /\ v # n /\ v # r
    <3>1. /\ t \in T /\ \A x \in T : LinkedIn(h, T, x)
          /\ \A x \in Nodes \ T : h[x].left = Null /\ h[x].right = Null
      BY DEF IsTree
    <3>2. /\ h \in Heap /\ T \subseteq Nodes /\ n \in Nodes /\ r \in T
          /\ r # n /\ r # t /\ h[r].parent = n
          /\ v # n /\ v # r
      BY Around4
    <3>. QED BY <3>1, <3>2
  <2>2. r \in Nodes /\ t \in Nodes /\ m \in Nodes
    BY <2>1
  <2> HIDE DEF r, v
  <2>. QED BY <2>1, <2>2, PtrFacts, CellFacts
<1>2. /\ R \in Heap
      /\ \A x \in Nodes : R[x].key = h[x].key
      /\ \A x \in Nodes \ {n, r} : \A s \in Sides : R[x][s] = IF x = p /\ h[x][s] = n THEN r ELSE h[x][s]
      /\ R[n][up] = v /\ R[n][down] = h[n][down]
      /\ R[r][down] = n /\ R[r][up] = h[r][up]
  BY DEF Turned, SameData
<1>3. /\ \A x \in Nodes : R[x]["left"] = R[x].left /\ R[x]["right"] = R[x].right
      /\ \A x \in Nodes : h[x]["left"] = h[x].left /\ h[x]["right"] = h[x].right
      /\ \/ up = "left" /\ down = "right"
         \/ up = "right" /\ down = "left"
  <2>1. \/ up = "left" /\ down = "right"
        \/ up = "right" /\ down = "left"
    BY DEF Sides
  <2> HIDE DEF r, v, p
  <2>. QED BY <1>1, <1>2, <2>1, CellFacts
<1>4. /\ up = "left" => h[r].key < h[n].key
      /\ up = "right" => h[r].key > h[n].key
  BY OnPath
<1>5. /\ g \in [Ptr -> Ptr] /\ f \in [Ptr -> Ptr] /\ g[Null] = Null /\ f[Null] = Null
      /\ \A x \in Nodes :
           /\ g[x] = IF h[x].key = k THEN x ELSE IF h[x].key > k THEN h[x]["left"] ELSE h[x]["right"]
           /\ f[x] = IF h[x].key = k THEN x ELSE IF h[x].key > k THEN R[x]["left"] ELSE R[x]["right"]
  BY <1>1, <1>2, <1>3, OnwardIs
<1>6. \A x \in T : \A s \in Sides : h[x][s] # Null => h[h[x][s]].parent = x
  BY <1>1 DEF LinkedIn
<1>7. h[n][up] = r /\ h[r][down] = v /\ h[n].parent = p
  OBVIOUS
<1>8. Reach(g, t, m) /\ (m \in {n, r} => k = h[m].key)
  OBVIOUS
<1> HIDE DEF r, v, p, g, f
<1>9. \A x \in Ptr \ {n, r} : g[x] # r /\ f[x] = IF g[x] = n THEN r ELSE g[x]
  <2> SUFFICES ASSUME NEW x \in Ptr \ {n, r}
               PROVE  g[x] # r /\ f[x] = IF g[x] = n THEN r ELSE g[x]
    OBVIOUS
  <2>1. CASE x = Null
    BY <1>1, <1>5, <2>1
  <2>2. CASE x \in Nodes
    <3>1. \A s \in Sides : h[x][s] # r /\ R[x][s] = IF h[x][s] = n THEN r ELSE h[x][s]
      <4>1. CASE x \in T
        BY <1>1, <1>2, <1>6, <1>7, <4>1
      <4>2. CASE x \notin T
        BY <1>1, <1>2, <1>3, <2>2, <4>2 DEF Sides
      <4>. QED BY <4>1, <4>2
    <3>. QED BY <1>1, <1>5, <2>2, <3>1 DEF Sides
  <2>. QED BY <2>1, <2>2, PtrFacts
<1>10. \/ m # n /\ g[n] = r /\ f[r] = g[r]
       \/ m # r /\ g[n] = r /\ g[r] = f[n] /\ f[r] = n
       \/ m # r /\ g[n] # r /\ f[n] = g[n] /\ f[r] = n
  <2>1. CASE up = "left"
    <3>1. /\ down = "right" /\ h[r].key < h[n].key
          /\ R[n]["left"] = v /\ R[n]["right"] = h[n]["right"] /\ h[n]["left"] = r
          /\ R[r]["right"] = n /\ R[r]["left"] = h[r]["left"] /\ h[r]["right"] = v
      BY <1>2, <1>3, <1>4, <1>7, <2>1
    <3>2. h[n]["right"] # r
      BY <1>1, <1>3, <3>1 DEF LinkedIn
    <3>. QED BY <1>1, <1>5, <1>8, <3>1, <3>2
  <2>2. CASE up = "right"
    <3>1. /\ down = "left" /\ h[r].key > h[n].key
          /\ R[n]["right"] = v /\ R[n]["left"] = h[n]["left"] /\ h[n]["right"] = r
          /\ R[r]["left"] = n /\ R[r]["right"] = h[r]["right"] /\ h[r]["left"] = v
      BY <1>2, <1>3, <1>4, <1>7, <2>2
    <3>2. h[n]["left"] # r
      BY <1>1, <1>3, <3>1 DEF LinkedIn
    <3>. QED BY <1>1, <1>5, <1>8, <3>1, <3>2
  <2>. QED BY <2>1, <2>2 DEF Sides
<1> DEFINE u == IF t = n THEN r ELSE t
<1>11. Reach(f, u, m)
  <2>1. n # r /\ t # r /\ u = IF t = n THEN r ELSE t
    BY <1>1
  <2>2. WalkTurned(g, f, n, r, m)
    BY <1>9, <1>10, <2>1 DEF WalkTurned
  <2> HIDE DEF u
  <2>. QED BY <1>1, <1>5, <1>8, <2>1, <2>2, TurnedWalk
<1>. QED BY <1>11 DEF f, r

LEMMA TurnedTree ==
  ASSUME NEW h, NEW T, NEW t, IsTree(h, T, t), NEW n \in T,
         NEW up \in Sides, NEW down \in Sides, up # down, h[n][up] # Null,
         NEW R, Turned(h, R, n, up, down)
  PROVE  /\ IsTree(R, T, IF t = n THEN h[n][up] ELSE t)
         /\ \A x \in T \ {n, h[n][up], h[n].parent} : SameSize(h, R, x) /\ SameBelow(h, R, x)
<1> DEFINE r == h[n][up]
           v == h[r][down]
           p == h[n].parent
           u == IF t = n THEN r ELSE t
<1>1. /\ h \in Heap /\ T \subseteq Nodes /\ n \in Nodes /\ r \in T /\ r \in Nodes
      /\ \A x \in T : LinkedIn(h, T, x)
      /\ \A x \in Nodes \ T : h[x].left = Null /\ h[x].right = Null
      /\ r # n /\ r # t /\ t \in T /\ h[t].parent = Null /\ h[r].parent = n
      /\ v # t /\ (p = Null <=> n = t) /\ (p # Null => p \in T)
      /\ n # Null /\ r # Null
  BY Around4, PtrFacts DEF IsTree
<1>2. /\ R \in Heap
      /\ \A x \in Nodes : R[x].key = h[x].key
      /\ \A x \in Nodes \ {n, r} :
           /\ SameSize(h, R, x)
           /\ R[x].parent = IF x = v THEN n ELSE h[x].parent
           /\ \A s \in Sides : R[x][s] = IF x = p /\ h[x][s] = n THEN r ELSE h[x][s]
      /\ R[r].parent = p
  BY DEF Turned, SameData
<1>3. \A x \in T : LinkedIn(R, T, x)
  BY TurnedLinks
<1>4. \A x \in T : Reach(Onward(R, R[x].key), u, x)
  <2> SUFFICES ASSUME NEW x \in T PROVE Reach(Onward(R, R[x].key), u, x)
    OBVIOUS
  <2>1. R[x].key = h[x].key /\ h[x].key \in Int /\ Reach(Onward(h, h[x].key), t, x)
    BY <1>1, <1>2, CellFacts DEF IsTree
  <2>. QED BY <2>1, TurnedReach
<1>5. u \in T /\ R[u].parent = Null
  BY <1>1, <1>2
<1>6. \A x \in Nodes \ T : R[x].left = Null /\ R[x].right = Null
  <2> SUFFICES ASSUME NEW x \in Nodes \ T PROVE R[x].left = Null /\ R[x].right = Null
    OBVIOUS
  <2>1. \A s \in Sides : h[x][s] = Null
    BY <1>1, CellFacts DEF Sides
  <2>2. \A s \in Sides : R[x][s] = Null
    BY <1>1, <1>2, <2>1
  <2>. QED BY <1>2, <2>2, CellFacts DEF Sides
<1>7. ASSUME NEW x \in T \ {n, r, p} PROVE SameSize(h, R, x) /\ SameBelow(h, R, x)
  <2>1. \A s \in Sides : R[x][s] = h[x][s] /\ (h[x][s] # Null => h[x][s] \in T /\ h[h[x][s]].parent = x)
    BY <1>1, <1>2, <1>7 DEF LinkedIn
  <2>2. \A s \in Sides : h[x][s] # Null => h[x][s] # n /\ h[x][s] # r
    BY <1>1, <1>7, <2>1
  <2>3. \A s \in Sides : Height(R, h[x][s]) = Height(h, h[x][s]) /\ Size(R, h[x][s]) = Size(h, h[x][s])
    BY <1>1, <1>2, <2>1, <2>2 DEF Height, Size, SameSize
  <2>. QED BY <1>1, <1>2, <1>7, <2>1, <2>3 DEF SameBelow
<1>8. IsTree(R, T, u)
  BY <1>1, <1>2, <1>3, <1>4, <1>5, <1>6 DEF IsTree
<1>. QED BY <1>7, <1>8

\* node_augment leaves the tree as it is.
LEMMA AugmentedTree ==
  ASSUME NEW h, NEW T, NEW t, IsTree(h, T, t), NEW n \in T
  PROVE  LET a == node_augment(h, n) IN
         /\ IsTree(a, T, t) /\ Exact(a, n)
         /\ \A x \in Nodes : SameData(h, a, x) /\ a[x].parent = h[x].parent
                             /\ \A s \in Sides : a[x][s] = h[x][s]
         /\ \A x \in T \ {n} : SameSize(h, a, x) /\ (x # h[n].parent => SameBelow(h, a, x))
         /\ SameBelow(h, a, n)
         /\ \A k \in Int : \A m : Reach(Onward(h, k), t, m) => Reach(Onward(a, k), t, m)
<1> DEFINE a == node_augment(h, n)
<1>1. /\ h \in Heap /\ T \subseteq Nodes /\ n \in Nodes /\ t \in T /\ h[t].parent = Null
      /\ \A x \in T : LinkedIn(h, T, x) /\ Reach(Onward(h, h[x].key), t, x)
      /\ \A x \in Nodes \ T : h[x].left = Null /\ h[x].right = Null
  BY DEF IsTree
<1>2. \A s \in Sides : h[n][s] # n
  BY <1>1, OnPath, PtrFacts
<1>3. h[n].left # n /\ h[n].right # n
  BY <1>1, <1>2, CellFacts DEF Sides
<1>4. /\ a \in Heap /\ Exact(a, n)
      /\ \A x \in Nodes :
           /\ SameData(h, a, x) /\ a[x].parent = h[x].parent
           /\ a[x].left = h[x].left /\ a[x].right = h[x].right
           /\ x # n => SameSize(h, a, x)
  BY <1>1, <1>3, AugmentIs
<1> HIDE DEF a
<1>5. \A x \in Nodes : \A s \in Sides : a[x][s] = h[x][s]
  BY <1>1, <1>4, CellFacts DEF Sides
<1>6. \A x \in T : LinkedIn(a, T, x)
  BY <1>1, <1>4, <1>5 DEF LinkedIn
<1>7. \A k \in Int : Onward(a, k) = Onward(h, k)
  <2> SUFFICES ASSUME NEW k \in Int PROVE Onward(a, k) = Onward(h, k)
    OBVIOUS
  <2>1. \A x \in Ptr : Onward(a, k)[x] = Onward(h, k)[x]
    BY <1>1, <1>4, OnwardIs, PtrFacts DEF SameData
  <2>2. Onward(a, k) \in [Ptr -> Ptr] /\ Onward(h, k) \in [Ptr -> Ptr]
    BY <1>1, <1>4, OnwardIs
  <2>. QED BY <2>1, <2>2
<1>8. IsTree(a, T, t)
  <2>1. \A x \in T : a[x].key = h[x].key /\ h[x].key \in Int
    BY <1>1, <1>4, CellFacts DEF SameData
  <2>. QED BY <1>1, <1>4, <1>6, <1>7, <2>1 DEF IsTree
<1>9. ASSUME NEW x \in T, x = n \/ x # h[n].parent PROVE SameBelow(h, a, x)
  <2>1. \A s \in Sides : h[x][s] # Null => h[x][s] \in Nodes /\ h[x][s] # n
    BY <1>1, <1>2, <1>9 DEF LinkedIn
  <2>2. \A s \in Sides : Height(a, h[x][s]) = Height(h, h[x][s]) /\ Size(a, h[x][s]) = Size(h, h[x][s])
    BY <1>4, <2>1 DEF Height, Size, SameSize
  <2>. QED BY <1>1, <1>5, <2>2 DEF SameBelow
<1>. QED BY <1>1, <1>4, <1>5, <1>7, <1>8, <1>9 DEF a

LEMMA KeptHeight ==
  ASSUME NEW h, NEW b, NEW x, x = Null \/ SameSize(h, b, x)
  PROVE  Height(b, x) = Height(h, x)
  BY DEF Height, SameSize

\* What the rotations at a make of a heap h, with the node top come up over a.
Raised(h, b, T, t, a, top) ==
  LET p == h[a].parent  u == IF t = a THEN top ELSE t IN
  /\ IsTree(b, T, u)
  /\ top \in T /\ b[top].parent = p /\ (p = Null <=> t = a) /\ (p # Null => p \in T)
  /\ \A x \in Nodes : SameData(h, b, x)
  /\ \A x \in T : x # p /\ (x \in {a, top} \/ Exact(h, x)) => Exact(b, x)
  /\ p # Null => SameSize(h, b, p) /\ \A s \in Sides : b[p][s] = IF h[p][s] = a THEN top ELSE h[p][s]
  /\ p # Null => \A s \in Sides : h[p][s] # a => Height(b, h[p][s]) = Height(h, h[p][s])
  /\ \A k \in Int : p # Null /\ Reach(Onward(h, k), t, p) => Reach(Onward(b, k), u, p)

\* One rotation.
LEMMA RaisedOnce ==
  ASSUME NEW h, NEW T, NEW t, IsTree(h, T, t), NEW a \in T,
         NEW up \in Sides, NEW down \in Sides, up # down, h[a][up] # Null,
         NEW b, Turned(h, b, a, up, down)
  PROVE  /\ Raised(h, b, T, t, a, h[a][up]) /\ b[a].parent = h[a][up]
         /\ \A x \in T \ {a, h[a][up], h[a].parent} : SameBelow(h, b, x)
<1> DEFINE r == h[a][up]
           p == h[a].parent
           u == IF t = a THEN r ELSE t
<1>1. /\ h \in Heap /\ T \subseteq Nodes /\ a \in Nodes /\ r \in T /\ r # a /\ r # t
      /\ p # a /\ p # r /\ (p # Null => p \in T /\ p # h[r][down]) /\ (p = Null <=> a = t)
  BY Around4
<1>2. IsTree(b, T, u) /\ \A x \in T \ {a, r, p} : SameSize(h, b, x) /\ SameBelow(h, b, x)
  BY TurnedTree
<1>3. /\ b \in Heap
      /\ \A x \in Nodes : SameData(h, b, x)
      /\ b[r].parent = p /\ b[a].parent = r
      /\ Exact(b, a) /\ Exact(b, r)
      /\ \A x \in Nodes \ {a, r} :
           /\ SameSize(h, b, x)
           /\ \A s \in Sides : b[x][s] = IF x = p /\ h[x][s] = a THEN r ELSE h[x][s]
  BY DEF Turned
<1>4. \A x \in T : x # p /\ (x \in {a, r} \/ Exact(h, x)) => Exact(b, x)
  BY <1>1, <1>2, <1>3, StillExact
<1>5. ASSUME NEW k \in Int, p # Null, Reach(Onward(h, k), t, p)
      PROVE  Reach(Onward(b, k), u, p)
  BY <1>1, <1>5, TurnedReach
<1>6. p # Null => SameSize(h, b, p) /\ \A s \in Sides : b[p][s] = IF h[p][s] = a THEN r ELSE h[p][s]
  BY <1>1, <1>3
<1>7. ASSUME p # Null, NEW s \in Sides, h[p][s] # a
      PROVE  Height(b, h[p][s]) = Height(h, h[p][s])
  <2>1. h[p][s] = Null \/ (h[p][s] \in T /\ h[h[p][s]].parent = p)
    BY <1>1, <1>7 DEF IsTree, LinkedIn
  <2>2. h[r].parent = a
    BY Around4
  <2>3. h[p][s] = Null \/ (h[p][s] \in Nodes /\ h[p][s] \notin {a, r})
    BY <1>1, <1>7, <2>1, <2>2
  <2> HIDE DEF p, r
  <2>. QED BY <1>3, <2>3, KeptHeight
<1> HIDE DEF r, p, u
<1>8. Raised(h, b, T, t, a, r)
  BY <1>1, <1>2, <1>3, <1>4, <1>5, <1>6, <1>7 DEF Raised, p, u
<1>. QED BY <1>2, <1>3, <1>8 DEF r, p

\* Two: the child's child comes up over the child, and then over a.
LEMMA RaisedTwice ==
  ASSUME NEW h, NEW T, NEW t, IsTree(h, T, t), NEW a \in T,
         NEW up \in Sides, NEW down \in Sides, up # down,
         h[a][up] # Null, h[h[a][up]][down] # Null,
         NEW c, Turned(h, c, h[a][up], down, up),
         NEW b, Turned(c, b, a, up, down)
  PROVE  LET r == h[a][up]  v == h[r][down]  p == h[a].parent IN
         /\ Raised(h, b, T, t, a, v) /\ b[a].parent = v
         /\ IsTree(c, T, t) /\ c[a][up] = v /\ c[a].parent = p
         /\ r \in T /\ v \in T /\ v # a /\ v # r /\ r # a /\ r # p /\ v # p
         /\ \A x \in T \ {a, r, v} : SameBelow(h, c, x)
         /\ \A x \in T \ {a, v, p} : SameBelow(c, b, x)
<1> DEFINE r == h[a][up]
           v == h[r][down]
           p == h[a].parent
           u == IF t = a THEN v ELSE t
<1>1. /\ h \in Heap /\ T \subseteq Nodes /\ a \in Nodes /\ r \in T /\ r # a /\ r # t /\ h[r].parent = a
      /\ p # a /\ p # r /\ (p # Null => p \in T /\ p # v) /\ (p = Null <=> a = t)
      /\ v # a /\ v # r
  BY Around4
<1>2. a # h[v][up]
  <2>1. a # Null /\ h[r].parent = a
    BY <1>1, PtrFacts
  <2>2. h[r].parent # Null => h[r].parent # h[h[r][down]][up]
    BY <1>1, Around4
  <2>. QED BY <2>1, <2>2
<1>3. /\ c[a].parent = p /\ SameSize(h, c, a)
      /\ \A s \in Sides : c[a][s] = IF h[a][s] = r THEN v ELSE h[a][s]
      /\ \A x \in Nodes : SameData(h, c, x)
  BY <1>1, <1>2 DEF Turned
<1>4. c[a][up] = v
  BY <1>3
<1>5. Raised(h, c, T, t, r, v) /\ \A x \in T \ {r, v, a} : SameBelow(h, c, x)
  BY <1>1, RaisedOnce
<1>6. IsTree(c, T, t) /\ v \in T
  BY <1>1, <1>5 DEF Raised
<1>7. /\ Raised(c, b, T, t, a, v) /\ b[a].parent = v
      /\ \A x \in T \ {a, v, p} : SameBelow(c, b, x)
  <2>1. c[a][up] # Null
    BY <1>4
  <2>. QED BY <1>3, <1>4, <1>6, <2>1, RaisedOnce
<1>8. \A x \in T : x # p /\ (x \in {a, v} \/ Exact(h, x)) => Exact(b, x)
  <2>1. \A x \in T : x # a /\ Exact(h, x) => Exact(c, x)
    BY <1>1, <1>5 DEF Raised
  <2>2. \A x \in T : x # p /\ (x \in {a, v} \/ Exact(c, x)) => Exact(b, x)
    BY <1>3, <1>7 DEF Raised
  <2>. QED BY <2>1, <2>2
<1>9. ASSUME p # Null
      PROVE  /\ SameSize(h, b, p) /\ \A s \in Sides : b[p][s] = IF h[p][s] = a THEN v ELSE h[p][s]
             /\ \A s \in Sides : h[p][s] # a => Height(b, h[p][s]) = Height(h, h[p][s])
  <2>1. SameSize(h, c, p) /\ \A s \in Sides : c[p][s] = h[p][s]
    <3>1. p \in Nodes /\ p \notin {r, v} /\ p # h[r].parent
      BY <1>1, <1>9
    <3>2. \A x \in Nodes \ {r, v} :
             /\ SameSize(h, c, x)
             /\ \A s \in Sides : c[x][s] = IF x = h[r].parent /\ h[x][s] = r THEN v ELSE h[x][s]
      BY DEF Turned
    <3> HIDE DEF r, v, p
    <3>. QED BY <3>1, <3>2
  <2>2. SameSize(c, b, p) /\ \A s \in Sides : b[p][s] = IF c[p][s] = a THEN v ELSE c[p][s]
    BY <1>3, <1>7, <1>9 DEF Raised
  <2>3. \A s \in Sides : Height(c, c[p][s]) = Height(h, h[p][s])
    BY <1>1, <1>5, <1>9 DEF SameBelow
  <2>4. \A s \in Sides : c[p][s] # a => Height(b, c[p][s]) = Height(c, c[p][s])
    BY <1>3, <1>7, <1>9 DEF Raised
  <2> HIDE DEF p, v
  <2>. QED BY <2>1, <2>2, <2>3, <2>4 DEF SameSize
<1>10. ASSUME NEW k \in Int, p # Null, Reach(Onward(h, k), t, p)
       PROVE  Reach(Onward(b, k), u, p)
  <2>1. p \in T /\ p \notin {r, v} /\ t # r
    BY <1>1, <1>10
  <2>2. Reach(Onward(c, k), IF t = r THEN v ELSE t, p)
    BY <1>1, <1>10, <2>1, TurnedReach
  <2>3. Reach(Onward(c, k), t, p)
    BY <2>1, <2>2
  <2>4. c[a].parent = p /\ c[a].parent # Null
    BY <1>3, <1>10
  <2>. QED BY <1>7, <2>3, <2>4 DEF Raised
<1>11. /\ IsTree(b, T, u) /\ b[v].parent = p
       /\ \A x \in Nodes : SameData(h, b, x)
  BY <1>3, <1>7 DEF Raised, SameData
<1> HIDE DEF r, v, p, u
<1>12. Raised(h, b, T, t, a, v)
  BY <1>1, <1>6, <1>8, <1>9, <1>10, <1>11 DEF Raised, p, u
<1>. QED BY <1>1, <1>3, <1>4, <1>5, <1>6, <1>7, <1>12 DEF r, v, p

\* tree_balance keeps a tree a tree, and its heights and sizes but for the parent of the
\* node it is at.
LEMMA BalancedTree ==
  ASSUME NEW h, NEW T, NEW t, IsTree(h, T, t), NEW a \in T, Exact(h, a), ~FollowsNull(h, a)
  PROVE  LET b == Balanced(h, a)
             top == IF RightHigh(h, a) \/ LeftHigh(h, a) THEN b[a].parent ELSE a
         IN  Raised(h, b, T, t, a, top)
<1> DEFINE b == Balanced(h, a)
           top == IF RightHigh(h, a) \/ LeftHigh(h, a) THEN b[a].parent ELSE a
           l == h[a].left
           r == h[a].right
<1>1. /\ h \in Heap /\ a \in Nodes /\ T \subseteq Nodes /\ t \in T /\ t \in Nodes /\ h[t].parent = Null
      /\ h[a]["left"] = l /\ h[a]["right"] = r
      /\ "left" \in Sides /\ "right" \in Sides /\ "left" # "right"
      /\ l \in Ptr /\ r \in Ptr /\ a # Null
  BY PtrFacts, CellFacts DEF IsTree, Sides
<1>2. Height(h, l) \in Nat /\ Height(h, r) \in Nat /\ skew(h, a) = Height(h, r) - Height(h, l)
  BY <1>1, Heights DEF skew
<1>3. CASE RightHigh(h, a)
  <2>1. r # Null
    BY <1>2, <1>3 DEF RightHigh, Height
  <2>2. r \in Nodes /\ h[r]["left"] = h[r].left
    BY <1>1, <2>1, PtrFacts, CellFacts
  <2>3. CASE Inward(h, r)
    <3> DEFINE c == Rotated(h, r, "left", "right")
    <3>1. b = Rotated(c, a, "right", "left") /\ h[r]["left"] # Null
      BY <1>3, <2>2, <2>3 DEF Balanced, tree_rotate_left, tree_rotate_right, FollowsNull
    <3>2. r \in T
      BY <1>1, <2>1, OnPath
    <3>3. Turned(h, c, r, "left", "right")
      BY <1>1, <3>1, <3>2, RotatedIs
    <3>4. IsTree(c, T, t) /\ c[a]["right"] = h[r]["left"]
      <4>1. r # t /\ h[r].parent = a /\ r # a
        BY <1>1, <2>1, OnPath
      <4>2. IsTree(c, T, t)
        BY <1>1, <3>1, <3>2, <3>3, <4>1, TurnedTree
      <4>3. a # h[r]["left"]
        BY <1>1, <2>1, Around4
      <4>. QED BY <1>1, <3>3, <4>1, <4>2, <4>3 DEF Turned
    <3>5. Turned(c, b, a, "right", "left")
      BY <1>1, <3>1, <3>4, RotatedIs
    <3>6. Raised(h, b, T, t, a, h[r]["left"]) /\ b[a].parent = h[r]["left"]
      BY <1>1, <2>1, <3>1, <3>3, <3>5, RaisedTwice
    <3>. QED BY <1>3, <3>6
  <2>4. CASE ~Inward(h, r)
    <3>1. b = Rotated(h, a, "right", "left")
      BY <1>3, <2>4 DEF Balanced, tree_rotate_left
    <3>2. Turned(h, b, a, "right", "left")
      BY <1>1, <2>1, <3>1, RotatedIs
    <3>3. Raised(h, b, T, t, a, r) /\ b[a].parent = r
      BY <1>1, <2>1, <3>2, RaisedOnce
    <3>. QED BY <1>3, <3>3
  <2>. QED BY <2>3, <2>4
<1>4. CASE ~RightHigh(h, a) /\ LeftHigh(h, a)
  <2>1. l # Null
    BY <1>2, <1>4 DEF LeftHigh, Height
  <2>2. l \in Nodes /\ h[l]["right"] = h[l].right
    BY <1>1, <2>1, PtrFacts, CellFacts
  <2>3. CASE skew(h, l) = -1
    <3> DEFINE c == Rotated(h, l, "right", "left")
    <3>1. b = Rotated(c, a, "left", "right") /\ h[l]["right"] # Null
      BY <1>4, <2>2, <2>3 DEF Balanced, tree_rotate_left, tree_rotate_right, FollowsNull
    <3>2. l \in T
      BY <1>1, <2>1, OnPath
    <3>3. Turned(h, c, l, "right", "left")
      BY <1>1, <3>1, <3>2, RotatedIs
    <3>4. IsTree(c, T, t) /\ c[a]["left"] = h[l]["right"]
      <4>1. l # t /\ h[l].parent = a /\ l # a
        BY <1>1, <2>1, OnPath
      <4>2. IsTree(c, T, t)
        BY <1>1, <3>1, <3>2, <3>3, <4>1, TurnedTree
      <4>3. a # h[l]["right"]
        BY <1>1, <2>1, Around4
      <4>. QED BY <1>1, <3>3, <4>1, <4>2, <4>3 DEF Turned
    <3>5. Turned(c, b, a, "left", "right")
      BY <1>1, <3>1, <3>4, RotatedIs
    <3>6. Raised(h, b, T, t, a, h[l]["right"]) /\ b[a].parent = h[l]["right"]
      BY <1>1, <2>1, <3>1, <3>3, <3>5, RaisedTwice
    <3>. QED BY <1>4, <3>6
  <2>4. CASE skew(h, l) # -1
    <3>1. b = Rotated(h, a, "left", "right")
      BY <1>4, <2>4 DEF Balanced, tree_rotate_right
    <3>2. Turned(h, b, a, "left", "right")
      BY <1>1, <2>1, <3>1, RotatedIs
    <3>3. Raised(h, b, T, t, a, l) /\ b[a].parent = l
      BY <1>1, <2>1, <3>2, RaisedOnce
    <3>. QED BY <1>4, <3>3
  <2>. QED BY <2>3, <2>4
<1>5. CASE ~RightHigh(h, a) /\ ~LeftHigh(h, a)
  <2>1. b = h /\ top = a
    BY <1>5 DEF Balanced
  <2>2. /\ (h[a].parent = Null <=> t = a)
        /\ (h[a].parent # Null => h[a].parent \in T /\ h[a].parent # a)
    BY <1>1, NoCircle
  <2>3. Raised(h, h, T, t, a, a)
    BY <1>1, <2>2 DEF Raised, SameData, SameSize
  <2>. QED BY <2>1, <2>3
<1>. QED BY <1>3, <1>4, <1>5

\* Height and skew of a node whose height is that of its children and one more.
LEMMA ExactHeight ==
  ASSUME NEW h \in Heap, NEW x \in Nodes, Exact(h, x)
  PROVE  LET l == Height(h, h[x]["left"])  r == Height(h, h[x]["right"]) IN
         /\ l \in Nat /\ r \in Nat /\ skew(h, x) = r - l
         /\ Height(h, x) = 1 + IF l > r THEN l ELSE r
         /\ h[x].height = Height(h, x)
<1>1. /\ x # Null /\ h[x]["left"] = h[x].left /\ h[x]["right"] = h[x].right
      /\ h[x].left \in Ptr /\ h[x].right \in Ptr
  BY CellFacts, PtrFacts
<1>2. Height(h, h[x].left) \in Nat /\ Height(h, h[x].right) \in Nat
  BY <1>1, Heights
<1>. QED BY <1>1, <1>2, Larger DEF Exact, Height, skew

\* A node whose right side is two levels higher is in balance after the rotations, and
\* at most one level lower.
LEMMA BalancedOnce ==
  ASSUME NEW h, NEW T, NEW t, IsTree(h, T, t), NEW a \in T,
         Exact(h, a), Exact(h, h[a].right), h[a].right # Null,
         skew(h, a) = 2, skew(h, h[a].right) \in {0, 1},
         NEW b, Turned(h, b, a, "right", "left")
  PROVE  LET r == h[a].right IN
         /\ skew(b, a) \in -1..1 /\ skew(b, r) \in -1..1
         /\ Height(b, r) \in {h[a].height - 1, h[a].height}
<1> DEFINE r == h[a]["right"]
           l == h[a]["left"]
           v == h[r]["left"]
           q == h[r]["right"]
<1>1. /\ h \in Heap /\ a \in Nodes /\ T \subseteq Nodes /\ h[a].right = r
      /\ "left" \in Sides /\ "right" \in Sides /\ "left" # "right" /\ a # Null
  BY CellFacts, PtrFacts DEF IsTree, Sides
<1>2. /\ r \in T /\ r # a /\ r \in Nodes /\ r # Null
      /\ v # a /\ v # r /\ l # a /\ l # r /\ q # a /\ q # r
      /\ v \in Ptr /\ l \in Ptr /\ q \in Ptr
  BY <1>1, Around4, CellFacts, PtrFacts
<1>3. /\ b \in Heap /\ Exact(b, a) /\ Exact(b, r)
      /\ b[a]["right"] = v /\ b[a]["left"] = l /\ b[r]["left"] = a /\ b[r]["right"] = q
      /\ \A x \in Nodes \ {a, r} : SameSize(h, b, x)
  BY DEF Turned
<1>4. skew(h, a) = 2 /\ skew(h, r) \in {0, 1} /\ Exact(h, a) /\ Exact(h, r)
      /\ h[a]["right"] = r /\ h[a]["left"] = l /\ h[r]["left"] = v /\ h[r]["right"] = q
  BY <1>1
<1> HIDE DEF r, l, v, q
<1>5. \A x \in {l, v, q} : Height(b, x) = Height(h, x)
  BY <1>2, <1>3, KeptHeight, PtrFacts
<1>6. /\ Height(h, l) \in Nat /\ Height(h, r) \in Nat /\ skew(h, a) = Height(h, r) - Height(h, l)
      /\ h[a].height = 1 + IF Height(h, l) > Height(h, r) THEN Height(h, l) ELSE Height(h, r)
  BY <1>1, <1>4, ExactHeight
<1>7. /\ Height(h, v) \in Nat /\ Height(h, q) \in Nat /\ skew(h, r) = Height(h, q) - Height(h, v)
      /\ Height(h, r) = 1 + IF Height(h, v) > Height(h, q) THEN Height(h, v) ELSE Height(h, q)
  BY <1>1, <1>2, <1>4, ExactHeight
<1>8. /\ skew(b, a) = Height(h, v) - Height(h, l)
      /\ Height(b, a) = 1 + IF Height(h, l) > Height(h, v) THEN Height(h, l) ELSE Height(h, v)
  BY <1>1, <1>3, <1>5, ExactHeight
<1>9. /\ skew(b, r) = Height(h, q) - Height(b, a)
      /\ Height(b, r) = 1 + IF Height(b, a) > Height(h, q) THEN Height(b, a) ELSE Height(h, q)
  BY <1>2, <1>3, <1>5, ExactHeight
<1>. QED BY <1>1, <1>4, <1>6, <1>7, <1>8, <1>9

LEMMA BalancedTwice ==
  ASSUME NEW h, NEW T, NEW t, IsTree(h, T, t), NEW a \in T,
         Exact(h, a), h[a].right # Null, Exact(h, h[a].right),
         h[h[a].right].left # Null, Exact(h, h[h[a].right].left),
         skew(h, a) = 2, skew(h, h[a].right) = -1, skew(h, h[h[a].right].left) \in -1..1,
         NEW c, Turned(h, c, h[a].right, "left", "right"),
         NEW b, Turned(c, b, a, "right", "left")
  PROVE  LET r == h[a].right  v == h[r].left IN
         /\ skew(b, a) \in -1..1 /\ skew(b, r) \in -1..1 /\ skew(b, v) \in -1..1
         /\ Height(b, v) \in {h[a].height - 1, h[a].height}
<1> DEFINE r == h[a]["right"]
           l == h[a]["left"]
           v == h[r]["left"]
           q == h[r]["right"]
           m == h[v]["left"]
           w == h[v]["right"]
<1>1. /\ h \in Heap /\ a \in Nodes /\ T \subseteq Nodes /\ h[a].right = r
      /\ "left" \in Sides /\ "right" \in Sides /\ "left" # "right" /\ a # Null
      /\ \A x \in T : LinkedIn(h, T, x)
  BY CellFacts, PtrFacts DEF IsTree, Sides
<1>2. r \in T /\ r # a /\ r \in Nodes /\ h[r].left = v
  BY <1>1, OnPath, CellFacts
<1>3. v \in T /\ v # r /\ v # a /\ v \in Nodes
  BY <1>1, <1>2, OnPath, Around4
<1>4. /\ l # a /\ l # r /\ q # r /\ q # a /\ (l # Null => l # v) /\ (q # Null => q # v)
      /\ m # v /\ m # r /\ w # v /\ w # r
      /\ l \in Ptr /\ q \in Ptr /\ m \in Ptr /\ w \in Ptr
  <2>1. l # a /\ l # r /\ (l # Null => l # v) /\ q # a /\ q # r /\ (q # Null => q # v)
    BY <1>1, <1>2, Around4
  <2>2. m # v /\ m # r /\ w # v /\ w # r
    <3>1. r \in T /\ h[r]["left"] # Null /\ "left" \in Sides /\ "right" \in Sides /\ "left" # "right"
      BY <1>1, <1>2
    <3> HIDE DEF r
    <3>. QED BY <3>1, Around4
  <2>3. l \in Ptr /\ q \in Ptr /\ m \in Ptr /\ w \in Ptr
    BY <1>1, <1>2, <1>3, CellFacts
  <2>. QED BY <2>1, <2>2, <2>3
<1>5. m # a /\ w # a
  <2>1. /\ (m # Null => h[m].parent = v) /\ (w # Null => h[w].parent = v)
        /\ h[v].parent = r /\ h[r].parent = a
    BY <1>1, <1>2, <1>3, OnPath
  <2>2. /\ h[a].parent # Null /\ h[h[a].parent].parent # Null
           => h[h[h[a].parent].parent].parent # a
        /\ v # Null /\ r # Null
    BY <1>2, <1>3, NoCircle, PtrFacts
  <2> HIDE DEF r, v, m, w
  <2>3. h[a].parent # v
    BY <2>1, <2>2
  <2>. QED BY <1>1, <2>1, <2>3
<1>6. /\ c \in Heap /\ Exact(c, r)
      /\ c[r]["left"] = w /\ c[r]["right"] = q /\ c[v]["right"] = r /\ c[v]["left"] = m
      /\ c[a]["left"] = l /\ c[a]["right"] = v
      /\ \A x \in Nodes \ {r, v} : SameSize(h, c, x)
  <2>1. h[r].parent = a
    BY <1>1, <1>2, OnPath
  <2>2. Turned(h, c, r, "left", "right")
    BY <1>1
  <2> HIDE DEF l, q, m, w
  <2>3. /\ c \in Heap /\ Exact(c, r)
        /\ c[r]["left"] = h[v]["right"] /\ c[r]["right"] = h[r]["right"]
        /\ c[v]["right"] = r /\ c[v]["left"] = h[v]["left"]
        /\ \A x \in Nodes \ {r, v} :
              /\ SameSize(h, c, x)
              /\ \A s \in Sides : c[x][s] = IF x = h[r].parent /\ h[x][s] = r THEN v ELSE h[x][s]
    BY <2>2 DEF Turned
  <2>4. h[a]["left"] = l /\ h[a]["right"] = r /\ h[v]["right"] = w /\ h[v]["left"] = m /\ h[r]["right"] = q
    BY DEF l, m, w, q
  <2> HIDE DEF r, v
  <2>. QED BY <1>1, <1>2, <1>3, <1>4, <2>1, <2>3, <2>4
<1>7. /\ b \in Heap /\ Exact(b, a) /\ Exact(b, v)
      /\ b[a]["right"] = m /\ b[a]["left"] = l /\ b[v]["left"] = a /\ b[v]["right"] = r
      /\ \A x \in Nodes \ {a, v} :
           /\ SameSize(c, b, x)
           /\ \A s \in Sides : b[x][s] = IF x = c[a].parent /\ c[x][s] = a THEN v ELSE c[x][s]
  <2>1. c[a]["right"] = v /\ c[v]["left"] = m /\ c[v]["right"] = r /\ c[a]["left"] = l
    BY <1>6
  <2>2. /\ b \in Heap /\ Exact(b, a) /\ Exact(b, c[a]["right"])
        /\ b[a]["right"] = c[c[a]["right"]]["left"] /\ b[a]["left"] = c[a]["left"]
        /\ b[c[a]["right"]]["left"] = a /\ b[c[a]["right"]]["right"] = c[c[a]["right"]]["right"]
        /\ \A x \in Nodes \ {a, c[a]["right"]} :
              /\ SameSize(c, b, x)
              /\ \A s \in Sides :
                   b[x][s] = IF x = c[a].parent /\ c[x][s] = a THEN c[a]["right"] ELSE c[x][s]
    BY DEF Turned
  <2> HIDE DEF r, v, l, q, m, w
  <2>. QED BY <2>1, <2>2
<1>8. /\ skew(h, a) = 2 /\ skew(h, r) = -1 /\ skew(h, v) \in -1..1
      /\ Exact(h, a) /\ Exact(h, r) /\ Exact(h, v)
      /\ h[a]["right"] = r /\ h[a]["left"] = l /\ h[r]["left"] = v /\ h[r]["right"] = q
      /\ h[v]["left"] = m /\ h[v]["right"] = w
  BY <1>1, <1>2
<1> HIDE DEF r, l, v, q, m, w
<1>9. \A x \in {l, m} : Height(b, x) = Height(h, x)
  BY <1>3, <1>4, <1>5, <1>6, <1>7, KeptHeight, PtrFacts
<1>10. \A x \in {q, w} : Height(c, x) = Height(h, x)
  BY <1>3, <1>4, <1>5, <1>6, KeptHeight, PtrFacts
<1>11. Height(b, r) = Height(c, r)
  BY <1>2, <1>3, <1>7, KeptHeight
<1>12. /\ Height(h, l) \in Nat /\ Height(h, r) \in Nat /\ skew(h, a) = Height(h, r) - Height(h, l)
       /\ h[a].height = 1 + IF Height(h, l) > Height(h, r) THEN Height(h, l) ELSE Height(h, r)
  BY <1>1, <1>8, ExactHeight
<1>13. /\ Height(h, v) \in Nat /\ Height(h, q) \in Nat /\ skew(h, r) = Height(h, q) - Height(h, v)
       /\ Height(h, r) = 1 + IF Height(h, v) > Height(h, q) THEN Height(h, v) ELSE Height(h, q)
  BY <1>1, <1>2, <1>8, ExactHeight
<1>14. /\ Height(h, m) \in Nat /\ Height(h, w) \in Nat /\ skew(h, v) = Height(h, w) - Height(h, m)
       /\ Height(h, v) = 1 + IF Height(h, m) > Height(h, w) THEN Height(h, m) ELSE Height(h, w)
  BY <1>1, <1>3, <1>8, ExactHeight
<1>15. /\ skew(c, r) = Height(h, q) - Height(h, w)
       /\ Height(c, r) = 1 + IF Height(h, w) > Height(h, q) THEN Height(h, w) ELSE Height(h, q)
  BY <1>2, <1>6, <1>10, ExactHeight
<1>16. /\ skew(b, a) = Height(h, m) - Height(h, l)
       /\ Height(b, a) = 1 + IF Height(h, l) > Height(h, m) THEN Height(h, l) ELSE Height(h, m)
  BY <1>1, <1>7, <1>9, ExactHeight
<1>17. /\ skew(b, v) = Height(c, r) - Height(b, a)
       /\ Height(b, v) = 1 + IF Height(b, a) > Height(c, r) THEN Height(b, a) ELSE Height(c, r)
  BY <1>3, <1>7, <1>11, ExactHeight
<1>18. skew(b, r) = skew(c, r)
  <2>1. b[r]["left"] = w /\ b[r]["right"] = q
    BY <1>2, <1>3, <1>4, <1>5, <1>6, <1>7 DEF Sides
  <2>2. \A x \in {q, w} : Height(b, x) = Height(c, x)
    BY <1>3, <1>4, <1>5, <1>6, <1>7, KeptHeight, PtrFacts
  <2>3. b[r].left = w /\ b[r].right = q /\ c[r].left = w /\ c[r].right = q
    BY <1>2, <1>6, <1>7, <2>1, CellFacts
  <2>. QED BY <2>2, <2>3 DEF skew
<1>19. /\ skew(b, a) \in -1..1 /\ skew(c, r) \in -1..1 /\ skew(b, v) \in -1..1
       /\ Height(b, v) \in {h[a].height - 1, h[a].height}
  BY <1>8, <1>12, <1>13, <1>14, <1>15, <1>16, <1>17
<1>. QED BY <1>1, <1>2, <1>18, <1>19

\* tree_balance at a node whose right side is up to two levels higher, all else being in
\* balance: nothing crashes, all is in balance, and it is no higher and at most one lower.
LEMMA BalancedCalm ==
  ASSUME NEW h, NEW T, NEW t, IsTree(h, T, t), NEW a \in T,
         \A x \in T : x # h[a].parent => Exact(h, x),
         skew(h, a) \in -1..2,
         \A x \in T \ {a, h[a].parent} : skew(h, x) \in -1..1
  PROVE  LET b == Balanced(h, a)
             top == IF RightHigh(h, a) \/ LeftHigh(h, a) THEN b[a].parent ELSE a
         IN  /\ ~FollowsNull(h, a)
             /\ \A x \in T : x # h[a].parent => skew(b, x) \in -1..1
             /\ Height(b, top) \in {h[a].height - 1, h[a].height}
             /\ skew(h, a) # 2 => Height(b, top) = h[a].height
<1> DEFINE b == Balanced(h, a)
           top == IF RightHigh(h, a) \/ LeftHigh(h, a) THEN b[a].parent ELSE a
           p == h[a].parent
           r == h[a]["right"]
<1>1. /\ h \in Heap /\ a \in Nodes /\ T \subseteq Nodes /\ h[a].right = r /\ a # Null
      /\ "left" \in Sides /\ "right" \in Sides /\ "left" # "right"
  BY CellFacts, PtrFacts DEF IsTree, Sides
<1>2. Exact(h, a) /\ p # a
  BY NoCircle
<1>3. ~LeftHigh(h, a) /\ (RightHigh(h, a) <=> skew(h, a) = 2)
  BY DEF LeftHigh, RightHigh
<1>4. CASE skew(h, a) # 2
  <2>1. b = h /\ top = a /\ ~FollowsNull(h, a)
    BY <1>3, <1>4 DEF Balanced, FollowsNull
  <2>2. Height(h, a) = h[a].height
    BY <1>1 DEF Height
  <2>3. skew(h, a) \in -1..1
    BY <1>4
  <2> HIDE DEF b, top
  <2>. QED BY <1>2, <1>4, <2>1, <2>2, <2>3 DEF b, top
<1>5. CASE skew(h, a) = 2
  <2>1. r # Null
    <3>1. /\ Height(h, h[a]["left"]) \in Nat
          /\ skew(h, a) = Height(h, r) - Height(h, h[a]["left"])
      BY <1>1, <1>2, ExactHeight
    <3> HIDE DEF r
    <3>. QED BY <1>5, <3>1 DEF Height
  <2>2. r \in T /\ r # a /\ r \in Nodes /\ h[r].parent = a
    BY <1>1, <2>1, OnPath
  <2>3. r # p
    BY <1>1, <2>1, Around4
  <2>4. Exact(h, r) /\ skew(h, r) \in -1..1
    BY <2>2, <2>3
  <2>5. CASE skew(h, r) # -1
    <3>1. b = Rotated(h, a, "right", "left") /\ ~FollowsNull(h, a)
      BY <1>1, <1>3, <1>5, <2>5 DEF Balanced, Inward, FollowsNull, tree_rotate_left
    <3>2. Turned(h, b, a, "right", "left")
      BY <1>1, <2>1, <3>1, RotatedIs
    <3>3. b[a].parent = r /\ top = r
      BY <1>1, <1>3, <1>5, <2>1, <3>2, RaisedOnce
    <3>4. skew(h, r) \in {0, 1}
      BY <2>4, <2>5
    <3>5. /\ skew(b, a) \in -1..1 /\ skew(b, r) \in -1..1
          /\ Height(b, r) \in {h[a].height - 1, h[a].height}
      BY <1>1, <1>2, <1>5, <2>1, <2>4, <3>2, <3>4, BalancedOnce
    <3>6. \A x \in T \ {a, r, p} : SameBelow(h, b, x) /\ b \in Heap
      BY <1>1, <2>1, <3>2, RaisedOnce DEF Turned
    <3>7. \A x \in T \ {a, r, p} : skew(b, x) = skew(h, x)
      BY <1>1, <3>6, StillExact
    <3> HIDE DEF b, r, top
    <3>8. \A x \in T : x # p => skew(b, x) \in -1..1
      BY <3>5, <3>7
    <3>. QED BY <1>5, <3>1, <3>3, <3>5, <3>8 DEF b, top
  <2>6. CASE skew(h, r) = -1
    <3> DEFINE v == h[r]["left"]
               c == Rotated(h, r, "left", "right")
    <3>1. v # Null /\ h[r].left = v
      <4>1. /\ Height(h, h[r]["right"]) \in Nat
            /\ skew(h, r) = Height(h, h[r]["right"]) - Height(h, v)
        BY <1>1, <2>2, <2>4, ExactHeight
      <4>2. h[r].left = v
        BY <1>1, <2>2, CellFacts
      <4> HIDE DEF v, r
      <4>. QED BY <2>6, <4>1, <4>2 DEF Height
    <3>2. b = Rotated(c, a, "right", "left") /\ ~FollowsNull(h, a)
      BY <1>1, <1>3, <1>5, <2>6, <3>1
      DEF Balanced, Inward, FollowsNull, tree_rotate_left, tree_rotate_right
    <3>3. Turned(h, c, r, "left", "right")
      BY <1>1, <2>2, <3>1, RotatedIs
    <3>4. IsTree(c, T, t) /\ c[a]["right"] = v
      <4>1. r # t
        BY <1>1, <2>1, OnPath
      <4>2. IsTree(c, T, t)
        BY <1>1, <2>2, <3>1, <3>3, <4>1, TurnedTree
      <4>3. a # v
        BY <1>1, <2>1, Around4
      <4>. QED BY <1>1, <2>2, <3>3, <4>2, <4>3 DEF Turned
    <3>5. Turned(c, b, a, "right", "left")
      BY <1>1, <3>1, <3>2, <3>4, RotatedIs
    <3>6. /\ b[a].parent = v /\ v \in T /\ v # a /\ v # r /\ v # p /\ b \in Heap /\ c \in Heap
          /\ \A x \in T \ {a, r, v} : SameBelow(h, c, x)
          /\ \A x \in T \ {a, v, p} : SameBelow(c, b, x)
      <4>1. b \in Heap /\ c \in Heap
        BY <3>3, <3>5 DEF Turned
      <4>2. /\ h[a]["right"] # Null /\ h[h[a]["right"]]["left"] # Null
            /\ Turned(h, c, h[a]["right"], "left", "right")
        BY <2>1, <3>1, <3>3
      <4>3. /\ b[a].parent = h[h[a]["right"]]["left"] /\ h[h[a]["right"]]["left"] \in T
            /\ h[h[a]["right"]]["left"] # a /\ h[h[a]["right"]]["left"] # h[a]["right"]
            /\ h[h[a]["right"]]["left"] # h[a].parent
            /\ \A x \in T \ {a, h[a]["right"], h[h[a]["right"]]["left"]} : SameBelow(h, c, x)
            /\ \A x \in T \ {a, h[h[a]["right"]]["left"], h[a].parent} : SameBelow(c, b, x)
        <5> HIDE DEF b, c
        <5>. QED BY <1>1, <3>5, <4>2, RaisedTwice
      <4>. QED BY <4>1, <4>3
    <3>7. Exact(h, v) /\ skew(h, v) \in -1..1
      BY <3>6
    <3>8. /\ skew(b, a) \in -1..1 /\ skew(b, r) \in -1..1 /\ skew(b, v) \in -1..1
          /\ Height(b, v) \in {h[a].height - 1, h[a].height}
      BY <1>1, <1>2, <1>5, <2>1, <2>4, <2>6, <3>1, <3>3, <3>5, <3>7, BalancedTwice
    <3>9. \A x \in T \ {a, r, v, p} : skew(b, x) = skew(h, x)
      BY <1>1, <3>6, StillExact
    <3>10. top = v
      BY <1>3, <1>5, <3>6
    <3> HIDE DEF b, r, v, top
    <3>11. \A x \in T : x # p => skew(b, x) \in -1..1
      BY <3>8, <3>9
    <3>. QED BY <1>5, <3>2, <3>8, <3>10, <3>11 DEF b, top
  <2>. QED BY <2>5, <2>6
<1>. QED BY <1>4, <1>5
\* A set of numbers that is not empty has a least one.
LEMMA LeastNumber ==
  ASSUME NEW T \in SUBSET Nat, T # {}
  PROVE  Min(T) \in T /\ \A y \in T : Min(T) <= y
<1> DEFINE R == {ss \in Nat \X Nat : ss[1] < ss[2]}
<1>1. IsWellFoundedOn(R, Nat)
  BY NatLessThanWellFounded DEF OpToRel
<1>2. \E x \in T : \A y \in T : ~(<<y, x>> \in R)
  <2> HIDE DEF R
  <2>. QED BY <1>1, WFMin
<1>3. \E x \in T : \A y \in T : ~(y < x)
  BY <1>2
<1>4. \E x \in T : \A y \in T : x <= y
  <2> HIDE DEF R
  <2>. QED BY <1>3
<1>. QED BY <1>4 DEF Min
-----------------------------------------------------------------------------
(* The tree between two steps.                                             *)

\* A walk that ends outside N does not see what changes in N, or leads there.
LEMMA ReachBeside ==
  ASSUME NEW g \in [Ptr -> Ptr], NEW f \in [Ptr -> Ptr], NEW N \in SUBSET Ptr, NEW t, NEW m,
         \A x \in N : g[x] \in N,
         \A x \in Ptr \ N : g[x] \in N \/ f[x] = g[x],
         m \notin N, Reach(g, t, m)
  PROVE  Reach(f, t, m)
<1> SUFFICES ASSUME NEW S \in SUBSET Ptr, t \in S, \A x \in S : f[x] \in S
             PROVE  m \in S
  BY DEF Reach
<1>1. /\ S \cup N \in SUBSET Ptr /\ t \in S \cup N
      /\ \A x \in S \cup N : g[x] \in S \cup N
  OBVIOUS
<1>. QED BY <1>1 DEF Reach

\* What the nodes of a tree and no others are linked by.
SameLinks(h, k, T) ==
  \A x \in T : /\ k[x].key = h[x].key /\ k[x].parent = h[x].parent
               /\ \A s \in Sides : k[x][s] = h[x][s]

LEMMA SameTree ==
  ASSUME NEW h, NEW T, NEW t, IsTree(h, T, t), NEW b \in Heap, SameLinks(h, b, T),
         \A x \in Nodes \ T : b[x].left = Null /\ b[x].right = Null
  PROVE  /\ IsTree(b, T, t)
         /\ \A k \in Int, m \in T : Reach(Onward(h, k), t, m) => Reach(Onward(b, k), t, m)
<1>1. /\ h \in Heap /\ T \subseteq Nodes /\ t \in T /\ h[t].parent = Null
      /\ \A x \in T : LinkedIn(h, T, x) /\ Reach(Onward(h, h[x].key), t, x)
      /\ \A x \in Nodes \ T : h[x].left = Null /\ h[x].right = Null
  BY DEF IsTree
<1>2. ASSUME NEW k \in Int, NEW m \in T, Reach(Onward(h, k), t, m)
      PROVE  Reach(Onward(b, k), t, m)
  <2> DEFINE g == Onward(h, k)
             f == Onward(b, k)
             N == Ptr \ T
  <2>1. g \in [Ptr -> Ptr] /\ f \in [Ptr -> Ptr] /\ N \in SUBSET Ptr /\ m \notin N
    BY <1>1, OnwardIs
  <2>2. \A x \in N : g[x] \in N
    BY <1>1, OnwardIs, PtrFacts
  <2>3. ASSUME NEW x \in Ptr \ N PROVE f[x] = g[x]
    <3>1. x \in T /\ x \in Nodes
      BY <1>1, <2>3
    <3>2. b[x].key = h[x].key /\ b[x].left = h[x].left /\ b[x].right = h[x].right
      BY <1>1, <3>1, CellFacts DEF SameLinks, Sides
    <3>. QED BY <1>1, <3>1, <3>2, OnwardIs
  <2> HIDE DEF g, f, N
  <2>4. Reach(g, t, m)
    BY <1>2 DEF g
  <2>5. Reach(f, t, m)
    BY <2>1, <2>2, <2>3, <2>4, ReachBeside
  <2>. QED BY <2>5 DEF f
<1>3. \A x \in T : b[x].key \in Int /\ b[x].key = h[x].key
  BY <1>1, CellFacts DEF SameLinks
<1>4. \A x \in T : Reach(Onward(b, b[x].key), t, x)
  BY <1>1, <1>2, <1>3
<1>5. \A x \in T : LinkedIn(b, T, x)
  <2> SUFFICES ASSUME NEW x \in T PROVE LinkedIn(b, T, x)
    OBVIOUS
  <2>1. /\ \A y \in T : b[y].left = h[y].left /\ b[y].right = h[y].right
    BY <1>1, CellFacts DEF SameLinks, Sides
  <2>2. LinkedIn(h, T, x)
    BY <1>1
  <2>. QED BY <1>1, <2>1, <2>2 DEF LinkedIn, SameLinks
<1>. QED BY <1>1, <1>2, <1>4, <1>5 DEF IsTree, SameLinks

\* The top is the only node of a tree without a parent.
LEMMA OnlyTop ==
  ASSUME NEW h, NEW T, NEW t, IsTree(h, T, t), NEW x \in T, h[x].parent = Null
  PROVE  x = t
  BY NoCircle

\* Nothing is in a tree whose top has no child but the top.
LEMMA OnlyLeaf ==
  ASSUME NEW h, NEW T, NEW t, IsTree(h, T, t), h[t].left = Null, h[t].right = Null
  PROVE  T = {t}
<1> SUFFICES ASSUME NEW x \in T PROVE x = t
  BY DEF IsTree
<1>1. h \in Heap /\ t \in Nodes /\ x # Null /\ h[x].key \in Int /\ Reach(Onward(h, h[x].key), t, x)
  BY CellFacts, PtrFacts DEF IsTree
<1> DEFINE g == Onward(h, h[x].key)
           S == {t, Null}
<1>2. S \in SUBSET Ptr /\ t \in S /\ \A y \in S : g[y] \in S
  BY <1>1, OnwardIs, PtrFacts
<1>3. x \in S
  <2> HIDE DEF S
  <2>. QED BY <1>1, <1>2 DEF Reach
<1>. QED BY <1>1, <1>3

Busy == pc \in {"balance", "crashed"}

\* The links are those of a tree, and heights and sizes are right but for the node
\* that tree_balance is at.
TreeShape ==
  /\ TreeTypeOK
  /\ \A n \in Members : heap[n].key \in Keys /\ heap[n].data \in Data
  /\ \A n \in Nodes \ Members : heap[n].left = Null /\ heap[n].right = Null
  /\ IF Top = Null THEN Members = {} ELSE IsTree(heap, Members, Top)
  /\ \A n \in Members : Exact(heap, n) \/ (Busy /\ n = treeAt)
  /\ pc # "insert" => new = Null

Puts == {Map!Put(k, d) : k \in Keys, d \in Data}

\* A search for the key would come by the node too.
Inserting ==
  /\ call \in Puts /\ new \in Nodes /\ heap[new] = Fresh(call.key, call.data)
  /\ IF treeAt = Null THEN root = Null
     ELSE treeAt \in Members /\ Reach(Onward(heap, call.key), Top, treeAt)

Balancing ==
  /\ treeAt \in Members
  /\ \/ call = Map!Clearing
     \/ /\ call \in Puts /\ Reach(Onward(heap, call.key), Top, treeAt)
        /\ \E m \in Members : heap[m].key = call.key /\ heap[m].data = call.data

Deleting ==
  /\ call = Map!Clearing
  /\ IF treeAt = Null THEN root = Null ELSE treeAt \in Members

TreePhase ==
  /\ pc = "idle" => call = Map!Idle
  /\ pc = "insert" => Inserting
  /\ Busy => Balancing
  /\ pc = "delete" => Deleting

\* Since the height of a was stored its right side may have grown by a level ...
Grown(h, a) ==
  LET l == Height(h, h[a].left)  r == Height(h, h[a].right) IN
  \/ h[a].height = 0 /\ l = 0 /\ r = 0
  \/ \E o \in Nat : h[a].height = 1 + Max({l, o}) /\ o - l \in -1..1 /\ r \in {o, o + 1}

\* ... or its left side have lost one.
Shrunk(h, a) ==
  LET l == Height(h, h[a].left)  r == Height(h, h[a].right) IN
  \E o \in Nat : h[a].height = 1 + Max({r, o}) /\ r - o \in -1..1 /\ l \in {o, o - 1}

\* No key is as low as -1: a search for it goes down the left edge.
LeftEdge(n) == Reach(Onward(heap, -1), Top, n)

\* With ascending keys a tree grows at its right edge; it is taken down at its left.
Level ==
  /\ pc # "crashed"
  /\ \A n \in Members : skew(heap, n) \in -1..1 \/ (pc = "balance" /\ n = treeAt)
  /\ pc = "insert" => \A n \in Members : heap[n].key <= call.key
  /\ pc = "balance" /\ call.name = "put" =>
       Grown(heap, treeAt) /\ \A n \in Members : heap[n].key <= call.key
  /\ pc = "balance" /\ call.name = "clear" => Shrunk(heap, treeAt) /\ LeftEdge(treeAt)
  /\ pc = "delete" /\ treeAt # Null =>
       LET p == heap[treeAt].parent IN
       LeftEdge(treeAt) \/ (p # Null /\ heap[p].left = Null /\ LeftEdge(p))

TreeInv == TreeShape /\ TreePhase /\ (ascending => Level)

LEMMA CallFacts ==
  /\ \A c \in Puts : c.name = "put" /\ c.key \in Keys /\ c.data \in Data /\ c = Map!Put(c.key, c.data)
  /\ Map!Clearing.name = "clear" /\ Map!Idle.name = "none"
  /\ \A k \in Keys, d \in Data : /\ Map!Put(k, d) \in Puts
                                 /\ Map!Put(k, d).key = k /\ Map!Put(k, d).data = d
  BY DEF Puts, Map!Put, Map!Clearing, Map!Idle

LEMMA TreeFacts ==
  ASSUME TreeShape
  PROVE  /\ heap \in Heap /\ root \in Ptr /\ treeAt \in Ptr /\ new \in Ptr
         /\ Members \subseteq Nodes /\ (pc # "insert" => new = Null)
         /\ \A n \in Members : heap[n].key \in Nat /\ heap[n].used
         /\ ~Busy => Top = root
         /\ Members # {} => Top # Null /\ Top \in Nodes /\ IsTree(heap, Members, Top)
         /\ Keys \subseteq Nat
<1>1. heap \in Heap /\ root \in Ptr /\ treeAt \in Ptr /\ new \in Ptr
  BY DEF TreeShape, TreeTypeOK, Heap, Cell, Ptr
<1>2. Members \subseteq Nodes /\ (pc # "insert" => new = Null) /\ \A n \in Members : heap[n].used
  BY DEF Members, TreeShape
<1>3. Members # {} => Top # Null /\ IsTree(heap, Members, Top)
  BY DEF TreeShape
<1>4. ~Busy => Top = root
  BY DEF Top, Busy
<1>. QED BY <1>1, <1>2, <1>3, <1>4, CellFacts, TreeAssumption DEF IsTree

\* While tree_balance is under way the top is found by its having no parent.
LEMMA TopIs ==
  ASSUME NEW u, IsTree(heap, Members, u), new = Null, Busy
  PROVE  Top = u
<1>1. /\ u \in Members /\ Members \subseteq Nodes /\ heap[u].parent = Null /\ heap[u].used
      /\ \A n \in Nodes : heap[n].used => n \in Members
  BY PtrFacts DEF IsTree, Members
<1>2. Top = CHOOSE n \in Nodes : heap[n].used /\ heap[n].parent = Null
  BY DEF Top, Busy
<1>3. Top \in Nodes /\ heap[Top].used /\ heap[Top].parent = Null
  BY <1>1, <1>2
<1>. QED BY <1>1, <1>3, OnlyTop

LEMMA TopIsNext ==
  ASSUME NEW u, IsTree(heap', Members', u), new' = Null, Busy'
  PROVE  Top' = u
<1>1. /\ u \in Members' /\ Members' \subseteq Nodes /\ heap'[u].parent = Null /\ heap'[u].used
      /\ \A n \in Nodes : heap'[n].used => n \in Members'
  BY PtrFacts DEF IsTree, Members
<1>2. Top' = CHOOSE n \in Nodes : heap'[n].used /\ heap'[n].parent = Null
  BY DEF Top, Busy
<1>3. Top' \in Nodes /\ heap'[Top'].used /\ heap'[Top'].parent = Null
  BY <1>1, <1>2
<1>. QED BY <1>1, <1>3, OnlyTop

LEMMA TreeStart == TreeInit => TreeInv
<1> SUFFICES ASSUME TreeInit PROVE TreeInv
  OBVIOUS
<1>1. /\ heap = [n \in Nodes |-> Free] /\ root = Null
      /\ pc = "idle" /\ treeAt = Null /\ new = Null /\ call = Map!Idle
      /\ ascending = TRUE
  BY DEF TreeInit
<1>2. Free \in Cell /\ ~Free.used /\ Free.left = Null /\ Free.right = Null
  BY TreeAssumption DEF Free, Cell, Ptr, Null
<1>3. heap \in Heap /\ Members = {} /\ Top = Null
  BY <1>1, <1>2, PtrFacts DEF Heap, Members, Top
<1>4. TreeTypeOK
  BY <1>1, <1>3, PtrFacts DEF TreeTypeOK, Heap, Cell, Ptr
<1>5. TreeShape
  BY <1>1, <1>2, <1>3, <1>4 DEF TreeShape
<1>6. TreePhase
  BY <1>1 DEF TreePhase, Busy
<1>7. Level
  BY <1>1, <1>3 DEF Level
<1>. QED BY <1>5, <1>6, <1>7 DEF TreeInv

\* Links, heights and sizes of the nodes of a tree are as they were.
LEMMA SameSizes ==
  ASSUME NEW h, NEW T, NEW t, IsTree(h, T, t), NEW b \in Heap, SameLinks(h, b, T),
         \A x \in T : SameSize(h, b, x), NEW x \in T
  PROVE  SameBelow(h, b, x) /\ (Exact(h, x) => Exact(b, x)) /\ skew(b, x) = skew(h, x)
<1>1. h \in Heap /\ T \subseteq Nodes /\ LinkedIn(h, T, x)
  BY DEF IsTree
<1>2. \A s \in Sides : b[x][s] = h[x][s] /\ (h[x][s] = Null \/ SameSize(h, b, h[x][s]))
  BY <1>1 DEF LinkedIn, SameLinks
<1>3. SameBelow(h, b, x)
  BY <1>2 DEF SameBelow, Height, Size, SameSize
<1>. QED BY <1>1, <1>3, StillExact

\* The caller's pointer leads to the tree, if there is one.
LEMMA RootFacts ==
  ASSUME TreeShape, ~Busy
  PROVE  IF root = Null THEN Members = {}
         ELSE root \in Members /\ IsTree(heap, Members, root) /\ heap[root].parent = Null
  BY TreeFacts DEF TreeShape, IsTree

LEMMA FreeFacts ==
  /\ Free \in Cell /\ ~Free.used
  /\ Free.parent = Null /\ Free.left = Null /\ Free.right = Null
  BY TreeAssumption DEF Free, Cell, Ptr, Null

LEMMA FreshFacts ==
  ASSUME NEW k \in Keys, NEW d \in Data
  PROVE  /\ Fresh(k, d) \in Cell
         /\ Fresh(k, d).key = k /\ Fresh(k, d).data = d /\ Fresh(k, d).used
         /\ Fresh(k, d).parent = Null /\ Fresh(k, d).left = Null /\ Fresh(k, d).right = Null
         /\ Fresh(k, d).height = 0 /\ Fresh(k, d).size = 0
<1>1. \A c \in Cell : [c EXCEPT !.key = k] \in Cell
  BY TreeAssumption DEF Cell
<1>2. \A c \in Cell : [c EXCEPT !.data = d] \in Cell
  BY DEF Cell
<1>3. \A c \in Cell : [c EXCEPT !.used = TRUE] \in Cell
  BY DEF Cell
<1>4. Fresh(k, d) = [[[Free EXCEPT !.key = k] EXCEPT !.data = d] EXCEPT !.used = TRUE]
  BY DEF Fresh
<1>5. Fresh(k, d) \in Cell
  BY <1>1, <1>2, <1>3, <1>4, FreeFacts
<1>. QED BY <1>5 DEF Fresh, Free

LEMMA KeepInsertPair == ASSUME TreeInv, tree_insert_pair PROVE TreeInv'
<1>1. PICK k \in Keys, d \in Data :
        /\ pc = "idle" /\ \E n \in Nodes : ~heap[n].used
        /\ new' = Min({n \in Nodes : ~heap[n].used})
        /\ heap' = [heap EXCEPT ![new'] = Fresh(k, d)]
        /\ pc' = "insert" /\ treeAt' = root /\ call' = Map!Put(k, d)
        /\ ascending' = (ascending /\ \A n \in InTree : heap[n].key <= k)
        /\ UNCHANGED root
  BY DEF tree_insert_pair
<1>2. /\ heap \in Heap /\ root \in Ptr /\ new = Null /\ ~Busy /\ ~Busy' /\ TreeShape
      /\ Members \subseteq Nodes /\ Top = root /\ Top' = root
  BY <1>1, TreeFacts DEF TreeInv, Busy, Top
<1>3. new' \in Nodes /\ ~heap[new'].used
  <2> DEFINE U == {n \in Nodes : ~heap[n].used}
  <2>1. U \in SUBSET Nat /\ U # {}
    BY <1>1, TreeAssumption DEF Nodes
  <2>2. Min(U) \in U
    BY <2>1, LeastNumber
  <2>. QED BY <1>1, <2>2
<1>4. /\ heap' \in Heap /\ heap'[new'] = Fresh(k, d)
      /\ \A x \in Nodes : x # new' => heap'[x] = heap[x]
  BY <1>1, <1>2, <1>3, FreshFacts DEF Heap
<1>5. Members' = Members /\ new' \notin Members
  BY <1>2, <1>3, <1>4, PtrFacts DEF Members
<1>6. SameLinks(heap, heap', Members) /\ \A x \in Members : SameSize(heap, heap', x)
  BY <1>2, <1>4, <1>5 DEF SameLinks, SameSize
<1>7. \A x \in Nodes \ Members : heap'[x].left = Null /\ heap'[x].right = Null
  BY <1>1, <1>2, <1>3, <1>4, FreshFacts DEF TreeShape
<1>8. ASSUME Members # {}
      PROVE  /\ root # Null /\ root \in Members /\ IsTree(heap', Members, root)
             /\ \A x \in Members : Exact(heap', x) /\ skew(heap', x) = skew(heap, x)
  <2>1. root # Null /\ root \in Members /\ IsTree(heap, Members, root)
    BY <1>2, <1>8, RootFacts
  <2>2. \A x \in Members : Exact(heap, x)
    BY <1>2 DEF TreeShape
  <2>. QED BY <1>4, <1>6, <1>7, <2>1, <2>2, SameTree, SameSizes
<1>9. TreeShape'
  <2>1. TreeTypeOK'
    BY <1>1, <1>2, <1>3, <1>4, PtrFacts DEF TreeShape, TreeTypeOK, Heap, Cell, Ptr
  <2>2. \A x \in Members : heap'[x].key \in Keys /\ heap'[x].data \in Data
    BY <1>2, <1>4, <1>5 DEF TreeShape
  <2>3. IF root = Null THEN Members = {} ELSE IsTree(heap', Members, root)
    BY <1>2, <1>8, RootFacts
  <2>. QED BY <1>1, <1>2, <1>5, <1>7, <1>8, <2>1, <2>2, <2>3 DEF TreeShape
<1>10. TreePhase'
  <2>1. call' \in Puts /\ call'.key = k /\ call'.data = d
    BY <1>1, CallFacts
  <2>2. root # Null => root \in Members /\ Reach(Onward(heap', k), root, root)
    BY <1>2, RootFacts, ReachSelf
  <2>3. Inserting'
    BY <1>1, <1>2, <1>3, <1>4, <1>5, <2>1, <2>2 DEF Inserting
  <2>. QED BY <1>1, <1>2, <2>3 DEF TreePhase
<1>11. ascending' => Level'
  <2> SUFFICES ASSUME ascending' PROVE Level'
    OBVIOUS
  <2>1. Level /\ \A n \in InTree : heap[n].key <= k
    BY <1>1 DEF TreeInv
  <2>2. Members \subseteq InTree
    <3> SUFFICES ASSUME NEW x \in Members, x # root PROVE heap[x].parent # Null
      BY <1>2, TreeFacts DEF InTree
    <3>. QED BY <1>2, RootFacts, OnlyTop
  <2>3. \A x \in Members : heap'[x].key <= k
    BY <1>2, <1>4, <1>5, <2>1, <2>2
  <2>4. \A x \in Members : skew(heap', x) \in -1..1
    BY <1>1, <1>8, <2>1 DEF Level
  <2>5. call'.key = k
    BY <1>1, CallFacts
  <2>. QED BY <1>1, <1>5, <2>3, <2>4, <2>5 DEF Level
<1>. QED BY <1>9, <1>10, <1>11 DEF TreeInv

LEMMA KeepOverwrite == ASSUME TreeInv, Overwrite, UNCHANGED ascending PROVE TreeInv'
<1>1. /\ pc = "insert" /\ treeAt # Null /\ heap[treeAt].key = heap[new].key
      /\ heap' = [heap EXCEPT ![treeAt].data = heap[new].data, ![new] = Free]
      /\ pc' = "balance" /\ new' = Null /\ UNCHANGED <<root, treeAt, call, ascending>>
  BY DEF Overwrite
<1>2. /\ heap \in Heap /\ root \in Ptr /\ new \in Nodes /\ ~Busy /\ Busy' /\ TreeShape
      /\ Members \subseteq Nodes /\ Top = root /\ treeAt \in Members /\ treeAt # new
      /\ call \in Puts /\ heap[new] = Fresh(call.key, call.data)
      /\ Reach(Onward(heap, call.key), root, treeAt)
  BY <1>1, TreeFacts DEF TreeInv, TreePhase, Inserting, Busy, Members
<1>3. /\ root \in Members /\ IsTree(heap, Members, root)
  BY <1>2, RootFacts
<1>4. /\ call.name = "put" /\ call.key \in Keys /\ call.data \in Data /\ call.key \in Int
      /\ heap[new].key = call.key /\ heap[new].data = call.data
  BY <1>2, CallFacts, FreshFacts, TreeFacts
<1>5. /\ heap' \in Heap /\ heap'[new] = Free
      /\ \A x \in Nodes \ {new, treeAt} : heap'[x] = heap[x]
      /\ heap'[treeAt] = [heap[treeAt] EXCEPT !.data = call.data]
  <2> DEFINE c == [heap[treeAt] EXCEPT !.data = call.data]
  <2>1. c \in Cell
    BY <1>2, <1>4 DEF Heap, Cell
  <2>2. heap' = [[heap EXCEPT ![treeAt] = c] EXCEPT ![new] = Free]
    BY <1>1, <1>2, <1>4 DEF Heap
  <2> HIDE DEF c
  <2>3. /\ heap' \in Heap /\ heap'[new] = Free /\ heap'[treeAt] = c
        /\ \A x \in Nodes \ {new, treeAt} : heap'[x] = heap[x]
    BY <1>2, <2>1, <2>2, FreeFacts DEF Heap
  <2>. QED BY <2>3 DEF c
<1>6. LET c == heap'[treeAt]  d == heap[treeAt] IN
      /\ c.key = d.key /\ c.data = call.data /\ c.parent = d.parent /\ c.left = d.left
      /\ c.right = d.right /\ c.height = d.height /\ c.size = d.size /\ c.used = d.used
  BY <1>2, <1>5 DEF Heap, Cell
<1>7. Members' = Members /\ new \notin Members
  <2>1. Members' = {n \in Nodes : heap'[n].used}
    BY <1>1, PtrFacts DEF Members
  <2>2. \A n \in Nodes : heap'[n].used <=> heap[n].used /\ n # new
    BY <1>5, <1>6, FreeFacts
  <2>. QED BY <2>1, <2>2 DEF Members
<1>8. SameLinks(heap, heap', Members) /\ \A x \in Members : SameSize(heap, heap', x)
  <2> SUFFICES ASSUME NEW x \in Members
               PROVE  /\ heap'[x].key = heap[x].key /\ heap'[x].parent = heap[x].parent
                      /\ heap'[x].left = heap[x].left /\ heap'[x].right = heap[x].right
                      /\ heap'[x].height = heap[x].height /\ heap'[x].size = heap[x].size
    BY <1>2, <1>5, CellFacts DEF SameLinks, SameSize, Sides
  <2>. QED BY <1>2, <1>5, <1>6, <1>7
<1>9. \A x \in Nodes \ Members : heap'[x].left = Null /\ heap'[x].right = Null
  BY <1>2, <1>5, FreeFacts DEF TreeShape
<1>10. /\ IsTree(heap', Members, root) /\ Reach(Onward(heap', call.key), root, treeAt)
       /\ \A x \in Members : /\ Exact(heap', x) /\ skew(heap', x) = skew(heap, x)
                             /\ SameBelow(heap, heap', x)
  <2>1. \A x \in Members : Exact(heap, x)
    BY <1>2 DEF TreeShape
  <2>. QED BY <1>2, <1>3, <1>4, <1>5, <1>8, <1>9, <2>1, SameTree, SameSizes
<1>11. Top' = root /\ root # Null
  BY <1>1, <1>2, <1>3, <1>7, <1>10, TopIsNext, PtrFacts
<1>12. TreeShape'
  <2>1. TreeTypeOK'
    BY <1>1, <1>2, <1>5, PtrFacts DEF TreeShape, TreeTypeOK, Heap, Cell, Ptr
  <2>2. \A x \in Members : heap'[x].key \in Keys /\ heap'[x].data \in Data
    BY <1>2, <1>4, <1>5, <1>6, <1>7 DEF TreeShape
  <2>. QED BY <1>1, <1>7, <1>9, <1>10, <1>11, <2>1, <2>2 DEF TreeShape
<1>13. TreePhase'
  <2>1. \E m \in Members : heap'[m].key = call.key /\ heap'[m].data = call.data
    BY <1>1, <1>2, <1>4, <1>6
  <2>2. Balancing'
    BY <1>1, <1>2, <1>7, <1>10, <1>11, <2>1 DEF Balancing
  <2>. QED BY <1>1, <2>2 DEF TreePhase
<1>14. ascending' => Level'
  <2> SUFFICES ASSUME ascending PROVE Level'
    BY <1>1
  <2>1. Level
    BY DEF TreeInv
  <2>2. \A x \in Members : heap'[x].key <= call.key
    BY <1>1, <1>8, <2>1 DEF Level, SameLinks
  <2>3. \A x \in Members : skew(heap', x) \in -1..1
    BY <1>1, <1>10, <2>1 DEF Level
  <2>4. Grown(heap', treeAt)
    <3> DEFINE l == Height(heap', heap'[treeAt].left)
               r == Height(heap', heap'[treeAt].right)
    <3>1. /\ treeAt \in Nodes /\ heap'[treeAt].left \in Ptr /\ heap'[treeAt].right \in Ptr
      BY <1>2, <1>5, CellFacts
    <3>2. l \in Nat /\ r \in Nat /\ skew(heap', treeAt) = r - l
      BY <1>1, <1>5, <3>1, Heights DEF skew
    <3>3. heap'[treeAt].height = 1 + Max({l, r})
      BY <1>2, <1>10 DEF Exact
    <3>4. r - l \in -1..1
      BY <1>2, <2>3, <3>2
    <3> HIDE DEF l, r
    <3>5. \E o \in Nat : heap'[treeAt].height = 1 + Max({l, o}) /\ o - l \in -1..1 /\ r \in {o, o + 1}
      BY <3>2, <3>3, <3>4
    <3>. QED BY <3>5 DEF Grown, l, r
  <2>. QED BY <1>1, <1>4, <1>7, <2>2, <2>3, <2>4 DEF Level
<1>. QED BY <1>12, <1>13, <1>14 DEF TreeInv

LEMMA KeepDescend == ASSUME TreeInv, Descend, UNCHANGED ascending PROVE TreeInv'
<1>1. /\ pc = "insert" /\ treeAt # Null /\ heap[treeAt].key # heap[new].key
      /\ heap[treeAt][Side] # Null /\ treeAt' = heap[treeAt][Side]
      /\ UNCHANGED <<heap, root, pc, new, call, ascending>>
  BY DEF Descend
<1>2. /\ heap \in Heap /\ root \in Ptr /\ new \in Nodes /\ ~Busy /\ ~Busy' /\ TreeShape
      /\ Members \subseteq Nodes /\ Top = root /\ Top' = root /\ treeAt \in Members
      /\ call \in Puts /\ heap[new] = Fresh(call.key, call.data)
      /\ Reach(Onward(heap, call.key), root, treeAt)
  BY <1>1, TreeFacts DEF TreeInv, TreePhase, Inserting, Busy, Top
<1>3. IsTree(heap, Members, root) /\ Members' = Members
  BY <1>1, <1>2, RootFacts DEF Members
<1>4. heap[new].key = call.key /\ call.key \in Int
  BY <1>2, CallFacts, FreshFacts, TreeFacts
<1>5. Side \in Sides /\ treeAt' \in Members
  BY <1>1, <1>2, <1>3 DEF Side, Sides, IsTree, LinkedIn
<1>6. Onward(heap, call.key)[treeAt] = treeAt'
  BY <1>1, <1>2, <1>4, OnwardIs, CellFacts DEF Side
<1>7. Reach(Onward(heap, call.key), root, treeAt')
  BY <1>2, <1>6, ReachOn
<1>8. TreeShape'
  <2>1. TreeTypeOK'
    BY <1>1, <1>2, <1>5, PtrFacts DEF TreeShape, TreeTypeOK, Ptr
  <2>. QED BY <1>1, <1>2, <1>3, <2>1 DEF TreeShape
<1>9. TreePhase'
  <2>1. Inserting'
    BY <1>1, <1>2, <1>3, <1>5, <1>7, PtrFacts DEF Inserting
  <2>. QED BY <1>1, <1>2, <2>1 DEF TreePhase
<1>10. ascending' => Level'
  BY <1>1, <1>3 DEF Level, TreeInv
<1>. QED BY <1>8, <1>9, <1>10 DEF TreeInv

LEMMA KeepDelete == ASSUME TreeInv, tree_delete, UNCHANGED ascending PROVE TreeInv'
<1>1. /\ pc = "idle" /\ root # Null
      /\ pc' = "delete" /\ treeAt' = root /\ call' = Map!Clearing
      /\ UNCHANGED <<heap, root, new, ascending>>
  BY DEF tree_delete
<1>2. TreeShape /\ ~Busy /\ ~Busy' /\ root \in Ptr /\ Top = root /\ Top' = root /\ Members' = Members
  BY <1>1, TreeFacts DEF TreeInv, Busy, Top, Members
<1>3. root \in Members
  BY <1>1, <1>2, RootFacts
<1>4. TreeShape'
  <2>1. TreeTypeOK'
    BY <1>1, <1>2 DEF TreeShape, TreeTypeOK
  <2>. QED BY <1>1, <1>2, <2>1 DEF TreeShape
<1>5. TreePhase'
  BY <1>1, <1>2, <1>3 DEF TreePhase, Deleting
<1>6. ascending' => Level'
  <2>1. LeftEdge(treeAt)'
    BY <1>1, <1>2, ReachSelf DEF LeftEdge
  <2>. QED BY <1>1, <1>2, <2>1 DEF Level, TreeInv
<1>. QED BY <1>4, <1>5, <1>6 DEF TreeInv

LEMMA KeepDeleteDone == ASSUME TreeInv, DeleteDone, UNCHANGED ascending PROVE TreeInv'
<1>1. /\ pc = "delete" /\ treeAt = Null
      /\ pc' = "idle" /\ call' = Map!Idle /\ UNCHANGED <<heap, root, treeAt, new, ascending>>
  BY DEF DeleteDone
<1>2. TreeShape /\ ~Busy /\ ~Busy' /\ Top' = Top /\ Members' = Members
  BY <1>1 DEF TreeInv, Busy, Top, Members
<1>3. TreeShape'
  <2>1. TreeTypeOK'
    BY <1>1, <1>2 DEF TreeShape, TreeTypeOK
  <2>. QED BY <1>1, <1>2, <2>1 DEF TreeShape
<1>4. TreePhase'
  BY <1>1, <1>2 DEF TreePhase
<1>5. ascending' => Level'
  BY <1>1, <1>2 DEF Level, TreeInv
<1>. QED BY <1>3, <1>4, <1>5 DEF TreeInv

\* A node with a child has two levels.
LEMMA TwoLevels ==
  ASSUME NEW h, NEW T, NEW t, IsTree(h, T, t), NEW n \in T, NEW s \in Sides, h[n][s] # Null,
         Exact(h, n), Exact(h, h[n][s])
  PROVE  Height(h, n) >= 2
<1> DEFINE c == h[n][s]
<1>1. h \in Heap /\ n \in Nodes /\ c \in Nodes
  BY OnPath DEF IsTree
<1>2. /\ Height(h, h[n]["left"]) \in Nat /\ Height(h, h[n]["right"]) \in Nat
      /\ Height(h, n) = 1 + IF Height(h, h[n]["left"]) > Height(h, h[n]["right"])
                            THEN Height(h, h[n]["left"]) ELSE Height(h, h[n]["right"])
  BY <1>1, ExactHeight
<1>3. Height(h, c) \in Nat /\ Height(h, c) >= 1
  <2>1. /\ Height(h, h[c]["left"]) \in Nat /\ Height(h, h[c]["right"]) \in Nat
        /\ Height(h, c) = 1 + IF Height(h, h[c]["left"]) > Height(h, h[c]["right"])
                              THEN Height(h, h[c]["left"]) ELSE Height(h, h[c]["right"])
    BY <1>1, ExactHeight
  <2> HIDE DEF c
  <2>. QED BY <2>1
<1>4. c = h[n]["left"] \/ c = h[n]["right"]
  BY DEF Sides
<1> HIDE DEF c
<1>. QED BY <1>2, <1>3, <1>4

\* A node on whose parent's left there is nothing has no child, if all is in balance.
LEMMA LastOnRight ==
  ASSUME NEW h, NEW T, NEW t, IsTree(h, T, t), NEW n \in T,
         \A x \in T : Exact(h, x) /\ skew(h, x) \in -1..1,
         h[n].parent # Null, h[h[n].parent].left = Null
  PROVE  /\ h[n].left = Null /\ h[n].right = Null
         /\ h[h[n].parent].right = n
<1> DEFINE p == h[n].parent
<1>1. h \in Heap /\ n \in Nodes /\ p \in T /\ p \in Nodes /\ n # Null
  BY PtrFacts DEF IsTree, LinkedIn
<1>2. \E s \in Sides : h[p][s] = n
  BY DEF IsTree, LinkedIn
<1>3. h[p]["left"] = Null /\ h[p].right = n /\ h[p]["right"] = n
  BY <1>1, <1>2, CellFacts DEF Sides
<1>4. skew(h, p) = Height(h, n) /\ Height(h, n) \in Nat
  <2>1. /\ Height(h, h[p]["left"]) \in Nat /\ Height(h, h[p]["right"]) \in Nat
        /\ skew(h, p) = Height(h, h[p]["right"]) - Height(h, h[p]["left"])
    BY <1>1, ExactHeight
  <2>2. Height(h, Null) = 0
    BY DEF Height
  <2>. QED BY <1>3, <2>1, <2>2
<1>5. Height(h, n) < 2
  <2>1. skew(h, p) \in -1..1
    BY <1>1
  <2> HIDE DEF p
  <2>. QED BY <1>4, <2>1
<1>6. \A s \in Sides : h[n][s] = Null
  <2> SUFFICES ASSUME NEW s \in Sides, h[n][s] # Null PROVE FALSE
    OBVIOUS
  <2>1. h[n][s] \in T
    BY OnPath
  <2>2. Height(h, n) >= 2
    BY <2>1, TwoLevels
  <2>. QED BY <1>4, <1>5, <2>2
<1>. QED BY <1>1, <1>3, <1>6, CellFacts DEF Sides

LEMMA KeepDeleteDown == ASSUME TreeInv, DeleteDown, UNCHANGED ascending PROVE TreeInv'
<1>1. /\ pc = "delete" /\ treeAt # Null
      /\ heap[treeAt].left # Null \/ heap[treeAt].right # Null
      /\ treeAt' = IF heap[treeAt].left # Null THEN heap[treeAt].left ELSE heap[treeAt].right
      /\ UNCHANGED <<heap, root, pc, new, call, ascending>>
  BY DEF DeleteDown
<1>2. /\ heap \in Heap /\ root \in Ptr /\ ~Busy /\ ~Busy' /\ TreeShape /\ treeAt \in Members
      /\ Members \subseteq Nodes /\ Top = root /\ Top' = root /\ call = Map!Clearing
  BY <1>1, TreeFacts DEF TreeInv, TreePhase, Deleting, Busy, Top
<1>3. IsTree(heap, Members, root) /\ Members' = Members
  BY <1>1, <1>2, RootFacts DEF Members
<1>4. PICK s \in Sides : treeAt' = heap[treeAt][s] /\ heap[treeAt][s] # Null
  BY <1>1, <1>2, CellFacts DEF Sides
<1>5. treeAt' \in Members /\ treeAt' # Null /\ heap[treeAt'].parent = treeAt
  BY <1>2, <1>3, <1>4, OnPath
<1>6. TreeShape'
  <2>1. TreeTypeOK'
    BY <1>1, <1>2, <1>5, PtrFacts DEF TreeShape, TreeTypeOK, Ptr
  <2>. QED BY <1>1, <1>2, <1>3, <2>1 DEF TreeShape
<1>7. TreePhase'
  BY <1>1, <1>2, <1>3, <1>5 DEF TreePhase, Deleting
<1>8. ascending' => Level'
  <2> SUFFICES ASSUME ascending PROVE Level'
    BY <1>1
  <2>1. \A x \in Members : Exact(heap, x) /\ skew(heap, x) \in -1..1
    BY <1>1, <1>2 DEF Level, TreeInv, TreeShape
  <2>2. LeftEdge(treeAt)
    <3>1. LET p == heap[treeAt].parent IN
          LeftEdge(treeAt) \/ (p # Null /\ heap[p].left = Null /\ LeftEdge(p))
      BY <1>1 DEF Level, TreeInv
    <3>. QED BY <1>1, <1>2, <1>3, <2>1, <3>1, LastOnRight
  <2>3. CASE heap[treeAt].left # Null
    <3>1. Onward(heap, -1)[treeAt] = treeAt'
      BY <1>1, <1>2, <2>3, OnwardIs, CellFacts
    <3>2. LeftEdge(treeAt)'
      BY <1>1, <1>2, <2>2, <3>1, ReachOn DEF LeftEdge
    <3>. QED BY <1>1, <1>3, <2>1, <3>2 DEF Level
  <2>4. CASE heap[treeAt].left = Null
    <3>1. LeftEdge(treeAt) /\ heap'[treeAt'].parent = treeAt /\ heap'[treeAt].left = Null
      BY <1>1, <1>5, <2>2, <2>4
    <3>2. Reach(Onward(heap', -1), Top', heap'[treeAt'].parent)
      BY <1>1, <1>2, <3>1 DEF LeftEdge
    <3>3. LET p == heap'[treeAt'].parent IN p # Null /\ heap'[p].left = Null /\ Reach(Onward(heap', -1), Top', p)
      BY <1>1, <3>1, <3>2
    <3>. QED BY <1>1, <1>3, <2>1, <3>3 DEF Level, LeftEdge
  <2>. QED BY <2>3, <2>4
<1>. QED BY <1>6, <1>7, <1>8 DEF TreeInv

\* A new node in the place where the search for its key ends.
LEMMA Attached ==
  ASSUME NEW h, NEW T, NEW t, IsTree(h, T, t), NEW a \in T, NEW n \in Nodes \ T,
         NEW k, k = h[n].key, h[a].key # k,
         NEW s, s = (IF h[a].key > k THEN "left" ELSE "right"), h[a][s] = Null,
         Reach(Onward(h, k), t, a), h[n].height = 0, h[n].size = 0,
         NEW b, b = Stored(Stored(h, a, s, n), n, "parent", a)
  PROVE  /\ IsTree(b, T \cup {n}, t) /\ Reach(Onward(b, k), t, n)
         /\ \A x \in Nodes : SameData(h, b, x) /\ SameSize(h, b, x)
         /\ \A x \in T : SameBelow(h, b, x)
         /\ b[n].left = Null /\ b[n].right = Null
<1>1. /\ h \in Heap /\ T \subseteq Nodes /\ t \in T /\ h[t].parent = Null
      /\ \A x \in T : LinkedIn(h, T, x) /\ Reach(Onward(h, h[x].key), t, x)
      /\ \A x \in Nodes \ T : h[x].left = Null /\ h[x].right = Null
  BY DEF IsTree
<1>2. a \in Nodes /\ a \in Ptr /\ n \in Ptr /\ n # a /\ n # Null /\ s \in Sides /\ k \in Int
  BY <1>1, CellFacts, PtrFacts DEF Sides
<1>3. /\ b \in Heap
      /\ \A x \in Nodes :
           /\ SameData(h, b, x) /\ SameSize(h, b, x)
           /\ b[x].parent = IF x = n THEN a ELSE h[x].parent
           /\ \A q \in Sides : b[x][q] = IF x = a /\ q = s THEN n ELSE h[x][q]
  <2> DEFINE c == Stored(h, a, s, n)
  <2>1. /\ c \in Heap
        /\ \A x \in Nodes :
             /\ SameData(h, c, x) /\ SameSize(h, c, x) /\ c[x].parent = h[x].parent
             /\ \A q \in Sides : c[x][q] = IF x = a /\ s = q THEN n ELSE h[x][q]
    BY <1>1, <1>2, ChildStored
  <2>2. b = Stored(c, n, "parent", a)
    OBVIOUS
  <2> HIDE DEF c
  <2>3. /\ b \in Heap
        /\ \A x \in Nodes :
             /\ SameData(c, b, x) /\ SameSize(c, b, x)
             /\ b[x].parent = IF x = n THEN a ELSE c[x].parent
             /\ \A q \in Sides : b[x][q] = c[x][q]
    BY <1>2, <2>1, <2>2, ParentStored
  <2>. QED BY <2>1, <2>3 DEF SameData, SameSize
<1>4. b[n].left = Null /\ b[n].right = Null
  <2>1. \A q \in Sides : b[n][q] = h[n][q]
    BY <1>2, <1>3
  <2>. QED BY <1>1, <1>3, <2>1, CellFacts DEF Sides
<1>5. ASSUME NEW j \in Int, NEW m \in T, Reach(Onward(h, j), t, m)
      PROVE  Reach(Onward(b, j), t, m)
  <2> DEFINE g == Onward(h, j)
             f == Onward(b, j)
             N == Ptr \ T
  <2>1. g \in [Ptr -> Ptr] /\ f \in [Ptr -> Ptr] /\ N \in SUBSET Ptr /\ m \notin N /\ Null \in N
    BY <1>1, <1>3, OnwardIs, PtrFacts
  <2>2. \A x \in N : g[x] \in N
    BY <1>1, OnwardIs, PtrFacts
  <2>3. ASSUME NEW x \in Ptr \ N PROVE g[x] \in N \/ f[x] = g[x]
    <3>1. x \in T /\ x \in Nodes
      BY <1>1, <2>3
    <3>2. /\ b[x].key = h[x].key
          /\ b[x].left = (IF x = a /\ "left" = s THEN n ELSE h[x].left)
          /\ b[x].right = (IF x = a /\ "right" = s THEN n ELSE h[x].right)
      BY <1>1, <1>3, <3>1, CellFacts DEF SameData, Sides
    <3>3. /\ g[x] = IF h[x].key = j THEN x ELSE IF h[x].key > j THEN h[x].left ELSE h[x].right
          /\ f[x] = IF b[x].key = j THEN x ELSE IF b[x].key > j THEN b[x].left ELSE b[x].right
      BY <1>1, <1>3, <3>1, OnwardIs
    <3>4. /\ s = "left" => h[a].left = Null
          /\ s = "right" => h[a].right = Null
      BY <1>1, <1>2, CellFacts
    <3> HIDE DEF g, f, N
    <3>. QED BY <2>1, <3>2, <3>3, <3>4
  <2> HIDE DEF g, f, N
  <2>4. Reach(g, t, m)
    BY <1>5 DEF g
  <2>5. Reach(f, t, m)
    BY <2>1, <2>2, <2>3, <2>4, ReachBeside
  <2>. QED BY <2>5 DEF f
<1>6. Reach(Onward(b, k), t, n)
  <2>1. Reach(Onward(b, k), t, a)
    BY <1>2, <1>5
  <2>2. Onward(b, k)[a] = n
    <3>1. b[a].key = h[a].key /\ b[a][s] = n
      BY <1>2, <1>3 DEF SameData
    <3>2. b[a]["left"] = b[a].left /\ b[a]["right"] = b[a].right
      BY <1>2, <1>3, CellFacts
    <3>. QED BY <1>2, <1>3, <3>1, <3>2, OnwardIs
  <2>. QED BY <2>1, <2>2, ReachOn
<1>7. \A x \in T \cup {n} : LinkedIn(b, T \cup {n}, x)
  <2>1. ASSUME NEW x \in T PROVE LinkedIn(b, T \cup {n}, x)
    <3>1. LinkedIn(h, T, x) /\ x \in Nodes /\ x # n
      BY <1>1
    <3>2. \A q \in Sides : b[x][q] # Null => b[x][q] \in T \cup {n} /\ b[b[x][q]].parent = x
      <4> SUFFICES ASSUME NEW q \in Sides, b[x][q] # Null
                   PROVE  b[x][q] \in T \cup {n} /\ b[b[x][q]].parent = x
        OBVIOUS
      <4>1. CASE x = a /\ q = s
        BY <1>2, <1>3, <4>1
      <4>2. CASE ~(x = a /\ q = s)
        <5>1. b[x][q] = h[x][q]
          BY <1>3, <3>1, <4>2
        <5>2. h[x][q] \in T /\ h[h[x][q]].parent = x
          BY <3>1, <5>1 DEF LinkedIn
        <5>3. h[x][q] # n /\ h[x][q] \in Nodes
          BY <1>1, <5>2
        <5>. QED BY <1>3, <5>1, <5>2, <5>3
      <4>. QED BY <4>1, <4>2
    <3>3. b[x].left = b[x].right => b[x].left = Null
      <4>1. /\ b[x].left = (IF x = a /\ "left" = s THEN n ELSE h[x].left)
            /\ b[x].right = (IF x = a /\ "right" = s THEN n ELSE h[x].right)
        BY <1>1, <1>3, <3>1, CellFacts DEF Sides
      <4>2. h[x].left # n /\ h[x].right # n
        <5>1. h[x]["left"] # n /\ h[x]["right"] # n
          BY <1>2, <3>1 DEF LinkedIn, Sides
        <5>. QED BY <1>1, <3>1, <5>1, CellFacts
      <4>3. h[x].left = h[x].right => h[x].left = Null
        BY <3>1 DEF LinkedIn
      <4>. QED BY <4>1, <4>2, <4>3
    <3>4. b[x].parent = h[x].parent
      BY <1>3, <3>1
    <3>5. h[x].parent # Null => h[x].parent \in T /\ \E q \in Sides : b[h[x].parent][q] = x
      <4> SUFFICES ASSUME h[x].parent # Null
                   PROVE  h[x].parent \in T /\ \E q \in Sides : b[h[x].parent][q] = x
        OBVIOUS
      <4>1. h[x].parent \in T /\ h[x].parent \in Nodes
        BY <1>1, <3>1 DEF LinkedIn
      <4>2. PICK q \in Sides : h[h[x].parent][q] = x
        BY <3>1 DEF LinkedIn
      <4>3. ~(h[x].parent = a /\ q = s)
        BY <3>1, <4>2, PtrFacts
      <4>4. b[h[x].parent][q] = x
        BY <1>3, <4>1, <4>2, <4>3
      <4>. QED BY <4>1, <4>4
    <3>. QED BY <3>2, <3>3, <3>4, <3>5 DEF LinkedIn
  <2>2. LinkedIn(b, T \cup {n}, n)
    <3>1. \A q \in Sides : b[n][q] = Null
      BY <1>3, <1>4, CellFacts DEF Sides
    <3>2. b[n].parent = a /\ b[a][s] = n
      BY <1>2, <1>3
    <3>. QED BY <1>2, <1>4, <3>1, <3>2 DEF LinkedIn
  <2>. QED BY <2>1, <2>2
<1>8. IsTree(b, T \cup {n}, t)
  <2>1. \A x \in T : b[x].key = h[x].key /\ h[x].key \in Int
    BY <1>1, <1>3, CellFacts DEF SameData
  <2>2. b[n].key = k
    BY <1>3 DEF SameData
  <2>3. b[t].parent = Null
    BY <1>1, <1>3
  <2>4. \A x \in Nodes \ (T \cup {n}) : b[x].left = Null /\ b[x].right = Null
    <3> SUFFICES ASSUME NEW x \in Nodes \ (T \cup {n}) PROVE b[x].left = Null /\ b[x].right = Null
      OBVIOUS
    <3>1. \A q \in Sides : b[x][q] = h[x][q]
      BY <1>3
    <3>. QED BY <1>1, <1>3, <3>1, CellFacts DEF Sides
  <2>5. \A x \in T \cup {n} : Reach(Onward(b, b[x].key), t, x)
    BY <1>1, <1>5, <1>6, <2>1, <2>2
  <2>. QED BY <1>1, <1>3, <1>7, <2>3, <2>4, <2>5 DEF IsTree
<1>9. ASSUME NEW x \in T PROVE SameBelow(h, b, x)
  <2> SUFFICES ASSUME NEW q \in Sides
               PROVE  Height(b, b[x][q]) = Height(h, h[x][q]) /\ Size(b, b[x][q]) = Size(h, h[x][q])
    BY DEF SameBelow
  <2>1. CASE x = a /\ q = s
    <3>1. b[x][q] = n /\ h[x][q] = Null /\ SameSize(h, b, n)
      BY <1>2, <1>3, <2>1
    <3>. QED BY <1>2, <3>1 DEF Height, Size, SameSize
  <2>2. CASE ~(x = a /\ q = s)
    <3>1. b[x][q] = h[x][q]
      BY <1>1, <1>3, <2>2
    <3>2. h[x][q] = Null \/ h[x][q] \in Nodes
      BY <1>1 DEF LinkedIn
    <3>. QED BY <1>3, <3>1, <3>2 DEF Height, Size, SameSize
  <2>. QED BY <2>1, <2>2
<1>. QED BY <1>3, <1>4, <1>6, <1>8, <1>9

LEMMA KeepAttach == ASSUME TreeInv, Attach, UNCHANGED ascending PROVE TreeInv'
<1>1. /\ pc = "insert"
      /\ \/ treeAt = Null /\ UNCHANGED heap
         \/ /\ treeAt # Null /\ heap[treeAt].key # heap[new].key /\ heap[treeAt][Side] = Null
            /\ heap' = Stored(Stored(heap, treeAt, Side, new), new, "parent", treeAt)
      /\ pc' = "balance" /\ treeAt' = new /\ new' = Null
      /\ UNCHANGED <<root, call, ascending>>
  BY DEF Attach
<1>2. /\ heap \in Heap /\ root \in Ptr /\ new \in Nodes /\ ~Busy /\ Busy' /\ TreeShape
      /\ Members \subseteq Nodes /\ Top = root /\ new \notin Members
      /\ call \in Puts /\ heap[new] = Fresh(call.key, call.data)
      /\ IF treeAt = Null THEN root = Null
         ELSE treeAt \in Members /\ Reach(Onward(heap, call.key), root, treeAt)
  BY <1>1, TreeFacts DEF TreeInv, TreePhase, Inserting, Busy, Members
<1>3. /\ call.name = "put" /\ call.key \in Keys /\ call.data \in Data /\ call.key \in Nat
      /\ heap[new].key = call.key /\ heap[new].data = call.data /\ heap[new].used
      /\ heap[new].parent = Null /\ heap[new].left = Null /\ heap[new].right = Null
      /\ heap[new].height = 0 /\ heap[new].size = 0
  BY <1>2, CallFacts, FreshFacts, TreeFacts
<1> DEFINE T == Members \cup {new}
           u == IF root = Null THEN new ELSE root
<1>4. /\ IsTree(heap', T, u) /\ Reach(Onward(heap', call.key), u, new)
      /\ \A x \in Nodes : SameData(heap, heap', x) /\ SameSize(heap, heap', x)
      /\ \A x \in Members : SameBelow(heap, heap', x)
      /\ heap'[new].left = Null /\ heap'[new].right = Null
  <2>1. CASE treeAt = Null
    <3>1. /\ heap' = heap /\ root = Null /\ Members = {} /\ T = {new} /\ u = new
      BY <1>1, <1>2, <2>1, RootFacts, PtrFacts
    <3>2. \A x \in Nodes : heap[x].left = Null /\ heap[x].right = Null
      BY <1>2, <3>1 DEF TreeShape
    <3>3. LinkedIn(heap, {new}, new)
      <4>1. \A q \in Sides : heap[new][q] = Null
        BY <1>2, <1>3, CellFacts DEF Sides
      <4>. QED BY <1>3, <4>1 DEF LinkedIn
    <3>4. IsTree(heap, {new}, new)
      BY <1>2, <1>3, <3>2, <3>3, ReachSelf DEF IsTree
    <3>5. \A x \in Nodes : SameData(heap, heap', x) /\ SameSize(heap, heap', x)
      BY <3>1 DEF SameData, SameSize
    <3> HIDE DEF T, u
    <3>. QED BY <1>3, <3>1, <3>4, <3>5, ReachSelf
  <2>2. CASE treeAt # Null
    <3>1. /\ heap[treeAt].key # heap[new].key /\ heap[treeAt][Side] = Null
          /\ heap' = Stored(Stored(heap, treeAt, Side, new), new, "parent", treeAt)
          /\ Side = IF heap[treeAt].key > heap[new].key THEN "left" ELSE "right"
      BY <1>1, <2>2 DEF Side
    <3>2. /\ treeAt \in Members /\ Reach(Onward(heap, heap[new].key), root, treeAt)
          /\ IsTree(heap, Members, root) /\ u = root
      BY <1>2, <1>3, <2>2, RootFacts
    <3>3. new \in Nodes \ Members
      BY <1>2
    <3>4. /\ IsTree(heap', T, root) /\ Reach(Onward(heap', heap[new].key), root, new)
          /\ \A x \in Nodes : SameData(heap, heap', x) /\ SameSize(heap, heap', x)
          /\ \A x \in Members : SameBelow(heap, heap', x)
          /\ heap'[new].left = Null /\ heap'[new].right = Null
      BY <1>3, <3>1, <3>2, <3>3, Attached
    <3> HIDE DEF T, u
    <3>. QED BY <1>3, <3>2, <3>4
  <2>. QED BY <2>1, <2>2
<1>5. Members' = T
  <2>1. Members' = {n \in Nodes : heap'[n].used}
    BY <1>1, PtrFacts DEF Members
  <2>2. \A n \in Nodes : heap'[n].used <=> heap[n].used
    BY <1>4 DEF SameData
  <2>. QED BY <1>2, <1>3, <2>1, <2>2 DEF Members
<1>6. heap' \in Heap /\ u # Null /\ Top' = u
  BY <1>1, <1>2, <1>4, <1>5, TopIsNext, PtrFacts DEF IsTree
<1>7. \A x \in Members : Exact(heap', x) /\ skew(heap', x) = skew(heap, x)
  <2>1. \A x \in Members : Exact(heap, x)
    BY <1>2 DEF TreeShape
  <2>. QED BY <1>2, <1>4, <1>6, <2>1, StillExact
<1>8. /\ heap'[new].key = call.key /\ heap'[new].data = call.data
      /\ \A x \in Members : heap'[x].key = heap[x].key /\ heap'[x].data = heap[x].data
  BY <1>2, <1>3, <1>4 DEF SameData
<1> HIDE DEF u
<1>9. TreeShape'
  <2>1. TreeTypeOK'
    BY <1>1, <1>2, <1>6, PtrFacts DEF TreeShape, TreeTypeOK, Heap, Cell, Ptr
  <2>2. \A x \in T : heap'[x].key \in Keys /\ heap'[x].data \in Data
    BY <1>2, <1>3, <1>8 DEF TreeShape
  <2>3. \A x \in Nodes \ T : heap'[x].left = Null /\ heap'[x].right = Null
    BY <1>4 DEF IsTree
  <2>4. \A x \in T : Exact(heap', x) \/ x = new
    BY <1>7
  <2> HIDE DEF T
  <2>. QED BY <1>1, <1>2, <1>4, <1>5, <1>6, <2>1, <2>2, <2>3, <2>4 DEF TreeShape
<1>10. TreePhase'
  <2>1. \E m \in Members' : heap'[m].key = call.key /\ heap'[m].data = call.data
    BY <1>5, <1>8
  <2>2. Balancing'
    BY <1>1, <1>2, <1>4, <1>5, <1>6, <2>1 DEF Balancing
  <2>. QED BY <1>1, <2>2 DEF TreePhase
<1>11. ascending' => Level'
  <2> SUFFICES ASSUME ascending PROVE Level'
    BY <1>1
  <2>1. Level
    BY DEF TreeInv
  <2>2. \A x \in T : heap'[x].key <= call.key
    BY <1>1, <1>3, <1>8, <2>1 DEF Level
  <2>3. \A x \in T : skew(heap', x) \in -1..1 \/ x = new
    BY <1>1, <1>7, <2>1 DEF Level
  <2>4. Grown(heap', new)
    BY <1>2, <1>3, <1>4 DEF Grown, SameSize, Height
  <2> HIDE DEF T
  <2>. QED BY <1>1, <1>3, <1>5, <2>2, <2>3, <2>4, CallFacts DEF Level
<1>. QED BY <1>9, <1>10, <1>11 DEF TreeInv

\* A walk to another node does not see that a leaf is gone.
LEMMA PluckedReach ==
  ASSUME NEW h, NEW T, NEW t, IsTree(h, T, t),
         NEW a \in T, h[a].left = Null, h[a].right = Null,
         NEW p \in T, NEW s \in Sides, h[p][s] = a, NEW b \in Heap,
         \A x \in T \ {a} : /\ b[x].key = h[x].key
                            /\ \A q \in Sides : b[x][q] = IF x = p /\ q = s THEN Null ELSE h[x][q],
         NEW j \in Int, NEW m \in T \ {a}, Reach(Onward(h, j), t, m)
  PROVE  Reach(Onward(b, j), t, m)
<1>1. /\ h \in Heap /\ T \subseteq Nodes /\ a # Null
      /\ \A x \in Nodes \ T : h[x].left = Null /\ h[x].right = Null
  BY PtrFacts DEF IsTree
<1> DEFINE g == Onward(h, j)
           f == Onward(b, j)
           N == Ptr \ (T \ {a})
<1>2. g \in [Ptr -> Ptr] /\ f \in [Ptr -> Ptr] /\ N \in SUBSET Ptr /\ m \notin N /\ Null \in N /\ a \in N
  BY <1>1, OnwardIs, PtrFacts
<1>3. \A x \in N : g[x] \in N
  <2> SUFFICES ASSUME NEW x \in N PROVE g[x] \in N
    OBVIOUS
  <2>1. CASE x = Null
    BY <1>1, <1>2, <2>1, OnwardIs
  <2>2. CASE x # Null
    <3>1. x \in Nodes /\ h[x].left = Null /\ h[x].right = Null
      BY <1>1, <2>2, PtrFacts
    <3>2. g[x] = x \/ g[x] = Null
      BY <1>1, <3>1, OnwardIs
    <3>. QED BY <1>2, <3>2
  <2>. QED BY <2>1, <2>2
<1>4. ASSUME NEW x \in Ptr \ N PROVE g[x] \in N \/ f[x] = g[x]
  <2>1. x \in T /\ x \in Nodes /\ x # a
    BY <1>1, <1>4
  <2>2. /\ b[x].key = h[x].key
        /\ b[x].left = (IF x = p /\ "left" = s THEN Null ELSE h[x].left)
        /\ b[x].right = (IF x = p /\ "right" = s THEN Null ELSE h[x].right)
    BY <1>1, <2>1, CellFacts DEF Sides
  <2>3. /\ g[x] = IF h[x].key = j THEN x ELSE IF h[x].key > j THEN h[x].left ELSE h[x].right
        /\ f[x] = IF b[x].key = j THEN x ELSE IF b[x].key > j THEN b[x].left ELSE b[x].right
    <3>1. h \in Heap /\ b \in Heap /\ x \in Nodes
      BY <1>1, <2>1
    <3>2. g[x] = IF h[x].key = j THEN x ELSE IF h[x].key > j THEN h[x].left ELSE h[x].right
      BY <3>1, OnwardIs
    <3>3. f[x] = IF b[x].key = j THEN x ELSE IF b[x].key > j THEN b[x].left ELSE b[x].right
      <4> HIDE DEF N
      <4>. QED BY <3>1, OnwardIs
    <3>. QED BY <3>2, <3>3
  <2>4. /\ s = "left" => h[p].left = a
        /\ s = "right" => h[p].right = a
    BY <1>1, CellFacts
  <2> HIDE DEF g, f, N
  <2>. QED BY <1>2, <2>2, <2>3, <2>4
<1> HIDE DEF g, f, N
<1>5. Reach(g, t, m)
  BY DEF g
<1>6. Reach(f, t, m)
  BY <1>2, <1>3, <1>4, <1>5, ReachBeside
<1>. QED BY <1>6 DEF f

\* b is h without the leaf a, that was on side s of its parent.
Without(h, b, a, s) ==
  LET p == h[a].parent IN
  /\ b \in Heap /\ b[a] = Free
  /\ \A x \in Nodes \ {a} :
       /\ SameData(h, b, x) /\ SameSize(h, b, x) /\ b[x].parent = h[x].parent
       /\ \A q \in Sides : b[x][q] = IF x = p /\ q = s THEN Null ELSE h[x][q]

LEMMA PluckedIs ==
  ASSUME NEW h, NEW T, NEW t, IsTree(h, T, t), NEW a \in T, h[a].parent # Null,
         h[a].left = Null, h[a].right = Null,
         NEW b, b = [Replaced(h, a, Null) EXCEPT ![a] = Free]
  PROVE  \E s \in Sides :
           /\ h[h[a].parent][s] = a /\ \A q \in Sides : q # s => h[h[a].parent][q] # a
           /\ Without(h, b, a, s)
<1> DEFINE p == h[a].parent
           s == IF h[p].left = a THEN "left" ELSE "right"
<1>1. /\ h \in Heap /\ T \subseteq Nodes /\ t \in T /\ h[t].parent = Null
      /\ \A x \in T : LinkedIn(h, T, x) /\ Reach(Onward(h, h[x].key), t, x)
      /\ \A x \in Nodes \ T : h[x].left = Null /\ h[x].right = Null
      /\ a \in Nodes /\ a # Null /\ a # t
  BY PtrFacts DEF IsTree
<1>2. p \in T /\ p # a /\ p \in Nodes /\ p # Null
  BY <1>1, NoCircle
<1>3. s \in Sides /\ h[p][s] = a /\ \A q \in Sides : q # s => h[p][q] # a
  <2>1. \E q \in Sides : h[p][q] = a
    BY <1>1 DEF LinkedIn
  <2>2. h[p].left = h[p].right => h[p].left = Null
    BY <1>1, <1>2 DEF LinkedIn
  <2>3. h[p]["left"] = h[p].left /\ h[p]["right"] = h[p].right
    BY <1>1, <1>2, CellFacts
  <2> HIDE DEF p
  <2>. QED BY <1>1, <2>1, <2>2, <2>3 DEF Sides
<1>4. /\ b \in Heap /\ b[a] = Free
      /\ \A x \in Nodes \ {a} :
           /\ SameData(h, b, x) /\ SameSize(h, b, x) /\ b[x].parent = h[x].parent
           /\ \A q \in Sides : b[x][q] = IF x = p /\ q = s THEN Null ELSE h[x][q]
  <2> DEFINE c == Stored(h, p, s, Null)
  <2>1. Replaced(h, a, Null) = c
    BY <1>2 DEF Replaced
  <2>2. p \in Ptr /\ Null \in Ptr
    BY <1>2, PtrFacts
  <2>3. /\ c \in Heap
        /\ \A x \in Nodes :
             /\ SameData(h, c, x) /\ SameSize(h, c, x) /\ c[x].parent = h[x].parent
             /\ \A q \in Sides : c[x][q] = IF x = p /\ s = q THEN Null ELSE h[x][q]
    <3> HIDE DEF p, s
    <3>. QED BY <1>1, <1>3, <2>2, ChildStored
  <2> HIDE DEF c, p, s
  <2>4. b = [c EXCEPT ![a] = Free]
    BY <2>1
  <2>5. b \in Heap /\ b[a] = Free /\ \A x \in Nodes \ {a} : b[x] = c[x]
    BY <1>1, <2>3, <2>4, FreeFacts DEF Heap
  <2>. QED BY <2>3, <2>5 DEF SameData, SameSize
<1> HIDE DEF s
<1>5. Without(h, b, a, s)
  BY <1>4 DEF Without
<1>. QED BY <1>3, <1>5

\* A leaf is taken from its parent: what is left is a tree, and nothing else has changed.
Gone(h, b, T, t, a) ==
  LET p == h[a].parent IN
  /\ IsTree(b, T \ {a}, t) /\ b[a] = Free /\ p \in T \ {a}
  /\ \A x \in Nodes \ {a} : SameData(h, b, x) /\ SameSize(h, b, x)
  /\ \A x \in Nodes \ {a} : b[x].parent = h[x].parent
  /\ \A x \in T \ {a, p} : SameBelow(h, b, x)
  /\ \A q \in Sides : IF h[p][q] = a THEN b[p][q] = Null
                      ELSE b[p][q] = h[p][q] /\ Height(b, h[p][q]) = Height(h, h[p][q])
  /\ \A k \in Int, m \in T \ {a} : Reach(Onward(h, k), t, m) => Reach(Onward(b, k), t, m)

LEMMA Plucked ==
  ASSUME NEW h, NEW T, NEW t, IsTree(h, T, t), NEW a \in T, h[a].parent # Null,
         h[a].left = Null, h[a].right = Null,
         NEW s \in Sides, h[h[a].parent][s] = a, \A q \in Sides : q # s => h[h[a].parent][q] # a,
         NEW b, Without(h, b, a, s)
  PROVE  Gone(h, b, T, t, a)
<1> DEFINE p == h[a].parent
           U == T \ {a}
<1>1. /\ h \in Heap /\ T \subseteq Nodes /\ t \in T /\ h[t].parent = Null
      /\ \A x \in T : LinkedIn(h, T, x) /\ Reach(Onward(h, h[x].key), t, x)
      /\ \A x \in Nodes \ T : h[x].left = Null /\ h[x].right = Null
      /\ a \in Nodes /\ a # Null /\ a # t
  BY PtrFacts DEF IsTree
<1>2. p \in T /\ p # a /\ p \in Nodes /\ p # Null
  BY <1>1, NoCircle
<1>3. s \in Sides /\ h[p][s] = a /\ \A q \in Sides : q # s => h[p][q] # a
  OBVIOUS
<1>4. /\ b \in Heap /\ b[a] = Free
      /\ \A x \in Nodes \ {a} :
           /\ SameData(h, b, x) /\ SameSize(h, b, x) /\ b[x].parent = h[x].parent
           /\ \A q \in Sides : b[x][q] = IF x = p /\ q = s THEN Null ELSE h[x][q]
  BY DEF Without
<1>5. ASSUME NEW j \in Int, NEW m \in U, Reach(Onward(h, j), t, m)
      PROVE  Reach(Onward(b, j), t, m)
  <2>1. \A x \in T \ {a} : /\ b[x].key = h[x].key
                           /\ \A q \in Sides : b[x][q] = IF x = p /\ q = s THEN Null ELSE h[x][q]
    BY <1>1, <1>4 DEF SameData
  <2>2. b \in Heap
    BY <1>4
  <2> HIDE DEF p
  <2>. QED BY <1>2, <1>3, <1>5, <2>1, <2>2, PluckedReach
<1> HIDE DEF p
<1>6. b[a].left = Null /\ b[a].right = Null
  BY <1>4, FreeFacts
<1>7. \A x \in U : LinkedIn(b, U, x)
  <2> SUFFICES ASSUME NEW x \in U PROVE LinkedIn(b, U, x)
    OBVIOUS
  <2>1. LinkedIn(h, T, x) /\ x \in Nodes \ {a}
    BY <1>1
  <2>2. \A q \in Sides : b[x][q] # Null => b[x][q] \in U /\ b[b[x][q]].parent = x
    <3> SUFFICES ASSUME NEW q \in Sides, b[x][q] # Null
                 PROVE  b[x][q] \in U /\ b[b[x][q]].parent = x
      OBVIOUS
    <3>1. b[x][q] = h[x][q] /\ ~(x = p /\ q = s)
      BY <1>4, <2>1
    <3>2. h[x][q] \in T /\ h[h[x][q]].parent = x
      BY <2>1, <3>1 DEF LinkedIn
    <3>3. h[x][q] # a
      BY <1>3, <3>1, <3>2 DEF p
    <3>. QED BY <1>1, <1>4, <3>1, <3>2, <3>3
  <2>3. b[x].left = b[x].right => b[x].left = Null
    <3>1. /\ b[x].left = (IF x = p /\ "left" = s THEN Null ELSE h[x].left)
          /\ b[x].right = (IF x = p /\ "right" = s THEN Null ELSE h[x].right)
      BY <1>1, <1>4, <2>1, CellFacts DEF Sides
    <3>2. h[x].left = h[x].right => h[x].left = Null
      BY <2>1 DEF LinkedIn
    <3>. QED BY <3>1, <3>2
  <2>4. b[x].parent = h[x].parent
    BY <1>4, <2>1
  <2>5. h[x].parent # Null => h[x].parent \in U /\ \E q \in Sides : b[h[x].parent][q] = x
    <3> SUFFICES ASSUME h[x].parent # Null
                 PROVE  h[x].parent \in U /\ \E q \in Sides : b[h[x].parent][q] = x
      OBVIOUS
    <3>1. h[x].parent \in T /\ h[x].parent \in Nodes
      BY <1>1, <2>1 DEF LinkedIn
    <3>2. PICK q \in Sides : h[h[x].parent][q] = x
      BY <2>1 DEF LinkedIn
    <3>3. h[x].parent # a
      <4>1. h[a]["left"] = Null /\ h[a]["right"] = Null /\ x # Null
        BY <1>1, <2>1, CellFacts, PtrFacts
      <4>. QED BY <3>2, <4>1 DEF Sides
    <3>4. ~(h[x].parent = p /\ q = s)
      BY <1>3, <2>1, <3>2
    <3>5. b[h[x].parent][q] = x
      BY <1>4, <3>1, <3>2, <3>3, <3>4
    <3>. QED BY <3>1, <3>3, <3>5
  <2>. QED BY <2>2, <2>3, <2>4, <2>5 DEF LinkedIn
<1>8. IsTree(b, U, t)
  <2>1. \A x \in U : b[x].key = h[x].key /\ h[x].key \in Int
    BY <1>1, <1>4, CellFacts DEF SameData
  <2>2. b[t].parent = Null
    BY <1>1, <1>4
  <2>3. \A x \in Nodes \ U : b[x].left = Null /\ b[x].right = Null
    <3> SUFFICES ASSUME NEW x \in Nodes \ U, x # a PROVE b[x].left = Null /\ b[x].right = Null
      BY <1>6
    <3>1. \A q \in Sides : b[x][q] = h[x][q]
      BY <1>2, <1>4
    <3>. QED BY <1>1, <1>4, <3>1, CellFacts DEF Sides
  <2>4. \A x \in U : Reach(Onward(b, b[x].key), t, x)
    BY <1>1, <1>5, <2>1
  <2>. QED BY <1>1, <1>4, <1>7, <2>2, <2>3, <2>4 DEF IsTree
<1>9. \A x \in U, q \in Sides : h[x][q] = Null \/ h[x][q] \in Nodes
  BY <1>1 DEF LinkedIn
<1>10. \A x \in T \ {a, p} : SameBelow(h, b, x)
  <2> SUFFICES ASSUME NEW x \in T \ {a, p}, NEW q \in Sides
               PROVE  /\ Height(b, b[x][q]) = Height(h, h[x][q])
                      /\ Size(b, b[x][q]) = Size(h, h[x][q])
    BY DEF SameBelow
  <2>1. b[x][q] = h[x][q]
    BY <1>1, <1>4
  <2>2. h[x][q] # a
    <3>1. h[x][q] # Null => h[h[x][q]].parent = x
      BY <1>1 DEF LinkedIn
    <3>. QED BY <1>1, <3>1 DEF p
  <2>. QED BY <1>4, <1>9, <2>1, <2>2 DEF Height, Size, SameSize
<1>11. \A q \in Sides : IF h[p][q] = a THEN b[p][q] = Null
                        ELSE b[p][q] = h[p][q] /\ Height(b, h[p][q]) = Height(h, h[p][q])
  <2> SUFFICES ASSUME NEW q \in Sides
               PROVE  IF h[p][q] = a THEN b[p][q] = Null
                      ELSE b[p][q] = h[p][q] /\ Height(b, h[p][q]) = Height(h, h[p][q])
    OBVIOUS
  <2>1. h[p][q] = a <=> q = s
    BY <1>3
  <2>2. b[p][q] = IF q = s THEN Null ELSE h[p][q]
    BY <1>2, <1>4
  <2>3. h[p][q] = Null \/ h[p][q] \in Nodes
    BY <1>2, <1>9
  <2>. QED BY <1>4, <2>1, <2>2, <2>3 DEF Height, SameSize
<1>. QED BY <1>2, <1>4, <1>5, <1>8, <1>10, <1>11 DEF p, Gone

\* A leaf is one level high.
LEMMA LeafHeight ==
  ASSUME NEW h \in Heap, NEW n \in Nodes, h[n].left = Null, h[n].right = Null, Exact(h, n)
  PROVE  Height(h, n) = 1
<1>1. Height(h, Null) = 0 /\ n # Null
  BY PtrFacts DEF Height
<1>. QED BY <1>1, Larger DEF Exact, Height

\* The height of the parent of a leaf at the left edge, or of one that has no other child,
\* is as if the leaf were still there.
LEMMA PluckedShrunk ==
  ASSUME NEW h, NEW T, NEW t, IsTree(h, T, t), NEW a \in T, h[a].parent # Null,
         h[a].left = Null, h[a].right = Null,
         \A x \in T : Exact(h, x) /\ skew(h, x) \in -1..1,
         \/ Reach(Onward(h, -1), t, a)
         \/ h[h[a].parent].left = Null /\ Reach(Onward(h, -1), t, h[a].parent),
         NEW b \in Heap, b[h[a].parent].height = h[h[a].parent].height,
         \A s \in Sides : IF h[h[a].parent][s] = a THEN b[h[a].parent][s] = Null
                          ELSE Height(b, b[h[a].parent][s]) = Height(h, h[h[a].parent][s])
  PROVE  Shrunk(b, h[a].parent) /\ Reach(Onward(h, -1), t, h[a].parent)
<1> DEFINE p == h[a].parent
           l == Height(b, b[p]["left"])
           r == Height(b, b[p]["right"])
<1>1. /\ h \in Heap /\ a \in Nodes /\ p \in T /\ p \in Nodes /\ a # Null /\ h[t].parent = Null
      /\ T \subseteq Nodes /\ t \in T /\ \A x \in T : LinkedIn(h, T, x)
      /\ "left" \in Sides /\ "right" \in Sides
  BY PtrFacts DEF IsTree, LinkedIn, Sides
<1>2. Height(h, a) = 1 /\ Height(b, Null) = 0
  BY <1>1, LeafHeight DEF Height
<1>3. /\ Height(h, h[p]["left"]) \in Nat /\ Height(h, h[p]["right"]) \in Nat
      /\ skew(h, p) = Height(h, h[p]["right"]) - Height(h, h[p]["left"])
      /\ h[p].height = 1 + IF Height(h, h[p]["left"]) > Height(h, h[p]["right"])
                           THEN Height(h, h[p]["left"]) ELSE Height(h, h[p]["right"])
      /\ skew(h, p) \in -1..1
  BY <1>1, ExactHeight
<1>4. /\ h[p]["left"] = h[p].left /\ h[p]["right"] = h[p].right
      /\ b[p]["left"] = b[p].left /\ b[p]["right"] = b[p].right
  BY <1>1, CellFacts
<1>5. CASE Reach(Onward(h, -1), t, a)
  <2>1. Reach(Onward(h, -1), t, p) /\ Onward(h, -1)[p] = a
    <3>1. a # t /\ -1 \in Int
      BY <1>1
    <3>. QED BY <1>1, <1>5, <3>1, ReachBack
  <2>2. h[p]["left"] = a
    <3>1. h[p].key \in Nat
      BY <1>1, CellFacts
    <3>. QED BY <1>1, <1>4, <2>1, <3>1, OnwardIs
  <2>3. h[p]["right"] # a
    <3>1. h[p].left = h[p].right => h[p].left = Null
      BY <1>1 DEF LinkedIn
    <3> HIDE DEF p
    <3>. QED BY <1>1, <1>4, <2>2, <3>1
  <2>4. l = 0 /\ r = Height(h, h[p]["right"])
    BY <1>1, <1>2, <2>2, <2>3
  <2>5. h[p].height = b[p].height
    OBVIOUS
  <2> HIDE DEF p, l, r
  <2>6. b[p].height = 1 + Max({r, 1}) /\ r - 1 \in -1..1 /\ l \in {1, 1 - 1}
    BY <1>2, <1>3, <2>2, <2>4, <2>5, Larger
  <2>7. Shrunk(b, p)
    BY <1>4, <2>6 DEF Shrunk, l, r
  <2>. QED BY <2>1, <2>7 DEF p
<1>6. CASE h[p].left = Null /\ Reach(Onward(h, -1), t, p)
  <2>1. h[p]["right"] = a /\ h[p]["left"] = Null
    BY <1>4, <1>6, LastOnRight
  <2>2. l = Height(h, Null) /\ r = 0
    BY <1>1, <1>2, <2>1
  <2>3. h[p].height = b[p].height /\ Height(h, Null) = 0
    BY DEF Height
  <2> HIDE DEF p, l, r
  <2>4. b[p].height = 1 + Max({r, 1}) /\ r - 1 \in -1..1 /\ l \in {1, 1 - 1}
    BY <1>2, <1>3, <2>1, <2>2, <2>3, Larger
  <2>5. Shrunk(b, p)
    BY <1>4, <2>4 DEF Shrunk, l, r
  <2>. QED BY <1>6, <2>5 DEF p
<1>. QED BY <1>5, <1>6

LEMMA KeepDeleteLeaf == ASSUME TreeInv, DeleteLeaf, UNCHANGED ascending PROVE TreeInv'
<1>1. /\ pc = "delete" /\ treeAt # Null /\ heap[treeAt].left = Null /\ heap[treeAt].right = Null
      /\ heap' = [Replaced(heap, treeAt, Null) EXCEPT ![treeAt] = Free]
      /\ treeAt' = heap[treeAt].parent
      /\ IF treeAt' = Null THEN root' = Null /\ UNCHANGED pc ELSE pc' = "balance" /\ UNCHANGED root
      /\ UNCHANGED <<new, call, ascending>>
  BY DEF DeleteLeaf
<1>2. /\ heap \in Heap /\ root \in Ptr /\ new = Null /\ ~Busy /\ TreeShape
      /\ Members \subseteq Nodes /\ Top = root /\ treeAt \in Members /\ call = Map!Clearing
  BY <1>1, TreeFacts DEF TreeInv, TreePhase, Deleting, Busy
<1>3. IsTree(heap, Members, root) /\ root # Null
  BY <1>2, RootFacts
<1>4. \A x \in Members : Exact(heap, x)
  BY <1>2 DEF TreeShape
<1>5. CASE heap[treeAt].parent = Null
  <2>1. treeAt = root /\ Members = {treeAt}
    BY <1>1, <1>2, <1>3, <1>5, OnlyTop, OnlyLeaf
  <2>2. /\ heap' \in Heap /\ heap'[treeAt] = Free /\ \A x \in Nodes \ {treeAt} : heap'[x] = heap[x]
    <3>1. heap' = [heap EXCEPT ![treeAt] = Free]
      BY <1>1, <1>5 DEF Replaced
    <3>. QED BY <1>2, <3>1, FreeFacts DEF Heap
  <2>3. Members' = {}
    <3>1. \A x \in Nodes : ~heap'[x].used
      BY <1>2, <2>1, <2>2, FreeFacts, PtrFacts DEF Members
    <3>. QED BY <3>1 DEF Members
  <2>4. /\ treeAt' = Null /\ root' = Null /\ pc' = "delete" /\ Top' = Null /\ ~Busy'
    BY <1>1, <1>5 DEF Busy, Top
  <2>5. TreeShape'
    <3>1. TreeTypeOK'
      BY <1>1, <1>2, <2>2, <2>4, PtrFacts DEF TreeShape, TreeTypeOK, Heap, Cell, Ptr
    <3>2. \A x \in Nodes : heap'[x].left = Null /\ heap'[x].right = Null
      BY <1>2, <2>1, <2>2, FreeFacts DEF TreeShape
    <3>. QED BY <1>1, <1>2, <2>3, <2>4, <3>1, <3>2 DEF TreeShape
  <2>6. TreePhase'
    BY <1>1, <1>2, <2>4 DEF TreePhase, Deleting
  <2>7. Level'
    BY <2>3, <2>4 DEF Level
  <2>. QED BY <2>5, <2>6, <2>7 DEF TreeInv
<1>6. CASE heap[treeAt].parent # Null
  <2> DEFINE p == heap[treeAt].parent
             U == Members \ {treeAt}
  <2>1. /\ IsTree(heap', U, root) /\ heap'[treeAt] = Free /\ p \in U
        /\ \A x \in Nodes \ {treeAt} : SameData(heap, heap', x) /\ SameSize(heap, heap', x)
        /\ \A x \in Members \ {treeAt, p} : SameBelow(heap, heap', x)
        /\ \A s \in Sides : IF heap[p][s] = treeAt THEN heap'[p][s] = Null
                            ELSE heap'[p][s] = heap[p][s] /\ Height(heap', heap[p][s]) = Height(heap, heap[p][s])
        /\ \A k \in Int, m \in U : Reach(Onward(heap, k), root, m) => Reach(Onward(heap', k), root, m)
    <3>1. PICK s \in Sides :
            /\ heap[heap[treeAt].parent][s] = treeAt
            /\ \A q \in Sides : q # s => heap[heap[treeAt].parent][q] # treeAt
            /\ Without(heap, heap', treeAt, s)
      BY <1>1, <1>2, <1>3, <1>6, PluckedIs
    <3>2. heap[treeAt].left = Null /\ heap[treeAt].right = Null
      BY <1>1
    <3>3. Gone(heap, heap', Members, root, treeAt)
      BY <1>2, <1>3, <1>6, <3>1, <3>2, Plucked
    <3>. QED BY <3>3 DEF Gone
  <2>2. Members' = U
    <3>1. Members' = {n \in Nodes : heap'[n].used}
      BY <1>1, <1>2, PtrFacts DEF Members
    <3>2. \A n \in Nodes : heap'[n].used <=> heap[n].used /\ n # treeAt
      BY <2>1, FreeFacts DEF SameData
    <3>3. Members = {n \in Nodes : heap[n].used}
      BY <1>2, PtrFacts DEF Members
    <3>. QED BY <3>1, <3>2, <3>3
  <2>3. treeAt' = p /\ p # Null /\ pc' = "balance" /\ root' = root /\ Busy'
    BY <1>1, <1>6 DEF Busy
  <2>4. Top' = root /\ heap' \in Heap /\ p \in Members
    BY <1>1, <1>2, <2>1, <2>2, <2>3, TopIsNext DEF IsTree
  <2>5. \A x \in U \ {p} : Exact(heap', x) /\ skew(heap', x) = skew(heap, x)
    BY <1>2, <1>4, <2>1, <2>4, StillExact
  <2>6. TreeShape'
    <3>1. TreeTypeOK'
      BY <1>1, <1>2, <2>3, <2>4, PtrFacts DEF TreeShape, TreeTypeOK, Heap, Cell, Ptr
    <3>2. \A x \in U : heap'[x].key \in Keys /\ heap'[x].data \in Data
      BY <1>2, <2>1 DEF TreeShape, SameData
    <3>3. \A x \in Nodes \ U : heap'[x].left = Null /\ heap'[x].right = Null
      BY <2>1 DEF IsTree
    <3> HIDE DEF U, p
    <3>. QED BY <1>1, <1>2, <1>3, <2>1, <2>2, <2>3, <2>4, <2>5, <3>1, <3>2, <3>3 DEF TreeShape
  <2>7. TreePhase'
    BY <1>1, <1>2, <2>1, <2>2, <2>3 DEF TreePhase, Balancing
  <2>8. ascending' => Level'
    <3> SUFFICES ASSUME ascending PROVE Level'
      BY <1>1
    <3>1. Level
      BY DEF TreeInv
    <3>2. \A x \in Members : Exact(heap, x) /\ skew(heap, x) \in -1..1
      BY <1>1, <1>4, <3>1 DEF Level
    <3>3. \/ Reach(Onward(heap, -1), root, treeAt)
          \/ heap[heap[treeAt].parent].left = Null /\ Reach(Onward(heap, -1), root, heap[treeAt].parent)
      BY <1>1, <1>2, <3>1 DEF Level, LeftEdge
    <3>4. /\ heap'[heap[treeAt].parent].height = heap[heap[treeAt].parent].height
          /\ \A s \in Sides : IF heap[heap[treeAt].parent][s] = treeAt THEN heap'[heap[treeAt].parent][s] = Null
                              ELSE Height(heap', heap'[heap[treeAt].parent][s])
                                     = Height(heap, heap[heap[treeAt].parent][s])
      BY <1>2, <2>1 DEF SameSize
    <3>5. Shrunk(heap', heap[treeAt].parent) /\ Reach(Onward(heap, -1), root, heap[treeAt].parent)
      BY <1>1, <1>2, <1>3, <1>6, <2>4, <3>2, <3>3, <3>4, PluckedShrunk
    <3>6. Reach(Onward(heap', -1), root, p)
      BY <2>1, <3>5
    <3>7. \A x \in U : skew(heap', x) \in -1..1 \/ x = p
      BY <2>5, <3>2
    <3>8. Shrunk(heap', p)
      BY <3>5
    <3> HIDE DEF U, p
    <3>. QED BY <1>1, <1>2, <2>2, <2>3, <2>4, <3>6, <3>7, <3>8, CallFacts DEF Level, LeftEdge
  <2>. QED BY <2>6, <2>7, <2>8 DEF TreeInv
<1>. QED BY <1>5, <1>6

\* What tree_balance finds at a node that has grown, or shrunk, on one side: newly counted
\* it is no more than two levels higher on the right.  z is how high it is afterwards.
LEMMA GrownSkew ==
  ASSUME NEW h \in Heap, NEW a \in Nodes, Grown(h, a)
  PROVE  LET l == Height(h, h[a].left)  r == Height(h, h[a].right)
             now == 1 + IF l > r THEN l ELSE r
         IN  /\ r - l \in -1..2
             /\ \A z \in {now - 1, now} : (r - l # 2 => z = now) => z \in {h[a].height, h[a].height + 1}
<1> DEFINE l == Height(h, h[a].left)
           r == Height(h, h[a].right)
<1>1. l \in Nat /\ r \in Nat
  BY Heights, CellFacts
<1>2. CASE h[a].height = 0 /\ l = 0 /\ r = 0
  BY <1>2
<1>3. CASE \E o \in Nat : h[a].height = 1 + Max({l, o}) /\ o - l \in -1..1 /\ r \in {o, o + 1}
  <2>1. PICK o \in Nat : h[a].height = 1 + Max({l, o}) /\ o - l \in -1..1 /\ r \in {o, o + 1}
    BY <1>3
  <2>2. h[a].height = 1 + IF l > o THEN l ELSE o
    BY <1>1, <2>1, Larger
  <2> HIDE DEF l, r
  <2>3. r - l \in -1..2
    BY <1>1, <2>1
  <2>4. ASSUME NEW now, now = 1 + (IF l > r THEN l ELSE r), NEW z \in {now - 1, now}, r - l # 2 => z = now
        PROVE  z \in {h[a].height, h[a].height + 1}
    BY <1>1, <2>1, <2>2, <2>4
  <2>. QED BY <2>3, <2>4 DEF l, r
<1>4. (h[a].height = 0 /\ l = 0 /\ r = 0)
      \/ \E o \in Nat : h[a].height = 1 + Max({l, o}) /\ o - l \in -1..1 /\ r \in {o, o + 1}
  BY DEF Grown
<1>. QED BY <1>2, <1>3, <1>4

LEMMA ShrunkSkew ==
  ASSUME NEW h \in Heap, NEW a \in Nodes, Shrunk(h, a)
  PROVE  LET l == Height(h, h[a].left)  r == Height(h, h[a].right)
             now == 1 + IF l > r THEN l ELSE r
         IN  /\ r - l \in -1..2
             /\ \A z \in {now - 1, now} : (r - l # 2 => z = now) => z \in {h[a].height, h[a].height - 1}
<1> DEFINE l == Height(h, h[a].left)
           r == Height(h, h[a].right)
<1>1. l \in Nat /\ r \in Nat
  BY Heights, CellFacts
<1>2. PICK o \in Nat : h[a].height = 1 + Max({r, o}) /\ r - o \in -1..1 /\ l \in {o, o - 1}
  BY DEF Shrunk
<1>3. h[a].height = 1 + IF r > o THEN r ELSE o
  BY <1>1, <1>2, Larger
<1> HIDE DEF l, r
<1>4. r - l \in -1..2
  BY <1>1, <1>2
<1>5. ASSUME NEW now, now = 1 + (IF l > r THEN l ELSE r), NEW z \in {now - 1, now}, r - l # 2 => z = now
      PROVE  z \in {h[a].height, h[a].height - 1}
  BY <1>1, <1>2, <1>3, <1>5
<1>. QED BY <1>4, <1>5 DEF l, r

\* So its parent has grown, or shrunk, on that side.
LEMMA GrownUp ==
  ASSUME NEW h \in Heap, NEW p \in Nodes, Exact(h, p), skew(h, p) \in -1..1,
         NEW b \in Heap, b[p].height = h[p].height,
         Height(b, b[p]["left"]) = Height(h, h[p]["left"]),
         Height(b, b[p]["right"]) \in {Height(h, h[p]["right"]), Height(h, h[p]["right"]) + 1}
  PROVE  Grown(b, p)
<1> DEFINE l == Height(h, h[p]["left"])
           o == Height(h, h[p]["right"])
<1>1. /\ h[p]["left"] = h[p].left /\ h[p]["right"] = h[p].right
      /\ b[p]["left"] = b[p].left /\ b[p]["right"] = b[p].right
  BY CellFacts
<1>2. l \in Nat /\ o \in Nat /\ skew(h, p) = o - l
  BY ExactHeight
<1>3. b[p].height = 1 + Max({l, o})
  BY <1>1 DEF Exact
<1>4. Height(b, b[p].left) = l /\ Height(b, b[p].right) \in {o, o + 1} /\ o - l \in -1..1
  BY <1>1, <1>2
<1> HIDE DEF l, o
<1>. QED BY <1>2, <1>3, <1>4 DEF Grown

LEMMA ShrunkUp ==
  ASSUME NEW h \in Heap, NEW p \in Nodes, Exact(h, p), skew(h, p) \in -1..1,
         NEW b \in Heap, b[p].height = h[p].height,
         Height(b, b[p]["right"]) = Height(h, h[p]["right"]),
         Height(b, b[p]["left"]) \in {Height(h, h[p]["left"]), Height(h, h[p]["left"]) - 1}
  PROVE  Shrunk(b, p)
<1> DEFINE r == Height(h, h[p]["right"])
           o == Height(h, h[p]["left"])
<1>1. /\ h[p]["left"] = h[p].left /\ h[p]["right"] = h[p].right
      /\ b[p]["left"] = b[p].left /\ b[p]["right"] = b[p].right
  BY CellFacts
<1>2. r \in Nat /\ o \in Nat /\ skew(h, p) = r - o
  BY ExactHeight
<1>3. b[p].height = 1 + Max({r, o})
  <2>1. h[p].height = 1 + IF o > r THEN o ELSE r
    BY ExactHeight
  <2> HIDE DEF r, o
  <2>. QED BY <1>2, <2>1, Larger
<1>4. Height(b, b[p].right) = r /\ Height(b, b[p].left) \in {o, o - 1} /\ r - o \in -1..1
  BY <1>1, <1>2
<1> HIDE DEF r, o
<1>. QED BY <1>2, <1>3, <1>4 DEF Shrunk

\* The step of tree_balance at a, its height newly counted.
LEMMA BalanceStep ==
  ASSUME NEW g, NEW T, NEW t, IsTree(g, T, t), NEW a \in T,
         \A x \in T \ {a} : Exact(g, x),
         NEW h, h = node_augment(g, a), ~FollowsNull(h, a),
         NEW b, b = Balanced(h, a),
         NEW top, top = IF RightHigh(h, a) \/ LeftHigh(h, a) THEN b[a].parent ELSE a
  PROVE  Raised(g, b, T, t, a, top) /\ \A x \in T : x # g[a].parent => Exact(b, x)
<1> DEFINE p == g[a].parent
<1>1. /\ g \in Heap /\ T \subseteq Nodes /\ p # a
      /\ (p # Null => p \in T)
  BY NoCircle DEF IsTree
<1>2. /\ IsTree(h, T, t) /\ Exact(h, a) /\ h \in Heap
      /\ \A x \in Nodes : SameData(g, h, x) /\ h[x].parent = g[x].parent
                          /\ \A s \in Sides : h[x][s] = g[x][s]
      /\ \A x \in T \ {a} : SameSize(g, h, x) /\ (x # p => SameBelow(g, h, x))
      /\ \A k \in Int : \A m : Reach(Onward(g, k), t, m) => Reach(Onward(h, k), t, m)
  <2>1. /\ IsTree(h, T, t) /\ Exact(h, a)
        /\ \A x \in Nodes : SameData(g, h, x) /\ h[x].parent = g[x].parent
                            /\ \A s \in Sides : h[x][s] = g[x][s]
        /\ \A x \in T \ {a} : SameSize(g, h, x) /\ (x # p => SameBelow(g, h, x))
    BY AugmentedTree
  <2>2. \A k \in Int : \A m : Reach(Onward(g, k), t, m) => Reach(Onward(h, k), t, m)
    BY AugmentedTree
  <2>3. h \in Heap
    BY <2>1 DEF IsTree
  <2>. QED BY <2>1, <2>2, <2>3
<1>3. \A x \in T : x # p => Exact(h, x)
  BY <1>1, <1>2, StillExact
<1>4. Raised(h, b, T, t, a, top)
  BY <1>2, BalancedTree
<1>5. h[a].parent = p
  BY <1>1, <1>2
<1>6. \A x \in T : x # p => Exact(b, x)
  BY <1>3, <1>4, <1>5 DEF Raised
<1> DEFINE u == IF t = a THEN top ELSE t
<1>7. /\ IsTree(b, T, u)
      /\ top \in T /\ b[top].parent = p /\ (p = Null <=> t = a) /\ (p # Null => p \in T)
      /\ \A x \in Nodes : SameData(g, b, x)
  BY <1>2, <1>4, <1>5 DEF Raised, SameData
<1>8. ASSUME p # Null
      PROVE  /\ SameSize(g, b, p) /\ \A s \in Sides : b[p][s] = IF g[p][s] = a THEN top ELSE g[p][s]
             /\ \A s \in Sides : g[p][s] # a => Height(b, g[p][s]) = Height(g, g[p][s])
  <2>1. p \in T /\ p \in Nodes /\ p # a
    BY <1>1, <1>8
  <2>2. /\ SameSize(h, b, p) /\ \A s \in Sides : b[p][s] = IF h[p][s] = a THEN top ELSE h[p][s]
        /\ \A s \in Sides : h[p][s] # a => Height(b, h[p][s]) = Height(h, h[p][s])
    BY <1>4, <1>5, <1>8 DEF Raised
  <2>3. SameSize(g, h, p) /\ \A s \in Sides : h[p][s] = g[p][s]
    BY <1>2, <2>1
  <2>4. ASSUME NEW s \in Sides, g[p][s] # a PROVE Height(h, g[p][s]) = Height(g, g[p][s])
    <3>1. g[p][s] = Null \/ g[p][s] \in T \ {a}
      BY <2>1, <2>4 DEF IsTree, LinkedIn
    <3>. QED BY <1>2, <3>1, KeptHeight
  <2> HIDE DEF p
  <2>. QED BY <2>2, <2>3, <2>4 DEF SameSize
<1>9. \A k \in Int : p # Null /\ Reach(Onward(g, k), t, p) => Reach(Onward(b, k), u, p)
  BY <1>2, <1>4, <1>5 DEF Raised
<1> HIDE DEF p, u
<1>10. Raised(g, b, T, t, a, top)
  BY <1>6, <1>7, <1>8, <1>9 DEF Raised, p, u
<1>. QED BY <1>6, <1>10 DEF p

LEMMA BalanceLevel ==
  ASSUME NEW g, NEW T, NEW t, IsTree(g, T, t), NEW a \in T,
         \A x \in T \ {a} : Exact(g, x) /\ skew(g, x) \in -1..1,
         NEW l, l = Height(g, g[a].left), NEW r, r = Height(g, g[a].right), r - l \in -1..2,
         NEW h, h = node_augment(g, a),
         NEW b, b = Balanced(h, a),
         NEW top, top = IF RightHigh(h, a) \/ LeftHigh(h, a) THEN b[a].parent ELSE a
  PROVE  LET now == 1 + IF l > r THEN l ELSE r IN
         /\ ~FollowsNull(h, a)
         /\ \A x \in T : x # g[a].parent => skew(b, x) \in -1..1
         /\ Height(b, top) \in {now - 1, now} /\ (r - l # 2 => Height(b, top) = now)
<1> DEFINE p == g[a].parent
<1>1. /\ g \in Heap /\ T \subseteq Nodes /\ p # a /\ a \in Nodes
  BY NoCircle DEF IsTree
<1>2. /\ IsTree(h, T, t) /\ Exact(h, a) /\ h \in Heap
      /\ \A x \in Nodes : h[x].parent = g[x].parent /\ \A s \in Sides : h[x][s] = g[x][s]
      /\ \A x \in T \ {a} : SameSize(g, h, x) /\ (x # p => SameBelow(g, h, x))
      /\ SameBelow(g, h, a)
  BY AugmentedTree DEF IsTree
<1>3. \A x \in T : x # p => Exact(h, x)
  BY <1>1, <1>2, StillExact
<1>4. \A x \in T \ {a, p} : skew(h, x) \in -1..1
  BY <1>1, <1>2, StillExact
<1>5. h[a].parent = p
  BY <1>1, <1>2
<1>6. /\ Height(h, h[a]["left"]) = l /\ Height(h, h[a]["right"]) = r
  BY <1>1, <1>2, CellFacts DEF SameBelow, Sides
<1>7. /\ l \in Nat /\ r \in Nat /\ skew(h, a) = r - l
      /\ h[a].height = 1 + IF l > r THEN l ELSE r
  BY <1>1, <1>2, <1>6, ExactHeight
<1>8. skew(h, a) \in -1..2
  BY <1>7
<1>9. /\ ~FollowsNull(h, a)
      /\ \A x \in T : x # h[a].parent => skew(b, x) \in -1..1
      /\ Height(b, top) \in {h[a].height - 1, h[a].height}
      /\ skew(h, a) # 2 => Height(b, top) = h[a].height
  BY <1>2, <1>3, <1>4, <1>5, <1>8, BalancedCalm
<1>. QED BY <1>5, <1>7, <1>9

LEMMA KeepBalance == ASSUME TreeInv, tree_balance, UNCHANGED ascending PROVE TreeInv'
<1> DEFINE a == treeAt
           p == heap[a].parent
           h == node_augment(heap, a)
           b == Balanced(h, a)
           top == IF RightHigh(h, a) \/ LeftHigh(h, a) THEN b[a].parent ELSE a
           t == Top
           u == IF t = a THEN top ELSE t
<1>1. /\ pc = "balance" /\ new' = new /\ ascending' = ascending
      /\ FollowsNull(h, a) => pc' = "crashed" /\ UNCHANGED <<heap, root, treeAt, call>>
      /\ ~FollowsNull(h, a) =>
           /\ heap' = b
           /\ b[top].parent # Null => treeAt' = b[top].parent /\ UNCHANGED <<root, pc, call>>
           /\ b[top].parent = Null =>
                /\ root' = top
                /\ call.name = "clear" => pc' = "delete" /\ treeAt' = top /\ UNCHANGED call
                /\ call.name # "clear" => pc' = "idle" /\ treeAt' = Null /\ call' = Map!Idle
  BY DEF tree_balance
<1>2. /\ heap \in Heap /\ root \in Ptr /\ new = Null /\ Busy /\ TreeShape /\ Balancing
      /\ Members \subseteq Nodes /\ a \in Members /\ IsTree(heap, Members, t)
      /\ t \in Members /\ t # Null
  BY <1>1, TreeFacts DEF TreeInv, TreePhase, Balancing, Busy, IsTree
<1>3. \A x \in Members \ {a} : Exact(heap, x)
  BY <1>2 DEF TreeShape
<1>4. a \in Nodes /\ (p # Null => p \in Members /\ p # a) /\ (p = Null <=> t = a) /\ heap[t].parent = Null
  BY <1>2, NoCircle DEF IsTree
<1>5. \/ call = Map!Clearing
      \/ /\ call \in Puts /\ Reach(Onward(heap, call.key), t, a)
         /\ \E m \in Members : heap[m].key = call.key /\ heap[m].data = call.data
  BY <1>2 DEF Balancing
<1>6. CASE FollowsNull(h, a)
  <2>1. /\ pc' = "crashed" /\ UNCHANGED <<heap, root, treeAt, call, new, ascending>>
    BY <1>1, <1>6
  <2>2. Members' = Members /\ Top' = Top /\ Busy'
    BY <1>1, <2>1 DEF Members, Top, Busy
  <2>3. TreeShape'
    <3>1. TreeTypeOK'
      BY <1>2, <2>1 DEF TreeShape, TreeTypeOK
    <3>. QED BY <1>1, <1>2, <2>1, <2>2, <3>1 DEF TreeShape
  <2>4. TreePhase'
    BY <1>2, <2>1, <2>2 DEF TreePhase, Balancing
  <2>5. ~ascending'
    <3> SUFFICES ASSUME ascending PROVE FALSE
      BY <1>1
    <3>1. Level
      BY DEF TreeInv
    <3> DEFINE l == Height(heap, heap[a].left)
               r == Height(heap, heap[a].right)
    <3>2. r - l \in -1..2
      <4>1. Grown(heap, a) \/ Shrunk(heap, a)
        BY <1>1, <1>5, <3>1, CallFacts DEF Level
      <4>. QED BY <1>2, <1>4, <4>1, GrownSkew, ShrunkSkew
    <3>3. \A x \in Members \ {a} : Exact(heap, x) /\ skew(heap, x) \in -1..1
      BY <1>3, <3>1 DEF Level
    <3> HIDE DEF a
    <3>. QED BY <1>2, <1>6, <3>2, <3>3, BalanceLevel
  <2>. QED BY <2>3, <2>4, <2>5 DEF TreeInv
<1>7. CASE ~FollowsNull(h, a)
  <2>1. Raised(heap, b, Members, t, a, top) /\ \A x \in Members : x # p => Exact(b, x)
    <3> HIDE DEF a, t
    <3>. QED BY <1>2, <1>3, <1>7, BalanceStep
  <2>2. /\ IsTree(b, Members, u)
        /\ top \in Members /\ b[top].parent = p
        /\ \A x \in Nodes : SameData(heap, b, x)
        /\ p # Null => SameSize(heap, b, p) /\ \A s \in Sides : b[p][s] = IF heap[p][s] = a THEN top ELSE heap[p][s]
        /\ p # Null => \A s \in Sides : heap[p][s] # a => Height(b, heap[p][s]) = Height(heap, heap[p][s])
        /\ \A k \in Int : p # Null /\ Reach(Onward(heap, k), t, p) => Reach(Onward(b, k), u, p)
    BY <2>1 DEF Raised
  <2>3. /\ heap' = b
        /\ p # Null => treeAt' = p /\ UNCHANGED <<root, pc, call>>
        /\ p = Null => /\ root' = top
                       /\ call.name = "clear" => pc' = "delete" /\ treeAt' = top /\ UNCHANGED call
                       /\ call.name # "clear" => pc' = "idle" /\ treeAt' = Null /\ call' = Map!Idle
    BY <1>1, <1>7, <2>2
  <2>4. Members' = Members
    BY <1>1, <2>2, <2>3 DEF Members, SameData
  <2> HIDE DEF b, top
  <2>5. b \in Heap /\ u \in Members /\ u # Null /\ b[u].parent = Null
    BY <1>2, <2>2, PtrFacts DEF IsTree
  <2>6. Top' = u
    <3>1. CASE p # Null
      BY <1>1, <1>2, <2>2, <2>3, <2>4, <3>1, TopIsNext DEF Busy
    <3>2. CASE p = Null
      <4>1. u = top /\ ~Busy'
        BY <1>4, <2>3, <3>2 DEF Busy
      <4>. QED BY <2>3, <3>2, <4>1 DEF Top, Busy
    <3>. QED BY <3>1, <3>2
  <2>7. TreeShape'
    <3>1. TreeTypeOK'
      <4>1. treeAt' \in Ptr /\ root' \in Ptr /\ pc' \in {"idle", "insert", "balance", "delete", "crashed"}
        BY <1>1, <1>2, <1>4, <2>2, <2>3, PtrFacts
      <4>. QED BY <1>1, <1>2, <2>3, <2>5, <4>1, PtrFacts DEF TreeShape, TreeTypeOK, Heap, Cell, Ptr
    <3>2. \A x \in Members : b[x].key \in Keys /\ b[x].data \in Data
      BY <1>2, <2>2 DEF TreeShape, SameData
    <3>3. \A x \in Nodes \ Members : b[x].left = Null /\ b[x].right = Null
      BY <2>2 DEF IsTree
    <3>4. \A x \in Members : Exact(b, x) \/ (Busy' /\ x = treeAt')
      BY <1>1, <1>2, <2>1, <2>3, PtrFacts DEF Busy
    <3> HIDE DEF u, p, a, t
    <3>. QED BY <1>1, <1>2, <2>2, <2>3, <2>4, <2>5, <2>6, <3>1, <3>2, <3>3, <3>4 DEF TreeShape
  <2>8. TreePhase'
    <3>1. CASE p # Null
      <4>1. call = Map!Clearing
            \/ (call \in Puts /\ Reach(Onward(b, call.key), u, p)
                /\ \E m \in Members : b[m].key = call.key /\ b[m].data = call.data)
        <5> SUFFICES ASSUME call # Map!Clearing
                     PROVE  call \in Puts /\ Reach(Onward(b, call.key), u, p)
                            /\ \E m \in Members : b[m].key = call.key /\ b[m].data = call.data
          OBVIOUS
        <5>1. call.key \in Int /\ a # t
          BY <1>4, <1>5, <3>1, CallFacts, TreeFacts, <1>2
        <5>2. Reach(Onward(heap, call.key), t, p)
          <6>1. /\ Members \subseteq Nodes /\ t \in Members /\ \A n \in Members : LinkedIn(heap, Members, n)
            BY <1>2 DEF IsTree
          <6> HIDE DEF a, t
          <6>. QED BY <1>2, <1>4, <1>5, <5>1, <6>1, ReachBack DEF p
        <5>3. \E m \in Members : b[m].key = call.key /\ b[m].data = call.data
          BY <1>2, <1>5, <2>2 DEF SameData
        <5>. QED BY <1>5, <2>2, <3>1, <5>1, <5>2, <5>3
      <4>2. Balancing'
        BY <1>4, <2>3, <2>4, <2>6, <3>1, <4>1 DEF Balancing
      <4>. QED BY <1>1, <2>3, <3>1, <4>2 DEF TreePhase, Busy
    <3>2. CASE p = Null
      <4>1. call.name = "clear" => call = Map!Clearing
        BY <1>5, CallFacts
      <4>. QED BY <1>1, <2>2, <2>3, <2>4, <3>2, <4>1 DEF TreePhase, Busy, Deleting
    <3>. QED BY <3>1, <3>2
  <2>9. ascending' => Level'
    <3> SUFFICES ASSUME ascending PROVE Level'
      BY <1>1
    <3> DEFINE l == Height(heap, heap[a].left)
               r == Height(heap, heap[a].right)
               now == 1 + IF l > r THEN l ELSE r
    <3>1. Level
      BY DEF TreeInv
    <3>2. \/ /\ call \in Puts /\ Grown(heap, a) /\ Reach(Onward(heap, call.key), t, a)
             /\ \A x \in Members : heap[x].key <= call.key
          \/ call = Map!Clearing /\ Shrunk(heap, a) /\ Reach(Onward(heap, -1), t, a)
      BY <1>1, <1>5, <3>1, CallFacts DEF Level, LeftEdge
    <3>3. r - l \in -1..2
      BY <1>2, <1>4, <3>2, GrownSkew, ShrunkSkew
    <3>4. \A x \in Members \ {a} : Exact(heap, x) /\ skew(heap, x) \in -1..1
      BY <1>3, <3>1 DEF Level
    <3>5. /\ \A x \in Members : x # p => skew(b, x) \in -1..1
          /\ Height(b, top) \in {now - 1, now} /\ (r - l # 2 => Height(b, top) = now)
      <4> HIDE DEF a, t
      <4>. QED BY <1>2, <3>3, <3>4, BalanceLevel DEF b, top, p
    <3>6. CASE p = Null
      <4>1. \A x \in Members : skew(b, x) \in -1..1
        BY <1>2, <3>5, <3>6, PtrFacts
      <4>2. u = top
        BY <1>4, <3>6
      <4>3. Reach(Onward(b, -1), u, u)
        BY ReachSelf
      <4>. QED BY <1>1, <2>3, <2>4, <2>6, <3>6, <4>1, <4>2, <4>3 DEF Level, LeftEdge
    <3>7. CASE p # Null
      <4>1. /\ p \in Members /\ p \in Nodes /\ p # a /\ a # Null /\ a # t
            /\ Exact(heap, p) /\ skew(heap, p) \in -1..1
            /\ heap[p]["left"] = heap[p].left /\ heap[p]["right"] = heap[p].right
            /\ heap[p].key \in Nat
            /\ "left" \in Sides /\ "right" \in Sides
        BY <1>2, <1>4, <3>4, <3>7, CellFacts, PtrFacts DEF Sides
      <4>2. heap[p].left = a \/ heap[p].right = a => heap[p].left # heap[p].right
        BY <1>2, <4>1 DEF IsTree, LinkedIn
      <4>3. /\ b[p].height = heap[p].height /\ Height(heap, a) = heap[a].height
        BY <2>2, <3>7, <4>1 DEF SameSize, Height
      <4>4. ASSUME NEW k \in Int, Reach(Onward(heap, k), t, a)
            PROVE  Onward(heap, k)[p] = a /\ Reach(Onward(heap, k), t, p)
        <5>1. /\ Members \subseteq Nodes /\ t \in Members /\ \A n \in Members : LinkedIn(heap, Members, n)
          BY <1>2 DEF IsTree
        <5> HIDE DEF a, t
        <5>. QED BY <1>2, <1>4, <4>1, <4>4, <5>1, ReachBack DEF p
      <4>5. CASE call \in Puts /\ Grown(heap, a) /\ Reach(Onward(heap, call.key), t, a)
                 /\ \A x \in Members : heap[x].key <= call.key
        <5>1. call.name = "put" /\ call.key \in Int
          BY <1>2, <4>5, CallFacts, TreeFacts
        <5>2. Onward(heap, call.key)[p] = a
          BY <4>4, <4>5, <5>1
        <5>3. heap[p].right = a /\ heap[p].left # a
          BY <1>2, <4>1, <4>2, <4>5, <5>1, <5>2, OnwardIs
        <5>4. Height(b, top) \in {heap[a].height, heap[a].height + 1}
          <6> HIDE DEF b, top, a
          <6>. QED BY <1>2, <1>4, <3>5, <4>5, GrownSkew
        <5>5. b[p]["left"] = heap[p]["left"] /\ b[p]["right"] = top
              /\ Height(b, heap[p]["left"]) = Height(heap, heap[p]["left"])
          BY <2>2, <3>7, <4>1, <5>3
        <5> HIDE DEF p, a, t, u
        <5>6. Grown(b, p)
          BY <1>2, <2>5, <4>1, <4>3, <5>3, <5>4, <5>5, GrownUp
        <5>7. \A x \in Members : b[x].key <= call.key
          BY <1>2, <2>2, <4>5 DEF SameData
        <5>. QED BY <1>1, <2>3, <2>4, <3>5, <3>7, <5>1, <5>6, <5>7 DEF Level
      <4>6. CASE call = Map!Clearing /\ Shrunk(heap, a) /\ Reach(Onward(heap, -1), t, a)
        <5>1. Onward(heap, -1)[p] = a /\ Reach(Onward(heap, -1), t, p) /\ -1 \in Int
          BY <4>4, <4>6
        <5>2. heap[p].left = a /\ heap[p].right # a
          BY <1>2, <4>1, <4>2, <5>1, OnwardIs
        <5>3. Height(b, top) \in {heap[a].height, heap[a].height - 1}
          <6> HIDE DEF b, top, a
          <6>. QED BY <1>2, <1>4, <3>5, <4>6, ShrunkSkew
        <5>4. b[p]["right"] = heap[p]["right"] /\ b[p]["left"] = top
              /\ Height(b, heap[p]["right"]) = Height(heap, heap[p]["right"])
          BY <2>2, <3>7, <4>1, <5>2
        <5>5. Reach(Onward(b, -1), u, p)
          BY <2>2, <3>7, <5>1
        <5> HIDE DEF p, a, t, u
        <5>6. Shrunk(b, p)
          BY <1>2, <2>5, <4>1, <4>3, <5>2, <5>3, <5>4, ShrunkUp
        <5>. QED BY <1>1, <2>3, <2>4, <2>6, <3>5, <3>7, <4>6, <5>5, <5>6, CallFacts DEF Level, LeftEdge
      <4>. QED BY <3>2, <4>5, <4>6
    <3>. QED BY <3>6, <3>7
  <2>. QED BY <2>7, <2>8, <2>9 DEF TreeInv
<1>. QED BY <1>6, <1>7

LEMMA TreeStep == TreeInv /\ [TreeNext]_treeVars => TreeInv'
<1> SUFFICES ASSUME TreeInv, [TreeNext]_treeVars PROVE TreeInv'
  OBVIOUS
<1>1. CASE tree_insert_pair
  BY <1>1, KeepInsertPair
<1>2. CASE Overwrite /\ UNCHANGED ascending
  BY <1>2, KeepOverwrite
<1>3. CASE Descend /\ UNCHANGED ascending
  BY <1>3, KeepDescend
<1>4. CASE Attach /\ UNCHANGED ascending
  BY <1>4, KeepAttach
<1>5. CASE tree_balance /\ UNCHANGED ascending
  BY <1>5, KeepBalance
<1>6. CASE tree_delete /\ UNCHANGED ascending
  BY <1>6, KeepDelete
<1>7. CASE DeleteDown /\ UNCHANGED ascending
  BY <1>7, KeepDeleteDown
<1>8. CASE DeleteLeaf /\ UNCHANGED ascending
  BY <1>8, KeepDeleteLeaf
<1>9. CASE DeleteDone /\ UNCHANGED ascending
  BY <1>9, KeepDeleteDone
<1>10. CASE UNCHANGED treeVars
  <2>1. Members' = Members /\ Top' = Top /\ (Busy' <=> Busy)
    BY <1>10 DEF treeVars, Members, Top, Busy
  <2>2. TreeShape'
    <3>1. TreeTypeOK'
      BY <1>10 DEF TreeInv, TreeShape, TreeTypeOK, treeVars
    <3>. QED BY <1>10, <2>1, <3>1 DEF TreeInv, TreeShape, treeVars
  <2>3. TreePhase'
    BY <1>10, <2>1 DEF TreeInv, TreePhase, Inserting, Balancing, Deleting, treeVars
  <2>4. ascending' => Level'
    BY <1>10, <2>1 DEF TreeInv, Level, LeftEdge, treeVars
  <2>. QED BY <2>2, <2>3, <2>4 DEF TreeInv
<1>. QED BY <1>1, <1>2, <1>3, <1>4, <1>5, <1>6, <1>7, <1>8, <1>9, <1>10 DEF TreeNext

\* What the caller can see of it: types, links, and with ascending keys the balance.
LEMMA TreeShows == TreeInv => TreeSound
<1> SUFFICES ASSUME TreeInv PROVE TreeSound
  OBVIOUS
<1>1. TreeShape /\ TreeTypeOK /\ (ascending => Level)
  BY DEF TreeInv, TreeShape
<1>2. ASSUME pc = "idle", NEW n \in InTree
      PROVE  /\ n \in Members /\ heap \in Heap /\ Exact(heap, n) /\ LinkedIn(heap, Members, n)
             /\ \A m \in Members : heap[m].used
             /\ n \in Nodes
  <2>1. n \in Members
    BY <1>1, <1>2, TreeFacts, PtrFacts DEF InTree, Members
  <2>. QED BY <1>1, <1>2, <2>1, TreeFacts DEF TreeShape, Busy, IsTree
<1>3. LinksAgree
  <2> SUFFICES ASSUME pc = "idle", NEW n \in InTree
               PROVE  LET t == heap[n] IN
                      /\ \A s \in {t.left, t.right} \ {Null} : heap[s].used /\ heap[s].parent = n
                      /\ t.left = t.right => t.left = Null
                      /\ t.height = 1 + Max({Height(heap, t.left), Height(heap, t.right)})
                      /\ t.size = 1 + Size(heap, t.left) + Size(heap, t.right)
    BY DEF LinksAgree
  <2>1. \A s \in {heap[n].left, heap[n].right} \ {Null} : heap[s].used /\ heap[s].parent = n
    BY <1>2, CellFacts DEF LinkedIn, Sides
  <2>. QED BY <1>2, <2>1 DEF LinkedIn, Exact
<1>4. ascending => InBalance /\ NeverCrashes
  <2> SUFFICES ASSUME ascending PROVE InBalance /\ NeverCrashes
    OBVIOUS
  <2>. QED BY <1>1, <1>2 DEF Level, InBalance, NeverCrashes
<1>. QED BY <1>1, <1>3, <1>4 DEF TreeSound

\* The invariant of the search tree.
THEOREM TreeInvHolds == TreeSpec => []TreeInv
<1>. QED BY TreeStart, TreeStep, PTL DEF TreeSpec

\* Links, heights and sizes agree between calls, whatever the keys; with ascending keys the
\* tree stays in balance and no rotation follows a NULL pointer.
THEOREM TreeIsSound == TreeSpec => []TreeSound
<1>. QED BY TreeInvHolds, TreeShows, PTL
-----------------------------------------------------------------------------
(* The search.                                                             *)

\* What holds of 0 and of the next number with each holds up to n.
LEMMA UpTo ==
  ASSUME NEW n \in Nat, NEW S, 0 \in S, \A i \in 0..n : i \in S /\ i # n => i + 1 \in S
  PROVE  0..n \subseteq S
<1> DEFINE U == 0..n \ S
<1> SUFFICES ASSUME U # {} PROVE FALSE
  OBVIOUS
<1>1. U \in SUBSET Nat /\ \A x \in U : x \in 0..n /\ x \notin S
  OBVIOUS
<1>2. \A x \in 0..n : x \notin S => x \in U
  OBVIOUS
<1> HIDE DEF U
<1>3. PICK x \in U : \A y \in U : x <= y
  BY <1>1, LeastNumber
<1>4. x \in 0..n /\ x \notin S /\ x # 0
  BY <1>1, <1>3
<1>5. x - 1 \in 0..n /\ x - 1 # n /\ x - 1 + 1 = x /\ ~(x <= x - 1)
  BY <1>4
<1>6. x - 1 \in S
  BY <1>2, <1>3, <1>5
<1>. QED BY <1>4, <1>5, <1>6

\* f is the walk of n steps by g from t.
Steps(f, g, t, n) == f = [i \in 0..n |-> IF i = 0 THEN t ELSE g[f[i - 1]]]

\* There is one of every length.
LEMMA StepsExist ==
  ASSUME NEW g, NEW t, NEW n \in Nat
  PROVE  \E f : Steps(f, g, t, n)
<1> DEFINE Is(f, m) == f = [i \in 0..m |-> IF i = 0 THEN t ELSE g[f[i - 1]]]
           S == {m \in Nat : \E f : Is(f, m)}
<1>1. \E f : Is(f, 0)
  <2> DEFINE f == [i \in 0..0 |-> t]
  <2>1. f = [i \in 0..0 |-> IF i = 0 THEN t ELSE g[f[i - 1]]]
    OBVIOUS
  <2>. QED BY <2>1
<1>2. ASSUME NEW m \in Nat, NEW f, Is(f, m) PROVE \E e : Is(e, m + 1)
  <2> DEFINE e == [i \in 0..(m + 1) |-> IF i = 0 THEN t ELSE g[f[i - 1]]]
  <2>1. \A i \in 0..m : f[i] = IF i = 0 THEN t ELSE g[f[i - 1]]
    <3>1. f = [i \in 0..m |-> IF i = 0 THEN t ELSE g[f[i - 1]]]
      BY <1>2
    <3>. QED BY <3>1, Zenon
  <2>2. \A i \in 0..m : i \in 0..(m + 1)
    OBVIOUS
  <2>3. \A i \in 0..(m + 1) : e[i] = IF i = 0 THEN t ELSE g[f[i - 1]]
    OBVIOUS
  <2>4. \A i \in 0..m : e[i] = f[i]
    <3> HIDE DEF e
    <3>. QED BY <2>1, <2>2, <2>3
  <2>5. \A i \in 0..(m + 1) : i # 0 => i - 1 \in 0..m
    OBVIOUS
  <2>6. \A i \in 0..(m + 1) : (IF i = 0 THEN t ELSE g[f[i - 1]]) = IF i = 0 THEN t ELSE g[e[i - 1]]
    <3> HIDE DEF e
    <3>. QED BY <2>4, <2>5
  <2>7. e = [i \in 0..(m + 1) |-> IF i = 0 THEN t ELSE g[e[i - 1]]]
    <3>1. e = [i \in 0..(m + 1) |-> IF i = 0 THEN t ELSE g[f[i - 1]]]
      OBVIOUS
    <3> HIDE DEF e
    <3>. QED BY <2>6, <3>1
  <2>. QED BY <2>7
<1> HIDE DEF Is
<1>3. 0..n \subseteq S
  <2>1. 0 \in S /\ \A i \in 0..n : i \in S /\ i # n => i + 1 \in S
    BY <1>1, <1>2
  <2> HIDE DEF S
  <2>. QED BY <2>1, UpTo
<1>4. n \in S
  BY <1>3
<1>. QED BY <1>4 DEF Is, Steps

LEMMA StepsAre ==
  ASSUME NEW g \in [Ptr -> Ptr], NEW t \in Ptr, NEW f, Steps(f, g, t, MaxNodes)
  PROVE  /\ f[0] = t
         /\ \A i \in 0..MaxNodes : /\ f[i] \in Ptr /\ Reach(g, t, f[i])
                                   /\ i # 0 => f[i] = g[f[i - 1]]
<1> DEFINE S == {i \in 0..MaxNodes : f[i] \in Ptr /\ Reach(g, t, f[i])}
<1>2. \A i \in 0..MaxNodes : f[i] = IF i = 0 THEN t ELSE g[f[i - 1]]
  BY Zenon DEF Steps
<1>3. 0 \in 0..MaxNodes /\ f[0] = t
  BY <1>2, PtrFacts
<1>4. 0 \in S
  BY <1>3, ReachSelf
<1>5. ASSUME NEW i \in 0..MaxNodes, i \in S, i # MaxNodes PROVE i + 1 \in S
  <2>1. i + 1 \in 0..MaxNodes /\ i + 1 # 0 /\ i + 1 - 1 = i
    BY <1>5, PtrFacts
  <2>2. f[i + 1] = g[f[i]] /\ f[i] \in Ptr /\ Reach(g, t, f[i])
    BY <1>2, <1>5, <2>1
  <2>. QED BY <2>1, <2>2, ReachOn
<1>6. 0..MaxNodes \subseteq S
  <2> HIDE DEF S
  <2>. QED BY <1>4, <1>5, UpTo, PtrFacts
<1>. QED BY <1>2, <1>3, <1>6

\* A walk down a tree stands still before it has made as many steps as there are nodes.
LEMMA WalkEnds ==
  ASSUME NEW h, NEW T, NEW t, IsTree(h, T, t), NEW k \in Int, NEW f,
         Steps(f, Onward(h, k), t, MaxNodes)
  PROVE  /\ f[MaxNodes] \in T \cup {Null} /\ Reach(Onward(h, k), t, f[MaxNodes])
         /\ Onward(h, k)[f[MaxNodes]] = f[MaxNodes]
<1> DEFINE g == Onward(h, k)
<1>1. /\ h \in Heap /\ T \subseteq Nodes /\ t \in T /\ h[t].parent = Null /\ MaxNodes \in Nat
      /\ \A x \in T : LinkedIn(h, T, x)
      /\ g \in [Ptr -> Ptr] /\ g[Null] = Null /\ t \in Ptr /\ T \cup {Null} \in SUBSET Ptr
  BY OnwardIs, PtrFacts DEF IsTree
<1>2. /\ f[0] = t
      /\ \A i \in 0..MaxNodes : /\ f[i] \in Ptr /\ Reach(g, t, f[i])
                                /\ i # 0 => f[i] = g[f[i - 1]]
  <2> HIDE DEF g
  <2>1. Steps(f, g, t, MaxNodes)
    BY DEF g
  <2>. QED BY <1>1, <2>1, StepsAre
<1>3. \A x \in T \cup {Null} : g[x] \in T \cup {Null}
  BY <1>1, OnwardInTree
<1>4. \A i \in 0..MaxNodes : f[i] \in T \cup {Null}
  <2> DEFINE U == T \cup {Null}
  <2>1. U \in SUBSET Ptr /\ t \in U /\ \A x \in U : g[x] \in U
    BY <1>1, <1>3
  <2> HIDE DEF g, U
  <2>2. \A i \in 0..MaxNodes : f[i] \in U
    BY <1>2, <2>1 DEF Reach
  <2>. QED BY <2>2 DEF U
<1>5. \A x \in T : g[x] = x \/ g[x] = Null \/ h[g[x]].parent = x
  BY <1>1, OnwardInTree
<1>6. 0 \in 0..MaxNodes /\ MaxNodes \in 0..MaxNodes
  BY <1>1
<1> HIDE DEF g
<1>7. ASSUME g[f[MaxNodes]] # f[MaxNodes] PROVE FALSE
  <2>1. ASSUME NEW i \in 0..MaxNodes PROVE g[f[i]] # f[i]
    <3> DEFINE S == {j \in 0..MaxNodes : g[f[MaxNodes - j]] # f[MaxNodes - j]}
    <3>1. 0 \in S
      BY <1>1, <1>6, <1>7
    <3>2. ASSUME NEW j \in 0..MaxNodes, j \in S, j # MaxNodes PROVE j + 1 \in S
      <4>1. /\ j + 1 \in 0..MaxNodes /\ MaxNodes - j \in 0..MaxNodes /\ MaxNodes - j # 0
            /\ MaxNodes - (j + 1) = (MaxNodes - j) - 1
        BY <1>1, <3>2
      <4>2. f[MaxNodes - j] = g[f[(MaxNodes - j) - 1]]
        BY <1>2, <4>1
      <4>3. g[f[MaxNodes - j]] # f[MaxNodes - j]
        BY <3>2
      <4>4. g[f[(MaxNodes - j) - 1]] # f[(MaxNodes - j) - 1]
        BY <4>2, <4>3
      <4>. QED BY <4>1, <4>4
    <3>3. 0..MaxNodes \subseteq S
      <4> HIDE DEF S
      <4>. QED BY <1>1, <3>1, <3>2, UpTo
    <3>4. MaxNodes - i \in 0..MaxNodes /\ MaxNodes - (MaxNodes - i) = i
      BY <1>1
    <3>5. MaxNodes - i \in S
      BY <3>3, <3>4
    <3>. QED BY <3>4, <3>5
  <2>2. \A i \in 0..MaxNodes : f[i] \in T
    BY <1>1, <1>4, <2>1
  <2>3. \A i \in 0..MaxNodes : i # 0 => h[f[i]].parent = f[i - 1] /\ i - 1 \in 0..MaxNodes
    <3> SUFFICES ASSUME NEW i \in 0..MaxNodes, i # 0
                 PROVE  h[f[i]].parent = f[i - 1] /\ i - 1 \in 0..MaxNodes
      OBVIOUS
    <3>1. i - 1 \in 0..MaxNodes
      BY <1>1
    <3>2. f[i] = g[f[i - 1]] /\ f[i - 1] \in T /\ f[i] \in T /\ f[i] # f[i - 1] /\ f[i] # Null
      BY <1>1, <1>2, <2>1, <2>2, <3>1, PtrFacts
    <3>. QED BY <1>5, <3>1, <3>2
  \* Two equal places have equal places before them, down to the top, which has none.
  <2>4. ASSUME NEW i \in 0..MaxNodes, NEW d \in 1..MaxNodes, i + d \in 0..MaxNodes, f[i] = f[i + d]
        PROVE  FALSE
    <3> DEFINE S == {j \in 0..i : f[i - j] = f[i + d - j]}
    <3>1. i \in Nat /\ 0 \in S /\ d \in Nat
      BY <1>1, <2>4
    <3>2. ASSUME NEW j \in 0..i, j \in S, j # i PROVE j + 1 \in S
      <4>1. /\ j + 1 \in 0..i /\ i - j \in 0..MaxNodes /\ i - j # 0
            /\ i + d - j \in 0..MaxNodes /\ i + d - j # 0
            /\ i - (j + 1) = (i - j) - 1 /\ i + d - (j + 1) = (i + d - j) - 1
        BY <1>1, <2>4, <3>1, <3>2
      <4>2. f[i - j] = f[i + d - j]
        BY <3>2
      <4>3. f[(i - j) - 1] = f[(i + d - j) - 1]
        BY <2>3, <4>1, <4>2
      <4>. QED BY <4>1, <4>3
    <3>3. 0..i \subseteq S
      <4> HIDE DEF S
      <4>. QED BY <3>1, <3>2, UpTo
    <3>4. i \in 0..i /\ i - i = 0 /\ i + d - i = d
      BY <3>1
    <3>5. f[0] = f[d]
      BY <3>3, <3>4
    <3>6. d \in 0..MaxNodes /\ d # 0 /\ d - 1 \in 0..MaxNodes
      BY <1>1
    <3>7. f[d - 1] = Null
      BY <1>1, <1>2, <2>3, <3>5, <3>6
    <3>. QED BY <1>1, <2>2, <3>6, <3>7, PtrFacts
  <2>5. \A i, j \in 0..MaxNodes : i # j => f[i] # f[j]
    <3> SUFFICES ASSUME NEW i \in 0..MaxNodes, NEW j \in 0..MaxNodes, i < j, f[i] = f[j] PROVE FALSE
      OBVIOUS
    <3>1. j - i \in 1..MaxNodes /\ i + (j - i) = j
      BY <1>1
    <3>. QED BY <2>4, <3>1
  <2> DEFINE e == [i \in 0..MaxNodes |-> f[i]]
  <2>6. e \in [0..MaxNodes -> Nodes] /\ \A i, j \in 0..MaxNodes : i # j => e[i] # e[j]
    BY <1>1, <2>2, <2>5
  <2>7. /\ IsFiniteSet(0..MaxNodes) /\ Cardinality(0..MaxNodes) = MaxNodes + 1
        /\ IsFiniteSet(Nodes) /\ Cardinality(Nodes) = MaxNodes
    <3>1. MaxNodes \in Int /\ 0 \in Int /\ 1 \in Int /\ ~(0 > MaxNodes) /\ (1 > MaxNodes => MaxNodes = 0)
      BY <1>1
    <3>2. /\ IsFiniteSet(0..MaxNodes) /\ Cardinality(0..MaxNodes) = MaxNodes - 0 + 1
          /\ IsFiniteSet(1..MaxNodes)
          /\ Cardinality(1..MaxNodes) = IF 1 > MaxNodes THEN 0 ELSE MaxNodes - 1 + 1
      BY <3>1, FS_Interval
    <3>. QED BY <1>1, <3>1, <3>2 DEF Nodes
  <2> HIDE DEF e
  <2>8. Cardinality(Nodes) < Cardinality(0..MaxNodes)
    BY <1>1, <2>7
  <2>9. \E x, y \in 0..MaxNodes : x # y /\ e[x] = e[y]
    <3> DEFINE U == 0..MaxNodes
    <3>1. /\ IsFiniteSet(U) /\ IsFiniteSet(Nodes) /\ Cardinality(Nodes) < Cardinality(U)
          /\ e \in [U -> Nodes]
      BY <2>6, <2>7, <2>8
    <3> HIDE DEF U
    <3>2. \E x, y \in U : x # y /\ e[x] = e[y]
      BY ONLY <3>1, FS_PigeonHole, Zenon
    <3>. QED BY <3>2 DEF U
  <2>. QED BY <2>6, <2>9
<1>. QED BY <1>2, <1>4, <1>6, <1>7 DEF g

\* So it ends at the member with the key, if there is one.
LEMMA WalkFinds ==
  ASSUME NEW h, NEW T, NEW t, IsTree(h, T, t), NEW k \in Int, NEW f,
         Steps(f, Onward(h, k), t, MaxNodes)
  PROVE  /\ f[MaxNodes] # Null => f[MaxNodes] \in T /\ h[f[MaxNodes]].key = k
         /\ \A m \in T : h[m].key = k => f[MaxNodes] = m
<1> DEFINE g == Onward(h, k)
           n == f[MaxNodes]
<1>1. n \in T \cup {Null} /\ Reach(g, t, n) /\ g[n] = n
  BY WalkEnds
<1>2. /\ h \in Heap /\ T \subseteq Nodes /\ t \in T /\ n \in Ptr /\ t \in Ptr
      /\ \A x \in T : LinkedIn(h, T, x) /\ Reach(Onward(h, h[x].key), t, x)
      /\ g \in [Ptr -> Ptr]
  BY <1>1, OnwardIs, PtrFacts DEF IsTree
<1>3. ASSUME n # Null PROVE n \in T /\ h[n].key = k
  <2>1. n \in T /\ n \in Nodes
    BY <1>1, <1>2, <1>3
  <2>2. h[n].parent # n
    BY <2>1, NoCircle
  <2>3. \A s \in Sides : h[n][s] # n
    BY <1>2, <1>3, <2>1, <2>2 DEF LinkedIn
  <2>4. h[n].left # n /\ h[n].right # n
    BY <1>2, <2>1, <2>3, CellFacts DEF Sides
  <2> HIDE DEF n
  <2>. QED BY <1>1, <1>2, <2>1, <2>4, OnwardIs
<1>4. ASSUME NEW m \in T, h[m].key = k PROVE n = m
  <2>1. m \in Nodes /\ m \in Ptr /\ Reach(g, t, m) /\ g[m] = m
    BY <1>2, <1>4, OnwardIs, PtrFacts
  <2> HIDE DEF g, n
  <2>2. Reach(g, n, m)
    BY <1>1, <1>2, <2>1, ReachRest
  <2>3. {n} \in SUBSET Ptr /\ n \in {n} /\ \A x \in {n} : g[x] \in {n}
    BY <1>1, <1>2
  <2>4. m \in {n}
    BY <2>2, <2>3 DEF Reach
  <2>. QED BY <2>4
<1>. QED BY <1>3, <1>4

LEMMA StepsAreChosen ==
  ASSUME NEW g, NEW t
  PROVE  Steps(CHOOSE e : e = [i \in 0..MaxNodes |-> IF i = 0 THEN t ELSE g[e[i - 1]]], g, t, MaxNodes)
<1>1. \E e : Steps(e, g, t, MaxNodes)
  BY StepsExist, PtrFacts
<1>2. Steps(CHOOSE e : Steps(e, g, t, MaxNodes), g, t, MaxNodes)
  BY <1>1
<1>. QED BY <1>2, Zenon DEF Steps

\* What the map of the members of T is: their data at their keys.
Tells(h, T, m) ==
  /\ m = [k \in Keys |-> m[k]]
  /\ \A k \in Keys : (\A x \in T : h[x].key # k) => m[k] = 0
  /\ \A x \in T : h[x].key \in Keys => m[h[x].key] = h[x].data

Table == [k \in Keys |-> Found(k)]

LEMMA TableIs == ASSUME TreeShape PROVE Tells(heap, Members, Table)
<1>1. ASSUME NEW k \in Keys
      PROVE  /\ (\A x \in Members : heap[x].key # k) => Found(k) = 0
             /\ \A x \in Members : heap[x].key = k => Found(k) = heap[x].data
  <2> DEFINE f == CHOOSE e : e = [i \in 0..MaxNodes |-> IF i = 0 THEN Top ELSE Onward(heap, k)[e[i - 1]]]
  <2>1. Steps(f, Onward(heap, k), Top, MaxNodes) /\ node_find(k) = IF Top = Null THEN Null ELSE f[MaxNodes]
    BY StepsAreChosen DEF node_find
  <2> HIDE DEF f
  <2>2. k \in Int /\ Found(k) = IF node_find(k) = Null THEN 0 ELSE heap[node_find(k)].data
    BY TreeAssumption DEF Found
  <2>3. CASE Top = Null
    <3>1. Members = {}
      BY <2>3 DEF TreeShape
    <3>. QED BY <2>1, <2>2, <2>3, <3>1
  <2>4. CASE Top # Null
    <3>1. IsTree(heap, Members, Top)
      BY <2>4 DEF TreeShape
    <3>2. /\ f[MaxNodes] # Null => f[MaxNodes] \in Members /\ heap[f[MaxNodes]].key = k
          /\ \A m \in Members : heap[m].key = k => f[MaxNodes] = m
      BY <2>1, <2>2, <3>1, WalkFinds
    <3>3. \A m \in Members : m # Null
      BY <3>1, PtrFacts DEF IsTree
    <3>. QED BY <2>1, <2>2, <2>4, <3>2, <3>3
  <2>. QED BY <2>3, <2>4
<1>2. \A k \in Keys : Table[k] = Found(k)
  BY DEF Table
<1>3. Table = [k \in Keys |-> Table[k]]
  BY DEF Table
<1> HIDE DEF Table
<1>. QED BY <1>1, <1>2, <1>3 DEF Tells

LEMMA TableIsNext == ASSUME TreeShape' PROVE Tells(heap', Members', Table')
<1>1. ASSUME NEW k \in Keys
      PROVE  /\ (\A x \in Members' : heap'[x].key # k) => Found(k)' = 0
             /\ \A x \in Members' : heap'[x].key = k => Found(k)' = heap'[x].data
  <2> DEFINE f == CHOOSE e : e = [i \in 0..MaxNodes |-> IF i = 0 THEN Top' ELSE Onward(heap', k)[e[i - 1]]]
  <2>1. Steps(f, Onward(heap', k), Top', MaxNodes) /\ node_find(k)' = IF Top' = Null THEN Null ELSE f[MaxNodes]
    BY StepsAreChosen DEF node_find
  <2> HIDE DEF f
  <2>2. k \in Int /\ Found(k)' = IF node_find(k)' = Null THEN 0 ELSE heap'[node_find(k)'].data
    BY TreeAssumption DEF Found
  <2>3. CASE Top' = Null
    <3>1. Members' = {}
      BY <2>3 DEF TreeShape
    <3>. QED BY <2>1, <2>2, <2>3, <3>1
  <2>4. CASE Top' # Null
    <3>1. IsTree(heap', Members', Top')
      BY <2>4 DEF TreeShape
    <3>2. /\ f[MaxNodes] # Null => f[MaxNodes] \in Members' /\ heap'[f[MaxNodes]].key = k
          /\ \A m \in Members' : heap'[m].key = k => f[MaxNodes] = m
      BY <2>1, <2>2, <3>1, WalkFinds
    <3>3. \A m \in Members' : m # Null
      BY <3>1, PtrFacts DEF IsTree
    <3>. QED BY <2>1, <2>2, <2>4, <3>2, <3>3
  <2>. QED BY <2>3, <2>4
<1>2. \A k \in Keys : Table'[k] = Found(k)'
  BY DEF Table
<1>3. Table' = [k \in Keys |-> Table'[k]]
  BY DEF Table
<1> HIDE DEF Table
<1>. QED BY <1>1, <1>2, <1>3 DEF Tells

\* Two tables of the same members, of one more, and of one less.
LEMMA TablesAgree ==
  ASSUME NEW h, NEW T, NEW m, Tells(h, T, m), NEW b, NEW n, Tells(b, T, n),
         \A x \in T : h[x].key \in Keys /\ b[x].key = h[x].key /\ b[x].data = h[x].data
  PROVE  n = m
<1>1. ASSUME NEW k \in Keys PROVE n[k] = m[k]
  <2>1. CASE \E x \in T : h[x].key = k
    <3>1. PICK x \in T : h[x].key = k
      BY <2>1
    <3>2. m[k] = h[x].data /\ n[k] = b[x].data
      BY <3>1 DEF Tells
    <3>. QED BY <3>2
  <2>2. CASE ~\E x \in T : h[x].key = k
    <3>1. \A x \in T : h[x].key # k /\ b[x].key # k
      BY <2>2
    <3>. QED BY <3>1 DEF Tells
  <2>. QED BY <2>1, <2>2
<1>. QED BY <1>1 DEF Tells

LEMMA TablePut ==
  ASSUME NEW h, NEW T, NEW m, Tells(h, T, m), NEW b, NEW U, NEW n, Tells(b, U, n), T \subseteq U,
         NEW a \in U, b[a].key \in Keys,
         \A x \in U \ {a} : x \in T /\ h[x].key \in Keys /\ b[x].key = h[x].key /\ b[x].data = h[x].data,
         a \in T => h[a].key = b[a].key
  PROVE  n = [m EXCEPT ![b[a].key] = b[a].data]
<1>1. ASSUME NEW k \in Keys PROVE n[k] = IF k = b[a].key THEN b[a].data ELSE m[k]
  <2>1. CASE k = b[a].key
    BY <2>1 DEF Tells
  <2>2. CASE k # b[a].key /\ \E x \in U \ {a} : h[x].key = k
    <3>1. PICK x \in U \ {a} : h[x].key = k
      BY <2>2
    <3>2. m[k] = h[x].data /\ n[k] = b[x].data
      BY <3>1 DEF Tells
    <3>. QED BY <2>2, <3>2
  <2>3. CASE k # b[a].key /\ ~\E x \in U \ {a} : h[x].key = k
    <3>1. (\A x \in T : h[x].key # k) /\ (\A x \in U : b[x].key # k)
      BY <2>3
    <3>. QED BY <2>3, <3>1 DEF Tells
  <2>. QED BY <2>1, <2>2, <2>3
<1>2. m = [k \in Keys |-> m[k]] /\ n = [k \in Keys |-> n[k]]
  BY DEF Tells
<1>3. [m EXCEPT ![b[a].key] = b[a].data] = [k \in Keys |-> IF k = b[a].key THEN b[a].data ELSE m[k]]
  BY <1>2
<1>. QED BY <1>1, <1>2, <1>3

LEMMA TableDrop ==
  ASSUME NEW h, NEW T, NEW m, Tells(h, T, m), NEW a \in T, h[a].key \in Keys,
         NEW b, NEW U, U = T \ {a}, NEW n, Tells(b, U, n),
         \A x \in U : h[x].key \in Keys /\ b[x].key = h[x].key /\ b[x].data = h[x].data
  PROVE  n = m \/ n = [m EXCEPT ![h[a].key] = 0]
<1> DEFINE j == h[a].key
           again == \E x \in T \ {a} : h[x].key = j
<1>1. ASSUME NEW k \in Keys PROVE n[k] = IF k = j /\ ~again THEN 0 ELSE m[k]
  <2>1. CASE \E x \in T \ {a} : h[x].key = k
    <3>1. PICK x \in T \ {a} : h[x].key = k
      BY <2>1
    <3>2. m[k] = h[x].data /\ n[k] = b[x].data
      BY <3>1 DEF Tells
    <3>3. k = j => again
      BY <3>1
    <3>. QED BY <3>2, <3>3
  <2>2. CASE ~\E x \in T \ {a} : h[x].key = k
    <3>1. (\A x \in T \ {a} : b[x].key # k) /\ (k # j => \A x \in T : h[x].key # k)
      BY <2>2
    <3>2. n[k] = 0 /\ (k # j => m[k] = 0)
      BY <3>1 DEF Tells
    <3>. QED BY <2>2, <3>2
  <2>. QED BY <2>1, <2>2
<1>2. m = [k \in Keys |-> m[k]] /\ n = [k \in Keys |-> n[k]]
  BY DEF Tells
<1>3. [m EXCEPT ![j] = 0] = [k \in Keys |-> IF k = j THEN 0 ELSE m[k]]
  BY <1>2
<1> HIDE DEF again, j
<1>4. CASE again
  <2>1. \A k \in Keys : n[k] = m[k]
    BY <1>1, <1>4
  <2>. QED BY <1>2, <2>1
<1>5. CASE ~again
  <2>1. \A k \in Keys : n[k] = IF k = j THEN 0 ELSE m[k]
    BY <1>1, <1>5
  <2>. QED BY <1>2, <1>3, <2>1 DEF j
<1>. QED BY <1>4, <1>5
-----------------------------------------------------------------------------
(* The tree is a map.                                                      *)

\* The members stay, with their keys and data: so does the map.
LEMMA SameTable ==
  ASSUME TreeShape, TreeShape', Members' = Members,
         \A x \in Members : heap'[x].key = heap[x].key /\ heap'[x].data = heap[x].data
  PROVE  Table' = Table
<1>1. \A x \in Members : heap[x].key \in Keys
  BY DEF TreeShape
<1>2. Tells(heap, Members, Table) /\ Tells(heap', Members, Table')
  BY TableIs, TableIsNext
<1>. QED BY <1>1, <1>2, TablesAgree

\* What insertion by key and removal do to the map is what they promise.
PutDone == call.name = "put" /\ Table' = [Table EXCEPT ![call.key] = call.data] /\ call' = call

LEMMA MapInsertPair ==
  ASSUME TreeInv, TreeInv', tree_insert_pair
  PROVE  call = Map!Idle /\ (\E k \in Keys, d \in Data : call' = Map!Put(k, d)) /\ Table' = Table
<1>1. PICK k \in Keys, d \in Data :
        /\ pc = "idle" /\ \E n \in Nodes : ~heap[n].used
        /\ new' = Min({n \in Nodes : ~heap[n].used})
        /\ heap' = [heap EXCEPT ![new'] = Fresh(k, d)]
        /\ call' = Map!Put(k, d)
  BY DEF tree_insert_pair
<1>2. /\ heap \in Heap /\ new = Null /\ TreeShape /\ TreeShape' /\ call = Map!Idle
      /\ Members \subseteq Nodes
  BY <1>1, TreeFacts DEF TreeInv, TreePhase
<1>3. new' \in Nodes /\ ~heap[new'].used
  <2> DEFINE U == {n \in Nodes : ~heap[n].used}
  <2>1. U \in SUBSET Nat /\ U # {}
    BY <1>1, TreeAssumption DEF Nodes
  <2>2. Min(U) \in U
    BY <2>1, LeastNumber
  <2>. QED BY <1>1, <2>2
<1>4. heap'[new'] = Fresh(k, d) /\ \A x \in Nodes : x # new' => heap'[x] = heap[x]
  BY <1>1, <1>2, <1>3 DEF Heap
<1>5. Members' = Members /\ new' \notin Members
  BY <1>2, <1>3, <1>4, PtrFacts DEF Members
<1>6. Table' = Table
  BY <1>2, <1>4, <1>5, SameTable
<1>. QED BY <1>1, <1>2, <1>6

LEMMA MapOverwrite == ASSUME TreeInv, TreeInv', Overwrite PROVE PutDone
<1>1. /\ pc = "insert" /\ treeAt # Null /\ heap[treeAt].key = heap[new].key
      /\ heap' = [heap EXCEPT ![treeAt].data = heap[new].data, ![new] = Free]
      /\ new' = Null /\ UNCHANGED <<root, treeAt, call>>
  BY DEF Overwrite
<1>2. /\ heap \in Heap /\ new \in Nodes /\ TreeShape /\ TreeShape'
      /\ Members \subseteq Nodes /\ treeAt \in Members /\ treeAt # new
      /\ call \in Puts /\ heap[new] = Fresh(call.key, call.data)
  BY <1>1, TreeFacts DEF TreeInv, TreePhase, Inserting, Members
<1>3. /\ call.name = "put" /\ call.key \in Keys /\ call.data \in Data
      /\ heap[new].key = call.key /\ heap[new].data = call.data /\ heap[treeAt].key = call.key
  BY <1>1, <1>2, CallFacts, FreshFacts
<1>4. /\ heap'[new] = Free
      /\ \A x \in Nodes \ {new, treeAt} : heap'[x] = heap[x]
      /\ heap'[treeAt] = [heap[treeAt] EXCEPT !.data = call.data]
  <2> DEFINE c == [heap[treeAt] EXCEPT !.data = call.data]
  <2>1. heap' = [[heap EXCEPT ![treeAt] = c] EXCEPT ![new] = Free]
    BY <1>1, <1>2, <1>3 DEF Heap
  <2> HIDE DEF c
  <2>2. /\ heap'[new] = Free /\ heap'[treeAt] = c
        /\ \A x \in Nodes \ {new, treeAt} : heap'[x] = heap[x]
    BY <1>2, <2>1 DEF Heap
  <2>. QED BY <2>2 DEF c
<1>5. /\ heap'[treeAt].key = heap[treeAt].key /\ heap'[treeAt].data = call.data
      /\ heap'[treeAt].used = heap[treeAt].used
  BY <1>2, <1>4 DEF Heap, Cell
<1>6. Members' = Members
  <2>1. Members' = {n \in Nodes : heap'[n].used}
    BY <1>1, PtrFacts DEF Members
  <2>2. \A n \in Nodes : heap'[n].used <=> heap[n].used /\ n # new
    BY <1>4, <1>5, FreeFacts
  <2>. QED BY <2>1, <2>2 DEF Members
<1>7. Tells(heap, Members, Table) /\ Tells(heap', Members, Table')
  BY <1>2, <1>6, TableIs, TableIsNext
<1>8. \A x \in Members \ {treeAt} : /\ heap[x].key \in Keys
                                    /\ heap'[x].key = heap[x].key /\ heap'[x].data = heap[x].data
  <2>1. \A x \in Members : x # new
    BY DEF Members
  <2>. QED BY <1>2, <1>4, <2>1 DEF TreeShape
<1>9. Table' = [Table EXCEPT ![heap'[treeAt].key] = heap'[treeAt].data]
  BY <1>2, <1>3, <1>5, <1>7, <1>8, TablePut
<1>. QED BY <1>1, <1>3, <1>5, <1>9 DEF PutDone

LEMMA MapAttach == ASSUME TreeInv, TreeInv', Attach PROVE PutDone
<1>1. /\ pc = "insert"
      /\ \/ treeAt = Null /\ UNCHANGED heap
         \/ /\ treeAt # Null /\ heap[treeAt].key # heap[new].key /\ heap[treeAt][Side] = Null
            /\ heap' = Stored(Stored(heap, treeAt, Side, new), new, "parent", treeAt)
      /\ new' = Null /\ UNCHANGED <<root, call>>
  BY DEF Attach
<1>2. /\ heap \in Heap /\ treeAt \in Ptr /\ new \in Nodes /\ TreeShape /\ TreeShape'
      /\ Members \subseteq Nodes /\ new \notin Members
      /\ call \in Puts /\ heap[new] = Fresh(call.key, call.data)
  BY <1>1, TreeFacts DEF TreeInv, TreePhase, Inserting, Members
<1>3. /\ call.name = "put" /\ call.key \in Keys /\ call.data \in Data
      /\ heap[new].key = call.key /\ heap[new].data = call.data /\ heap[new].used
  BY <1>2, CallFacts, FreshFacts
<1>4. \A x \in Nodes : SameData(heap, heap', x)
  <2>1. CASE UNCHANGED heap
    BY <2>1 DEF SameData
  <2>2. CASE heap' = Stored(Stored(heap, treeAt, Side, new), new, "parent", treeAt)
    <3> DEFINE c == Stored(heap, treeAt, Side, new)
    <3>1. Side \in Sides /\ new \in Ptr
      BY <1>2, PtrFacts DEF Side, Sides
    <3>2. c \in Heap /\ \A x \in Nodes : SameData(heap, c, x)
      BY <1>2, <3>1, ChildStored
    <3> HIDE DEF c
    <3>3. \A x \in Nodes : SameData(c, Stored(c, new, "parent", treeAt), x)
      BY <1>2, <3>1, <3>2, ParentStored
    <3>4. heap' = Stored(c, new, "parent", treeAt)
      BY <2>2 DEF c
    <3>. QED BY <3>2, <3>3, <3>4 DEF SameData
  <2>. QED BY <1>1, <2>1, <2>2
<1>5. Members' = Members \cup {new}
  <2>1. Members' = {n \in Nodes : heap'[n].used}
    BY <1>1, PtrFacts DEF Members
  <2>2. \A n \in Nodes : heap'[n].used <=> heap[n].used
    BY <1>4 DEF SameData
  <2>. QED BY <1>2, <1>3, <2>1, <2>2 DEF Members
<1>6. Tells(heap, Members, Table) /\ Tells(heap', Members \cup {new}, Table')
  BY <1>2, <1>5, TableIs, TableIsNext
<1>7. /\ heap'[new].key = call.key /\ heap'[new].data = call.data
      /\ \A x \in Members : /\ heap[x].key \in Keys
                            /\ heap'[x].key = heap[x].key /\ heap'[x].data = heap[x].data
  BY <1>2, <1>3, <1>4 DEF TreeShape, SameData
<1>8. Table' = [Table EXCEPT ![heap'[new].key] = heap'[new].data]
  <2> DEFINE U == Members \cup {new}
  <2>1. /\ new \in U /\ Members \subseteq U /\ heap'[new].key \in Keys /\ Tells(heap', U, Table')
        /\ \A x \in U \ {new} : /\ x \in Members /\ heap[x].key \in Keys
                                /\ heap'[x].key = heap[x].key /\ heap'[x].data = heap[x].data
    BY <1>3, <1>6, <1>7
  <2> HIDE DEF U
  <2>. QED BY <1>2, <1>6, <2>1, TablePut
<1>. QED BY <1>1, <1>3, <1>7, <1>8 DEF PutDone

LEMMA MapBalance ==
  ASSUME TreeInv, TreeInv', tree_balance
  PROVE  /\ Table' = Table
         /\ \/ call' = call
            \/ call.name = "put" /\ Table[call.key] = call.data /\ call' = Map!Idle
<1> DEFINE a == treeAt
           h == node_augment(heap, a)
           b == Balanced(h, a)
           top == IF RightHigh(h, a) \/ LeftHigh(h, a) THEN b[a].parent ELSE a
<1>1. /\ pc = "balance" /\ new' = new
      /\ FollowsNull(h, a) => heap' = heap /\ call' = call
      /\ ~FollowsNull(h, a) => heap' = b /\ (call' = call \/ (call.name # "clear" /\ call' = Map!Idle))
  BY DEF tree_balance
<1>2. /\ TreeShape /\ TreeShape' /\ a \in Members /\ IsTree(heap, Members, Top) /\ Members \subseteq Nodes
      /\ \A x \in Members : heap[x].key \in Keys
      /\ \/ call = Map!Clearing
         \/ call \in Puts /\ \E m \in Members : heap[m].key = call.key /\ heap[m].data = call.data
  BY <1>1, TreeFacts DEF TreeInv, TreeShape, TreePhase, Balancing, Busy
<1>3. \A x \in Nodes : SameData(heap, heap', x)
  <2>1. CASE FollowsNull(h, a)
    BY <1>1, <2>1 DEF SameData
  <2>2. CASE ~FollowsNull(h, a)
    <3>1. IsTree(h, Members, Top) /\ Exact(h, a) /\ \A x \in Nodes : SameData(heap, h, x)
      <4> HIDE DEF a
      <4>. QED BY <1>2, AugmentedTree
    <3>2. \A x \in Nodes : SameData(h, b, x)
      <4>1. Raised(h, b, Members, Top, a, top)
        <5> HIDE DEF h, a
        <5>. QED BY <1>2, <2>2, <3>1, BalancedTree
      <4> HIDE DEF h, b, a, top
      <4>. QED BY <4>1 DEF Raised
    <3> HIDE DEF h, b
    <3>. QED BY <1>1, <2>2, <3>1, <3>2 DEF SameData
  <2>. QED BY <2>1, <2>2
<1> HIDE DEF h, b, top
<1>4. Members' = Members
  BY <1>1, <1>3 DEF Members, SameData
<1>5. Table' = Table
  BY <1>2, <1>3, <1>4, SameTable DEF SameData
<1>6. Tells(heap, Members, Table)
  BY <1>2, TableIs
<1>7. call' = call \/ (call.name = "put" /\ Table[call.key] = call.data /\ call' = Map!Idle)
  <2>1. CASE call = Map!Clearing
    BY <1>1, <2>1, CallFacts
  <2>2. CASE call \in Puts /\ \E m \in Members : heap[m].key = call.key /\ heap[m].data = call.data
    <3>1. PICK m \in Members : heap[m].key = call.key /\ heap[m].data = call.data
      BY <2>2
    <3>2. Table[heap[m].key] = heap[m].data
      BY <1>2, <1>6 DEF Tells
    <3>3. call.name = "put" /\ Table[call.key] = call.data
      BY <2>2, <3>1, <3>2, CallFacts
    <3>. QED BY <1>1, <3>3
  <2>. QED BY <1>2, <2>1, <2>2
<1>. QED BY <1>5, <1>7

LEMMA MapDeleteLeaf ==
  ASSUME TreeInv, TreeInv', DeleteLeaf
  PROVE  /\ call.name = "clear" /\ call' = call
         /\ Table' = Table \/ \E k \in Keys : Table' = [Table EXCEPT ![k] = 0]
<1>1. /\ pc = "delete" /\ treeAt # Null /\ heap[treeAt].left = Null /\ heap[treeAt].right = Null
      /\ heap' = [Replaced(heap, treeAt, Null) EXCEPT ![treeAt] = Free]
      /\ UNCHANGED <<new, call>>
  BY DEF DeleteLeaf
<1>2. /\ heap \in Heap /\ new = Null /\ TreeShape /\ TreeShape' /\ IsTree(heap, Members, Top)
      /\ Members \subseteq Nodes /\ treeAt \in Members /\ call = Map!Clearing
      /\ \A x \in Members : heap[x].key \in Keys
  BY <1>1, TreeFacts DEF TreeInv, TreeShape, TreePhase, Deleting
<1>3. heap'[treeAt] = Free /\ \A x \in Nodes \ {treeAt} : SameData(heap, heap', x)
  <2>1. CASE heap[treeAt].parent = Null
    <3>1. heap' = [heap EXCEPT ![treeAt] = Free]
      BY <1>1, <2>1 DEF Replaced
    <3>. QED BY <1>2, <3>1 DEF SameData, Heap
  <2>2. CASE heap[treeAt].parent # Null
    <3>1. \E s \in Sides : Without(heap, heap', treeAt, s)
      BY <1>1, <1>2, <2>2, PluckedIs
    <3>. QED BY <3>1 DEF Without
  <2>. QED BY <2>1, <2>2
<1>4. Members' = Members \ {treeAt}
  <2>1. Members' = {n \in Nodes : heap'[n].used} /\ Members = {n \in Nodes : heap[n].used}
    BY <1>1, <1>2, PtrFacts DEF Members
  <2>2. \A n \in Nodes : heap'[n].used <=> heap[n].used /\ n # treeAt
    BY <1>3, FreeFacts DEF SameData
  <2>. QED BY <2>1, <2>2
<1>5. Tells(heap, Members, Table) /\ Tells(heap', Members \ {treeAt}, Table')
  BY <1>2, <1>4, TableIs, TableIsNext
<1>6. \A x \in Members \ {treeAt} : /\ heap[x].key \in Keys
                                    /\ heap'[x].key = heap[x].key /\ heap'[x].data = heap[x].data
  BY <1>2, <1>3 DEF SameData
<1>7. Table' = Table \/ Table' = [Table EXCEPT ![heap[treeAt].key] = 0]
  <2>1. treeAt \in Members /\ heap[treeAt].key \in Keys
    BY <1>2
  <2> DEFINE U == Members \ {treeAt}
             n == Table'
             b == heap'
  <2>2. /\ Tells(heap, Members, Table) /\ Tells(b, U, n)
        /\ \A x \in U : heap[x].key \in Keys /\ b[x].key = heap[x].key /\ b[x].data = heap[x].data
    BY <1>5, <1>6
  <2>3. U = Members \ {treeAt}
    OBVIOUS
  <2> HIDE DEF U, n, b
  <2>4. n = Table \/ n = [Table EXCEPT ![heap[treeAt].key] = 0]
    BY <2>1, <2>2, <2>3, TableDrop
  <2>. QED BY <2>4 DEF n
<1>. QED BY <1>1, <1>2, <1>7, CallFacts

LEMMA MapStays ==
  ASSUME TreeInv, TreeInv',
         \/ Descend \/ DeleteDown \/ tree_delete \/ DeleteDone \/ UNCHANGED treeVars
  PROVE  Table' = Table
<1>1. heap' = heap /\ new' = new
  BY DEF Descend, DeleteDown, tree_delete, DeleteDone, treeVars
<1>2. Members' = Members /\ TreeShape /\ TreeShape'
  BY <1>1 DEF Members, TreeInv
<1>. QED BY <1>1, <1>2, SameTable

\* When tree_delete has come to its end no key is left.
LEMMA MapDeleteDone ==
  ASSUME TreeInv, TreeInv', DeleteDone
  PROVE  call.name = "clear" /\ (\A k \in Keys : Table[k] = 0) /\ call' = Map!Idle
<1>1. pc = "delete" /\ treeAt = Null /\ call' = Map!Idle
  BY DEF DeleteDone
<1>2. TreeShape /\ ~Busy /\ call = Map!Clearing /\ root = Null
  BY <1>1 DEF TreeInv, TreePhase, Deleting, Busy
<1>3. Members = {}
  BY <1>2, RootFacts
<1>4. Tells(heap, Members, Table)
  BY <1>2, TableIs
<1>. QED BY <1>1, <1>2, <1>3, <1>4, CallFacts DEF Tells

LEMMA MapStart == TreeInit => Search!Init
<1> SUFFICES ASSUME TreeInit PROVE Search!Init
  OBVIOUS
<1>1. root = Null /\ pc = "idle" /\ call = Map!Idle
  BY DEF TreeInit
<1>2. \A k \in Keys : Found(k) = 0
  BY <1>1 DEF Found, node_find, Top
<1>. QED BY <1>1, <1>2 DEF Search!Init, Search!Idle, Map!Idle

LEMMA MapStep == TreeInv /\ TreeInv' /\ [TreeNext]_treeVars => Search!Step
<1> SUFFICES ASSUME TreeInv, TreeInv', [TreeNext]_treeVars PROVE Search!Step
  OBVIOUS
<1>0. /\ Search!Idle = Map!Idle /\ Search!Clearing = Map!Clearing
      /\ \A k, d : Search!Put(k, d) = Map!Put(k, d)
  BY DEF Search!Idle, Map!Idle, Search!Clearing, Map!Clearing, Search!Put, Map!Put
<1>1. CASE tree_insert_pair
  <2>1. Search!CallPut
    BY <1>0, <1>1, MapInsertPair DEF Search!CallPut, Table
  <2>. QED BY <2>1 DEF Search!Step, Search!Next
<1>2. CASE Overwrite \/ Attach
  <2>1. PutDone
    BY <1>2, MapOverwrite, MapAttach
  <2>2. Search!DoPut
    BY <2>1 DEF PutDone, Search!DoPut, Table
  <2>. QED BY <2>2 DEF Search!Step, Search!Next
<1>3. CASE Descend \/ DeleteDown \/ UNCHANGED treeVars
  <2>1. Table' = Table /\ call' = call
    BY <1>3, MapStays DEF Descend, DeleteDown, treeVars
  <2>. QED BY <2>1 DEF Search!Step, Table
<1>4. CASE tree_balance
  <2>1. Table' = Table /\ (call' = call \/ Search!ReturnPut)
    BY <1>0, <1>4, MapBalance DEF Search!ReturnPut, Table
  <2>. QED BY <2>1 DEF Search!Step, Search!Next, Table
<1>5. CASE tree_delete
  <2>1. pc = "idle" /\ call' = Map!Clearing /\ Table' = Table
    BY <1>5, MapStays DEF tree_delete
  <2>2. call = Map!Idle
    BY <2>1 DEF TreeInv, TreePhase
  <2>3. Search!CallClear
    BY <1>0, <2>1, <2>2 DEF Search!CallClear, Table
  <2>. QED BY <2>3 DEF Search!Step, Search!Next
<1>6. CASE DeleteLeaf
  <2>1. /\ call.name = "clear" /\ call' = call
        /\ Table' = Table \/ \E k \in Keys : Table' = [Table EXCEPT ![k] = 0]
    BY <1>6, MapDeleteLeaf
  <2>2. CASE Table' = Table
    BY <2>1, <2>2 DEF Search!Step, Table
  <2>3. CASE \E k \in Keys : Table' = [Table EXCEPT ![k] = 0]
    <3>1. Search!Drop
      BY <2>1, <2>3 DEF Search!Drop, Table
    <3>. QED BY <3>1 DEF Search!Step, Search!Next
  <2>. QED BY <2>1, <2>2, <2>3
<1>7. CASE DeleteDone
  <2>1. /\ Table' = Table /\ call.name = "clear" /\ (\A k \in Keys : Table[k] = 0) /\ call' = Map!Idle
    BY <1>7, MapStays, MapDeleteDone
  <2>2. Search!ReturnClear
    BY <1>0, <2>1 DEF Search!ReturnClear, Table
  <2>. QED BY <2>2 DEF Search!Step, Search!Next
<1>. QED BY <1>1, <1>2, <1>3, <1>4, <1>5, <1>6, <1>7 DEF TreeNext

\* Whatever rotations are under way and however unbalanced the tree has become, a search
\* finds every key with its latest data and no other, a call to insert changes the data of
\* its key and of no other, and tree_delete leaves no key.
THEOREM TreeIsAMap == TreeSpec => IsAMap
<1>. QED BY TreeInvHolds, MapStart, MapStep, PTL DEF TreeSpec, IsAMap, Search!Spec, Search!Step

=============================================================================
