---------------------------- MODULE RBTreeProofs ----------------------------
(***************************************************************************)
(* Proofs about RBTree: the inductive invariant IInv of the tree of free   *)
(* blocks, at every turn of the loops that mend its colours. It says that  *)
(* the nodes are a search tree (Tree, by the nodes of each subtree), what  *)
(* its colours lack where a loop is (Weighted, Reds, Fits), and that there *)
(* is a sorted list of its nodes which the rings follow (Enumerates). What *)
(* the recursive definitions of RBTree compute is shown by induction over  *)
(* subtrees (TreeInduction).                                               *)
(***************************************************************************)
EXTENDS RBTree, InductionLemmas, FiniteSetTheorems

-----------------------------------------------------------------------------
(***************************************************************************)
(* The fields of nodes, and what the operations write.                     *)
(***************************************************************************)

Base == [child : [Side -> Nodes \cup {mHead, Null}], near : [Side -> Nodes \cup {mHead}],
         parent : Nodes \cup {mHead, Null}, side : Side, red : BOOLEAN]

\* b is node_base of mHead and of some nodes.
Typed(b) ==
  /\ mHead \in DOMAIN b /\ DOMAIN b \subseteq Nodes \cup {mHead}
  /\ b \in [DOMAIN b -> Base]

\* There are two sides.
LEMMA Sides ==
  /\ LEFT # RIGHT /\ RING \notin Side /\ LEFT \in Side /\ RIGHT \in Side
  /\ Other(LEFT) = RIGHT /\ Other(RIGHT) = LEFT
  /\ \A s \in Side : Other(s) \in Side /\ Other(s) # s /\ Other(Other(s)) = s
  /\ \A s \in Side : \A q \in Side : q = s \/ q = Other(s)
<1>1. LEFT # RIGHT /\ RING \notin Side /\ LEFT \in Side /\ RIGHT \in Side
  BY DEF LEFT, RIGHT, RING, Side
<1>2. \E o \in Side : o # LEFT
  BY <1>1
<1>3. Other(LEFT) \in Side /\ Other(LEFT) # LEFT
  BY <1>2 DEF Other
<1>4. \E o \in Side : o # RIGHT
  BY <1>1
<1>5. Other(RIGHT) \in Side /\ Other(RIGHT) # RIGHT
  BY <1>4 DEF Other
<1>6. \A s \in Side : s = LEFT \/ s = RIGHT
  BY DEF Side
<1> QED
  BY <1>1, <1>3, <1>5, <1>6

\* The names of no nodes.
LEMMA Names == Null # mHead /\ Null \notin Nodes /\ mHead \notin Nodes
  BY NodesAssumption DEF Null, mHead

\* In c the node x is the child of p on side s, which is all that is new.
Hangs(b, c, p, s, x) ==
  /\ DOMAIN c = DOMAIN b
  /\ \A y \in DOMAIN b : c[y].near = b[y].near /\ c[y].red = b[y].red
  /\ \A y \in DOMAIN b, q \in Side :
       c[y].child[q] = IF y = p /\ q = s THEN x ELSE b[y].child[q]
  /\ \A y \in DOMAIN b : /\ c[y].parent = IF y = x THEN p ELSE b[y].parent
                         /\ c[y].side = IF y = x THEN s ELSE b[y].side

\* Hang does that.
LEMMA HangHangs ==
  ASSUME NEW b, Typed(b), NEW p \in DOMAIN b, NEW s \in Side, NEW x \in DOMAIN b
  PROVE  Typed(Hang(b, p, s, x)) /\ Hangs(b, Hang(b, p, s, x), p, s, x)
<1> DEFINE D == DOMAIN b
           b1 == [b EXCEPT ![p].child[s] = x]
           b2 == [b1 EXCEPT ![x].parent = p]
           c == [b2 EXCEPT ![x].side = s]
<1>1. b \in [D -> Base] /\ p \in Nodes \cup {mHead} /\ x \in Nodes \cup {mHead}
  BY DEF Typed
<1>2. b1 \in [D -> Base]
  BY <1>1, Zenon DEF Base
<1>3. /\ \A y \in D : b1[y].near = b[y].near /\ b1[y].red = b[y].red /\ b1[y].parent = b[y].parent
                      /\ b1[y].side = b[y].side
      /\ \A y \in D, q \in Side : b1[y].child[q] = IF y = p /\ q = s THEN x ELSE b[y].child[q]
  BY <1>1 DEF Base
<1> HIDE DEF b1
<1>4. b2 \in [D -> Base]
  BY <1>1, <1>2, Zenon DEF Base
<1>5. \A y \in D : /\ b2[y].near = b1[y].near /\ b2[y].red = b1[y].red /\ b2[y].child = b1[y].child
                   /\ b2[y].side = b1[y].side /\ b2[y].parent = IF y = x THEN p ELSE b1[y].parent
  BY <1>2 DEF Base
<1> HIDE DEF b2
<1>6. c \in [D -> Base]
  BY <1>4 DEF Base
<1>7. \A y \in D : /\ c[y].near = b2[y].near /\ c[y].red = b2[y].red /\ c[y].child = b2[y].child
                   /\ c[y].parent = b2[y].parent /\ c[y].side = IF y = x THEN s ELSE b2[y].side
  BY <1>4 DEF Base
<1>8. Hang(b, p, s, x) = c
  BY DEF Hang, c, b2, b1
<1> HIDE DEF c
<1>9. DOMAIN c = D
  BY <1>6
<1>10. Typed(c)
  BY <1>6, <1>9 DEF Typed
<1>11. Hangs(b, c, p, s, x)
  BY <1>3, <1>5, <1>7, <1>9 DEF Hangs
<1> QED
  BY <1>8, <1>10, <1>11

\* In c node x has colour v, which is all that is new.
Colours(b, c, x, v) ==
  /\ DOMAIN c = DOMAIN b
  /\ \A y \in DOMAIN b :
       /\ c[y].near = b[y].near /\ c[y].child = b[y].child /\ c[y].parent = b[y].parent
       /\ c[y].side = b[y].side /\ c[y].red = IF y = x THEN v ELSE b[y].red

\* make_red, make_black and make_red_black do that.
LEMMA ColourColours ==
  ASSUME NEW b, Typed(b), NEW x \in DOMAIN b, NEW v \in BOOLEAN
  PROVE  Typed([b EXCEPT ![x].red = v]) /\ Colours(b, [b EXCEPT ![x].red = v], x, v)
<1> DEFINE D == DOMAIN b
           c == [b EXCEPT ![x].red = v]
<1>1. b \in [D -> Base]
  BY DEF Typed
<1>2. c \in [D -> Base]
  BY <1>1, Zenon DEF Base
<1>3. DOMAIN c = D
  OBVIOUS
<1>4. Colours(b, c, x, v)
  BY <1>1 DEF Base, Colours
<1> QED
  BY <1>2, <1>3, <1>4 DEF Typed

\* top, the child of x on the other side, changes places with x: its child on side s, inner,
\* goes over to x.
Rotates(b, c, x, s, top, inner, p, ps) ==
  LET o == Other(s)
  IN /\ DOMAIN c = DOMAIN b
     /\ \A y \in DOMAIN b : c[y].near = b[y].near /\ c[y].red = b[y].red
     /\ \A y \in DOMAIN b, q \in Side :
          c[y].child[q] = IF y = x /\ q = o THEN inner ELSE IF y = top /\ q = s THEN x
                          ELSE IF y = p /\ q = ps THEN top ELSE b[y].child[q]
     /\ \A y \in DOMAIN b :
          /\ c[y].parent = IF y = x THEN top ELSE IF y = top THEN p ELSE IF y = inner THEN x ELSE b[y].parent
          /\ c[y].side = IF y = x THEN s ELSE IF y = top THEN ps ELSE IF y = inner THEN o ELSE b[y].side

\* rotate does that.
LEMMA RotateRotates ==
  ASSUME NEW b, Typed(b), NEW x \in DOMAIN b, NEW s \in Side,
         NEW top, top = b[x].child[Other(s)], top \in DOMAIN b, x # top,
         NEW inner, inner = b[top].child[s], inner \in DOMAIN b, inner # x, inner # top,
         NEW p, p = b[x].parent, p \in DOMAIN b, p # x, p # top
  PROVE  Typed(Rotate(b, x, s)) /\ Rotates(b, Rotate(b, x, s), x, s, top, inner, p, b[x].side)
<1> DEFINE o == Other(s)
           ps == b[x].side
           b1 == Hang(b, x, o, inner)
           b2 == Hang(b1, p, ps, top)
           c == Hang(b2, top, s, x)
<1>1. o \in Side /\ o # s /\ ps \in Side
  BY Sides DEF Typed, Base
<1>2. Typed(b1) /\ Hangs(b, b1, x, o, inner)
  BY <1>1, HangHangs
<1> HIDE DEF b1, ps, o
<1>a. DOMAIN b1 = DOMAIN b
  BY <1>2 DEF Hangs
<1>3. Typed(b2) /\ Hangs(b1, b2, p, ps, top)
  BY <1>1, <1>2, <1>a, HangHangs
<1> HIDE DEF b2
<1>b. DOMAIN b2 = DOMAIN b
  BY <1>3, <1>a DEF Hangs
<1>4. Typed(c) /\ Hangs(b2, c, top, s, x)
  BY <1>1, <1>3, <1>b, HangHangs
<1>5. Rotate(b, x, s) = c
  BY DEF Rotate, o, c, b2, b1, ps
<1> HIDE DEF c
<1>6. Rotates(b, c, x, s, top, inner, p, ps)
  BY <1>1, <1>2, <1>3, <1>4, <1>a, <1>b DEF Rotates, Hangs, o
<1> QED
  BY <1>4, <1>5, <1>6 DEF ps

-----------------------------------------------------------------------------
(***************************************************************************)
(* Search trees.                                                           *)
(***************************************************************************)

\* What a child pointer holds: a head, or mHead for none.
Places(b) == Heads(b) \cup {mHead}

\* Children and parents agree.
Links(b) ==
  /\ b[mHead].child[RIGHT] = mHead /\ ~b[mHead].red
  /\ \A x \in Places(b), s \in Side : b[x].child[s] \in Places(b)
  /\ \A x \in Heads(b) : b[x].parent \in Places(b) /\ b[b[x].parent].child[b[x].side] = x
  /\ \A x \in Places(b), s \in Side :
       b[x].child[s] # mHead => b[b[x].child[s]].parent = x /\ b[b[x].child[s]].side = s

\* Key k is on side s of key m.
Beyond(s, k, m) == IF s = LEFT THEN k < m ELSE k > m

\* sub holds the nodes of each subtree: those on a side of a node have keys on that side.
Subtrees(b, sub) ==
  /\ sub \in [Places(b) -> SUBSET Heads(b)] /\ sub[mHead] = {} /\ sub[Root(b)] = Heads(b)
  /\ \A x \in Heads(b) : sub[x] = {x} \cup sub[b[x].child[LEFT]] \cup sub[b[x].child[RIGHT]]
  /\ \A x \in Heads(b), s \in Side : \A y \in sub[b[x].child[s]] : Beyond(s, KeyOf[y], KeyOf[x])

Tree(b, sub) == Typed(b) /\ Links(b) /\ Subtrees(b, sub) /\ IsFiniteSet(Heads(b))

\* Heads are nodes in the tree.
LEMMA HeadsTyped ==
  ASSUME NEW b, Typed(b)
  PROVE  /\ Heads(b) \subseteq DOMAIN b /\ Heads(b) \subseteq Nodes /\ mHead \notin Heads(b)
         /\ Null \notin Places(b) /\ Places(b) \subseteq DOMAIN b /\ mHead \in Places(b)
         /\ \A x \in Heads(b) : KeyOf[x] \in Nat
         /\ \A x \in DOMAIN b \ {mHead} : x \in Heads(b) <=> b[x].parent # Null
         /\ \A x \in DOMAIN b : b[x].side \in Side /\ b[x].red \in BOOLEAN
<1>1. Heads(b) \subseteq DOMAIN b /\ Heads(b) \subseteq Nodes /\ mHead \notin Heads(b) /\ mHead \in DOMAIN b
  BY DEF Typed, Heads
<1>2. Null \notin Places(b)
  BY <1>1, Names DEF Places
<1>3. \A x \in Heads(b) : KeyOf[x] \in Nat
  BY <1>1, NodesAssumption, Zenon
<1>4. \A x \in DOMAIN b : b[x].side \in Side /\ b[x].red \in BOOLEAN
  BY DEF Typed, Base
<1> QED
  BY <1>1, <1>2, <1>3, <1>4 DEF Places, Heads, IsHead

\* The parts of a subtree do not meet.
LEMMA SubBelow ==
  ASSUME NEW b, NEW sub, Tree(b, sub), NEW x \in Heads(b), NEW s \in Side
  PROVE  LET c == b[x].child[s]
             d == b[x].child[Other(s)]
         IN /\ c \in Places(b) /\ d \in Places(b)
            /\ x \in sub[x] /\ x \notin sub[c] /\ sub[c] \cap sub[d] = {}
            /\ sub[x] = {x} \cup sub[c] \cup sub[d] /\ sub[x] \subseteq Heads(b)
<1> DEFINE c == b[x].child[s]
           d == b[x].child[Other(s)]
<1>1. Other(s) \in Side /\ ((s = LEFT /\ Other(s) = RIGHT) \/ (s = RIGHT /\ Other(s) = LEFT)) /\ LEFT # RIGHT
  BY Sides DEF Side
<1>2. c \in Places(b) /\ d \in Places(b) /\ x \in Places(b)
  BY <1>1 DEF Tree, Links, Places
<1>3. sub[x] \subseteq Heads(b) /\ sub[c] \subseteq Heads(b) /\ sub[d] \subseteq Heads(b)
  BY <1>2 DEF Tree, Subtrees
<1>4. \A y \in Heads(b) : KeyOf[y] \in Nat
  BY HeadsTyped DEF Tree
<1>5. sub[x] = {x} \cup sub[c] \cup sub[d]
  BY <1>1 DEF Tree, Subtrees
<1>6. \A y \in sub[c] : Beyond(s, KeyOf[y], KeyOf[x])
  BY DEF Tree, Subtrees
<1>7. \A y \in sub[d] : Beyond(Other(s), KeyOf[y], KeyOf[x])
  BY <1>1 DEF Tree, Subtrees
<1> HIDE DEF c, d
<1>8. \A y \in Heads(b) : ~(Beyond(s, KeyOf[y], KeyOf[x]) /\ Beyond(Other(s), KeyOf[y], KeyOf[x]))
  BY <1>1, <1>4 DEF Beyond
<1>9. ~Beyond(s, KeyOf[x], KeyOf[x])
  BY <1>4 DEF Beyond
<1> QED
  BY <1>2, <1>3, <1>5, <1>6, <1>7, <1>8, <1>9 DEF c, d

\* What holds of a head when it holds of its children holds of all heads.
LEMMA TreeInduction ==
  ASSUME NEW b, NEW sub, Tree(b, sub), NEW G,
         \A x \in Heads(b) : (\A s \in Side : b[x].child[s] # mHead => b[x].child[s] \in G) => x \in G
  PROVE  Heads(b) \subseteq G
<1> DEFINE H == Heads(b)
           Low == {n \in Nat : \A x \in H : Cardinality(sub[x]) <= n => x \in G}
<1>1. \A x \in H : sub[x] \subseteq H /\ IsFiniteSet(sub[x]) /\ Cardinality(sub[x]) \in Nat
  <2>1. \A x \in H : sub[x] \subseteq H
    BY DEF Tree, Subtrees, Places
  <2> QED
    BY <2>1, FS_Subset, FS_CardinalityType DEF Tree
<1>2. ASSUME NEW x \in H, NEW s \in Side, b[x].child[s] # mHead
      PROVE  b[x].child[s] \in H /\ Cardinality(sub[b[x].child[s]]) < Cardinality(sub[x])
  <2> DEFINE c == b[x].child[s]
  <2>1. c \in H
    BY <1>2, SubBelow DEF Places
  <2>2. x \in sub[x] /\ x \notin sub[c] /\ sub[c] \subseteq sub[x]
    BY SubBelow
  <2> HIDE DEF c
  <2>3. Cardinality(sub[c]) <= Cardinality(sub[x]) /\ (Cardinality(sub[c]) = Cardinality(sub[x]) => sub[c] = sub[x])
    BY <1>1, <2>2, FS_Subset
  <2> QED
    BY <1>1, <2>1, <2>2, <2>3 DEF c
<1>3. \A x \in H : Cardinality(sub[x]) # 0
  <2>1. \A x \in H : x \in sub[x]
    BY SubBelow, Sides
  <2> QED
    BY <1>1, <2>1, FS_EmptySet
<1>4. 0 \in Low
  BY <1>1, <1>3
<1>5. ASSUME NEW n \in Low PROVE n + 1 \in Low
  <2> SUFFICES ASSUME NEW x \in H, Cardinality(sub[x]) <= n + 1 PROVE x \in G
    OBVIOUS
  <2>1. ASSUME NEW s \in Side, b[x].child[s] # mHead PROVE b[x].child[s] \in G
    <3>1. b[x].child[s] \in H /\ Cardinality(sub[b[x].child[s]]) < Cardinality(sub[x])
      BY <1>2, <2>1
    <3>2. Cardinality(sub[b[x].child[s]]) <= n
      BY <1>1, <3>1
    <3> QED
      BY <3>1, <3>2
  <2> QED
    BY <2>1
<1>6. Low = Nat
  <2>1. Low \in SUBSET Nat
    OBVIOUS
  <2> HIDE DEF Low
  <2> QED
    BY <1>4, <1>5, <2>1, SetInduction
<1> QED
  BY <1>1, <1>6

\* Subtrees of nodes of a subtree are in it.
LEMMA SubOfSub ==
  ASSUME NEW b, NEW sub, Tree(b, sub)
  PROVE  \A x \in Heads(b) : \A y \in sub[x] : sub[y] \subseteq sub[x] /\ y \in Heads(b)
<1> DEFINE G == {x \in Heads(b) : \A y \in sub[x] : sub[y] \subseteq sub[x] /\ y \in Heads(b)}
<1>1. ASSUME NEW x \in Heads(b), \A s \in Side : b[x].child[s] # mHead => b[x].child[s] \in G
      PROVE  x \in G
  <2> SUFFICES ASSUME NEW y \in sub[x] PROVE sub[y] \subseteq sub[x] /\ y \in Heads(b)
    OBVIOUS
  <2>1. y \in Heads(b) /\ sub[mHead] = {}
    BY SubBelow, Sides, Zenon DEF Tree, Subtrees
  <2>2. CASE y = x
    BY <2>1, <2>2
  <2>3. CASE y # x
    <3>1. PICK s \in Side : y \in sub[b[x].child[s]]
      BY <2>3, SubBelow, Sides
    <3>2. b[x].child[s] \in G
      BY <1>1, <2>1, <3>1
    <3>3. sub[b[x].child[s]] \subseteq sub[x]
      BY SubBelow
    <3> QED
      BY <2>1, <3>1, <3>2, <3>3
  <2> QED
    BY <2>2, <2>3
<1> HIDE DEF G
<1>2. Heads(b) \subseteq G
  BY <1>1, TreeInduction
<1> QED
  BY <1>2 DEF G

\* What holds of the root, and of the children of each head of which it holds, holds of all.
LEMMA RootInduction ==
  ASSUME NEW b, NEW sub, Tree(b, sub), NEW G, Root(b) # mHead => Root(b) \in G,
         \A x \in Heads(b) \cap G, s \in Side : b[x].child[s] # mHead => b[x].child[s] \in G
  PROVE  Heads(b) \subseteq G
<1> DEFINE D == {x \in Heads(b) : x \in G => sub[x] \subseteq G}
<1>0. sub[mHead] = {}
  BY DEF Tree, Subtrees
<1>1. ASSUME NEW x \in Heads(b), \A s \in Side : b[x].child[s] # mHead => b[x].child[s] \in D
      PROVE  x \in D
  <2> SUFFICES ASSUME x \in G, NEW y \in sub[x] PROVE y \in G
    OBVIOUS
  <2>1. CASE y = x
    BY <2>1
  <2>2. CASE y # x
    <3>1. PICK s \in Side : y \in sub[b[x].child[s]]
      BY <2>2, SubBelow, Sides
    <3> QED
      BY <1>0, <1>1, <3>1
  <2> QED
    BY <2>1, <2>2
<1> HIDE DEF D
<1>2. Heads(b) \subseteq D
  BY <1>1, TreeInduction
<1>3. sub[Root(b)] = Heads(b) /\ Root(b) \in Places(b)
  BY Sides DEF Tree, Subtrees, Links, Places, Root
<1> QED
  BY <1>0, <1>2, <1>3 DEF D, Places

\* Heads have different keys.
LEMMA KeysDiffer ==
  ASSUME NEW b, NEW sub, Tree(b, sub)
  PROVE  \A x \in Heads(b), y \in Heads(b) : KeyOf[x] = KeyOf[y] => x = y
<1> DEFINE G == {z \in Heads(b) : \A x \in sub[z], y \in sub[z] : KeyOf[x] = KeyOf[y] => x = y}
<1>0. sub[mHead] = {} /\ \A x \in Heads(b) : KeyOf[x] \in Nat
  BY HeadsTyped DEF Tree, Subtrees
<1>1. ASSUME NEW z \in Heads(b), \A s \in Side : b[z].child[s] # mHead => b[z].child[s] \in G
      PROVE  z \in G
  <2> SUFFICES ASSUME NEW x \in sub[z], NEW y \in sub[z], KeyOf[x] = KeyOf[y] PROVE x = y
    OBVIOUS
  <2> DEFINE l == b[z].child[LEFT]
             r == b[z].child[RIGHT]
  <2>1. /\ sub[z] = {z} \cup sub[l] \cup sub[r] /\ sub[z] \subseteq Heads(b)
    BY SubBelow, Sides
  <2>2. (\A u \in sub[l] : KeyOf[u] < KeyOf[z]) /\ (\A u \in sub[r] : KeyOf[u] > KeyOf[z])
    <3>1. \A u \in sub[l] : Beyond(LEFT, KeyOf[u], KeyOf[z])
      BY Sides DEF Tree, Subtrees
    <3>2. \A u \in sub[r] : Beyond(RIGHT, KeyOf[u], KeyOf[z])
      BY Sides DEF Tree, Subtrees
    <3> QED
      BY <3>1, <3>2, Sides DEF Beyond
  <2>3. (l = mHead \/ l \in G) /\ (r = mHead \/ r \in G)
    BY <1>1, Sides
  <2> HIDE DEF l, r
  <2>4. \A u \in sub[l], v \in sub[l] : KeyOf[u] = KeyOf[v] => u = v
    BY <1>0, <2>3
  <2>5. \A u \in sub[r], v \in sub[r] : KeyOf[u] = KeyOf[v] => u = v
    BY <1>0, <2>3
  <2> HIDE DEF G
  <2>6. KeyOf[x] \in Nat /\ KeyOf[z] \in Nat
    BY <1>0, <2>1
  <2> QED
    BY <2>1, <2>2, <2>4, <2>5, <2>6
<1> HIDE DEF G
<1>2. Heads(b) \subseteq G
  BY <1>1, TreeInduction
<1>3. sub[Root(b)] = Heads(b) /\ (Heads(b) # {} => Root(b) \in Heads(b))
  BY <1>0, Sides DEF Tree, Subtrees, Links, Places, Root
<1> QED
  BY <1>2, <1>3 DEF G

-----------------------------------------------------------------------------
(***************************************************************************)
(* Rotations keep the search tree.                                         *)
(***************************************************************************)

\* c and d are the children of x.
Parts(b, sub, x, c, d) ==
  /\ c \in Places(b) /\ d \in Places(b)
  /\ x \in sub[x] /\ x \notin sub[c] /\ x \notin sub[d] /\ sub[c] \cap sub[d] = {}
  /\ sub[x] = {x} \cup sub[c] \cup sub[d] /\ sub[x] \subseteq Heads(b)

\* A subtree is its root and the subtrees of the two children, which do not meet.
LEMMA SubParts ==
  ASSUME NEW b, NEW sub, Tree(b, sub)
  PROVE  \A x \in Heads(b), s \in Side : Parts(b, sub, x, b[x].child[s], b[x].child[Other(s)])
<1> TAKE x \in Heads(b), s \in Side
<1>1. Other(s) \in Side /\ Other(Other(s)) = s
  BY Sides
<1>2. x \notin sub[b[x].child[Other(s)]]
  BY <1>1, SubBelow
<1>3. /\ b[x].child[s] \in Places(b) /\ b[x].child[Other(s)] \in Places(b)
      /\ x \in sub[x] /\ x \notin sub[b[x].child[s]]
  BY SubBelow
<1>4. sub[b[x].child[s]] \cap sub[b[x].child[Other(s)]] = {}
  BY SubBelow, Zenon
<1>5. sub[x] = {x} \cup sub[b[x].child[s]] \cup sub[b[x].child[Other(s)]]
  <2>1. (s = LEFT /\ Other(s) = RIGHT) \/ (s = RIGHT /\ Other(s) = LEFT)
    BY Sides DEF Side
  <2> QED
    BY <2>1 DEF Tree, Subtrees
<1>6. sub[x] \subseteq Heads(b)
  BY DEF Tree, Subtrees, Places
<1> QED
  BY <1>2, <1>3, <1>4, <1>5, <1>6 DEF Parts

\* The child of y on side q has y as its parent.
Down(b, y, q) ==
  LET z == b[y].child[q]
  IN z \in Places(b) /\ (z # mHead => b[z].parent = y /\ b[z].side = q)

\* Children and parents agree in a tree.
LEMMA ChildDown ==
  ASSUME NEW b, NEW sub, Tree(b, sub)
  PROVE  \A y \in Places(b), q \in Side : Down(b, y, q)
  BY DEF Tree, Links, Down

\* In the tree b, top is the child of x on the side other than s, inner the child of top on
\* side s, and x the child of p on side ps.
Turns(b, x, s, top, inner, p, ps) ==
  /\ x \in Heads(b) /\ s \in Side /\ top \in Heads(b) /\ top = b[x].child[Other(s)]
  /\ inner \in Places(b) /\ inner = b[top].child[s]
  /\ p \in Places(b) /\ p = b[x].parent /\ ps \in Side /\ ps = b[x].side /\ b[p].child[ps] = x
  /\ x # top /\ inner # x /\ inner # top /\ p # x /\ p # top

\* Where there is such a child, they are five places.
LEMMA TurnsApart ==
  ASSUME NEW b, NEW sub, Tree(b, sub), NEW x \in Heads(b), NEW s \in Side, b[x].child[Other(s)] # mHead
  PROVE  LET top == b[x].child[Other(s)]
         IN Turns(b, x, s, top, b[top].child[s], b[x].parent, b[x].side)
<1> DEFINE top == b[x].child[Other(s)]
           inner == b[top].child[s]
           p == b[x].parent
           ps == b[x].side
<1>0. mHead \notin Heads(b) /\ Other(s) \in Side /\ Other(s) # s /\ ps \in Side
  BY HeadsTyped, Sides, Zenon DEF Tree, Places
<1>1. top \in Heads(b) /\ x \notin sub[top] /\ sub[top] \subseteq sub[x] /\ x \in sub[x]
  BY <1>0, SubBelow DEF Places
<1>2. inner \in Places(b) /\ top \in sub[top] /\ top \notin sub[inner] /\ sub[inner] \subseteq sub[top]
  BY <1>1, SubBelow DEF Places
<1>3. p \in Places(b) /\ b[p].child[ps] = x
  BY DEF Tree, Links
<1>4. p \in Heads(b) => p \in sub[p] /\ p \notin sub[x] /\ sub[x] \subseteq sub[p]
  BY <1>0, <1>3, SubBelow
<1>5. sub[mHead] = {}
  BY DEF Tree, Subtrees
<1> HIDE DEF top, inner, p, ps
<1>6. x # top /\ inner # top /\ p # x
  BY <1>0, <1>1, <1>2, <1>3, <1>4 DEF Places
<1>7. inner # x
  BY <1>0, <1>1, <1>2
<1>8. p # top
  BY <1>0, <1>1, <1>3, <1>4 DEF Places
<1> QED
  BY <1>0, <1>1, <1>2, <1>3, <1>6, <1>7, <1>8, Zenon DEF Turns, top, inner, p, ps

\* The subtrees after the rotation.
Rotated(sub, x, top, xs, tops) == [sub EXCEPT ![top] = tops, ![x] = xs]

\* A rotation leaves the heads and the children of the sentinel's right.
LEMMA RotateHeads ==
  ASSUME NEW b, NEW sub, Tree(b, sub), NEW x, NEW s, NEW top, NEW inner, NEW p, NEW ps,
         Turns(b, x, s, top, inner, p, ps)
  PROVE  LET c == Rotate(b, x, s)
         IN /\ Typed(c) /\ Rotates(b, c, x, s, top, inner, p, ps)
            /\ Heads(c) = Heads(b) /\ Places(c) = Places(b) /\ DOMAIN c = DOMAIN b
<1> DEFINE c == Rotate(b, x, s)
<1>1. Typed(b) /\ s \in Side
  BY DEF Tree, Turns
<1>2. /\ Heads(b) \subseteq DOMAIN b /\ mHead \notin Heads(b)
      /\ Null \notin Places(b) /\ Places(b) \subseteq DOMAIN b
      /\ \A y \in DOMAIN b \ {mHead} : y \in Heads(b) <=> b[y].parent # Null
  BY <1>1, HeadsTyped
<1>3. Typed(c) /\ Rotates(b, c, x, s, top, inner, p, ps)
  <2>1. /\ x \in DOMAIN b /\ top \in DOMAIN b /\ inner \in DOMAIN b /\ p \in DOMAIN b
        /\ top = b[x].child[Other(s)] /\ inner = b[top].child[s] /\ p = b[x].parent /\ ps = b[x].side
        /\ x # top /\ inner # x /\ inner # top /\ p # x /\ p # top
    BY <1>2, Zenon DEF Turns
  <2> QED
    BY <1>1, <2>1, RotateRotates
<1> HIDE DEF c
<1>4. DOMAIN c = DOMAIN b
  BY <1>3 DEF Rotates
<1>5. \A y \in DOMAIN c \ {mHead} : y \in Heads(c) <=> c[y].parent # Null
  BY <1>3, HeadsTyped
<1>6. \A y \in DOMAIN b \ {mHead} : c[y].parent # Null <=> b[y].parent # Null
  <2>1. x \in Heads(b) /\ top \in Heads(b) /\ inner \in Places(b) /\ p \in Places(b)
    BY DEF Turns
  <2>2. /\ x # Null /\ top # Null /\ p # Null
        /\ \A y \in {x, top, inner} : y # mHead => b[y].parent # Null
    BY <1>2, <2>1 DEF Places
  <2> QED
    BY <1>3, <2>2 DEF Rotates
<1>7. Heads(c) = Heads(b)
  <2>1. Heads(c) \subseteq DOMAIN c /\ mHead \notin Heads(c)
    BY <1>3, HeadsTyped
  <2> QED
    BY <1>2, <1>4, <1>5, <1>6, <2>1
<1> QED
  BY <1>3, <1>4, <1>7 DEF Places, c

\* Keys on the sides of two nodes, as the subtrees of a rotation stand.
LEMMA RotateTree ==
  ASSUME NEW b, NEW sub, Tree(b, sub), NEW x, NEW s, NEW top, NEW inner, NEW p, NEW ps,
         Turns(b, x, s, top, inner, p, ps)
  PROVE  LET xs == {x} \cup sub[b[x].child[s]] \cup sub[inner]
         IN Tree(Rotate(b, x, s), Rotated(sub, x, top, xs, sub[x]))
<1> DEFINE c == Rotate(b, x, s)
           o == Other(s)
           a == b[x].child[s]
           d == b[top].child[o]
           xs == {x} \cup sub[a] \cup sub[inner]
           sub1 == Rotated(sub, x, top, xs, sub[x])
           H == Heads(b)
           P == Places(b)
<1>1. /\ Typed(c) /\ Rotates(b, c, x, s, top, inner, p, ps)
      /\ Heads(c) = H /\ Places(c) = P /\ DOMAIN c = DOMAIN b
  BY RotateHeads
<1>2. /\ H \subseteq DOMAIN b /\ mHead \notin H /\ P = H \cup {mHead} /\ P \subseteq DOMAIN b
      /\ \A y \in H : KeyOf[y] \in Nat
  BY HeadsTyped DEF Tree, Places
<1>3. /\ x \in H /\ s \in Side /\ top \in H /\ top = b[x].child[o] /\ inner \in P /\ inner = b[top].child[s]
      /\ p \in P /\ p = b[x].parent /\ ps \in Side /\ ps = b[x].side /\ b[p].child[ps] = x
      /\ x # top /\ inner # x /\ inner # top /\ p # x /\ p # top
  BY Zenon DEF Turns
<1>4. o \in Side /\ o # s /\ (\A q \in Side : q = s \/ q = o) /\ Other(o) = s
  BY <1>3, Sides, Zenon
<1>5. /\ a \in P /\ x \in sub[x] /\ x \notin sub[a] /\ sub[a] \cap sub[top] = {} /\ x \notin sub[top]
      /\ sub[x] = {x} \cup sub[a] \cup sub[top] /\ sub[x] \subseteq H
  <2>1. Parts(b, sub, x, a, top)
    BY <1>3, SubParts, Zenon
  <2> QED
    BY <2>1 DEF Parts
<1>6. /\ d \in P /\ top \in sub[top] /\ top \notin sub[inner] /\ top \notin sub[d] /\ sub[inner] \cap sub[d] = {}
      /\ sub[top] = {top} \cup sub[inner] \cup sub[d]
  <2>1. Parts(b, sub, top, inner, d)
    BY <1>3, SubParts, Zenon
  <2> QED
    BY <2>1 DEF Parts
<1> HIDE DEF c, a, d
<1>10. \A y \in P, q \in Side :
           c[y].child[q] = IF y = x /\ q = o THEN inner ELSE IF y = top /\ q = s THEN x
                          ELSE IF y = p /\ q = ps THEN top ELSE b[y].child[q]
  BY <1>1, <1>2 DEF Rotates
<1>b. \A y \in P :
        /\ c[y].parent = IF y = x THEN top ELSE IF y = top THEN p ELSE IF y = inner THEN x ELSE b[y].parent
        /\ c[y].side = IF y = x THEN s ELSE IF y = top THEN ps ELSE IF y = inner THEN o ELSE b[y].side
  BY <1>1, <1>2 DEF Rotates
<1>r. \A y \in P : c[y].red = b[y].red
  BY <1>1, <1>2 DEF Rotates
<1>l. \A y \in P, q \in Side : Down(b, y, q)
  BY ChildDown
<1>m. b[mHead].child[RIGHT] = mHead /\ ~b[mHead].red /\ RIGHT \in Side /\ LEFT \in Side /\ RIGHT # LEFT
  BY Sides DEF Tree, Links
<1>n. \A y \in P, q \in Side : b[y].child[q] \in P
  BY <1>l DEF Down
<1> HIDE DEF o, P, H
<1>p. x \in P /\ top \in P /\ x # mHead /\ top # mHead /\ mHead \in P
  BY <1>2, <1>3, Zenon
<1>t. b[top].parent = x /\ b[top].side = o
  <2>1. Down(b, x, o)
    BY <1>4, <1>l, <1>p
  <2> QED
    BY <1>3, <1>p, <2>1, Zenon DEF Down
<1>e. /\ c[x].child[o] = inner /\ c[x].child[s] = a /\ c[top].child[s] = x /\ c[top].child[o] = d
      /\ c[p].child[ps] = top
  <2>1. c[x].child[o] = inner
    BY <1>4, <1>10, <1>p, Zenon
  <2>2. c[x].child[s] = a
    BY <1>3, <1>4, <1>10, <1>p, Zenon DEF a
  <2>3. c[top].child[s] = x
    BY <1>3, <1>4, <1>10, <1>p, Zenon
  <2>4. c[top].child[o] = d
    BY <1>3, <1>4, <1>10, <1>p, Zenon DEF d
  <2>5. c[p].child[ps] = top
    BY <1>3, <1>10, Zenon
  <2> QED
    BY <2>1, <2>2, <2>3, <2>4, <2>5
<1>f. /\ c[x].parent = top /\ c[x].side = s /\ c[top].parent = p /\ c[top].side = ps
      /\ c[inner].parent = x /\ c[inner].side = o
  <2>1. c[x].parent = top /\ c[x].side = s
    BY <1>b, <1>p, Zenon
  <2>2. c[top].parent = p /\ c[top].side = ps
    BY <1>3, <1>b, <1>p, Zenon
  <2>3. c[inner].parent = x /\ c[inner].side = o
    BY <1>3, <1>b, Zenon
  <2> QED
    BY <2>1, <2>2, <2>3
<1>7. Links(c)
  <2>0. Links(b)
    BY DEF Tree
  <2>1. c[mHead].child[RIGHT] = mHead /\ ~c[mHead].red
    <3>1. ~(mHead = p /\ RIGHT = ps)
      BY <1>3, <1>m, <1>p, Zenon
    <3>2. c[mHead].child[RIGHT] = b[mHead].child[RIGHT]
      BY <1>10, <1>m, <1>p, <3>1, Zenon
    <3> QED
      BY <1>r, <1>m, <1>p, <3>2, Zenon
  <2>2. ASSUME NEW y \in P, NEW q \in Side PROVE c[y].child[q] \in P
    <3>1. b[y].child[q] \in P
      BY <1>n, Zenon
    <3> QED
      BY <1>3, <1>10, <1>p, <3>1
  <2>c. \A y \in H : b[y].parent \in P /\ b[b[y].parent].child[b[y].side] = y /\ b[y].side \in Side
    BY <2>0, HeadsTyped, <1>2, Zenon DEF Links, Tree, H, P
  <2>3. ASSUME NEW y \in H PROVE c[y].parent \in P /\ c[c[y].parent].child[c[y].side] = y
    <3>x. CASE y = x
      BY <1>e, <1>f, <1>p, <3>x
    <3>t. CASE y = top
      BY <1>3, <1>e, <1>f, <3>t, Zenon
    <3>i. CASE y = inner
      BY <1>e, <1>f, <1>p, <3>i
    <3>2. CASE y \notin {x, top, inner}
      <4>1. c[y].parent = b[y].parent /\ c[y].side = b[y].side
        BY <1>2, <1>b, <3>2
      <4>2. b[y].parent \in P /\ b[y].side \in Side /\ b[b[y].parent].child[b[y].side] = y
        BY <2>c
      <4>3. ~(b[y].parent = x /\ b[y].side = o) /\ ~(b[y].parent = top /\ b[y].side = s)
            /\ ~(b[y].parent = p /\ b[y].side = ps)
        BY <1>3, <4>2, <3>2, Zenon
      <4> QED
        BY <1>10, <4>1, <4>2, <4>3
    <3> QED
      BY <3>x, <3>t, <3>i, <3>2, Zenon
  <2>4. ASSUME NEW y \in P, NEW q \in Side, c[y].child[q] # mHead
        PROVE  c[c[y].child[q]].parent = y /\ c[c[y].child[q]].side = q
    <3>x. CASE y = x /\ q = o
      BY <1>e, <1>f, <3>x
    <3>t. CASE y = top /\ q = s
      BY <1>e, <1>f, <3>t
    <3>p. CASE y = p /\ q = ps
      BY <1>e, <1>f, <3>p
    <3>3. CASE ~((y = x /\ q = o) \/ (y = top /\ q = s) \/ (y = p /\ q = ps))
      <4>1. c[y].child[q] = b[y].child[q]
        BY <1>10, <3>3, Zenon
      <4> DEFINE z == b[y].child[q]
      <4>2. z \in P /\ z # mHead /\ b[z].parent = y /\ b[z].side = q
        <5>1. b[y].child[q] \in P /\ (b[y].child[q] # mHead => b[b[y].child[q]].parent = y /\ b[b[y].child[q]].side = q)
          BY <1>l DEF Down, P
        <5> QED
          BY <2>4, <4>1, <5>1
      <4> HIDE DEF z
      <4>3. z # x /\ z # top
        BY <1>3, <1>t, <3>3, <4>2, Zenon
      <4>4. z # inner
        <5>1. inner # mHead => b[inner].parent = top /\ b[inner].side = s
          <6>1. Down(b, top, s)
            BY <1>3, <1>l, <1>p, Zenon
          <6> QED
            BY <1>3, <6>1, Zenon DEF Down
        <5> QED
          BY <1>3, <3>3, <4>2, <5>1, Zenon
      <4> QED
        BY <1>b, <4>1, <4>2, <4>3, <4>4 DEF z
    <3> QED
      BY <3>x, <3>t, <3>p, <3>3
  <2> QED
    BY <1>1, <2>1, <2>2, <2>3, <2>4 DEF Links, H, P
<1>8. \A y \in P : sub1[y] = IF y = x THEN xs ELSE IF y = top THEN sub[x] ELSE sub[y]
  <2>1. sub \in [P -> SUBSET H]
    BY DEF Tree, Subtrees, H, P
  <2> QED
    BY <1>2, <1>3, <2>1, Zenon DEF Rotated
<1>9. sub1 \in [P -> SUBSET H] /\ sub1[mHead] = {}
  <2>1. sub \in [P -> SUBSET H] /\ sub[mHead] = {}
    BY DEF Tree, Subtrees, H, P
  <2>2. xs \subseteq H /\ sub[x] \subseteq H
    BY <1>2, <1>3, <1>5, <2>1, Zenon
  <2> QED
    BY <1>2, <1>3, <2>1, <2>2, Zenon DEF Rotated
<1> HIDE DEF sub1
<1>11. sub1[Root(c)] = H
  <2>0. sub[Root(b)] = H /\ Root(b) = b[mHead].child[LEFT] /\ Root(b) \in P /\ LEFT \in Side
    <3>1. sub[Root(b)] = H /\ Root(b) = b[mHead].child[LEFT]
      BY DEF Tree, Subtrees, Root, H
    <3>2. mHead \in P
      BY <1>2
    <3> QED
      BY <1>m, <1>n, <3>1, <3>2
  <2>1. CASE p = mHead
    <3>1. ps = LEFT /\ x = Root(b)
      <4>1. RIGHT \in Side /\ (ps = LEFT \/ ps = RIGHT) /\ b[mHead].child[RIGHT] = mHead
        BY <1>3, <1>m, Zenon DEF Side
      <4> QED
        BY <1>2, <1>3, <2>0, <2>1, <4>1, Zenon
    <3>2. Root(c) = top
      BY <1>e, <2>1, <3>1 DEF Root
    <3> QED
      BY <1>3, <1>8, <1>2, <2>0, <3>1, <3>2, Zenon
  <2>2. CASE p # mHead
    <3>1. Root(c) = Root(b)
      BY <1>10, <1>p, <2>0, <2>2, Zenon DEF Root
    <3>2. b[mHead].child[LEFT] # x
      <4>1. b[mHead].child[LEFT] # mHead => b[b[mHead].child[LEFT]].parent = mHead
        BY <1>2, <2>0, <1>l DEF Down
      <4> QED
        BY <1>2, <1>3, <2>2, <4>1, Zenon
    <3>3. b[mHead].child[LEFT] # top
      <4>1. b[mHead].child[LEFT] # mHead => b[b[mHead].child[LEFT]].parent = mHead
        BY <1>2, <2>0, <1>l DEF Down
      <4> QED
        BY <1>p, <1>t, <4>1, Zenon
    <3> QED
      BY <1>8, <2>0, <3>1, <3>2, <3>3
  <2> QED
    BY <2>1, <2>2
<1>14. ASSUME NEW y \in H, y # x, y # top, NEW q \in Side
       PROVE  sub1[c[y].child[q]] = sub[b[y].child[q]]
  <2>0. y \in P
    BY <1>2
  <2>1. b[y].child[q] \in P /\ (b[y].child[q] # mHead => b[b[y].child[q]].parent = y /\ b[b[y].child[q]].side = q)
    BY <2>0, <1>l DEF Down, P
  <2>2. CASE y = p /\ q = ps
    <3>1. c[y].child[q] = top /\ b[y].child[q] = x
      BY <1>3, <1>10, <1>14, <2>0, <2>2, Zenon
    <3>2. sub1[top] = sub[x]
      BY <1>2, <1>3, <1>8, Zenon
    <3> QED
      BY <3>1, <3>2
  <2>3. CASE ~(y = p /\ q = ps)
    <3>1. c[y].child[q] = b[y].child[q]
      BY <1>2, <1>10, <1>14, <2>3
    <3>2. b[y].child[q] # x /\ b[y].child[q] # top
      BY <1>3, <1>14, <1>p, <1>t, <2>1, <2>3, Zenon
    <3> QED
      BY <1>8, <2>1, <3>1, <3>2
  <2> QED
    BY <2>2, <2>3
<1>12. ASSUME NEW y \in H
       PROVE  sub1[y] = {y} \cup sub1[c[y].child[s]] \cup sub1[c[y].child[o]]
  <2>1. CASE y = x
    <3>1. c[y].child[o] = inner /\ c[y].child[s] = a
      BY <1>e, <2>1
    <3>3. a # x /\ a # top
      BY <1>5, <1>6
    <3>2. sub1[x] = xs /\ sub1[a] = sub[a] /\ sub1[inner] = sub[inner]
      BY <1>3, <1>5, <1>8, <1>p, <3>3, Zenon
    <3> QED
      BY <2>1, <3>1, <3>2 DEF a
  <2>2. CASE y = top
    <3>1. c[y].child[o] = d /\ c[y].child[s] = x
      BY <1>e, <2>2
    <3>2. d # top /\ d # x
      <4>1. d # top
        BY <1>6
      <4>2. sub[d] \subseteq sub[top]
        BY <1>6
      <4> QED
        BY <1>5, <4>1, <4>2
    <3>3. sub1[d] = sub[d] /\ sub1[x] = xs /\ sub1[top] = sub[x]
      BY <1>3, <1>6, <1>8, <1>p, <3>2, Zenon
    <3> QED
      BY <1>5, <1>6, <2>2, <3>1, <3>3
  <2>3. CASE y # x /\ y # top
    <3>1. \A q \in Side : sub1[c[y].child[q]] = sub[b[y].child[q]]
      BY <1>14, <2>3
    <3>2. sub1[y] = sub[y] /\ sub[y] = {y} \cup sub[b[y].child[s]] \cup sub[b[y].child[o]]
      <4>1. Parts(b, sub, y, b[y].child[s], b[y].child[o])
        BY <1>3, SubParts, Zenon DEF H, o
      <4> QED
        BY <1>2, <1>3, <1>8, <2>3, <4>1, Zenon DEF Parts
    <3> QED
      BY <1>3, <1>4, <3>1, <3>2, Zenon
  <2> QED
    BY <2>1, <2>2, <2>3
<1>s. \A y \in H, q \in Side : \A z \in sub[b[y].child[q]] : Beyond(q, KeyOf[z], KeyOf[y])
  BY DEF Tree, Subtrees, H
<1>13. ASSUME NEW y \in H, NEW q \in Side, NEW z \in sub1[c[y].child[q]]
       PROVE  Beyond(q, KeyOf[z], KeyOf[y])
  <2>k. \A u \in H, v \in H, w \in H, r \in Side :
          /\ Beyond(r, KeyOf[u], KeyOf[v]) /\ Beyond(r, KeyOf[v], KeyOf[w]) => Beyond(r, KeyOf[u], KeyOf[w])
          /\ Beyond(r, KeyOf[u], KeyOf[v]) <=> Beyond(Other(r), KeyOf[v], KeyOf[u])
    BY <1>2, Sides DEF Beyond, Side
  <2>x. Beyond(o, KeyOf[top], KeyOf[x])
    BY <1>3, <1>4, <1>6, <1>s, Zenon
  <2>1. CASE y = x
    <3>1. c[y].child[o] = inner /\ c[y].child[s] = a
      BY <1>e, <2>1
    <3>2. CASE q = o
      <4>1. z \in sub[top]
        <5>1. z \in sub1[inner] /\ sub1[inner] = sub[inner]
          BY <1>3, <1>8, <3>1, <3>2, Zenon
        <5> QED
          BY <1>6, <5>1
      <4> QED
        BY <1>3, <1>4, <1>s, <2>1, <3>2, <4>1, Zenon
    <3>3. CASE q = s
      <4>1. z \in sub[a]
        <5>1. a # x /\ a # top
          BY <1>5, <1>6
        <5> QED
          BY <1>5, <1>8, <3>1, <3>3, <5>1, Zenon
      <4> QED
        BY <1>3, <1>s, <2>1, <3>3, <4>1, Zenon DEF a
    <3> QED
      BY <1>4, <3>2, <3>3
  <2>2. CASE y = top
    <3>1. c[y].child[o] = d /\ c[y].child[s] = x
      BY <1>e, <2>2
    <3>2. CASE q = o
      <4>1. z \in sub[d]
        <5>1. d # top /\ d # x
          <6>1. d # top
            BY <1>6
          <6>2. sub[d] \subseteq sub[top]
            BY <1>6
          <6> QED
            BY <1>5, <6>1, <6>2
        <5> QED
          BY <1>6, <1>8, <3>1, <3>2, <5>1
      <4> QED
        BY <1>3, <1>4, <1>s, <2>2, <3>2, <4>1, Zenon DEF d
    <3>3. CASE q = s
      <4>1. z \in xs
        BY <1>2, <1>3, <1>8, <3>1, <3>3, Zenon
      <4>2. CASE z = x
        BY <1>3, <1>4, <2>k, <2>x, <2>2, <3>3, <4>2, Zenon
      <4>3. CASE z \in sub[inner]
        BY <1>3, <1>s, <2>2, <3>3, <4>3, Zenon
      <4>4. CASE z \in sub[a]
        <5>1. Beyond(s, KeyOf[z], KeyOf[x]) /\ z \in H
          BY <1>3, <1>5, <1>s, <4>4, Zenon DEF a
        <5>2. Beyond(s, KeyOf[x], KeyOf[top])
          BY <1>3, <1>4, <2>k, <2>x, Zenon
        <5> QED
          BY <1>3, <2>k, <2>2, <3>3, <5>1, <5>2
      <4> QED
        BY <4>1, <4>2, <4>3, <4>4
    <3> QED
      BY <1>4, <3>2, <3>3
  <2>3. CASE y # x /\ y # top
    <3>1. sub1[c[y].child[q]] = sub[b[y].child[q]]
      BY <1>14, <2>3
    <3> QED
      BY <1>s, <3>1
  <2> QED
    BY <2>1, <2>2, <2>3
<1>15. Subtrees(c, sub1)
  <2>1. \A y \in H : sub1[y] = {y} \cup sub1[c[y].child[LEFT]] \cup sub1[c[y].child[RIGHT]]
    BY <1>3, <1>4, <1>12 DEF Side
  <2> QED
    BY <1>1, <1>9, <1>11, <1>13, <2>1 DEF Subtrees, H, P
<1>16. IsFiniteSet(Heads(c))
  BY <1>1 DEF Tree, H
<1>17. Tree(c, sub1)
  BY <1>1, <1>7, <1>15, <1>16 DEF Tree
<1> QED
  BY <1>17 DEF c, sub1, xs, a

-----------------------------------------------------------------------------
(***************************************************************************)
(* Recursion along a rank, and over the subtrees.                          *)
(***************************************************************************)

\* step[x] makes of a function its value at x, looking only at values of lower rank.
LooksDown(H, rank, V, step) ==
  \A x \in H : \A g \in [H -> V], h \in [H -> V] :
    (\A y \in H : rank[y] < rank[x] => g[y] = h[y]) => step[x][g] = step[x][h]
Steps(H, N, rank, V, v, step) ==
  /\ N \in Nat /\ rank \in [H -> 0 .. N] /\ v \in V /\ step \in [H -> [[H -> V] -> V]]
  /\ LooksDown(H, rank, V, step)
Solves(g, H, V, step) == g \in [H -> V] /\ \A x \in H : g[x] = step[x][g]

\* A function is defined by what its value is where those of lower rank are known.
LEMMA RecursionOverRank ==
  ASSUME NEW H, NEW N, NEW rank, NEW V, NEW v, NEW step, Steps(H, N, rank, V, v, step)
  PROVE  \E g : Solves(g, H, V, step)
<1>0. /\ N \in Nat /\ rank \in [H -> 0 .. N] /\ v \in V /\ step \in [H -> [[H -> V] -> V]]
      /\ LooksDown(H, rank, V, step)
  BY Zenon DEF Steps
<1> DEFINE Defines(g, n) == g \in [H -> V] /\ \A x \in H : rank[x] < n => g[x] = step[x][g]
           Good == {n \in Nat : \E g : Defines(g, n)}
<1>1. 0 \in Good
  <2>1. Defines([x \in H |-> v], 0)
    BY <1>0
  <2> QED
    BY <2>1
<1>2. ASSUME NEW n \in Good PROVE n + 1 \in Good
  <2>1. PICK g : Defines(g, n)
    OBVIOUS
  <2> DEFINE h == [x \in H |-> IF rank[x] <= n THEN step[x][g] ELSE g[x]]
  <2>2. h \in [H -> V]
    BY <1>0, <2>1
  <2>3. \A x \in H : rank[x] < n => h[x] = g[x]
    BY <2>1
  <2>4. \A x \in H : rank[x] <= n => h[x] = step[x][g]
    OBVIOUS
  <2> HIDE DEF h
  <2>5. ASSUME NEW x \in H, rank[x] < n + 1 PROVE h[x] = step[x][h]
    <3>1. rank[x] \in Nat /\ \A y \in H : rank[y] \in Nat
      BY <1>0
    <3>2. rank[x] <= n
      BY <2>5, <3>1
    <3>3. \A y \in H : rank[y] < rank[x] => g[y] = h[y]
      BY <2>3, <3>1, <3>2
    <3>4. step[x][g] = step[x][h]
      BY <1>0, <2>1, <2>2, <3>3, Zenon DEF LooksDown
    <3> QED
      BY <2>4, <3>2, <3>4
  <2>6. Defines(h, n + 1)
    BY <2>2, <2>5
  <2> QED
    BY <2>6
<1>3. Good = Nat
  <2> HIDE DEF Good
  <2>1. Good \in SUBSET Nat
    BY DEF Good
  <2> QED
    BY <1>1, <1>2, <2>1, SetInduction
<1>4. PICK g : Defines(g, N + 1)
  <2>1. N + 1 \in Nat
    BY <1>0
  <2>2. N + 1 \in Good
    BY <1>3, <2>1
  <2> QED
    BY <2>2
<1>5. \A x \in H : rank[x] < N + 1
  BY <1>0
<1> QED
  BY <1>4, <1>5 DEF Solves

\* The size of a subtree, and what is outside of it.
SizeOf(b, sub) == [x \in Heads(b) |-> Cardinality(sub[x])]
RestOf(b, sub) == [x \in Heads(b) |-> Cardinality(Heads(b)) - Cardinality(sub[x])]

\* Children are smaller than their parents.
LEMMA SizesFall ==
  ASSUME NEW b, NEW sub, Tree(b, sub)
  PROVE  LET N == Cardinality(Heads(b))
             size == SizeOf(b, sub)
             rest == RestOf(b, sub)
         IN /\ N \in Nat /\ size \in [Heads(b) -> 0 .. N] /\ rest \in [Heads(b) -> 0 .. N]
            /\ \A x \in Heads(b), s \in Side :
                 LET c == b[x].child[s]
                 IN c # mHead => c \in Heads(b) /\ size[c] < size[x] /\ rest[x] < rest[c]
            /\ \A x \in Heads(b) :
                 LET p == b[x].parent
                 IN p # mHead => p \in Heads(b) /\ size[x] < size[p] /\ rest[p] < rest[x]
<1> DEFINE H == Heads(b)
           N == Cardinality(H)
           size == SizeOf(b, sub)
           rest == RestOf(b, sub)
<1>1. N \in Nat /\ \A x \in H : IsFiniteSet(sub[x]) /\ Cardinality(sub[x]) \in 0 .. N /\ sub[x] \subseteq H
  <2>0. \A x \in H : sub[x] \subseteq H
    BY DEF Tree, Subtrees, Places
  <2>1. N \in Nat /\ IsFiniteSet(H)
    BY FS_CardinalityType DEF Tree
  <2>2. \A x \in H : IsFiniteSet(sub[x]) /\ Cardinality(sub[x]) <= N
    BY <2>0, <2>1, FS_Subset
  <2>3. \A x \in H : Cardinality(sub[x]) \in Nat
    BY <2>2, FS_CardinalityType
  <2> QED
    BY <2>0, <2>1, <2>2, <2>3
<1>2. ASSUME NEW x \in H, NEW s \in Side, NEW c, c = b[x].child[s], c # mHead
      PROVE  c \in H /\ size[c] < size[x] /\ rest[x] < rest[c]
  <2>1. c \in H /\ x \in sub[x] /\ x \notin sub[c] /\ sub[c] \subseteq sub[x]
    BY <1>2, SubParts DEF Parts, Places
  <2>2. Cardinality(sub[c]) <= Cardinality(sub[x]) /\ (Cardinality(sub[c]) = Cardinality(sub[x]) => sub[c] = sub[x])
    BY <1>1, <2>1, FS_Subset
  <2>3. Cardinality(sub[c]) < Cardinality(sub[x])
    BY <1>1, <2>1, <2>2
  <2> QED
    BY <1>1, <2>1, <2>3 DEF SizeOf, RestOf
<1>3. ASSUME NEW x \in H, NEW p, p = b[x].parent, p # mHead
      PROVE  p \in H /\ size[x] < size[p] /\ rest[p] < rest[x]
  <2>1. p \in H /\ b[x].side \in Side /\ b[p].child[b[x].side] = x /\ x # mHead
    BY <1>3, HeadsTyped DEF Tree, Links, Places
  <2> QED
    BY <1>2, <2>1
<1>4. size \in [H -> 0 .. N] /\ rest \in [H -> 0 .. N]
  BY <1>1 DEF SizeOf, RestOf
<1> QED
  BY <1>1, <1>2, <1>3, <1>4

\* x has the least (LEFT) or largest (RIGHT) key of S.
Extreme(x, S, s) == x \in S /\ \A y \in S : y = x \/ Beyond(s, KeyOf[x], KeyOf[y])

\* What min_or_max computes: the function that its recursion defines.
LEMMA MinOrMaxSteps ==
  ASSUME NEW b, NEW sub, Tree(b, sub), NEW s \in Side
  PROVE  \E f \in [Heads(b) -> Heads(b)] :
           /\ \A x \in Heads(b) : f[x] = IF b[x].child[s] = mHead THEN x ELSE f[b[x].child[s]]
           /\ \A x : MinOrMax(b, x, s) = f[x]
<1> DEFINE H == Heads(b)
           step == [x \in H |-> [g \in [H -> H] |-> IF b[x].child[s] = mHead THEN x ELSE g[b[x].child[s]]]]
           Rec(h) == h = [x \in H |-> IF b[x].child[s] = mHead THEN x ELSE h[b[x].child[s]]]
           impl == CHOOSE h : Rec(h)
           size == SizeOf(b, sub)
           N == Cardinality(H)
<1>1. N \in Nat /\ size \in [H -> 0 .. N] /\ \A x \in H : b[x].child[s] # mHead => b[x].child[s] \in H /\ size[b[x].child[s]] < size[x]
  BY SizesFall
<1>2. step \in [H -> [[H -> H] -> H]]
  BY <1>1
<1>3. LooksDown(H, size, H, step)
  BY <1>1 DEF LooksDown
<1>4. \E g : Solves(g, H, H, step)
  <2>1. CASE H = {}
    <3>1. [x \in H |-> x] \in [H -> H]
      OBVIOUS
    <3> QED
      BY <2>1, <3>1, Zenon DEF Solves
  <2>2. CASE H # {}
    <3>1. PICK v : v \in H
      BY <2>2
    <3>2. Steps(H, N, size, H, v, step)
      BY <1>1, <1>2, <1>3, <3>1 DEF Steps
    <3> HIDE DEF H, step, size, N
    <3> QED
      BY <3>2, RecursionOverRank
  <2> QED
    BY <2>1, <2>2, Zenon
<1>5. PICK g \in [H -> H] : \A x \in H : g[x] = step[x][g]
  <2> HIDE DEF H, step
  <2> QED
    BY <1>4 DEF Solves
<1>6. \A x \in H : g[x] = IF b[x].child[s] = mHead THEN x ELSE g[b[x].child[s]]
  BY <1>1, <1>5
<1>7. Rec(g)
  BY <1>5, <1>6
<1>8. Rec(impl)
  BY <1>7, Zenon
<1>9. \A x : MinOrMax(b, x, s) = impl[x]
  BY Zenon DEF MinOrMax
<1> HIDE DEF impl
<1>10. \A x \in H : impl[x] = IF b[x].child[s] = mHead THEN x ELSE impl[b[x].child[s]]
  BY <1>8, Zenon
<1>11. impl \in [H -> H]
  <2> DEFINE G == {x \in H : impl[x] \in H}
  <2>1. H \subseteq G
    <3>1. \A x \in H : (\A q \in Side : b[x].child[q] # mHead => b[x].child[q] \in G) => x \in G
      BY <1>10
    <3> HIDE DEF G
    <3> QED
      BY <3>1, TreeInduction
  <2>2. impl = [x \in H |-> impl[x]]
    BY <1>8
  <2> QED
    BY <2>1, <2>2
<1> QED
  BY <1>9, <1>10, <1>11

\* min_or_max is the extreme of the subtree.
LEMMA MinOrMaxExtreme ==
  ASSUME NEW b, NEW sub, Tree(b, sub), NEW s \in Side
  PROVE  \A x \in Heads(b) : /\ Extreme(MinOrMax(b, x, s), sub[x], s)
                             /\ MinOrMax(b, x, s) \in Heads(b) /\ b[MinOrMax(b, x, s)].child[s] = mHead
<1> DEFINE H == Heads(b)
<1>1. PICK f \in [H -> H] :
           /\ \A x \in H : f[x] = IF b[x].child[s] = mHead THEN x ELSE f[b[x].child[s]]
           /\ \A x : MinOrMax(b, x, s) = f[x]
  BY MinOrMaxSteps
<1> DEFINE G == {x \in H : Extreme(f[x], sub[x], s) /\ b[f[x]].child[s] = mHead}
<1>2. ASSUME NEW x \in H, \A q \in Side : b[x].child[q] # mHead => b[x].child[q] \in G
      PROVE  x \in G
  <2> DEFINE c == b[x].child[s]
             d == b[x].child[Other(s)]
  <2>1. Parts(b, sub, x, c, d) /\ sub[mHead] = {}
    BY SubParts DEF Tree, Subtrees
  <2>2. \A y \in sub[c] : Beyond(s, KeyOf[y], KeyOf[x])
    BY DEF Tree, Subtrees
  <2>3. \A y \in sub[d] : Beyond(Other(s), KeyOf[y], KeyOf[x])
    BY Sides DEF Tree, Subtrees
  <2>k. \A u \in H, v \in H, w \in H, r \in Side :
          /\ Beyond(r, KeyOf[u], KeyOf[v]) /\ Beyond(r, KeyOf[v], KeyOf[w]) => Beyond(r, KeyOf[u], KeyOf[w])
          /\ Beyond(r, KeyOf[u], KeyOf[v]) <=> Beyond(Other(r), KeyOf[v], KeyOf[u])
    BY HeadsTyped, Sides DEF Beyond, Side, Tree
  <2>4. c # mHead => c \in G
    BY <1>2, Zenon
  <2>5. f[x] = IF c = mHead THEN x ELSE f[c]
    BY <1>1
  <2> HIDE DEF c, d
  <2>6. CASE c = mHead
    <3>1. \A y \in sub[x] : y = x \/ y \in sub[d]
      BY <2>1, <2>6 DEF Parts
    <3>2. \A y \in sub[d] : Beyond(s, KeyOf[x], KeyOf[y])
      BY <2>1, <2>3, <2>k DEF Parts
    <3> QED
      BY <2>1, <2>5, <2>6, <3>1, <3>2 DEF Extreme, Parts, c
  <2>7. CASE c # mHead
    <3>1. Extreme(f[c], sub[c], s) /\ b[f[c]].child[s] = mHead
      BY <2>4, <2>7
    <3>2. f[c] \in sub[c] /\ f[c] \in H /\ Beyond(s, KeyOf[f[c]], KeyOf[x])
      BY <2>1, <2>2, <3>1 DEF Extreme, Parts
    <3>3. \A y \in sub[d] : Beyond(s, KeyOf[f[c]], KeyOf[y])
      BY <2>1, <2>3, <2>k, <3>2 DEF Parts
    <3>4. \A y \in sub[x] : y = x \/ y \in sub[d] \/ y \in sub[c]
      BY <2>1 DEF Parts
    <3>5. Extreme(f[c], sub[x], s)
      BY <2>1, <3>1, <3>2, <3>3, <3>4 DEF Extreme, Parts
    <3> QED
      BY <2>5, <2>7, <3>1, <3>5
  <2> QED
    BY <2>6, <2>7
<1> HIDE DEF G
<1>3. H \subseteq G
  BY <1>2, TreeInduction
<1> QED
  BY <1>1, <1>3 DEF G

-----------------------------------------------------------------------------
(***************************************************************************)
(* Colours.                                                                *)
(***************************************************************************)

\* b and c differ only in colours.
SameShape(b, c) ==
  /\ DOMAIN c = DOMAIN b
  /\ \A y \in DOMAIN b : /\ c[y].near = b[y].near /\ c[y].child = b[y].child
                         /\ c[y].parent = b[y].parent /\ c[y].side = b[y].side

\* Which keeps the tree.
LEMMA ShapeTree ==
  ASSUME NEW b, NEW sub, Tree(b, sub), NEW c, Typed(c), SameShape(b, c), ~c[mHead].red
  PROVE  Tree(c, sub) /\ Heads(c) = Heads(b) /\ Places(c) = Places(b) /\ Root(c) = Root(b)
<1>1. /\ Heads(b) \subseteq DOMAIN b /\ mHead \notin Heads(b) /\ mHead \in DOMAIN b
      /\ \A y \in DOMAIN b \ {mHead} : y \in Heads(b) <=> b[y].parent # Null
  BY HeadsTyped DEF Tree, Typed
<1>2. /\ Heads(c) \subseteq DOMAIN b /\ mHead \notin Heads(c)
      /\ \A y \in DOMAIN b \ {mHead} : y \in Heads(c) <=> c[y].parent # Null
  BY HeadsTyped DEF SameShape
<1>3. Heads(c) = Heads(b)
  <2>1. \A y \in DOMAIN b : c[y].parent = b[y].parent
    BY DEF SameShape
  <2>2. \A y \in DOMAIN b \ {mHead} : y \in Heads(c) <=> y \in Heads(b)
    BY <1>1, <1>2, <2>1
  <2>3. Heads(c) \subseteq DOMAIN b \ {mHead} /\ Heads(b) \subseteq DOMAIN b \ {mHead}
    BY <1>1, <1>2
  <2> QED
    BY <2>2, <2>3
<1>4. Places(c) = Places(b) /\ Places(b) \subseteq DOMAIN b /\ mHead \in Places(b)
  BY <1>1, <1>3 DEF Places
<1>5. Root(c) = Root(b)
  BY <1>1 DEF SameShape, Root
<1>6. Links(c)
  <2>1. Links(b)
    BY DEF Tree
  <2>2. /\ c[mHead].child[RIGHT] = mHead /\ ~c[mHead].red
    BY <1>1, <2>1 DEF Links, SameShape
  <2>3. \A y \in Places(b), q \in Side : Down(c, y, q)
    <3> TAKE y \in Places(b), q \in Side
    <3>1. Down(b, y, q)
      BY ChildDown
    <3> QED
      BY <1>4, <3>1 DEF Down, SameShape
  <2>4. \A y \in Heads(b) : c[y].parent \in Places(b) /\ c[c[y].parent].child[c[y].side] = y
    <3> TAKE y \in Heads(b)
    <3>1. b[y].parent \in Places(b) /\ b[b[y].parent].child[b[y].side] = y
      BY <2>1 DEF Links
    <3> QED
      BY <1>1, <1>4, <3>1 DEF SameShape
  <2> QED
    BY <1>3, <1>4, <2>2, <2>3, <2>4 DEF Links, Down
<1>7. Subtrees(c, sub)
  <2>1. Subtrees(b, sub)
    BY DEF Tree
  <2>2. \A y \in Heads(b) : c[y].child = b[y].child
    BY <1>1 DEF SameShape
  <2> QED
    BY <1>3, <1>4, <1>5, <2>1, <2>2 DEF Subtrees
<1> QED
  BY <1>3, <1>4, <1>5, <1>6, <1>7 DEF Tree

\* What x counts on a path, and what the place on side s of p does.
Blk(b, x) == IF b[x].red THEN 0 ELSE 1
At(p, s, x, q) == IF x = p /\ q = s THEN 1 ELSE 0

\* bh counts the black nodes from a place down, the same on all paths, if the place
\* on side s of p counts one more.
Weighs(b, p, s, bh, x, q) == bh[x] = Blk(b, x) + At(p, s, x, q) + bh[b[x].child[q]]
Weighted(b, p, s, bh) ==
  /\ bh \in [Places(b) -> Nat \ {0}] /\ bh[mHead] = 1
  /\ \A x \in Heads(b), q \in Side : Weighs(b, p, s, bh, x, q)

\* x and top have exchanged colours, which made x red.
Swapped(b, c, x, top) ==
  /\ SameShape(b, c) /\ b[top].red /\ c[x].red /\ c[top].red = b[x].red
  /\ \A y \in DOMAIN b \ {x, top} : c[y].red = b[y].red

\* A rotation of a red node above its parent, whose colour it takes, keeps the
\* count of black nodes.
LEMMA SwapWeights ==
  ASSUME NEW b, NEW c, NEW sub, Tree(b, sub), Tree(c, sub),
         NEW x, NEW s, NEW top, NEW inner, NEW p, NEW ps, Turns(c, x, s, top, inner, p, ps),
         Swapped(b, c, x, top),
         NEW ep, NEW eq, NEW bh, Weighted(b, ep, eq, bh), ep # top, ~(ep = x /\ eq = Other(s))
  PROVE  Weighted(Rotate(c, x, s), ep, eq, [bh EXCEPT ![x] = bh[top], ![top] = bh[x]])
<1> DEFINE r == Rotate(c, x, s)
           o == Other(s)
           a == b[x].child[s]
           d == b[top].child[o]
           bh1 == [bh EXCEPT ![x] = bh[top], ![top] = bh[x]]
           H == Heads(b)
           P == Places(b)
<1>1. /\ Typed(r) /\ Rotates(c, r, x, s, top, inner, p, ps)
      /\ Heads(r) = Heads(c) /\ Places(r) = Places(c) /\ DOMAIN r = DOMAIN c
  BY RotateHeads
<1>2. /\ H \subseteq DOMAIN b /\ mHead \notin H /\ P = H \cup {mHead} /\ P \subseteq DOMAIN b
      /\ DOMAIN c = DOMAIN b /\ Heads(c) = H /\ Places(c) = P
  <2>1. Typed(c) /\ SameShape(b, c) /\ ~c[mHead].red
    BY Zenon DEF Swapped, Tree, Links
  <2>2. Heads(c) = Heads(b) /\ Places(c) = Places(b) /\ DOMAIN c = DOMAIN b
    BY <2>1, ShapeTree DEF SameShape
  <2> QED
    BY <2>2, HeadsTyped DEF Tree, Places
<1>3. /\ x \in H /\ s \in Side /\ top \in H /\ top = b[x].child[o] /\ inner \in P /\ inner = b[top].child[s]
      /\ p \in P /\ p = b[x].parent /\ ps \in Side /\ ps = b[x].side /\ b[p].child[ps] = x
      /\ x # top /\ inner # x /\ inner # top /\ p # x /\ p # top
  BY <1>2, ZenonT(30) DEF Turns, Swapped, SameShape
<1>4. o \in Side /\ o # s /\ (\A q \in Side : q = s \/ q = o) /\ Other(o) = s
  BY <1>3, Sides, Zenon
<1>5. Parts(b, sub, x, a, top) /\ Parts(b, sub, top, inner, d)
  BY <1>3, SubParts, Zenon
<1>6. a # x /\ a # top /\ d # x /\ d # top /\ a \in P /\ d \in P
  BY <1>5, Zenon DEF Parts
<1>7. /\ \A y \in P, q \in Side :
           r[y].child[q] = IF y = x /\ q = o THEN inner ELSE IF y = top /\ q = s THEN x
                           ELSE IF y = p /\ q = ps THEN top ELSE b[y].child[q]
      /\ \A y \in P : r[y].red = IF y = x THEN TRUE ELSE IF y = top THEN b[x].red ELSE b[y].red
  <2>1. \A y \in P : c[y].child = b[y].child
    BY <1>2 DEF Swapped, SameShape
  <2>2. \A y \in P : c[y].red = IF y = x THEN TRUE ELSE IF y = top THEN b[x].red ELSE b[y].red
    <3>1. c[x].red \in BOOLEAN
      BY <1>2, <1>3, HeadsTyped, Zenon DEF Tree
    <3> QED
      BY <1>2, <3>1, Zenon DEF Swapped
  <2>3. /\ \A y \in P, q \in Side :
             r[y].child[q] = IF y = x /\ q = o THEN inner ELSE IF y = top /\ q = s THEN x
                             ELSE IF y = p /\ q = ps THEN top ELSE c[y].child[q]
        /\ \A y \in P : r[y].red = c[y].red
    BY <1>1, <1>2 DEF Rotates
  <2> HIDE DEF r, P, o, d, a, H, bh1
  <2>4. \A y \in P : r[y].red = IF y = x THEN TRUE ELSE IF y = top THEN b[x].red ELSE b[y].red
    BY <2>2, <2>3, Zenon
  <2>5. \A y \in P, q \in Side :
           r[y].child[q] = IF y = x /\ q = o THEN inner ELSE IF y = top /\ q = s THEN x
                           ELSE IF y = p /\ q = ps THEN top ELSE b[y].child[q]
    <3> TAKE y \in P, q \in Side
    <3>1. c[y].child = b[y].child
      BY <2>1
    <3>2. r[y].child[q] = IF y = x /\ q = o THEN inner ELSE IF y = top /\ q = s THEN x
                             ELSE IF y = p /\ q = ps THEN top ELSE c[y].child[q]
      BY <2>3
    <3> QED
      BY <3>1, <3>2
  <2> QED
    BY <2>4, <2>5, Zenon
<1>8. bh \in [P -> Nat \ {0}] /\ bh[mHead] = 1 /\ \A y \in H, q \in Side : Weighs(b, ep, eq, bh, y, q)
  BY DEF Weighted
<1>9. b[top].red
  BY DEF Swapped
<1>n. \A y \in P, q \in Side : b[y].child[q] \in P
  BY ChildDown DEF Down
<1>l. \A y \in P, q \in Side : Down(b, y, q)
  BY ChildDown
<1> HIDE DEF r, o, H, P, a, d
<1>10. \A y \in P : bh1[y] = IF y = x THEN bh[top] ELSE IF y = top THEN bh[x] ELSE bh[y]
  BY <1>2, <1>3, <1>8, Zenon
<1>11. bh1 \in [P -> Nat \ {0}] /\ bh1[mHead] = 1
  BY <1>2, <1>3, <1>8, <1>10, Zenon
<1> HIDE DEF bh1
<1>12. /\ bh[x] = Blk(b, x) + At(ep, eq, x, s) + bh[a] /\ bh[x] = Blk(b, x) + bh[top]
       /\ bh[top] = bh[inner] /\ bh[top] = bh[d]
  <2>1. Weighs(b, ep, eq, bh, x, s) /\ Weighs(b, ep, eq, bh, x, o)
    BY <1>3, <1>4, <1>8, Zenon
  <2>2. Weighs(b, ep, eq, bh, top, s) /\ Weighs(b, ep, eq, bh, top, o)
    BY <1>3, <1>4, <1>8, Zenon
  <2>3. At(ep, eq, x, o) = 0 /\ At(ep, eq, top, s) = 0 /\ At(ep, eq, top, o) = 0 /\ Blk(b, top) = 0
        /\ Blk(b, x) \in Nat /\ bh[top] \in Nat /\ bh[inner] \in Nat /\ bh[d] \in Nat
    BY <1>2, <1>3, <1>6, <1>8, <1>9, Zenon DEF At, Blk, o
  <2> QED
    <3>1. bh[x] = Blk(b, x) + At(ep, eq, x, s) + bh[a] /\ bh[x] = Blk(b, x) + At(ep, eq, x, o) + bh[top]
      BY <1>3, <2>1, Zenon DEF Weighs, a
    <3>2. bh[top] = Blk(b, top) + At(ep, eq, top, s) + bh[inner] /\ bh[top] = Blk(b, top) + At(ep, eq, top, o) + bh[d]
      BY <1>3, <2>2, Zenon DEF Weighs, d
    <3> QED
      BY <2>3, <3>1, <3>2
<1>13. ASSUME NEW y \in H, NEW q \in Side PROVE Weighs(r, ep, eq, bh1, y, q)
  <2>0. y \in P
    BY <1>2
  <2>1. CASE y = x
    <3>1. r[x].red /\ bh1[x] = bh[top] /\ r[x].child[o] = inner /\ r[x].child[s] = a
      BY <1>3, <1>4, <1>7, <1>10, <2>0, <2>1, Zenon DEF a
    <3>2. bh1[inner] = bh[inner] /\ bh1[a] = bh[a] /\ bh[a] \in Nat /\ bh[top] \in Nat
      BY <1>2, <1>3, <1>6, <1>8, <1>10, Zenon
    <3>3. Blk(r, x) = 0 /\ Blk(b, x) \in Nat /\ At(ep, eq, x, o) = 0 /\ At(ep, eq, x, s) \in Nat
      BY <1>4, <3>1 DEF Blk, At, o
    <3>4. Weighs(r, ep, eq, bh1, x, o)
      <4>1. bh1[x] = Blk(r, x) + At(ep, eq, x, o) + bh1[inner]
        <5>1. bh[inner] \in Nat /\ bh1[inner] = bh[inner] /\ bh1[x] = bh[inner]
          BY <1>12, <3>1, <3>2, Zenon
        <5> QED
          BY <3>3, <5>1
      <4> QED
        BY <3>1, <4>1 DEF Weighs
    <3>5. Weighs(r, ep, eq, bh1, x, s)
      BY <1>12, <3>1, <3>2, <3>3 DEF Weighs
    <3> QED
      BY <1>4, <2>1, <3>4, <3>5
  <2>2. CASE y = top
    <3>1. r[top].red = b[x].red /\ bh1[top] = bh[x] /\ r[top].child[s] = x /\ r[top].child[o] = d
      BY <1>3, <1>4, <1>7, <1>10, <2>0, <2>2, ZenonT(30) DEF d
    <3>2. bh1[x] = bh[top] /\ bh1[d] = bh[d] /\ bh[d] \in Nat /\ bh[top] \in Nat
      BY <1>2, <1>3, <1>6, <1>8, <1>10, Zenon
    <3>3. Blk(r, top) = Blk(b, x) /\ Blk(b, x) \in Nat /\ At(ep, eq, top, o) = 0 /\ At(ep, eq, top, s) = 0
      BY <3>1 DEF Blk, At
    <3>4. Weighs(r, ep, eq, bh1, top, o)
      BY <1>12, <3>1, <3>2, <3>3 DEF Weighs
    <3>5. Weighs(r, ep, eq, bh1, top, s)
      BY <1>12, <3>1, <3>2, <3>3 DEF Weighs
    <3> QED
      BY <1>4, <2>2, <3>4, <3>5
  <2>3. CASE y # x /\ y # top
    <3>1. Blk(r, y) = Blk(b, y) /\ bh1[y] = bh[y]
      BY <1>7, <1>10, <2>0, <2>3, Zenon DEF Blk
    <3>2. Weighs(b, ep, eq, bh, y, q)
      BY <1>8
    <3>3. CASE y = p /\ q = ps
      <4>1. r[y].child[q] = top /\ b[y].child[q] = x /\ bh1[top] = bh[x]
        <5>1. top \in P
          BY <1>2, <1>3, Zenon
        <5> QED
          BY <1>3, <1>7, <1>10, <2>0, <2>3, <3>3, <5>1, Zenon
      <4> QED
        BY <3>1, <3>2, <4>1 DEF Weighs
    <3>4. CASE ~(y = p /\ q = ps)
      <4>1. r[y].child[q] = b[y].child[q]
        BY <1>7, <2>0, <2>3, <3>4
      <4>2. b[y].child[q] # x /\ b[y].child[q] # top /\ b[y].child[q] \in P
        <5>1. Down(b, y, q) /\ Down(b, x, o)
          BY <1>2, <1>3, <1>4, <1>l, Zenon
        <5> QED
          BY <1>2, <1>3, <2>3, <3>4, <5>1, Zenon DEF Down, P
      <4>3. bh1[b[y].child[q]] = bh[b[y].child[q]]
        BY <1>10, <4>2
      <4> QED
        BY <3>1, <3>2, <4>1, <4>3 DEF Weighs
    <3> QED
      BY <3>3, <3>4
  <2> QED
    BY <2>1, <2>2, <2>3
<1>14. Weighted(r, ep, eq, bh1)
  BY <1>1, <1>2, <1>11, <1>13 DEF Weighted, H, P
<1> QED
  BY <1>14 DEF r, bh1

\* Mended: top takes the colour of x, x and the far child of top, d, become black.
MendedTo(b, c, x, top, d) ==
  /\ SameShape(b, c) /\ ~b[top].red /\ b[d].red /\ c[top].red = b[x].red /\ ~c[x].red /\ ~c[d].red
  /\ \A y \in DOMAIN b \ {x, top, d} : c[y].red = b[y].red

\* With that the rotation makes up for the black node that the side s of x lacks.
LEMMA MendWeights ==
  ASSUME NEW b, NEW c, NEW sub, Tree(b, sub), Tree(c, sub),
         NEW x, NEW s, NEW top, NEW inner, NEW p, NEW ps, Turns(c, x, s, top, inner, p, ps),
         NEW d, d = b[top].child[Other(s)], d \in Heads(b), MendedTo(b, c, x, top, d),
         NEW bh, Weighted(b, x, s, bh)
  PROVE  Weighted(Rotate(c, x, s), Null, s,
                  [bh EXCEPT ![x] = bh[top], ![top] = bh[x], ![d] = bh[d] + 1])
<1> DEFINE r == Rotate(c, x, s)
           o == Other(s)
           a == b[x].child[s]
           bh1 == [bh EXCEPT ![x] = bh[top], ![top] = bh[x], ![d] = bh[d] + 1]
           H == Heads(b)
           P == Places(b)
<1>1. /\ Typed(r) /\ Rotates(c, r, x, s, top, inner, p, ps)
      /\ Heads(r) = Heads(c) /\ Places(r) = Places(c) /\ DOMAIN r = DOMAIN c
  BY RotateHeads
<1>2. /\ H \subseteq DOMAIN b /\ mHead \notin H /\ P = H \cup {mHead} /\ P \subseteq DOMAIN b /\ Null \notin H
      /\ DOMAIN c = DOMAIN b /\ Heads(c) = H /\ Places(c) = P
  <2>1. Typed(c) /\ SameShape(b, c) /\ ~c[mHead].red
    BY Zenon DEF MendedTo, Tree, Links
  <2>2. Heads(c) = Heads(b) /\ Places(c) = Places(b) /\ DOMAIN c = DOMAIN b
    BY <2>1, ShapeTree DEF SameShape
  <2> QED
    BY <2>2, HeadsTyped DEF Tree, Places
<1>3. /\ x \in H /\ s \in Side /\ top \in H /\ top = b[x].child[o] /\ inner \in P /\ inner = b[top].child[s]
      /\ p \in P /\ p = b[x].parent /\ ps \in Side /\ ps = b[x].side /\ b[p].child[ps] = x
      /\ x # top /\ inner # x /\ inner # top /\ p # x /\ p # top
  BY <1>2, ZenonT(30) DEF Turns, MendedTo, SameShape
<1>4. o \in Side /\ o # s /\ (\A q \in Side : q = s \/ q = o) /\ Other(o) = s
  BY <1>3, Sides, Zenon
<1>5. Parts(b, sub, x, a, top) /\ Parts(b, sub, top, inner, d)
  BY <1>3, SubParts, Zenon
<1>6. d \in H /\ d # x /\ d # top /\ d # inner /\ d # a /\ a # x /\ a # top /\ a \in P /\ d \in P /\ sub[d] \subseteq sub[top]
  <2>1. d \in sub[d]
    BY SubBelow, Sides
  <2>2. /\ x \notin sub[top] /\ x \notin sub[a] /\ sub[a] \cap sub[top] = {} /\ top \in sub[top]
        /\ sub[inner] \cap sub[d] = {} /\ top \notin sub[d] /\ sub[d] \subseteq sub[top] /\ a \in P
    BY <1>5, Zenon DEF Parts
  <2>3. d # x /\ d # top /\ d # inner
    BY <2>1, <2>2
  <2>4. d # a /\ a # top
    BY <2>1, <2>2
  <2>5. a # x
    BY <1>5, Zenon DEF Parts
  <2> QED
    BY <1>2, <2>2, <2>3, <2>4, <2>5
<1>7. /\ \A y \in P, q \in Side :
           r[y].child[q] = IF y = x /\ q = o THEN inner ELSE IF y = top /\ q = s THEN x
                           ELSE IF y = p /\ q = ps THEN top ELSE b[y].child[q]
      /\ r[top].red = b[x].red /\ ~r[x].red /\ ~r[d].red
      /\ \A y \in P \ {x, top, d} : r[y].red = b[y].red
  <2>1. \A y \in P : c[y].child = b[y].child
    BY <1>2 DEF MendedTo, SameShape
  <2>2. /\ \A y \in P, q \in Side :
             r[y].child[q] = IF y = x /\ q = o THEN inner ELSE IF y = top /\ q = s THEN x
                             ELSE IF y = p /\ q = ps THEN top ELSE c[y].child[q]
        /\ \A y \in P : r[y].red = c[y].red
    BY <1>1, <1>2 DEF Rotates
  <2>3. /\ c[top].red = b[x].red /\ ~c[x].red /\ ~c[d].red
        /\ \A y \in P \ {x, top, d} : c[y].red = b[y].red
    BY <1>2 DEF MendedTo
  <2>4. x \in P /\ top \in P /\ d \in P
    BY <1>2, <1>3, Zenon
  <2> HIDE DEF r, P, o, a, H, bh1
  <2>5. \A y \in P, q \in Side :
           r[y].child[q] = IF y = x /\ q = o THEN inner ELSE IF y = top /\ q = s THEN x
                           ELSE IF y = p /\ q = ps THEN top ELSE b[y].child[q]
    <3> TAKE y \in P, q \in Side
    <3>1. c[y].child = b[y].child
      BY <2>1
    <3>2. r[y].child[q] = IF y = x /\ q = o THEN inner ELSE IF y = top /\ q = s THEN x
                             ELSE IF y = p /\ q = ps THEN top ELSE c[y].child[q]
      BY <2>2
    <3> QED
      BY <3>1, <3>2
  <2>6. r[top].red = b[x].red /\ ~r[x].red /\ ~r[d].red
    BY <2>2, <2>3, <2>4
  <2>7. \A y \in P \ {x, top, d} : r[y].red = b[y].red
    BY <2>2, <2>3
  <2> QED
    BY <2>5, <2>6, <2>7
<1>8. bh \in [P -> Nat \ {0}] /\ bh[mHead] = 1 /\ \A y \in H, q \in Side : Weighs(b, x, s, bh, y, q)
  BY DEF Weighted
<1>9. ~b[top].red /\ b[d].red
  BY DEF MendedTo
<1>l. \A y \in P, q \in Side : Down(b, y, q)
  BY ChildDown
<1>o. d = b[top].child[o]
  OBVIOUS
<1> HIDE DEF r, o, H, P, a
<1>10. \A y \in P : bh1[y] = IF y = x THEN bh[top] ELSE IF y = top THEN bh[x] ELSE IF y = d THEN bh[d] + 1 ELSE bh[y]
  BY <1>2, <1>3, <1>6, <1>8, Zenon
<1>11. bh1 \in [P -> Nat \ {0}] /\ bh1[mHead] = 1
  <2>1. bh[d] + 1 \in Nat \ {0} /\ bh[top] \in Nat \ {0} /\ bh[x] \in Nat \ {0} /\ d # mHead
    <3>1. d \in P /\ top \in P /\ x \in P /\ d # mHead
      BY <1>2, <1>3, <1>6, Zenon
    <3>2. \A z \in P : bh[z] \in Nat \ {0}
      BY <1>8
    <3>3. \A n \in Nat : n + 1 \in Nat \ {0}
      OBVIOUS
    <3> QED
      BY <3>1, <3>2, <3>3
  <2>2. bh1 \in [P -> Nat \ {0}]
    BY <1>8, <2>1, Zenon
  <2> QED
    BY <1>2, <1>3, <1>8, <1>10, <2>1, <2>2, Zenon
<1> HIDE DEF bh1
<1>12. /\ bh[x] = Blk(b, x) + 1 + bh[a] /\ bh[x] = Blk(b, x) + bh[top]
       /\ bh[top] = 1 + bh[inner] /\ bh[top] = 1 + bh[d]
       /\ bh[a] \in Nat /\ bh[top] \in Nat /\ bh[inner] \in Nat /\ bh[d] \in Nat /\ Blk(b, x) \in Nat
  <2>1. Weighs(b, x, s, bh, x, s) /\ Weighs(b, x, s, bh, x, o)
    BY <1>3, <1>4, <1>8, Zenon
  <2>2. Weighs(b, x, s, bh, top, s) /\ Weighs(b, x, s, bh, top, o)
    BY <1>3, <1>4, <1>8, Zenon
  <2>3. At(x, s, x, o) = 0 /\ At(x, s, x, s) = 1 /\ At(x, s, top, s) = 0 /\ At(x, s, top, o) = 0 /\ Blk(b, top) = 1
    BY <1>3, <1>4, <1>9, Zenon DEF At, Blk
  <2>4. Blk(b, x) \in Nat /\ bh[top] \in Nat /\ bh[inner] \in Nat /\ bh[d] \in Nat /\ bh[a] \in Nat
    BY <1>2, <1>3, <1>6, <1>8, Zenon DEF Blk
  <2>5. bh[x] = Blk(b, x) + At(x, s, x, s) + bh[a] /\ bh[x] = Blk(b, x) + At(x, s, x, o) + bh[top]
    BY <1>3, <2>1, Zenon DEF Weighs, a
  <2>6. bh[top] = Blk(b, top) + At(x, s, top, s) + bh[inner] /\ bh[top] = Blk(b, top) + At(x, s, top, o) + bh[d]
    BY <1>3, <1>o, <2>2, Zenon DEF Weighs
  <2> QED
    BY <2>3, <2>4, <2>5, <2>6
<1>13. ASSUME NEW y \in H, NEW q \in Side PROVE Weighs(r, Null, s, bh1, y, q)
  <2>0. y \in P /\ At(Null, s, y, q) = 0
    BY <1>2 DEF At
  <2>1. CASE y = x
    <3>1. ~r[x].red /\ bh1[x] = bh[top] /\ r[x].child[o] = inner /\ r[x].child[s] = a
      BY <1>3, <1>4, <1>7, <1>10, <2>0, <2>1, Zenon DEF a
    <3>2. bh1[inner] = bh[inner] /\ bh1[a] = bh[a]
      BY <1>2, <1>3, <1>6, <1>10, Zenon
    <3>3. Blk(r, x) = 1
      BY <3>1 DEF Blk
    <3>4. bh1[x] = 1 + 0 + bh1[inner] /\ bh1[x] = 1 + 0 + bh1[a]
      BY <1>12, <3>1, <3>2
    <3> QED
      BY <1>4, <2>0, <2>1, <3>1, <3>3, <3>4 DEF Weighs
  <2>2. CASE y = top
    <3>1. r[top].red = b[x].red /\ bh1[top] = bh[x] /\ r[top].child[s] = x /\ r[top].child[o] = d
      BY <1>3, <1>4, <1>7, <1>10, <1>o, <2>0, <2>2, ZenonT(30)
    <3>2. bh1[x] = bh[top] /\ bh1[d] = bh[d] + 1
      BY <1>2, <1>3, <1>6, <1>8, <1>10, Zenon
    <3>3. Blk(r, top) = Blk(b, x)
      BY <3>1 DEF Blk
    <3>4. bh1[top] = Blk(b, x) + 0 + bh1[x] /\ bh1[top] = Blk(b, x) + 0 + bh1[d]
      BY <1>12, <3>1, <3>2
    <3> QED
      BY <1>4, <2>0, <2>2, <3>1, <3>3, <3>4 DEF Weighs
  <2>3. CASE y # x /\ y # top
    <3>0. r[y].child[q] # d
      <4>1. r[top].child[o] = d /\ Down(b, top, o) /\ Down(b, y, q)
        BY <1>2, <1>3, <1>4, <1>7, <1>l, <1>o, <2>0, Zenon
      <4>2. r[y].child[q] = IF y = p /\ q = ps THEN top ELSE b[y].child[q]
        BY <1>7, <2>0, <2>3
      <4> QED
        BY <1>2, <1>6, <1>o, <2>3, <4>1, <4>2 DEF Down, H
    <3>2. Weighs(b, x, s, bh, y, q) /\ At(x, s, y, q) = 0
      BY <1>8, <2>3 DEF At
    <3>3. r[y].child[q] \in P /\ bh1[r[y].child[q]] = bh[b[y].child[q]]
      <4>1. CASE y = p /\ q = ps
        <5>1. r[y].child[q] = top /\ b[y].child[q] = x /\ bh1[top] = bh[x] /\ top \in P
          BY <1>2, <1>3, <1>7, <1>10, <2>0, <2>3, <4>1, Zenon
        <5> QED
          BY <5>1
      <4>2. CASE ~(y = p /\ q = ps)
        <5>1. r[y].child[q] = b[y].child[q]
          BY <1>7, <2>0, <2>3, <4>2
        <5>2. b[y].child[q] # x /\ b[y].child[q] # top /\ b[y].child[q] \in P
          <6>1. Down(b, y, q) /\ Down(b, x, o)
            BY <1>2, <1>3, <1>4, <1>l, Zenon
          <6> QED
            BY <1>2, <1>3, <2>3, <4>2, <6>1, Zenon DEF Down, P
        <5> QED
          BY <1>10, <3>0, <5>1, <5>2
      <4> QED
        BY <4>1, <4>2
    <3>4. CASE y = d
      <4>1. Blk(r, y) = 1 /\ Blk(b, y) = 0 /\ bh1[y] = bh[y] + 1
        BY <1>6, <1>7, <1>9, <1>10, <2>0, <3>4 DEF Blk
      <4>2. bh[b[y].child[q]] \in Nat
        <5>1. Down(b, y, q)
          BY <1>l, <2>0
        <5> QED
          BY <1>8, <5>1 DEF Down, P
      <4>3. bh[y] = 0 + 0 + bh[b[y].child[q]]
        BY <3>2, <4>1 DEF Weighs
      <4>4. bh1[y] = 1 + 0 + bh1[r[y].child[q]]
        BY <3>3, <4>1, <4>2, <4>3
      <4> QED
        BY <2>0, <4>1, <4>4 DEF Weighs
    <3>5. CASE y # d
      <4>1. Blk(r, y) = Blk(b, y) /\ bh1[y] = bh[y]
        BY <1>7, <1>10, <2>0, <2>3, <3>5 DEF Blk
      <4> QED
        BY <2>0, <3>2, <3>3, <4>1 DEF Weighs
    <3> QED
      BY <3>4, <3>5
  <2> QED
    BY <2>1, <2>2, <2>3
<1>14. Weighted(r, Null, s, bh1)
  BY <1>1, <1>2, <1>11, <1>13 DEF Weighted, H, P
<1> QED
  BY <1>14 DEF r, bh1

\* Colours and counts change together at the nodes of S, by the same at their children:
\* one more if they become black, one less if they become red.
LEMMA TintWeights ==
  ASSUME NEW b, NEW c, NEW sub, Tree(b, sub), SameShape(b, c), Heads(c) = Heads(b), Places(c) = Places(b),
         NEW p, NEW s, NEW bh, Weighted(b, p, s, bh), NEW p1, NEW s1, NEW bh1,
         bh1 \in [Places(b) -> Nat \ {0}], bh1[mHead] = 1,
         \A x \in Heads(b), q \in Side :
           Blk(c, x) + At(p1, s1, x, q) + bh1[b[x].child[q]] + bh[x]
             = Blk(b, x) + At(p, s, x, q) + bh[b[x].child[q]] + bh1[x]
  PROVE  Weighted(c, p1, s1, bh1)
<1> DEFINE H == Heads(b)
           P == Places(b)
<1>1. ASSUME NEW x \in H, NEW q \in Side PROVE Weighs(c, p1, s1, bh1, x, q)
  <2>1. Weighs(b, p, s, bh, x, q) /\ Down(b, x, q)
    BY ChildDown DEF Weighted, Places
  <2>2. c[x].child = b[x].child
    BY HeadsTyped DEF SameShape, Tree
  <2>3. x \in P /\ b[x].child[q] \in P
    BY <2>1 DEF Down, Places
  <2> DEFINE z == b[x].child[q]
             n1 == Blk(c, x)
             n2 == At(p1, s1, x, q)
             n3 == Blk(b, x)
             n4 == At(p, s, x, q)
  <2>4. bh[x] \in Nat /\ bh[z] \in Nat /\ bh1[x] \in Nat /\ bh1[z] \in Nat
    BY <2>3 DEF Weighted
  <2>5. n1 \in Nat /\ n2 \in Nat /\ n3 \in Nat /\ n4 \in Nat
    BY DEF Blk, At
  <2>6. n1 + n2 + bh1[z] + bh[x] = n3 + n4 + bh[z] + bh1[x]
    OBVIOUS
  <2>7. bh[x] = n3 + n4 + bh[z]
    BY <2>1 DEF Weighs
  <2>8. c[x].child[q] = z
    BY <2>2
  <2> HIDE DEF z, n1, n2, n3, n4
  <2>9. bh1[x] = n1 + n2 + bh1[z]
    BY <2>4, <2>5, <2>6, <2>7
  <2> QED
    BY <2>8, <2>9 DEF Weighs, z, n1, n2
<1> QED
  BY <1>1 DEF Weighted

\* c has the heads of b and its rings.
Kept(b, c) ==
  /\ DOMAIN c = DOMAIN b /\ Heads(c) = Heads(b)
  /\ \A y \in DOMAIN b : c[y].near = b[y].near /\ (y \notin Places(b) => c[y].child = b[y].child)

\* The fields of the nodes after a rotation.
RotatedTo(b, r, x, s, o, top, inner, p, ps) ==
  /\ \A y \in Places(b), q \in Side :
       r[y].child[q] = IF y = x /\ q = o THEN inner ELSE IF y = top /\ q = s THEN x
                       ELSE IF y = p /\ q = ps THEN top ELSE b[y].child[q]
  /\ \A y \in Places(b) :
       /\ r[y].parent = IF y = x THEN top ELSE IF y = top THEN p ELSE IF y = inner THEN x ELSE b[y].parent
       /\ r[y].side = IF y = x THEN s ELSE IF y = top THEN ps ELSE IF y = inner THEN o ELSE b[y].side
       /\ r[y].red = b[y].red
  /\ Root(r) = IF Root(b) = x THEN top ELSE Root(b)

\* What rotate writes, in those fields; it leaves the heads and the rings.
LEMMA RotateFields ==
  ASSUME NEW b, NEW sub, Tree(b, sub), NEW x, NEW s, NEW top, NEW inner, NEW p, NEW ps,
         Turns(b, x, s, top, inner, p, ps)
  PROVE  /\ RotatedTo(b, Rotate(b, x, s), x, s, Other(s), top, inner, p, ps)
         /\ Kept(b, Rotate(b, x, s)) /\ Places(Rotate(b, x, s)) = Places(b)
<1> DEFINE r == Rotate(b, x, s)
           o == Other(s)
           P == Places(b)
<1>1. /\ Typed(r) /\ Rotates(b, r, x, s, top, inner, p, ps)
      /\ Heads(r) = Heads(b) /\ Places(r) = P /\ DOMAIN r = DOMAIN b
  BY RotateHeads
<1>2. P \subseteq DOMAIN b /\ mHead \in P /\ mHead \notin Heads(b) /\ Heads(b) \subseteq P
  BY HeadsTyped DEF Tree, Places
<1>3. /\ x \in Heads(b) /\ s \in Side /\ top \in Heads(b) /\ p \in P /\ p = b[x].parent
      /\ ps = b[x].side /\ b[p].child[ps] = x /\ x # top
  BY Zenon DEF Turns
<1> HIDE DEF r
<1>4. \A y \in P, q \in Side :
        r[y].child[q] = IF y = x /\ q = o THEN inner ELSE IF y = top /\ q = s THEN x
                       ELSE IF y = p /\ q = ps THEN top ELSE b[y].child[q]
  BY <1>1, <1>2 DEF Rotates
<1>5. \A y \in P :
       /\ r[y].parent = IF y = x THEN top ELSE IF y = top THEN p ELSE IF y = inner THEN x ELSE b[y].parent
       /\ r[y].side = IF y = x THEN s ELSE IF y = top THEN ps ELSE IF y = inner THEN o ELSE b[y].side
       /\ r[y].red = b[y].red
  BY <1>1, <1>2 DEF Rotates
<1>6. Root(r) = IF Root(b) = x THEN top ELSE Root(b)
  <2>1. LEFT \in Side /\ Down(b, mHead, LEFT)
    BY <1>2, ChildDown, Sides
  <2>2. b[mHead].child[LEFT] = x <=> p = mHead /\ ps = LEFT
    BY <1>2, <1>3, <2>1 DEF Down
  <2> HIDE DEF P, o
  <2>3. r[mHead].child[LEFT] = IF p = mHead /\ ps = LEFT THEN top ELSE b[mHead].child[LEFT]
    BY <1>2, <1>3, <1>4, <2>1
  <2> QED
    BY <2>2, <2>3 DEF Root
<1>7. Kept(b, r)
  <2>1. \A y \in DOMAIN b : r[y].near = b[y].near
    BY <1>1 DEF Rotates
  <2>2. ASSUME NEW y \in DOMAIN b, y \notin P PROVE r[y].child = b[y].child
    <3>1. \A q \in Side : r[y].child[q] = b[y].child[q]
      BY <1>1, <1>2, <1>3, <2>2 DEF Rotates
    <3>2. /\ r[y].child \in [Side -> Nodes \cup {mHead, Null}]
          /\ b[y].child \in [Side -> Nodes \cup {mHead, Null}]
      BY <1>1, <2>2 DEF Tree, Typed, Base
    <3> QED
      BY <3>1, <3>2
  <2> QED
    BY <1>1, <2>1, <2>2 DEF Kept
<1> QED
  BY <1>1, <1>4, <1>5, <1>6, <1>7 DEF RotatedTo, r

\* Recolouring nodes of the tree.
LEMMA ShapeKept ==
  ASSUME NEW b, NEW c, SameShape(b, c), Heads(c) = Heads(b)
  PROVE  Kept(b, c)
  BY DEF SameShape, Kept

\* Heads and rings that two steps keep are kept by both together.
LEMMA KeptKept ==
  ASSUME NEW b, NEW c, NEW d, Kept(b, c), Kept(c, d)
  PROVE  Kept(b, d)
<1>1. Places(c) = Places(b)
  BY DEF Kept, Places
<1> QED
  BY <1>1 DEF Kept

-----------------------------------------------------------------------------
\* No red node but those of S has a red parent.
RedsIn(b, S) == \A y \in Heads(b) : b[y].red /\ b[b[y].parent].red => y \in S

\* A rotation of a red node above a black one keeps that, if neither node that then has the
\* red one above it is red.
LEMMA SwapReds ==
  ASSUME NEW b, NEW c, NEW sub, Tree(b, sub), Tree(c, sub),
         NEW x, NEW s, NEW top, NEW inner, NEW p, NEW ps, Turns(c, x, s, top, inner, p, ps),
         Swapped(b, c, x, top), ~b[x].red, ~b[b[x].child[s]].red, ~b[inner].red,
         NEW S, RedsIn(b, S)
  PROVE  RedsIn(Rotate(c, x, s), S \ {z \in S : b[z].parent = top})
<1> DEFINE r == Rotate(c, x, s)
           o == Other(s)
           a == b[x].child[s]
           H == Heads(b)
           P == Places(b)
<1>1. RotatedTo(c, r, x, s, o, top, inner, p, ps) /\ Heads(r) = Heads(c)
  BY RotateFields DEF Kept
<1>2. /\ H \subseteq DOMAIN b /\ mHead \notin H /\ P = H \cup {mHead} /\ P \subseteq DOMAIN b
      /\ DOMAIN c = DOMAIN b /\ Heads(c) = H /\ Places(c) = P
  <2>1. Typed(c) /\ SameShape(b, c) /\ ~c[mHead].red
    BY DEF Swapped, Tree, Links
  <2>2. Heads(c) = Heads(b) /\ Places(c) = Places(b) /\ DOMAIN c = DOMAIN b
    BY <2>1, ShapeTree DEF SameShape
  <2> QED
    BY <2>2, HeadsTyped DEF Tree, Places
<1>3. /\ x \in H /\ s \in Side /\ top \in H /\ top = b[x].child[o] /\ inner \in P /\ inner = b[top].child[s]
      /\ p \in P /\ p = b[x].parent /\ ps \in Side /\ ps = b[x].side /\ b[p].child[ps] = x
      /\ x # top /\ inner # x /\ inner # top /\ p # x /\ p # top
  BY <1>2, Zenon DEF Turns, Swapped, SameShape
<1>4. o \in Side /\ o # s /\ (\A q \in Side : q = s \/ q = o)
  BY <1>3, Sides, Zenon
<1>5. \A y \in P : b[y].parent = c[y].parent /\ c[y].red = IF y = x THEN TRUE ELSE IF y = top THEN FALSE ELSE b[y].red
  <2>1. \A y \in P : c[y].red \in BOOLEAN
    BY <1>2, HeadsTyped DEF Tree
  <2> QED
    BY <1>2, <1>3, <2>1, Zenon DEF Swapped, SameShape
<1>l. \A y \in H : b[y].parent \in P /\ b[b[y].parent].child[b[y].side] = y /\ b[y].side \in Side
  BY HeadsTyped, <1>2, Zenon DEF Tree, Links
<1>6. ~b[a].red /\ ~b[inner].red /\ ~b[x].red /\ b[top].red
  BY DEF Swapped
<1> HIDE DEF r, o, H, P
<1>7. \A y \in P :
       /\ r[y].parent = IF y = x THEN top ELSE IF y = top THEN p ELSE IF y = inner THEN x ELSE b[y].parent
       /\ r[y].red = IF y = x THEN TRUE ELSE IF y = top THEN FALSE ELSE b[y].red
  <2>1. \A y \in P :
       /\ r[y].parent = IF y = x THEN top ELSE IF y = top THEN p ELSE IF y = inner THEN x ELSE c[y].parent
       /\ r[y].red = c[y].red
    BY <1>1, <1>2 DEF RotatedTo
  <2> QED
    BY <1>5, <2>1, Zenon
<1>8. ASSUME NEW y \in H, r[y].red, r[r[y].parent].red PROVE y \in S /\ b[y].parent # top
  <2>0. y \in P /\ x \in P /\ top \in P
    BY <1>2, <1>3, Zenon
  <2>1. y # x /\ y # top
    BY <1>3, <1>7, <1>8, <2>0, Zenon
  <2>2. y # inner
    BY <1>6, <1>7, <1>8, <2>0, <2>1, Zenon
  <2>3. r[y].parent = b[y].parent /\ b[y].red
    BY <1>7, <1>8, <2>0, <2>1, <2>2, Zenon
  <2>4. b[y].parent \in P
    BY <1>l
  <2>5. b[y].parent # x
    <3>1. CASE b[y].parent = x
      <4>1. y = b[x].child[s] \/ y = b[x].child[o]
        BY <1>4, <1>l, <3>1
      <4> QED
        BY <1>3, <1>6, <2>1, <2>3, <4>1, Zenon
    <3> QED
      BY <3>1
  <2>6. b[y].parent # top
    BY <1>3, <1>7, <1>8, <2>0, <2>3, Zenon
  <2>7. b[b[y].parent].red
    BY <1>7, <1>8, <2>3, <2>4, <2>5, <2>6, Zenon
  <2> QED
    BY <2>3, <2>6, <2>7 DEF RedsIn, H
<1> QED
  BY <1>1, <1>2, <1>8 DEF RedsIn, r, H

-----------------------------------------------------------------------------
(***************************************************************************)
(* The turns of insert_fixup.                                              *)
(***************************************************************************)

\* cur is red below the red p, the child of the black pp on side s, and their only fault.
Fault(b, cur, p, pp, s) ==
  /\ cur \in Heads(b) /\ p \in Heads(b) /\ pp \in Heads(b)
  /\ p = b[cur].parent /\ pp = b[p].parent /\ s = b[p].side
  /\ b[cur].red /\ b[p].red /\ ~b[pp].red /\ RedsIn(b, {cur}) /\ ~b[Root(b)].red

\* A node is in its subtree.
LEMMA InSub ==
  ASSUME NEW b, NEW sub, Tree(b, sub)
  PROVE  \A x \in Heads(b) : x \in sub[x]
<1> TAKE x \in Heads(b)
<1>1. LEFT \in Side
  BY Sides
<1>2. Parts(b, sub, x, b[x].child[LEFT], b[x].child[Other(LEFT)])
  BY <1>1, SubParts
<1> QED
  BY <1>2 DEF Parts

\* A rotation brings cur to the outside.
LEMMA OutsideFault ==
  ASSUME NEW b, NEW sub, Tree(b, sub), NEW bh, Weighted(b, Null, LEFT, bh),
         NEW cur, NEW p, NEW pp, NEW s, Fault(b, cur, p, pp, s)
  PROVE  LET b1 == Outside(b, cur).tree
             cur1 == Outside(b, cur).cur
             p1 == b1[cur1].parent
             u == Other(s)
         IN /\ \E sub1 : Tree(b1, sub1)
            /\ \E bh1 : Weighted(b1, Null, LEFT, bh1)
            /\ Fault(b1, cur1, p1, pp, s) /\ b1[p1].child[s] = cur1 /\ Kept(b, b1)
            /\ b1[pp].child[u] = b[pp].child[u] /\ b1[b[pp].child[u]].red = b[b[pp].child[u]].red
<1> DEFINE o == Other(s)
           H == Heads(b)
           P == Places(b)
           r == Rotate(b, p, s)
           inner == b[cur].child[s]
<1>1. /\ cur \in H /\ p \in H /\ pp \in H
      /\ p = b[cur].parent /\ pp = b[p].parent /\ s = b[p].side
      /\ b[cur].red /\ b[p].red /\ ~b[pp].red /\ RedsIn(b, {cur}) /\ ~b[Root(b)].red
  BY DEF Fault
<1>2. /\ H \subseteq DOMAIN b /\ mHead \notin H /\ P = H \cup {mHead} /\ P \subseteq DOMAIN b /\ Null \notin H
  BY HeadsTyped DEF Tree, Places
<1>3. s \in Side /\ o \in Side /\ o # s /\ (\A q \in Side : q = s \/ q = o)
  <2>1. s \in Side
    BY <1>1, HeadsTyped DEF Tree
  <2> QED
    BY <2>1, Sides
<1>4. Outside(b, cur) = IF cur = b[p].child[o] THEN [tree |-> r, cur |-> p] ELSE [tree |-> b, cur |-> cur]
  BY <1>1 DEF Outside
<1>l. /\ \A y \in H : b[y].parent \in P /\ b[b[y].parent].child[b[y].side] = y /\ b[y].side \in Side
      /\ \A y \in P, q \in Side : Down(b, y, q)
  BY HeadsTyped, <1>2, ChildDown, Zenon DEF Tree, Links
<1>u. b[pp].child[o] \in P /\ b[pp].child[o] # p /\ b[pp].child[o] # cur /\ b[pp].child[s] = p
  <2>1. Down(b, pp, o) /\ b[pp].child[s] = p
    BY <1>1, <1>2, <1>3, <1>l, Zenon
  <2>2. p # pp
    BY <1>1
  <2> QED
    BY <1>1, <1>2, <1>3, <2>1, <2>2, Zenon DEF Down, P
<1>5. CASE cur # b[p].child[o]
  <2>1. Outside(b, cur).tree = b /\ Outside(b, cur).cur = cur
    BY <1>4, <1>5
  <2>2. b[p].child[s] = cur
    BY <1>1, <1>3, <1>5, <1>l, Zenon
  <2>3. Kept(b, b)
    BY DEF Kept
  <2> QED
    BY <1>1, <2>1, <2>2, <2>3, Zenon
<1>6. CASE cur = b[p].child[o]
  <2>1. Outside(b, cur).tree = r /\ Outside(b, cur).cur = p
    BY <1>4, <1>6
  <2>2. Turns(b, p, s, cur, inner, pp, s)
    <3>1. b[p].child[Other(s)] # mHead
      BY <1>1, <1>2, <1>6, Zenon
    <3> QED
      BY <1>1, <1>3, <1>6, <3>1, TurnsApart, Zenon
  <2>3. \E sub1 : Tree(r, sub1)
    BY <2>2, RotateTree, Zenon
  <2>4. \E bh1 : Weighted(r, Null, LEFT, bh1)
    <3>1. Swapped(b, b, p, cur)
      BY <1>1 DEF Swapped, SameShape
    <3>2. Null # cur /\ Null # p
      BY <1>1, <1>2
    <3>3. Weighted(r, Null, LEFT, [bh EXCEPT ![p] = bh[cur], ![cur] = bh[p]])
      BY <2>2, <3>1, <3>2, SwapWeights
    <3> QED
      BY <3>3, Zenon
  <2>5. RotatedTo(b, r, p, s, o, cur, inner, pp, s) /\ Kept(b, r) /\ Places(r) = P /\ Heads(r) = H
    BY <2>2, RotateFields DEF Kept
  <2>6. inner \in P /\ inner # p /\ inner # cur /\ pp # p /\ pp # cur /\ p # cur
    BY <2>2, Zenon DEF Turns
  <2>7. p \in P /\ cur \in P /\ pp \in P /\ mHead \in P
    BY <1>1, <1>2
  <2>8. r[p].parent = cur /\ r[cur].parent = pp /\ r[cur].side = s /\ r[cur].child[s] = p
    BY <1>3, <2>5, <2>6, <2>7 DEF RotatedTo
  <2>9. \A y \in P : r[y].red = b[y].red
    BY <2>5 DEF RotatedTo
  <2>10. ~b[inner].red
    <3>1. CASE inner = mHead
      BY <3>1 DEF Tree, Links
    <3>2. CASE inner # mHead
      <4>1. inner \in H /\ b[inner].parent = cur
        BY <1>2, <1>3, <1>l, <2>6, <2>7, <3>2 DEF Down
      <4> QED
        BY <1>1, <2>6, <4>1, Zenon DEF RedsIn
    <3> QED
      BY <3>1, <3>2
  <2>11. RedsIn(r, {p})
    <3> SUFFICES ASSUME NEW y \in H, r[y].red, r[r[y].parent].red, y # p PROVE FALSE
      BY <2>5 DEF RedsIn
    <3>0. y \in P /\ b[y].red
      BY <1>2, <2>9
    <3>1. y # cur
      <4>1. ~r[pp].red
        BY <1>1, <2>7, <2>9, Zenon
      <4> HIDE DEF r
      <4> QED
        BY <2>8, <4>1
    <3>2. y # inner
      BY <2>10, <3>0
    <3>3. r[y].parent = b[y].parent
      BY <2>5, <3>0, <3>1, <3>2 DEF RotatedTo
    <3>4. b[y].parent \in P
      BY <1>l
    <3> QED
      BY <1>1, <2>9, <3>0, <3>1, <3>3, <3>4, Zenon DEF RedsIn
  <2>12. Root(r) = Root(b) /\ Root(b) \in P
    <3>1. Root(b) # p
      BY <1>1
    <3>2. Root(b) \in P
      BY <2>7, <1>l, Sides DEF Root, Down, P
    <3> QED
      BY <2>5, <3>1, <3>2 DEF RotatedTo
  <2>13. Fault(r, p, cur, pp, s)
    BY <1>1, <2>5, <2>7, <2>8, <2>9, <2>11, <2>12, Zenon DEF Fault
  <2>14. r[pp].child[o] = b[pp].child[o]
    BY <1>3, <2>5, <2>6, <2>7 DEF RotatedTo
  <2>15. r[b[pp].child[o]].red = b[b[pp].child[o]].red
    BY <1>u, <2>9
  <2> HIDE DEF r
  <2> QED
    BY <2>1, <2>3, <2>4, <2>5, <2>8, <2>13, <2>14, <2>15
<1> QED
  BY <1>5, <1>6, Zenon

\* r is b with its fault ended, cur red as it was.
Ended(b, r, cur) ==
  /\ \E sub1 : Tree(r, sub1)
  /\ \E bh1 : Weighted(r, Null, LEFT, bh1)
  /\ Kept(b, r) /\ RedsIn(r, {}) /\ ~r[Root(r)].red /\ r[cur].red

\* A rotation of p above pp, which exchange colours, ends the fault.
LEMMA RotateFault ==
  ASSUME NEW b, NEW sub, Tree(b, sub), NEW bh, Weighted(b, Null, LEFT, bh),
         NEW cur, NEW p, NEW pp, NEW s, Fault(b, cur, p, pp, s), b[p].child[s] = cur,
         ~b[b[pp].child[Other(s)]].red
  PROVE  Ended(b, Rotate([b EXCEPT ![p].red = FALSE, ![pp].red = TRUE], pp, Other(s)), cur)
<1> DEFINE o == Other(s)
           H == Heads(b)
           P == Places(b)
           c1 == [b EXCEPT ![p].red = FALSE]
           c == [c1 EXCEPT ![pp].red = TRUE]
           r == Rotate(c, pp, o)
           inner == b[p].child[o]
           g == b[pp].parent
           gs == b[pp].side
<1>1. /\ cur \in H /\ p \in H /\ pp \in H
      /\ p = b[cur].parent /\ pp = b[p].parent /\ s = b[p].side
      /\ b[cur].red /\ b[p].red /\ ~b[pp].red /\ RedsIn(b, {cur}) /\ ~b[Root(b)].red
  BY Zenon DEF Fault
<1>2. /\ H \subseteq DOMAIN b /\ mHead \notin H /\ P = H \cup {mHead} /\ P \subseteq DOMAIN b /\ Null \notin H
  BY HeadsTyped DEF Tree, Places
<1>3. s \in Side /\ o \in Side /\ o # s /\ (\A q \in Side : q = s \/ q = o) /\ Other(o) = s
  <2>1. s \in Side
    BY <1>1, HeadsTyped, Zenon DEF Tree
  <2> QED
    BY <2>1, Sides
<1>l. /\ \A y \in H : b[y].parent \in P /\ b[b[y].parent].child[b[y].side] = y /\ b[y].side \in Side
      /\ \A y \in P, q \in Side : Down(b, y, q)
  BY HeadsTyped, <1>2, ChildDown, Zenon DEF Tree, Links
<1>4. Turns(b, pp, o, p, inner, g, gs)
  <2>1. b[pp].child[Other(o)] = p /\ p # mHead
    <3>1. b[pp].child[s] = p
      BY <1>1, <1>l, Zenon
    <3>2. p # mHead
      BY <1>1, <1>2, Zenon
    <3> QED
      BY <1>3, <3>1, <3>2, Zenon
  <2> QED
    BY <1>1, <1>3, <2>1, TurnsApart, Zenon
<1>5. inner \in P /\ inner # p /\ inner # pp /\ p # pp /\ g \in P /\ inner # cur
  <2>1. Parts(b, sub, p, cur, inner)
    BY <1>1, <1>3, SubParts, Zenon
  <2>2. cur \in sub[cur]
    BY <1>1, InSub, Zenon
  <2> QED
    BY <1>4, <2>1, <2>2, Zenon DEF Turns, Parts
<1>6. Typed(c1) /\ Colours(b, c1, p, FALSE)
  BY <1>1, <1>2, ColourColours, Zenon DEF Tree
<1> HIDE DEF c1
<1>7. DOMAIN c1 = DOMAIN b
  BY <1>6 DEF Colours
<1>8. Typed(c) /\ Colours(c1, c, pp, TRUE)
  BY <1>1, <1>2, <1>6, <1>7, ColourColours, Zenon
<1>9. [b EXCEPT ![p].red = FALSE, ![pp].red = TRUE] = c
  BY DEF c, c1
<1> HIDE DEF c
<1>10. DOMAIN c = DOMAIN b /\ SameShape(b, c)
  BY <1>6, <1>7, <1>8, ZenonT(30) DEF Colours, SameShape
<1>11. \A y \in DOMAIN b : c[y].red = IF y = pp THEN TRUE ELSE IF y = p THEN FALSE ELSE b[y].red
  <2>1. \A y \in DOMAIN b : c1[y].red = IF y = p THEN FALSE ELSE b[y].red
    BY <1>6, Zenon DEF Colours
  <2>2. \A y \in DOMAIN b : c[y].red = IF y = pp THEN TRUE ELSE c1[y].red
    BY <1>7, <1>8, Zenon DEF Colours
  <2> QED
    BY <2>1, <2>2, Zenon
<1>12. Tree(c, sub) /\ Heads(c) = H /\ Places(c) = P /\ Root(c) = Root(b)
  <2>1. ~c[mHead].red
    BY <1>1, <1>2, <1>11, Zenon DEF Tree, Links, Typed
  <2> QED
    BY <1>8, <1>10, <2>1, ShapeTree
<1>13. Swapped(b, c, pp, p)
  <2>1. b[pp].red = FALSE /\ pp \in DOMAIN b /\ p \in DOMAIN b
    BY <1>1, <1>2, HeadsTyped, Zenon DEF Tree
  <2>2. c[pp].red = TRUE /\ c[p].red = FALSE
    BY <1>5, <1>11, <2>1, Zenon
  <2>3. \A y \in DOMAIN b \ {pp, p} : c[y].red = b[y].red
    BY <1>11, Zenon
  <2> QED
    BY <1>1, <1>10, <2>1, <2>2, <2>3, Zenon DEF Swapped
<1>14. Turns(c, pp, o, p, inner, g, gs)
  <2>1. \A y \in P : c[y].child = b[y].child /\ c[y].parent = b[y].parent /\ c[y].side = b[y].side
    BY <1>2, <1>10 DEF SameShape
  <2> QED
    BY <1>2, <1>4, <1>12, <2>1 DEF Turns
<1>15. \E sub1 : Tree(r, sub1)
  BY <1>12, <1>14, RotateTree, Zenon
<1>16. \E bh1 : Weighted(r, Null, LEFT, bh1)
  <2>1. Null # p /\ Null # pp
    BY <1>1, <1>2, Zenon
  <2>2. Weighted(r, Null, LEFT, [bh EXCEPT ![pp] = bh[p], ![p] = bh[pp]])
    <3>1. Tree(c, sub)
      BY <1>12
    <3> HIDE DEF o, inner, g, gs
    <3> QED
      BY <1>13, <1>14, <2>1, <3>1, SwapWeights
  <2> QED
    BY <2>2, Zenon
<1>17. RotatedTo(c, r, pp, o, s, p, inner, g, gs) /\ Kept(b, r)
  <2>1. RotatedTo(c, r, pp, o, s, p, inner, g, gs) /\ Kept(c, r)
    BY <1>3, <1>12, <1>14, RotateFields
  <2>2. Kept(b, c)
    BY <1>10, <1>12, ShapeKept
  <2> QED
    BY <2>1, <2>2, KeptKept
<1>18. RedsIn(r, {})
  <2>1. ~b[inner].red
    <3>1. CASE inner = mHead
      BY <3>1 DEF Tree, Links
    <3>2. CASE inner # mHead
      <4>1. inner \in H /\ b[inner].parent = p
        BY <1>1, <1>2, <1>3, <1>l, <1>5, <3>2, Zenon DEF Down
      <4> QED
        BY <1>1, <1>5, <4>1, Zenon DEF RedsIn
    <3> QED
      BY <3>1, <3>2
  <2>2. RedsIn(r, {cur} \ {z \in {cur} : b[z].parent = p})
    <3>1. ~b[pp].red /\ ~b[b[pp].child[o]].red /\ RedsIn(b, {cur}) /\ Tree(c, sub)
      BY <1>1, <1>12, Zenon
    <3> HIDE DEF o, inner, g, gs
    <3> QED
      BY <1>13, <1>14, <2>1, <3>1, SwapReds
  <2>3. {cur} \ {z \in {cur} : b[z].parent = p} = {}
    BY <1>1, Zenon
  <2> QED
    BY <2>2, <2>3, Zenon
<1>19. \A y \in P : r[y].red = IF y = pp THEN TRUE ELSE IF y = p THEN FALSE ELSE b[y].red
  BY <1>2, <1>11, <1>12, <1>17, ZenonT(30) DEF RotatedTo
<1>20. ~r[Root(r)].red
  <2>1. Root(b) \in P
    BY <1>2, <1>l, Sides DEF Root, Down, P
  <2>2. Root(r) = IF Root(b) = pp THEN p ELSE Root(b)
    BY <1>12, <1>17 DEF RotatedTo
  <2> QED
    BY <1>1, <1>2, <1>5, <1>19, <2>1, <2>2, ZenonT(30)
<1>21. r[cur].red
  <2>1. cur # pp /\ cur # p /\ cur \in P
    BY <1>1, <1>2, <1>5, Zenon
  <2> QED
    BY <1>1, <1>19, <2>1, Zenon
<1> HIDE DEF r
<1>22. Rotate([b EXCEPT ![p].red = FALSE, ![pp].red = TRUE], pp, Other(s)) = r
  BY <1>9, Zenon DEF r, o
<1>23. Ended(b, r, cur)
  BY <1>15, <1>16, <1>17, <1>18, <1>20, <1>21 DEF Ended
<1> QED
  BY <1>22, <1>23

\* What runs, and where it is.
AtWork(op, cur) == [op |-> op, cur |-> cur]
Fits(b, f) ==
  \/ f = Idle
  \/ f = AtWork("insert", f.cur) /\ f.cur \in Heads(b) /\ b[f.cur].red
  \/ /\ f = AtWork("erase", f.cur) /\ f.cur \in Places(b)
     /\ b[f.cur].parent \in Places(b) /\ b[f.cur].side \in Side
     /\ b[b[f.cur].parent].child[b[f.cur].side] = f.cur
     /\ f.cur = Root(b) \/ b[f.cur].parent \in Heads(b)

\* The only faults in the colours are at the node where the loop is.
Reds(b, f) ==
  /\ \A y \in Heads(b) : b[y].red /\ b[b[y].parent].red =>
       f.cur = y \/ (f.op = "erase" /\ f.cur = b[y].parent)
  /\ b[Root(b)].red => f.cur = Root(b)

\* Where the paths lack a black node.
LackAt(b, f) == IF f.op = "erase" THEN b[f.cur].parent ELSE Null
LackSide(b, f) == IF f.op = "erase" THEN b[f.cur].side ELSE LEFT

Fixing(b, f) ==
  /\ Fits(b, f) /\ Reds(b, f)
  /\ \E sub : Tree(b, sub)
  /\ \E bh : Weighted(b, LackAt(b, f), LackSide(b, f), bh)

\* The two parts of what runs.
LEMMA Ops ==
  /\ Idle.op = "idle" /\ Idle.cur = Null
  /\ \A op, cur : AtWork(op, cur).op = op /\ AtWork(op, cur).cur = cur
  BY DEF Idle, AtWork

\* Which of the tests of a loop is taken.
LEMMA FitsInsert ==
  ASSUME NEW b, NEW f, Fits(b, f), f.op = "insert"
  PROVE  f.cur \in Heads(b) /\ b[f.cur].red /\ f = AtWork("insert", f.cur) /\ LackAt(b, f) = Null /\ LackSide(b, f) = LEFT
  BY Ops DEF Fits, LackAt, LackSide

\* The same for the loop of erase_fixup.
LEMMA FitsErase ==
  ASSUME NEW b, NEW f, Fits(b, f), f.op = "erase"
  PROVE  /\ f.cur \in Places(b) /\ b[f.cur].parent \in Places(b) /\ b[f.cur].side \in Side
         /\ b[b[f.cur].parent].child[b[f.cur].side] = f.cur /\ f = AtWork("erase", f.cur)
         /\ f.cur = Root(b) \/ b[f.cur].parent \in Heads(b)
         /\ LackAt(b, f) = b[f.cur].parent /\ LackSide(b, f) = b[f.cur].side
  BY Ops DEF Fits, LackAt, LackSide

\* A tree that has no fault.
Sound(b) ==
  /\ \E sub : Tree(b, sub)
  /\ \E bh : Weighted(b, Null, LEFT, bh)
  /\ RedsIn(b, {}) /\ ~b[Root(b)].red

\* A tree without a fault is what there is when nothing runs.
LEMMA SoundFixing ==
  ASSUME NEW b, Sound(b)
  PROVE  Fixing(b, Idle)
<1>1. LackAt(b, Idle) = Null /\ LackSide(b, Idle) = LEFT
  BY Ops DEF LackAt, LackSide
<1>2. Fits(b, Idle)
  BY DEF Fits
<1>3. Reds(b, Idle)
  BY DEF Reds, Sound, RedsIn
<1> QED
  BY <1>1, <1>2, <1>3 DEF Fixing, Sound

\* The root is a place, and what is in the tree is typed.
LEMMA PlacesOfTree ==
  ASSUME NEW b, NEW sub, Tree(b, sub)
  PROVE  /\ Heads(b) \subseteq DOMAIN b /\ mHead \notin Heads(b) /\ Places(b) = Heads(b) \cup {mHead}
         /\ Places(b) \subseteq DOMAIN b /\ Null \notin Places(b) /\ Root(b) \in Places(b)
         /\ ~b[mHead].red /\ Typed(b)
         /\ \A y \in Heads(b) : b[y].parent \in Places(b) /\ b[b[y].parent].child[b[y].side] = y /\ b[y].side \in Side
         /\ \A y \in Places(b), q \in Side : Down(b, y, q)
         /\ Root(b) # mHead => b[Root(b)].parent = mHead
         /\ \A y \in Heads(b) : b[y].parent = mHead => y = Root(b)
<1>1. /\ Heads(b) \subseteq DOMAIN b /\ mHead \notin Heads(b) /\ Places(b) = Heads(b) \cup {mHead}
      /\ Places(b) \subseteq DOMAIN b /\ Null \notin Places(b)
  BY HeadsTyped DEF Tree, Places
<1>2. \A y \in Places(b), q \in Side : Down(b, y, q)
  BY ChildDown
<1>3. Root(b) \in Places(b) /\ (Root(b) # mHead => b[Root(b)].parent = mHead)
  BY <1>1, <1>2, Sides DEF Root, Down
<1>4. \A y \in Heads(b) : b[y].parent \in Places(b) /\ b[b[y].parent].child[b[y].side] = y /\ b[y].side \in Side
  BY HeadsTyped DEF Tree, Links
<1>5. \A y \in Heads(b) : b[y].parent = mHead => y = Root(b)
  <2> SUFFICES ASSUME NEW y \in Heads(b), b[y].parent = mHead PROVE y = Root(b)
    OBVIOUS
  <2>1. b[mHead].child[b[y].side] = y /\ b[y].side \in Side
    BY <1>4
  <2>2. b[mHead].child[RIGHT] = mHead
    BY DEF Tree, Links
  <2> QED
    BY <1>1, <2>1, <2>2 DEF Root, Side
<1> QED
  BY <1>1, <1>2, <1>3, <1>4, <1>5, Zenon DEF Tree, Links

\* The faults of a running insertion.
LEMMA InsertFault ==
  ASSUME NEW b, NEW f, Fixing(b, f), f.op = "insert", NEW p, p = b[f.cur].parent, b[p].red
  PROVE  Fault(b, f.cur, p, b[p].parent, b[p].side)
<1>1. PICK sub : Tree(b, sub)
  BY DEF Fixing
<1>2. f.cur \in Heads(b) /\ b[f.cur].red
  BY FitsInsert DEF Fixing
<1>3. /\ mHead \notin Heads(b) /\ Places(b) = Heads(b) \cup {mHead} /\ Root(b) \in Places(b) /\ ~b[mHead].red
      /\ \A y \in Heads(b) : b[y].parent \in Places(b)
      /\ \A y \in Heads(b) : b[y].parent = mHead => y = Root(b)
      /\ Root(b) # mHead => b[Root(b)].parent = mHead
  BY <1>1, PlacesOfTree
<1>4. p \in Heads(b) /\ p # f.cur
  <2>1. p \in Heads(b)
    BY <1>2, <1>3
  <2>2. p # f.cur
    <3>1. \A y \in Heads(b) : b[y].parent # y
      <4> SUFFICES ASSUME NEW y \in Heads(b), b[y].parent = y PROVE FALSE
        OBVIOUS
      <4>1. b[y].side \in Side /\ b[y].child[b[y].side] = y
        BY <1>1, PlacesOfTree
      <4>2. Parts(b, sub, y, b[y].child[b[y].side], b[y].child[Other(b[y].side)])
        BY <1>1, <4>1, SubParts
      <4> QED
        BY <4>1, <4>2, Zenon DEF Parts
    <3> QED
      BY <1>2, <3>1
  <2> QED
    BY <2>1, <2>2
<1>5. ~b[Root(b)].red
  <2>1. b[Root(b)].red => f.cur = Root(b)
    BY DEF Fixing, Reds
  <2>2. f.cur = Root(b) => p = mHead
    BY <1>2, <1>3
  <2> QED
    BY <1>3, <1>4, <2>1, <2>2
<1>6. RedsIn(b, {f.cur})
  BY DEF Fixing, Reds, RedsIn
<1>7. b[p].parent \in Heads(b)
  BY <1>3, <1>4, <1>5
<1>8. ~b[b[p].parent].red
  BY <1>4, <1>6 DEF RedsIn
<1> QED
  BY <1>2, <1>4, <1>5, <1>6, <1>7, <1>8, Zenon DEF Fault

\* c is b with other colours of x, y and z, where the last one written counts.
Painted(b, c, x, u, y, v, z, w) ==
  /\ Typed(c) /\ SameShape(b, c)
  /\ \A n \in DOMAIN b : c[n].red = IF n = z THEN w ELSE IF n = y THEN v ELSE IF n = x THEN u ELSE b[n].red

PaintOver(b, x, u, y, v, z, w) == [b EXCEPT ![x].red = u, ![y].red = v, ![z].red = w]

\* Assigning three colours does that,
LEMMA PaintThree ==
  ASSUME NEW b, Typed(b), NEW x \in DOMAIN b, NEW y \in DOMAIN b, NEW z \in DOMAIN b,
         NEW u \in BOOLEAN, NEW v \in BOOLEAN, NEW w \in BOOLEAN
  PROVE  Painted(b, PaintOver(b, x, u, y, v, z, w), x, u, y, v, z, w)
<1> DEFINE c1 == [b EXCEPT ![x].red = u]
           c2 == [c1 EXCEPT ![y].red = v]
           c3 == [c2 EXCEPT ![z].red = w]
<1>5. Typed(c1) /\ Colours(b, c1, x, u)
  BY ColourColours
<1> HIDE DEF c1
<1>6. DOMAIN c1 = DOMAIN b
  BY <1>5 DEF Colours
<1>7. Typed(c2) /\ Colours(c1, c2, y, v)
  BY <1>5, <1>6, ColourColours, Zenon
<1> HIDE DEF c2
<1>8. DOMAIN c2 = DOMAIN b
  BY <1>6, <1>7 DEF Colours
<1>9. Typed(c3) /\ Colours(c2, c3, z, w)
  BY <1>7, <1>8, ColourColours, Zenon
<1>10. PaintOver(b, x, u, y, v, z, w) = c3
  BY DEF c3, c2, c1, PaintOver
<1> HIDE DEF c3
<1>11. Painted(b, c3, x, u, y, v, z, w)
  BY <1>5, <1>6, <1>7, <1>8, <1>9 DEF Colours, SameShape, Painted
<1> QED
  BY <1>10, <1>11

\* assigning two does,
LEMMA PaintTwo ==
  ASSUME NEW b, Typed(b), NEW x \in DOMAIN b, NEW y \in DOMAIN b, NEW u \in BOOLEAN, NEW v \in BOOLEAN
  PROVE  Painted(b, [b EXCEPT ![x].red = u, ![y].red = v], x, u, x, u, y, v)
<1> DEFINE c1 == [b EXCEPT ![x].red = u]
           c2 == [c1 EXCEPT ![y].red = v]
<1>5. Typed(c1) /\ Colours(b, c1, x, u)
  BY ColourColours
<1> HIDE DEF c1
<1>6. DOMAIN c1 = DOMAIN b
  BY <1>5 DEF Colours
<1>7. Typed(c2) /\ Colours(c1, c2, y, v)
  BY <1>5, <1>6, ColourColours, Zenon
<1>10. [b EXCEPT ![x].red = u, ![y].red = v] = c2
  BY DEF c2, c1
<1> HIDE DEF c2
<1>11. Painted(b, c2, x, u, x, u, y, v)
  BY <1>5, <1>6, <1>7 DEF Colours, SameShape, Painted
<1> QED
  BY <1>10, <1>11, Zenon

\* and assigning one.
LEMMA PaintOne ==
  ASSUME NEW b, Typed(b), NEW x \in DOMAIN b, NEW u \in BOOLEAN
  PROVE  Painted(b, [b EXCEPT ![x].red = u], x, u, x, u, x, u)
  BY ColourColours DEF Colours, SameShape, Painted

\* c is b with its fault at pp.
Raised(b, c, sub, pp) ==
  /\ Tree(c, sub) /\ Kept(b, c) /\ SameShape(b, c) /\ RedsIn(c, {pp}) /\ pp \in Heads(c) /\ c[pp].red
  /\ c[Root(c)].red => pp = Root(c)
  /\ \E bh1 : Weighted(c, Null, LEFT, bh1)

\* A red uncle: the fault goes up two levels.
LEMMA RecolourFault ==
  ASSUME NEW b, NEW sub, Tree(b, sub), NEW bh, Weighted(b, Null, LEFT, bh),
         NEW cur, NEW p, NEW pp, NEW s, Fault(b, cur, p, pp, s),
         NEW u, u = b[pp].child[Other(s)], b[u].red,
         NEW c, Painted(b, c, p, FALSE, u, FALSE, pp, TRUE)
  PROVE  Raised(b, c, sub, pp)
<1> DEFINE o == Other(s)
           H == Heads(b)
           P == Places(b)
           bh1 == [bh EXCEPT ![p] = bh[p] + 1, ![u] = bh[u] + 1]
<1>1. /\ cur \in H /\ p \in H /\ pp \in H
      /\ p = b[cur].parent /\ pp = b[p].parent /\ s = b[p].side
      /\ b[cur].red /\ b[p].red /\ ~b[pp].red /\ RedsIn(b, {cur}) /\ ~b[Root(b)].red
  BY Zenon DEF Fault
<1>2. /\ H \subseteq DOMAIN b /\ mHead \notin H /\ P = H \cup {mHead} /\ P \subseteq DOMAIN b /\ Null \notin P
      /\ ~b[mHead].red /\ Typed(b) /\ Root(b) \in P
      /\ \A y \in H : b[y].parent \in P /\ b[b[y].parent].child[b[y].side] = y /\ b[y].side \in Side
      /\ \A y \in P, q \in Side : Down(b, y, q)
  BY PlacesOfTree, Zenon
<1>3. s \in Side /\ o \in Side /\ o # s /\ (\A q \in Side : q = s \/ q = o)
  BY <1>1, <1>2, Sides, ZenonT(30)
<1>4. b[pp].child[s] = p /\ u \in H /\ u # p /\ u # pp /\ b[u].parent = pp /\ b[u].side = o /\ p # pp
  <2>1. Down(b, pp, o) /\ u # mHead /\ b[pp].child[s] = p
    BY <1>1, <1>2, <1>3, Zenon
  <2>2. u \in H /\ b[u].parent = pp /\ b[u].side = o
    BY <1>2, <2>1, Zenon DEF Down
  <2> QED
    BY <1>1, <1>3, <2>1, <2>2, Zenon
<1>11. DOMAIN c = DOMAIN b /\ SameShape(b, c) /\ Typed(c)
  BY DEF Painted, SameShape
<1>12. \A y \in DOMAIN b : c[y].red = IF y = pp THEN TRUE ELSE IF y \in {p, u} THEN FALSE ELSE b[y].red
  BY Zenon DEF Painted
<1>13. Tree(c, sub) /\ Heads(c) = H /\ Places(c) = P /\ Root(c) = Root(b) /\ Kept(b, c)
  <2>1. ~c[mHead].red /\ mHead \in DOMAIN b
    <3>1. mHead \in DOMAIN b /\ mHead # pp /\ mHead \notin {p, u}
      BY <1>1, <1>2, <1>4, Zenon
    <3> HIDE DEF H, P
    <3> QED
      BY <1>2, <1>12, <3>1, Zenon
  <2> QED
    BY <1>11, <2>1, ShapeTree, ShapeKept
<1> HIDE DEF H, P, o
<1>14. \A y \in P : bh1[y] = IF y \in {p, u} THEN bh[y] + 1 ELSE bh[y]
  <2>1. bh \in [P -> Nat \ {0}]
    BY DEF Weighted, P
  <2> QED
    BY <1>2, <1>1, <1>4, <2>1, Zenon
<1>15. bh1 \in [P -> Nat \ {0}] /\ bh1[mHead] = 1
  <2>1. bh \in [P -> Nat \ {0}] /\ bh[mHead] = 1
    BY DEF Weighted, P
  <2>2. bh[p] + 1 \in Nat \ {0} /\ bh[u] + 1 \in Nat \ {0}
    <3>1. bh[p] \in Nat /\ bh[u] \in Nat
      BY <1>1, <1>2, <1>4, <2>1, Zenon
    <3> QED
      BY <3>1
  <2>3. bh1 \in [P -> Nat \ {0}]
    BY <2>1, <2>2, Zenon
  <2>4. mHead \notin {p, u} /\ mHead \in P
    BY <1>1, <1>2, <1>4, Zenon
  <2> HIDE DEF bh1
  <2> QED
    BY <1>14, <2>1, <2>3, <2>4
<1> HIDE DEF bh1
<1>16. Weighted(c, Null, LEFT, bh1)
  <2>1. ASSUME NEW x \in H, NEW q \in Side
        PROVE  Blk(c, x) + At(Null, LEFT, x, q) + bh1[b[x].child[q]] + bh[x]
                 = Blk(b, x) + At(Null, LEFT, x, q) + bh[b[x].child[q]] + bh1[x]
    <3> DEFINE z == b[x].child[q]
               e == At(Null, LEFT, x, q)
    <3>1. x \in P /\ z \in P /\ (z # mHead => b[z].parent = x /\ b[z].side = q)
      BY <1>2 DEF Down, P
    <3>2. bh[x] \in Nat /\ bh[z] \in Nat /\ e = 0
      BY <1>2, <3>1, Zenon DEF Weighted, At, P
    <3> HIDE DEF z, e
    <3>3. x \in DOMAIN b
      BY <1>2
    <3>4. CASE x = pp
      <4>1. z \in {p, u}
        BY <1>1, <1>3, <1>4, <3>4, Zenon DEF z, o
      <4>2. Blk(c, x) = 0 /\ Blk(b, x) = 1
        BY <1>1, <1>12, <3>3, <3>4, Zenon DEF Blk
      <4>3. bh1[x] = bh[x] /\ bh1[z] = bh[z] + 1
        <5>1. x \notin {p, u}
          BY <1>4, <3>4
        <5> QED
          BY <1>14, <3>1, <4>1, <5>1
      <4>4. Blk(c, x) + e + bh1[z] + bh[x] = Blk(b, x) + e + bh[z] + bh1[x]
        BY <3>2, <4>2, <4>3
      <4> QED
        BY <4>4 DEF z, e
    <3>5. CASE x # pp
      <4>1. bh1[z] = bh[z]
        <5>1. z \notin {p, u}
          <6>1. p # mHead /\ u # mHead /\ b[p].parent = pp /\ b[u].parent = pp
            BY <1>1, <1>2, <1>4, Zenon
          <6> QED
            BY <3>1, <3>5, <6>1
        <5> QED
          BY <1>14, <3>1, <5>1
      <4>2. CASE x \in {p, u}
        <5>1. Blk(c, x) = 1 /\ Blk(b, x) = 0
          BY <1>1, <1>12, <3>3, <3>5, <4>2, Zenon DEF Blk
        <5>2. bh1[x] = bh[x] + 1
          BY <1>14, <3>1, <4>2
        <5>3. Blk(c, x) + e + bh1[z] + bh[x] = Blk(b, x) + e + bh[z] + bh1[x]
          BY <3>2, <4>1, <5>1, <5>2
        <5> QED
          BY <5>3 DEF z, e
      <4>3. CASE x \notin {p, u}
        <5>1. Blk(c, x) = Blk(b, x) /\ bh1[x] = bh[x]
          BY <1>12, <1>14, <3>1, <3>3, <3>5, <4>3, Zenon DEF Blk
        <5> QED
          BY <4>1, <5>1 DEF z
      <4> QED
        BY <4>2, <4>3
    <3> QED
      BY <3>4, <3>5
  <2> QED
    <3>1. /\ SameShape(b, c) /\ Heads(c) = Heads(b) /\ Places(c) = Places(b)
          /\ bh1 \in [Places(b) -> Nat \ {0}] /\ bh1[mHead] = 1
      BY <1>11, <1>13, <1>15 DEF H, P
    <3>2. \A x \in Heads(b), q \in Side :
             Blk(c, x) + At(Null, LEFT, x, q) + bh1[b[x].child[q]] + bh[x]
                 = Blk(b, x) + At(Null, LEFT, x, q) + bh[b[x].child[q]] + bh1[x]
      BY <2>1 DEF H
    <3> QED
      BY <3>1, <3>2, TintWeights
<1>17. RedsIn(c, {pp})
  <2> SUFFICES ASSUME NEW y \in H, c[y].red, c[c[y].parent].red, y # pp PROVE FALSE
    BY <1>13 DEF RedsIn
  <2>1. y \in DOMAIN b /\ c[y].parent = b[y].parent /\ b[y].parent \in P /\ b[y].parent \in DOMAIN b
    BY <1>2, <1>11 DEF SameShape
  <2>2. y \notin {p, u} /\ b[y].red
    BY <1>12, <2>1, Zenon
  <2>3. b[y].parent # pp
    <3>1. CASE b[y].parent = pp
      <4>1. y = b[pp].child[s] \/ y = b[pp].child[o]
        BY <1>2, <1>3, <3>1
      <4> QED
        BY <1>4, <2>2, <4>1 DEF o
    <3> QED
      BY <3>1
  <2>4. b[b[y].parent].red /\ b[y].parent # p
    BY <1>12, <2>1, <2>3, Zenon
  <2>5. y = cur
    BY <1>1, <2>2, <2>4, Zenon DEF RedsIn, H
  <2> QED
    BY <1>1, <2>4, <2>5, Zenon
<1>18. c[Root(c)].red => pp = Root(c)
  <2>1. Root(b) \in DOMAIN b /\ ~b[Root(b)].red
    BY <1>1, <1>2, Zenon
  <2> QED
    BY <1>12, <1>13, <2>1, Zenon
<1>19. pp \in Heads(c) /\ c[pp].red
  <2>1. pp \in DOMAIN b
    BY <1>1, <1>2, Zenon
  <2> QED
    BY <1>1, <1>12, <1>13, <2>1, Zenon
<1> QED
  BY <1>11, <1>13, <1>16, <1>17, <1>18, <1>19 DEF Raised

\* A node that becomes black makes up for the black node that its paths lack.
LEMMA Blacken ==
  ASSUME NEW b, NEW sub, Tree(b, sub), NEW x \in Places(b), NEW c, Painted(b, c, x, FALSE, x, FALSE, x, FALSE),
         NEW p, NEW s, NEW bh, Weighted(b, p, s, bh),
         b[x].red => (p = b[x].parent /\ s = b[x].side) \/ (x = Root(b) /\ p \notin Heads(b)),
         ~b[x].red => p \notin Heads(b),
         \A y \in Heads(b) : b[y].red /\ b[b[y].parent].red => y = x \/ b[y].parent = x,
         b[Root(b)].red => x = Root(b)
  PROVE  Sound(c) /\ Kept(b, c)
<1> DEFINE H == Heads(b)
           P == Places(b)
           bh1 == [bh EXCEPT ![x] = IF b[x].red THEN bh[x] + 1 ELSE bh[x]]
<1>1. /\ H \subseteq DOMAIN b /\ mHead \notin H /\ P = H \cup {mHead} /\ P \subseteq DOMAIN b /\ Null \notin P
      /\ ~b[mHead].red /\ Root(b) \in P
      /\ \A y \in H : b[y].parent \in P /\ b[b[y].parent].child[b[y].side] = y /\ b[y].side \in Side
      /\ \A y \in P, q \in Side : Down(b, y, q)
      /\ Root(b) # mHead => b[Root(b)].parent = mHead
  BY PlacesOfTree
<1>2. /\ Typed(c) /\ SameShape(b, c)
      /\ \A n \in DOMAIN b : c[n].red = IF n = x THEN FALSE ELSE b[n].red
  BY Zenon DEF Painted
<1>3. Tree(c, sub) /\ Heads(c) = H /\ Places(c) = P /\ Root(c) = Root(b) /\ Kept(b, c)
  <2>1. ~c[mHead].red
    <3>1. mHead \in DOMAIN b
      BY <1>1
    <3> QED
      BY <1>1, <1>2, <3>1, Zenon
  <2> QED
    BY <1>2, <2>1, ShapeTree, ShapeKept
<1>4. bh \in [P -> Nat \ {0}] /\ bh[mHead] = 1
  BY DEF Weighted
<1> HIDE DEF H, P
<1>5. \A y \in P : bh1[y] = IF y = x /\ b[x].red THEN bh[y] + 1 ELSE bh[y]
  BY <1>4
<1>6. bh1 \in [P -> Nat \ {0}] /\ bh1[mHead] = 1
  <2>1. x \in P
    BY DEF P
  <2>2. bh[x] \in Nat \ {0} /\ bh[x] + 1 \in Nat \ {0}
    BY <1>4, <2>1
  <2>3. bh1 \in [P -> Nat \ {0}]
    BY <1>4, <2>2, Zenon
  <2>4. mHead \in P /\ ~(mHead = x /\ b[x].red)
    BY <1>1
  <2> HIDE DEF bh1
  <2> QED
    BY <1>4, <1>5, <2>3, <2>4
<1> HIDE DEF bh1
<1>7. Weighted(c, Null, LEFT, bh1)
  <2>1. ASSUME NEW y \in H, NEW q \in Side
        PROVE  Blk(c, y) + At(Null, LEFT, y, q) + bh1[b[y].child[q]] + bh[y]
                 = Blk(b, y) + At(p, s, y, q) + bh[b[y].child[q]] + bh1[y]
    <3> DEFINE z == b[y].child[q]
               e == At(Null, LEFT, y, q)
               e1 == At(p, s, y, q)
    <3>1. y \in P /\ z \in P /\ (z # mHead => b[z].parent = y /\ b[z].side = q)
      BY <1>1 DEF Down, P
    <3>2. bh[y] \in Nat /\ bh[z] \in Nat /\ e = 0 /\ e1 \in Nat
      BY <1>1, <1>4, <3>1 DEF At
    <3>3. y \in DOMAIN b
      BY <1>1
    <3>4. CASE b[x].red
      <4>1. e1 = IF z = x THEN 1 ELSE 0
        <5>1. CASE p = b[x].parent /\ s = b[x].side
          <6>1. x # mHead /\ b[p].child[s] = x
            BY <1>1, <3>4, <5>1 DEF P, H
          <6>2. y = p /\ q = s <=> z = x
            BY <3>1, <5>1, <6>1
          <6> QED
            BY <6>2 DEF At
        <5>2. CASE x = Root(b) /\ p \notin Heads(b)
          <6>1. y # p /\ e1 = 0
            BY <5>2 DEF At, H
          <6>2. z # x
            BY <1>1, <3>1, <3>4, <5>2
          <6> QED
            BY <6>1, <6>2
        <5> QED
          BY <3>4, <5>1, <5>2
      <4>2. bh1[z] = IF z = x THEN bh[z] + 1 ELSE bh[z]
        BY <1>5, <3>1, <3>4
      <4>3. bh1[y] = IF y = x THEN bh[y] + 1 ELSE bh[y]
        BY <1>5, <3>1, <3>4
      <4>4. Blk(c, y) = (IF y = x THEN 1 ELSE Blk(b, y)) /\ (y = x => Blk(b, y) = 0) /\ Blk(b, y) \in Nat
        BY <1>2, <3>3, <3>4, Zenon DEF Blk
      <4> HIDE DEF z, e, e1
      <4>5. Blk(c, y) + e + bh1[z] + bh[y] = Blk(b, y) + e1 + bh[z] + bh1[y]
        BY <3>2, <4>1, <4>2, <4>3, <4>4
      <4> QED
        BY <4>5 DEF z, e, e1
    <3>5. CASE ~b[x].red
      <4>1. e1 = 0
        BY <3>5 DEF At, H
      <4>2. bh1[z] = bh[z] /\ bh1[y] = bh[y]
        BY <1>5, <3>1, <3>5
      <4>3. Blk(c, y) = Blk(b, y)
        BY <1>2, <3>3, <3>5, Zenon DEF Blk
      <4> HIDE DEF z, e, e1
      <4>5. Blk(c, y) + e + bh1[z] + bh[y] = Blk(b, y) + e1 + bh[z] + bh1[y]
        BY <3>2, <4>1, <4>2, <4>3
      <4> QED
        BY <4>5 DEF z, e, e1
    <3> QED
      BY <3>4, <3>5
  <2>2. /\ SameShape(b, c) /\ Heads(c) = Heads(b) /\ Places(c) = Places(b)
          /\ bh1 \in [Places(b) -> Nat \ {0}] /\ bh1[mHead] = 1
      BY <1>2, <1>3, <1>6 DEF H, P
  <2>3. \A y \in Heads(b), q \in Side :
             Blk(c, y) + At(Null, LEFT, y, q) + bh1[b[y].child[q]] + bh[y]
                 = Blk(b, y) + At(p, s, y, q) + bh[b[y].child[q]] + bh1[y]
      BY <2>1 DEF H
  <2> QED
      BY <2>2, <2>3, TintWeights
<1>8. RedsIn(c, {})
  <2> SUFFICES ASSUME NEW y \in H, c[y].red, c[c[y].parent].red PROVE FALSE
    BY <1>3 DEF RedsIn
  <2>1. y \in DOMAIN b /\ c[y].parent = b[y].parent /\ b[y].parent \in DOMAIN b
    BY <1>1, <1>2 DEF SameShape
  <2>2. y # x /\ b[y].red /\ b[y].parent # x /\ b[b[y].parent].red
    BY <1>2, <2>1, Zenon
  <2> QED
    BY <2>2 DEF H
<1>9. ~c[Root(c)].red
  <2>1. Root(b) \in DOMAIN b
    BY <1>1
  <2> QED
    BY <1>2, <1>3, <2>1, Zenon
<1> QED
  BY <1>3, <1>7, <1>8, <1>9 DEF Sound

\* insert_fixup ends with a sound tree.
LEMMA InsertDoneSound ==
  ASSUME Fixing(t, fixup), InsertDone
  PROVE  Sound(t') /\ Kept(t, t') /\ fixup' = Idle
<1>1. PICK sub : Tree(t, sub)
  BY DEF Fixing
<1>2. /\ fixup.op = "insert" /\ ~t[t[fixup.cur].parent].red
      /\ t' = [t EXCEPT ![Root(t)].red = FALSE] /\ fixup' = Idle
  BY DEF InsertDone
<1>3. Fits(t, fixup) /\ Reds(t, fixup)
  BY DEF Fixing
<1>4. LackAt(t, fixup) = Null /\ LackSide(t, fixup) = LEFT
  BY <1>2, <1>3, FitsInsert
<1>5. PICK bh : Weighted(t, Null, LEFT, bh)
  BY <1>4 DEF Fixing
<1>6. Root(t) \in Places(t) /\ Root(t) \in DOMAIN t /\ Typed(t) /\ Null \notin Heads(t)
  BY <1>1, PlacesOfTree
<1>7. Painted(t, t', Root(t), FALSE, Root(t), FALSE, Root(t), FALSE)
  BY <1>2, <1>6, PaintOne, Zenon
<1>8. \A y \in Heads(t) : ~(t[y].red /\ t[t[y].parent].red)
  BY <1>2, <1>3 DEF Reds
<1>9. Sound(t') /\ Kept(t, t')
  BY <1>1, <1>5, <1>6, <1>7, <1>8, Blacken, Zenon
<1> QED
  BY <1>2, <1>9

\* So does erase_fixup.
LEMMA EraseDoneSound ==
  ASSUME Fixing(t, fixup), EraseDone
  PROVE  Sound(t') /\ Kept(t, t') /\ fixup' = Idle
<1> DEFINE cur == fixup.cur
           p == t[cur].parent
           s == t[cur].side
<1>1. PICK sub : Tree(t, sub)
  BY DEF Fixing
<1>2. /\ fixup.op = "erase" /\ (t[cur].red \/ cur = Root(t))
      /\ t' = [t EXCEPT ![cur].red = FALSE] /\ fixup' = Idle
  BY DEF EraseDone, Lacking
<1>3. Fits(t, fixup) /\ Reds(t, fixup)
  BY DEF Fixing
<1>4. LackAt(t, fixup) = p /\ LackSide(t, fixup) = s /\ cur \in Places(t)
  BY <1>2, <1>3, FitsErase
<1>5. PICK bh : Weighted(t, p, s, bh)
  BY <1>4 DEF Fixing
<1>6. /\ Root(t) \in Places(t) /\ Places(t) \subseteq DOMAIN t /\ Typed(t) /\ mHead \notin Heads(t)
      /\ Root(t) # mHead => t[Root(t)].parent = mHead
  BY <1>1, PlacesOfTree
<1> HIDE DEF cur, p, s
<1>7. Painted(t, t', cur, FALSE, cur, FALSE, cur, FALSE)
  <2>1. cur \in DOMAIN t
    BY <1>4, <1>6
  <2> QED
    BY <1>2, <1>6, <2>1, PaintOne, Zenon
<1>8. \A y \in Heads(t) : t[y].red /\ t[t[y].parent].red => y = cur \/ t[y].parent = cur
  BY <1>3 DEF Reds, cur
<1>9. t[Root(t)].red => cur = Root(t)
  BY <1>3 DEF Reds, cur
<1>10. ~t[cur].red => p \notin Heads(t)
  <2> SUFFICES ASSUME ~t[cur].red PROVE p \notin Heads(t)
    OBVIOUS
  <2>1. cur = Root(t)
    BY <1>2
  <2>2. CASE Root(t) # mHead
    BY <1>6, <2>1, <2>2 DEF p
  <2>3. CASE Root(t) = mHead
    <3>1. Heads(t) = {}
      BY <1>1, <2>3 DEF Tree, Subtrees
    <3> QED
      BY <3>1
  <2> QED
    BY <2>2, <2>3
<1>11. t[cur].red => p = t[cur].parent /\ s = t[cur].side
  BY DEF p, s
<1>12. Sound(t') /\ Kept(t, t')
  BY <1>1, <1>4, <1>5, <1>7, <1>8, <1>9, <1>10, <1>11, Blacken, Zenon
<1> QED
  BY <1>2, <1>12

\* If there is another turn, that of insert_fixup has only recoloured, and gone up to the
\* grandparent.
UpTwo(b, f, c, g) ==
  Running(c, g) => /\ SameShape(b, c) /\ g.cur = b[b[f.cur].parent].parent
                   /\ f.cur \in Heads(b) /\ b[f.cur].parent \in Heads(b) /\ g.cur \in Heads(b)

\* A turn of insert_fixup leaves at most one fault.
LEMMA InsertFixupFixes ==
  ASSUME Fixing(t, fixup), InsertFixup
  PROVE  Fixing(t', fixup') /\ Kept(t, t') /\ UpTwo(t, fixup, t', fixup')
<1> DEFINE cur == fixup.cur
           p == t[cur].parent
           pp == t[p].parent
           s == t[p].side
           u == t[pp].child[Other(s)]
           out == Outside(t, cur)
           p1 == out.tree[out.cur].parent
<1>1. PICK sub : Tree(t, sub)
  BY DEF Fixing
<1>2. /\ fixup.op = "insert" /\ t[p].red
      /\ IF t[u].red
         THEN /\ t' = [t EXCEPT ![p].red = FALSE, ![u].red = FALSE, ![pp].red = TRUE]
              /\ fixup' = [fixup EXCEPT !.cur = pp]
         ELSE /\ t' = Rotate([out.tree EXCEPT ![p1].red = FALSE, ![pp].red = TRUE], pp, Other(s))
              /\ fixup' = [fixup EXCEPT !.cur = out.cur]
  BY Zenon DEF InsertFixup
<1>3. Fits(t, fixup)
  BY DEF Fixing
<1>4. LackAt(t, fixup) = Null /\ LackSide(t, fixup) = LEFT /\ fixup = AtWork("insert", cur)
  BY <1>2, <1>3, FitsInsert, Zenon
<1>5. PICK bh : Weighted(t, Null, LEFT, bh)
  BY <1>4 DEF Fixing
<1>6. Fault(t, cur, p, pp, s)
  BY <1>2, InsertFault, Zenon
<1>7. \A v : [fixup EXCEPT !.cur = v] = AtWork("insert", v)
  BY <1>4 DEF AtWork
<1>8. ASSUME NEW b, NEW v, v \in Heads(b), b[v].red, \E sb : Tree(b, sb), \E w : Weighted(b, Null, LEFT, w),
             RedsIn(b, {v}), b[Root(b)].red => v = Root(b)
      PROVE  Fixing(b, AtWork("insert", v))
  <2> DEFINE f == AtWork("insert", v)
  <2>1. f.op = "insert" /\ f.cur = v /\ f = AtWork("insert", f.cur)
    BY Ops
  <2> HIDE DEF f
  <2>2. Fits(b, f) /\ LackAt(b, f) = Null /\ LackSide(b, f) = LEFT
    BY <1>8, <2>1 DEF Fits, LackAt, LackSide
  <2>3. Reds(b, f)
    BY <1>8, <2>1 DEF Reds, RedsIn
  <2>4. Fixing(b, f)
    BY <1>8, <2>2, <2>3 DEF Fixing
  <2> QED
    BY <2>4 DEF f
<1>9. /\ Heads(t) \subseteq DOMAIN t /\ Places(t) \subseteq DOMAIN t /\ Typed(t) /\ ~t[mHead].red
      /\ Places(t) = Heads(t) \cup {mHead}
      /\ \A y \in Places(t), q \in Side : Down(t, y, q)
  BY <1>1, PlacesOfTree
<1>10. p \in DOMAIN t /\ pp \in DOMAIN t /\ u \in DOMAIN t /\ pp \in Heads(t) /\ s \in Side /\ Other(s) \in Side
  <2>1. p \in Heads(t) /\ pp \in Heads(t)
    BY <1>6, Zenon DEF Fault
  <2>2. s \in Side
    BY <1>1, <2>1, PlacesOfTree
  <2>3. Other(s) \in Side
    BY <2>2, Sides
  <2>4. Down(t, pp, Other(s))
    BY <1>9, <2>1, <2>3
  <2> QED
    BY <1>9, <2>1, <2>2, <2>3, <2>4, Zenon DEF Down
<1> HIDE DEF cur, p, pp, s, u
<1>11. CASE t[u].red
  <2>1. Painted(t, t', p, FALSE, u, FALSE, pp, TRUE)
    <3>1. t' = PaintOver(t, p, FALSE, u, FALSE, pp, TRUE)
      BY <1>2, <1>11, Zenon DEF PaintOver
    <3>2. Painted(t, PaintOver(t, p, FALSE, u, FALSE, pp, TRUE), p, FALSE, u, FALSE, pp, TRUE)
      <4>1. Typed(t) /\ p \in DOMAIN t /\ u \in DOMAIN t /\ pp \in DOMAIN t /\ FALSE \in BOOLEAN /\ TRUE \in BOOLEAN
        BY <1>9, <1>10
      <4> QED
        BY <4>1, PaintThree, Zenon
    <3> QED
      BY <3>1, <3>2, Zenon
  <2>2. /\ Tree(t', sub) /\ Kept(t, t') /\ RedsIn(t', {pp}) /\ pp \in Heads(t') /\ t'[pp].red
        /\ t'[Root(t')].red => pp = Root(t')
        /\ \E bh1 : Weighted(t', Null, LEFT, bh1)
    <3>1. u = t[pp].child[Other(s)]
      BY DEF u
    <3>2. PICK c : c = t'
      OBVIOUS
    <3>3. Painted(t, c, p, FALSE, u, FALSE, pp, TRUE)
      BY <2>1, <3>2, Zenon
    <3>4. Raised(t, c, sub, pp)
      BY <1>1, <1>5, <1>6, <1>11, <3>1, <3>3, RecolourFault, Zenon
    <3>5. Raised(t, t', sub, pp)
      BY <3>2, <3>4
    <3> QED
      BY <3>5 DEF Raised
  <2>3. fixup' = AtWork("insert", pp)
    BY <1>2, <1>7, <1>11
  <2>4. UpTwo(t, fixup, t', fixup')
    <3>1. cur \in Heads(t) /\ p \in Heads(t)
      BY <1>6 DEF Fault
    <3>2. SameShape(t, t')
      BY <2>1 DEF Painted
    <3>3. fixup'.cur = pp
      BY <2>3, Ops
    <3> QED
      BY <1>10, <3>1, <3>2, <3>3 DEF UpTwo, cur, p, pp
  <2> QED
    BY <1>8, <2>2, <2>3, <2>4
<1>12. CASE ~t[u].red
  <2> DEFINE b1 == out.tree
             c1 == out.cur
  <2>1. /\ \E sub1 : Tree(b1, sub1)
        /\ \E bh1 : Weighted(b1, Null, LEFT, bh1)
        /\ Fault(b1, c1, p1, pp, s) /\ b1[p1].child[s] = c1 /\ Kept(t, b1)
        /\ b1[pp].child[Other(s)] = u /\ b1[u].red = t[u].red
    BY <1>1, <1>5, <1>6, OutsideFault DEF u
  <2>2. PICK sub1 : Tree(b1, sub1)
    BY <2>1, Zenon
  <2>3. PICK bh1 : Weighted(b1, Null, LEFT, bh1)
    BY <2>1, Zenon
  <2>4. t' = Rotate([b1 EXCEPT ![p1].red = FALSE, ![pp].red = TRUE], pp, Other(s)) /\ fixup' = AtWork("insert", c1)
    BY <1>2, <1>7, <1>12, Zenon
  <2> HIDE DEF b1, c1, p1, out
  <2>5. ~b1[b1[pp].child[Other(s)]].red
    BY <1>12, <2>1
  <2>6. /\ \E sub2 : Tree(t', sub2)
        /\ \E bh2 : Weighted(t', Null, LEFT, bh2)
        /\ Kept(b1, t') /\ RedsIn(t', {}) /\ ~t'[Root(t')].red /\ t'[c1].red
    <3> DEFINE c == Rotate([b1 EXCEPT ![p1].red = FALSE, ![pp].red = TRUE], pp, Other(s))
    <3>1. Ended(b1, c, c1)
      BY <2>1, <2>2, <2>3, <2>5, RotateFault
    <3>2. t' = c
      BY <2>4
    <3> HIDE DEF c
    <3>3. Ended(b1, t', c1)
      BY <3>1, <3>2
    <3> QED
      BY <3>3 DEF Ended
  <2>7. c1 \in Heads(t')
    BY <2>1, <2>6, Zenon DEF Fault, Kept
  <2>8. Kept(t, t')
    BY <2>1, <2>6, KeptKept
  <2>9. RedsIn(t', {c1})
    BY <2>6 DEF RedsIn
  <2>10. UpTwo(t, fixup, t', fixup')
    <3>1. PICK c : c = t'
      OBVIOUS
    <3>2. ~c[c[c1].parent].red
      BY <2>6, <2>7, <3>1 DEF RedsIn
    <3>3. fixup'.op = "insert" /\ fixup'.cur = c1
      BY <2>4, Ops
    <3>4. ~Running(t', fixup')
      BY <3>1, <3>2, <3>3 DEF Running
    <3> QED
      BY <3>4 DEF UpTwo
  <2> QED
    BY <1>8, <2>4, <2>6, <2>7, <2>8, <2>9, <2>10
<1> QED
  BY <1>11, <1>12

-----------------------------------------------------------------------------
(***************************************************************************)
(* The turns of erase_fixup.                                               *)
(***************************************************************************)

\* The paths on side s of p lack a black node, and nothing else is wrong.
Lacks(b, p, s) ==
  /\ p \in Heads(b) /\ s \in Side /\ ~b[b[p].child[s]].red
  /\ RedsIn(b, {}) /\ ~b[Root(b)].red

\* So the other side has a node.
LEMMA SiblingThere ==
  ASSUME NEW b, NEW sub, Tree(b, sub), NEW p, NEW s, Lacks(b, p, s), NEW bh, Weighted(b, p, s, bh)
  PROVE  LET w == b[p].child[Other(s)]
         IN /\ w \in Heads(b) /\ bh[w] = bh[b[p].child[s]] + 1 /\ bh[b[p].child[s]] \in Nat \ {0}
            /\ b[w].red => bh[b[w].child[s]] = bh[w]
<1> DEFINE o == Other(s)
           w == b[p].child[o]
           a == b[p].child[s]
           k == Blk(b, p)
<1>1. p \in Heads(b) /\ s \in Side /\ o \in Side /\ o # s
  BY Sides DEF Lacks
<1>2. /\ Places(b) = Heads(b) \cup {mHead} /\ \A y \in Places(b), q \in Side : Down(b, y, q)
      /\ mHead \notin Heads(b)
  BY PlacesOfTree
<1>3. w \in Places(b) /\ a \in Places(b) /\ (w # mHead => b[w].parent = p)
  BY <1>1, <1>2 DEF Down
<1>4. Weighs(b, p, s, bh, p, s) /\ Weighs(b, p, s, bh, p, o)
  BY <1>1 DEF Weighted
<1>5. bh[p] = k + 1 + bh[a] /\ bh[p] = k + 0 + bh[w]
  BY <1>1, <1>4 DEF Weighs, At
<1>6. bh[w] \in Nat \ {0} /\ bh[a] \in Nat \ {0} /\ k \in Nat /\ bh[mHead] = 1
  BY <1>3 DEF Weighted, Blk
<1> HIDE DEF w, a, k, o
<1>7. bh[w] = bh[a] + 1
  BY <1>5, <1>6
<1>8. w \in Heads(b)
  BY <1>2, <1>3, <1>6, <1>7
<1>9. ASSUME b[w].red PROVE bh[b[w].child[s]] = bh[w]
  <2>1. Weighs(b, p, s, bh, w, s)
    BY <1>1, <1>8 DEF Weighted
  <2>2. w # p
    <3>1. Parts(b, sub, p, a, w)
      BY <1>1, SubParts DEF a, w, o
    <3> QED
      BY <3>1 DEF Parts
  <2>3. At(p, s, w, s) = 0 /\ Blk(b, w) = 0
    BY <1>9, <2>2 DEF At, Blk
  <2>4. bh[b[w].child[s]] \in Nat
    BY <1>1, <1>2, <1>8 DEF Weighted, Down
  <2>5. bh[w] = 0 + 0 + bh[b[w].child[s]]
    BY <2>1, <2>3 DEF Weighs
  <2> QED
    BY <2>4, <2>5
<1> QED
  BY <1>6, <1>7, <1>8, <1>9, Zenon DEF w, a, o

\* b1 is a step on: what is lacking is where it was.
Prepared(b, b1, p, s) ==
  /\ \E sub1 : Tree(b1, sub1)
  /\ \E bh1 : Weighted(b1, p, s, bh1)
  /\ Lacks(b1, p, s) /\ Kept(b, b1) /\ ~b1[b1[p].child[Other(s)]].red

\* r is c after the rotation of w above x, c is b with their colours exchanged.
Above(b, c, r, ep, eq, x, s, w) ==
  /\ \E sub1 : Tree(r, sub1)
  /\ \E bh1 : Weighted(r, ep, eq, bh1)
  /\ RedsIn(r, {}) /\ ~r[Root(r)].red /\ Kept(b, r) /\ r[x].red /\ ~r[w].red
  /\ RotatedTo(c, r, x, s, Other(s), w, b[w].child[s], b[x].parent, b[x].side)
  /\ Turns(c, x, s, w, b[w].child[s], b[x].parent, b[x].side)
  /\ SameShape(b, c) /\ Places(c) = Places(b) /\ Painted(b, c, w, FALSE, w, FALSE, x, TRUE)

\* What the rotation of the red w above x requires.
CanRise(b, ep, eq, x, s, w) ==
  /\ x \in Heads(b) /\ s \in Side /\ w = b[x].child[Other(s)] /\ w \in Heads(b) /\ b[w].red /\ ~b[x].red
  /\ ~b[b[x].child[s]].red /\ ~b[b[w].child[s]].red /\ RedsIn(b, {}) /\ ~b[Root(b)].red
  /\ ep # w /\ ~(ep = x /\ eq = Other(s))

\* The colours of the two, exchanged.
Swap(b, x, w) == [b EXCEPT ![w].red = FALSE, ![x].red = TRUE]

\* A red node w below a black x, on the other side of s, is rotated above it.
\* In all cases of erase_fixup the nodes below are black.
LEMMA Rise ==
  ASSUME NEW b, NEW sub, Tree(b, sub), NEW ep, NEW eq, NEW bh, Weighted(b, ep, eq, bh),
         NEW x, NEW s, NEW w, CanRise(b, ep, eq, x, s, w)
  PROVE  Above(b, Swap(b, x, w), Rotate(Swap(b, x, w), x, s), ep, eq, x, s, w)
<1>0. /\ x \in Heads(b) /\ s \in Side /\ w = b[x].child[Other(s)] /\ w \in Heads(b) /\ b[w].red /\ ~b[x].red
      /\ ~b[b[x].child[s]].red /\ ~b[b[w].child[s]].red /\ RedsIn(b, {}) /\ ~b[Root(b)].red
      /\ ep # w /\ ~(ep = x /\ eq = Other(s))
  BY Zenon DEF CanRise
<1> USE <1>0
<1> DEFINE o == Other(s)
           H == Heads(b)
           P == Places(b)
           c == Swap(b, x, w)
           r == Rotate(c, x, s)
           inner == b[w].child[s]
           g == b[x].parent
           gs == b[x].side
<1>1. /\ H \subseteq DOMAIN b /\ mHead \notin H /\ P = H \cup {mHead} /\ P \subseteq DOMAIN b /\ Null \notin P
      /\ ~b[mHead].red /\ Typed(b) /\ Root(b) \in P
  BY PlacesOfTree, Zenon
<1>2. Turns(b, x, s, w, inner, g, gs)
  <2>1. b[x].child[Other(s)] # mHead
    BY <1>1, Zenon
  <2> QED
    BY <2>1, TurnsApart, Zenon
<1>3. Painted(b, c, w, FALSE, w, FALSE, x, TRUE)
  BY <1>1, PaintTwo, Zenon DEF Swap
<1> HIDE DEF c
<1>4. /\ Typed(c) /\ SameShape(b, c) /\ DOMAIN c = DOMAIN b
      /\ \A n \in DOMAIN b : c[n].red = IF n = x THEN TRUE ELSE IF n = w THEN FALSE ELSE b[n].red
  BY <1>3, Zenon DEF Painted, SameShape
<1>5. Tree(c, sub) /\ Heads(c) = H /\ Places(c) = P /\ Root(c) = Root(b) /\ Kept(b, c)
  <2>1. ~c[mHead].red
    <3>1. mHead \in DOMAIN b /\ mHead # x /\ mHead # w
      BY <1>1, Zenon
    <3> QED
      BY <1>1, <1>4, <3>1, Zenon
  <2> QED
    BY <1>4, <2>1, ShapeTree, ShapeKept, Zenon
<1>6. Turns(c, x, s, w, inner, g, gs)
  <2>1. \A y \in P : c[y].child = b[y].child /\ c[y].parent = b[y].parent /\ c[y].side = b[y].side
    BY <1>1, <1>4, Zenon DEF SameShape
  <2> HIDE DEF H, P
  <2>2. x \in P /\ w \in P
    BY <1>1, Zenon DEF H
  <2> QED
    BY <1>2, <1>5, <2>1, <2>2 DEF Turns, H, P
<1>7. Swapped(b, c, x, w)
  <2>1. x # w /\ x \in DOMAIN b /\ w \in DOMAIN b /\ b[x].red = FALSE
    BY <1>1, <1>2, HeadsTyped, Zenon DEF Turns
  <2>2. c[x].red = TRUE /\ c[w].red = FALSE
    BY <1>4, <2>1, Zenon
  <2>3. \A y \in DOMAIN b \ {x, w} : c[y].red = b[y].red
    BY <1>4, Zenon
  <2> QED
    BY <1>4, <2>1, <2>2, <2>3, Zenon DEF Swapped
<1>8. \E sub1 : Tree(r, sub1)
  BY <1>5, <1>6, RotateTree, Zenon
<1>9. \E bh1 : Weighted(r, ep, eq, bh1)
  <2>1. Weighted(r, ep, eq, [bh EXCEPT ![x] = bh[w], ![w] = bh[x]])
    <3>1. Tree(c, sub)
      BY <1>5, Zenon
    <3> HIDE DEF o, inner, g, gs
    <3> QED
      BY <1>6, <1>7, <3>1, SwapWeights, Zenon
  <2> QED
    BY <2>1, Zenon
<1>10. RotatedTo(c, r, x, s, o, w, inner, g, gs) /\ Kept(b, r)
  <2>1. RotatedTo(c, r, x, s, o, w, inner, g, gs) /\ Kept(c, r)
    BY <1>5, <1>6, RotateFields, Zenon
  <2> QED
    BY <1>5, <2>1, KeptKept, Zenon
<1>11. RedsIn(r, {})
  <2>1. ~b[inner].red /\ Tree(c, sub)
    BY <1>5, Zenon
  <2>2. RedsIn(r, {} \ {z \in {} : b[z].parent = w})
    <3> HIDE DEF o, inner, g, gs
    <3> QED
      BY <1>6, <1>7, <2>1, SwapReds
  <2> QED
    BY <2>2, Zenon
<1>12. r[x].red /\ ~r[w].red /\ ~r[Root(r)].red
  <2>1. \A y \in P : r[y].red = IF y = x THEN TRUE ELSE IF y = w THEN FALSE ELSE b[y].red
    <3>1. \A y \in P : r[y].red = c[y].red
      BY <1>5, <1>10, Zenon DEF RotatedTo
    <3>2. \A y \in P : y \in DOMAIN b
      BY <1>1, Zenon
    <3> HIDE DEF r, P
    <3> QED
      BY <1>4, <3>1, <3>2, ZenonT(30)
  <2>2. x # w /\ x \in P /\ w \in P
    BY <1>1, <1>2, Zenon DEF Turns
  <2>3. Root(r) = IF Root(b) = x THEN w ELSE Root(b)
    BY <1>5, <1>10, Zenon DEF RotatedTo
  <2> HIDE DEF P
  <2> QED
    BY <1>1, <2>1, <2>2, <2>3, Zenon
<1> HIDE DEF r
<1> QED
  BY <1>3, <1>4, <1>5, <1>6, <1>8, <1>9, <1>10, <1>11, <1>12, Zenon DEF r, c, Above

\* A child of a red node is black.
LEMMA BelowRed ==
  ASSUME NEW b, NEW sub, Tree(b, sub), RedsIn(b, {}), NEW x \in Heads(b), b[x].red, NEW s \in Side
  PROVE  ~b[b[x].child[s]].red
<1>1. Down(b, x, s) /\ Places(b) = Heads(b) \cup {mHead} /\ ~b[mHead].red
  BY PlacesOfTree
<1> QED
  BY <1>1 DEF Down, RedsIn

\* A red sibling is rotated away.
LEMMA BlackSiblingLacks ==
  ASSUME NEW b, NEW sub, Tree(b, sub), NEW p, NEW s, Lacks(b, p, s), NEW bh, Weighted(b, p, s, bh)
  PROVE  LET b1 == BlackSibling(b, p, s)
             red == b[b[p].child[Other(s)]].red
         IN Prepared(b, b1, p, s) /\ (red => b1[p].red) /\ (~red => b1 = b)
<1> DEFINE o == Other(s)
           w == b[p].child[o]
           a == b[p].child[s]
           inner == b[w].child[s]
           b1 == BlackSibling(b, p, s)
           c == Swap(b, p, w)
           r == Rotate(c, p, s)
<1>1. p \in Heads(b) /\ s \in Side /\ ~b[a].red /\ RedsIn(b, {}) /\ ~b[Root(b)].red /\ o \in Side /\ o # s
  BY Sides DEF Lacks
<1>2. w \in Heads(b) /\ (b[w].red => bh[inner] = bh[w]) /\ bh[w] = bh[a] + 1 /\ bh[a] \in Nat \ {0}
  BY SiblingThere
<1>3. b1 = IF b[w].red THEN r ELSE b
  BY DEF BlackSibling, Swap
<1>4. CASE ~b[w].red
  <2>1. b1 = b
    BY <1>3, <1>4
  <2>2. Kept(b, b)
    BY DEF Kept
  <2>3. Prepared(b, b, p, s)
    BY <1>4, <2>2 DEF Prepared
  <2> HIDE DEF b1
  <2> QED
    BY <1>4, <2>1, <2>3 DEF b1
<1>5. CASE b[w].red
  <2>1. b1 = r
    BY <1>3, <1>5
  <2>2. /\ Places(b) = Heads(b) \cup {mHead} /\ mHead \notin Heads(b) /\ Places(b) \subseteq DOMAIN b
        /\ \A y \in Places(b), q \in Side : Down(b, y, q)
    BY PlacesOfTree
  <2>3. ~b[p].red
    <3>1. b[w].parent = p
      BY <1>1, <1>2, <2>2 DEF Down
    <3> QED
      BY <1>1, <1>2, <1>5, <3>1, Zenon DEF RedsIn
  <2>4. ~b[inner].red
    BY <1>1, <1>2, <1>5, BelowRed, Zenon
  <2>5. w # p
    <3>1. Parts(b, sub, p, a, w)
      BY <1>1, SubParts
    <3> QED
      BY <3>1 DEF Parts
  <2> HIDE DEF w, inner, a, r
  <2>6. Above(b, c, r, p, s, p, s, w)
    <3>1. w = b[p].child[Other(s)] /\ ~b[b[p].child[s]].red /\ ~b[b[w].child[s]].red
      BY <1>1, <2>4, Zenon DEF w, a, inner
    <3>2. CanRise(b, p, s, p, s, w)
      BY <1>1, <1>2, <1>5, <2>3, <2>5, <3>1, Zenon DEF CanRise
    <3> QED
      BY <3>2, Rise, Zenon DEF r, c
  <2> HIDE DEF c
  <2>7. /\ RotatedTo(c, r, p, s, o, w, inner, b[p].parent, b[p].side) /\ Places(c) = Places(b) /\ SameShape(b, c)
        /\ inner \in Places(b) /\ p \in Places(b) /\ a \in Places(b) /\ inner # w /\ inner # p
        /\ Painted(b, c, w, FALSE, w, FALSE, p, TRUE) /\ w \in Places(b) /\ b[p].parent # p
    BY <1>1, <1>2, <2>2, <2>6, Zenon DEF Above, inner, Turns, Down, a
  <2>8. r[p].child[o] = inner /\ r[p].child[s] = a
    <3>1. r[p].child[o] = inner /\ r[p].child[s] = c[p].child[s]
      BY <1>1, <2>5, <2>7 DEF RotatedTo
    <3>2. c[p].child = b[p].child
      BY <2>2, <2>7 DEF SameShape
    <3> QED
      BY <3>1, <3>2 DEF a
  <2>9. ~r[inner].red /\ ~r[a].red
    <3>1. \A y \in Places(b) : r[y].red = c[y].red /\ y \in DOMAIN b
      BY <2>2, <2>7 DEF RotatedTo
    <3>2. \A y \in DOMAIN b : c[y].red = IF y = p THEN TRUE ELSE IF y = w THEN FALSE ELSE b[y].red
      BY <2>7, Zenon DEF Painted
    <3>3. a # p
      <4>1. Parts(b, sub, p, a, w)
        BY <1>1, SubParts DEF a, w
      <4> QED
        BY <4>1 DEF Parts
    <3> QED
      BY <1>1, <2>4, <2>7, <3>1, <3>2, <3>3, Zenon
  <2>10. Lacks(r, p, s)
    BY <1>1, <2>6, <2>8, <2>9 DEF Above, Lacks, Kept
  <2>11. Prepared(b, r, p, s) /\ r[p].red
    BY <2>6, <2>8, <2>9, <2>10 DEF Above, Prepared
  <2> HIDE DEF b1
  <2> QED
    BY <1>5, <2>1, <2>11 DEF b1, w, o
<1> QED
  BY <1>4, <1>5, Zenon

\* If the sibling w has a red child, the far one is made red.
LEMMA FarRedLacks ==
  ASSUME NEW b, NEW sub, Tree(b, sub), NEW p, NEW s, Lacks(b, p, s), NEW bh, Weighted(b, p, s, bh),
         NEW w, w = b[p].child[Other(s)], ~b[w].red, \E c \in Side : b[b[w].child[c]].red
  PROVE  LET b1 == FarRed(b, p, s)
             w1 == b1[p].child[Other(s)]
         IN Prepared(b, b1, p, s) /\ b1[b1[w1].child[Other(s)]].red
<1> DEFINE o == Other(s)
           n == b[w].child[s]
           d == b[w].child[o]
           inner == b[n].child[o]
           b1 == FarRed(b, p, s)
           c == Swap(b, w, n)
           r == Rotate(c, w, o)
<1>1. p \in Heads(b) /\ s \in Side /\ ~b[b[p].child[s]].red /\ RedsIn(b, {}) /\ ~b[Root(b)].red /\ o \in Side /\ o # s
      /\ Other(o) = s /\ \A q \in Side : q = s \/ q = o
  BY Sides, Zenon DEF Lacks
<1>2. w \in Heads(b)
  BY SiblingThere, Zenon
<1>3. b1 = IF b[d].red THEN b ELSE r
  BY DEF FarRed, Swap
<1>4. CASE b[d].red
  <2>1. b1 = b
    BY <1>3, <1>4, Zenon
  <2>2. Kept(b, b)
    BY Zenon DEF Kept
  <2>3. Prepared(b, b, p, s)
    BY <2>2, Zenon DEF Prepared
  <2> HIDE DEF b1
  <2> QED
    BY <1>4, <2>1, <2>3, Zenon DEF b1
<1>5. CASE ~b[d].red
  <2>1. b1 = r
    BY <1>3, <1>5, Zenon
  <2>2. /\ Places(b) = Heads(b) \cup {mHead} /\ mHead \notin Heads(b) /\ Places(b) \subseteq DOMAIN b /\ ~b[mHead].red
        /\ \A y \in Places(b), q \in Side : Down(b, y, q)
        /\ \A y \in Heads(b) : b[y].parent \in Places(b)
    BY PlacesOfTree, Zenon
  <2>3. b[n].red /\ n \in Heads(b)
    <3>1. b[n].red
      BY <1>1, <1>5, Zenon
    <3>2. n \in Places(b)
      BY <1>1, <1>2, <2>2, Zenon DEF Down
    <3> QED
      BY <2>2, <3>1, <3>2, Zenon
  <2>4. ~b[inner].red
    BY <1>1, <2>3, BelowRed, Zenon
  <2>5. w # p /\ b[w].parent = p /\ b[w].side = o /\ n # p /\ n # w /\ b[n].parent = w
    <3>1. Parts(b, sub, p, b[p].child[s], w) /\ Parts(b, sub, w, n, d)
      BY <1>1, <1>2, SubParts, Zenon
    <3>2. n \in sub[n] /\ p \notin sub[w] /\ w \notin sub[n] /\ sub[n] \subseteq sub[w] /\ w \in sub[w]
      BY <2>3, <3>1, InSub, Zenon DEF Parts
    <3>3. Down(b, p, o) /\ Down(b, w, s)
      BY <1>1, <1>2, <2>2, Zenon
    <3>4. b[w].parent = p /\ b[w].side = o /\ b[n].parent = w
      BY <1>2, <2>2, <2>3, <3>3, Zenon DEF Down
    <3> QED
      BY <3>2, <3>4, Zenon
  <2> HIDE DEF n, d, inner, r
  <2>6. Above(b, c, r, p, s, w, o, n)
    <3>1. n = b[w].child[Other(o)] /\ ~b[b[w].child[o]].red /\ ~b[b[n].child[o]].red /\ p # n /\ ~(p = w /\ s = Other(o))
      BY <1>1, <1>5, <2>4, <2>5, Zenon DEF n, d, inner
    <3>2. w \in Heads(b) /\ o \in Side /\ n \in Heads(b) /\ b[n].red /\ RedsIn(b, {}) /\ ~b[Root(b)].red
      BY <1>1, <1>2, <2>3, Zenon
    <3>3. CanRise(b, p, s, w, o, n)
      BY <3>1, <3>2, Zenon DEF CanRise
    <3> HIDE DEF o
    <3> QED
      BY <3>3, Rise, Zenon DEF r, c
  <2> HIDE DEF c
  <2>7. /\ RotatedTo(c, r, w, o, s, n, inner, p, o) /\ Places(c) = Places(b) /\ SameShape(b, c)
        /\ inner \in Places(b) /\ p \in Places(b) /\ n \in Places(b) /\ w \in Places(b)
        /\ Painted(b, c, n, FALSE, n, FALSE, w, TRUE) /\ r[w].red /\ ~r[n].red
    BY <1>1, <1>2, <2>2, <2>3, <2>5, <2>6, Zenon DEF Above, inner, Turns
  <2>8. r[p].child[o] = n /\ r[p].child[s] = b[p].child[s] /\ r[n].child[o] = w
    <3>1. r[p].child[o] = n /\ r[p].child[s] = c[p].child[s] /\ r[n].child[o] = w
      BY <1>1, <2>5, <2>7, Zenon DEF RotatedTo
    <3>2. c[p].child = b[p].child
      BY <2>2, <2>7, Zenon DEF SameShape
    <3> QED
      BY <3>1, <3>2, Zenon
  <2>9. ~r[b[p].child[s]].red
    <3>1. \A y \in Places(b) : r[y].red = c[y].red /\ y \in DOMAIN b
      BY <2>2, <2>7, Zenon DEF RotatedTo
    <3>2. \A y \in DOMAIN b : c[y].red = IF y = w THEN TRUE ELSE IF y = n THEN FALSE ELSE b[y].red
      BY <2>7, Zenon DEF Painted
    <3>3. b[p].child[s] # w /\ b[p].child[s] \in Places(b)
      <4>1. Parts(b, sub, p, b[p].child[s], w)
        BY <1>1, SubParts, Zenon
      <4>2. w \in sub[w]
        BY <1>2, InSub, Zenon
      <4> QED
        BY <4>1, <4>2, Zenon DEF Parts
    <3>4. b[p].child[s] \in DOMAIN b
      BY <3>1, <3>3, Zenon
    <3> QED
      BY <1>1, <3>1, <3>2, <3>3, <3>4, Zenon
  <2>10. Lacks(r, p, s)
    BY <1>1, <2>6, <2>8, <2>9, Zenon DEF Above, Lacks, Kept
  <2>11. Prepared(b, r, p, s)
    BY <2>6, <2>7, <2>8, <2>10, Zenon DEF Above, Prepared
  <2> HIDE DEF b1
  <2> QED
    BY <2>1, <2>7, <2>8, <2>11, Zenon DEF b1
<1> QED
  BY <1>4, <1>5, Zenon

\* Where no head is above, a place on a path counts nothing.
LEMMA WeightedAnywhere ==
  ASSUME NEW b, NEW p, NEW s, NEW bh, Weighted(b, p, s, bh), p \notin Heads(b), NEW p1, NEW s1, p1 \notin Heads(b)
  PROVE  Weighted(b, p1, s1, bh)
<1>1. \A x \in Heads(b) : \A q : At(p, s, x, q) = 0 /\ At(p1, s1, x, q) = 0
  BY DEF At
<1>2. ASSUME NEW x \in Heads(b), NEW q \in Side PROVE Weighs(b, p1, s1, bh, x, q)
  BY <1>1 DEF Weighted, Weighs
<1> QED
  BY <1>2 DEF Weighted

\* What Mend writes: w takes the colour of p, p and d become black.
Inked(b, w, p, d) == [b EXCEPT ![w].red = b[p].red, ![p].red = FALSE, ![d].red = FALSE]
InkedTo(b, c, w, p, d) ==
  /\ Typed(c) /\ SameShape(b, c)
  /\ \A n \in DOMAIN b : c[n].red = IF n = d THEN FALSE ELSE IF n = p THEN FALSE ELSE IF n = w THEN b[p].red ELSE b[n].red

\* Assigning the colours of a mended sibling does that.
LEMMA InkedInked ==
  ASSUME NEW b, Typed(b), NEW w \in DOMAIN b, NEW p \in DOMAIN b, NEW d \in DOMAIN b
  PROVE  InkedTo(b, Inked(b, w, p, d), w, p, d)
<1> DEFINE v == b[p].red
           c1 == [b EXCEPT ![w].red = v]
           c2 == [c1 EXCEPT ![p].red = FALSE, ![d].red = FALSE]
<1>0. v \in BOOLEAN
  BY HeadsTyped
<1> HIDE DEF v
<1>1. Typed(c1) /\ Colours(b, c1, w, v)
  BY <1>0, ColourColours
<1> HIDE DEF c1
<1>2. DOMAIN c1 = DOMAIN b
  BY <1>1 DEF Colours
<1>3. Painted(c1, c2, p, FALSE, p, FALSE, d, FALSE)
  BY <1>1, <1>2, PaintTwo, Zenon
<1>4. Inked(b, w, p, d) = c2
  BY DEF c1, Inked, v
<1> HIDE DEF c2
<1>5. InkedTo(b, c2, w, p, d)
  BY <1>1, <1>2, <1>3, ZenonT(30) DEF Painted, Colours, SameShape, InkedTo, v
<1> QED
  BY <1>4, <1>5

\* The rotation that makes up for the black node.
LEMMA MendSound ==
  ASSUME NEW b, NEW sub, Tree(b, sub), NEW p, NEW s, Lacks(b, p, s), NEW bh, Weighted(b, p, s, bh),
         NEW w, w = b[p].child[Other(s)], ~b[w].red, NEW d, d = b[w].child[Other(s)], b[d].red
  PROVE  Sound(Mend(b, p, s)) /\ Kept(b, Mend(b, p, s)) /\ Root(Mend(b, p, s)) # mHead
<1> DEFINE o == Other(s)
           H == Heads(b)
           P == Places(b)
           c == [b EXCEPT ![w].red = b[p].red, ![p].red = FALSE, ![d].red = FALSE]
           r == Rotate(c, p, s)
           inner == b[w].child[s]
           g == b[p].parent
           gs == b[p].side
<1>1. /\ H \subseteq DOMAIN b /\ mHead \notin H /\ P = H \cup {mHead} /\ P \subseteq DOMAIN b /\ Null \notin P
      /\ ~b[mHead].red /\ Typed(b) /\ Root(b) \in P
      /\ \A y \in H : b[y].parent \in P /\ b[b[y].parent].child[b[y].side] = y /\ b[y].side \in Side
      /\ Root(b) # mHead => b[Root(b)].parent = mHead
  BY PlacesOfTree, Zenon
<1>2. p \in H /\ s \in Side /\ w \in H /\ RedsIn(b, {}) /\ ~b[Root(b)].red /\ o \in Side /\ o # s
      /\ \A q \in Side : q = s \/ q = o
  BY SiblingThere, Sides, Zenon DEF Lacks
<1>3. Turns(b, p, s, w, inner, g, gs)
  <2>1. b[p].child[Other(s)] # mHead
    BY <1>1, <1>2, Zenon
  <2> QED
    BY <1>2, <2>1, TurnsApart, Zenon
<1>4. d \in H /\ d # w /\ d # p /\ d # inner
  <2>1. Down(b, w, o) /\ Down(b, p, o)
    BY <1>1, <1>2, PlacesOfTree, Zenon
  <2>2. d \in H
    BY <1>1, <2>1, Zenon DEF Down
  <2>3. Parts(b, sub, w, d, inner) /\ Parts(b, sub, p, b[p].child[s], w) /\ d \in sub[d]
    <3>1. Other(o) = s
      BY <1>2, Sides, Zenon
    <3> QED
      BY <1>2, <2>2, <3>1, SubParts, InSub, Zenon
  <2> QED
    BY <2>2, <2>3, Zenon DEF Parts
<1>5. Mend(b, p, s) = r
  BY Zenon DEF Mend
<1>6. InkedTo(b, c, w, p, d)
  <2>1. w \in DOMAIN b /\ p \in DOMAIN b /\ d \in DOMAIN b
    BY <1>1, <1>2, <1>4, Zenon
  <2>2. Inked(b, w, p, d) = c
    BY Zenon DEF Inked
  <2> HIDE DEF c
  <2> QED
    BY <1>1, <2>1, <2>2, InkedInked, Zenon
<1> HIDE DEF c
<1>7. /\ Typed(c) /\ SameShape(b, c) /\ DOMAIN c = DOMAIN b
      /\ \A n \in DOMAIN b : c[n].red = IF n = d THEN FALSE ELSE IF n = p THEN FALSE ELSE IF n = w THEN b[p].red ELSE b[n].red
  BY <1>6, Zenon DEF InkedTo, SameShape
<1>8. Tree(c, sub) /\ Heads(c) = H /\ Places(c) = P /\ Root(c) = Root(b) /\ Kept(b, c)
  <2>1. ~c[mHead].red
    <3>1. mHead \in DOMAIN b /\ mHead # p /\ mHead # w /\ mHead # d
      BY <1>1, <1>2, <1>4, Zenon
    <3> QED
      BY <1>1, <1>7, <3>1, Zenon
  <2> QED
    BY <1>7, <2>1, ShapeTree, ShapeKept, Zenon
<1>9. Turns(c, p, s, w, inner, g, gs)
  <2>1. \A y \in P : c[y].child = b[y].child /\ c[y].parent = b[y].parent /\ c[y].side = b[y].side
    BY <1>1, <1>7, Zenon DEF SameShape
  <2> HIDE DEF H, P
  <2>2. p \in P /\ w \in P
    BY <1>1, <1>2, Zenon DEF H
  <2> QED
    BY <1>3, <1>8, <2>1, <2>2 DEF Turns, H, P
<1>10. MendedTo(b, c, p, w, d)
  <2>1. p # w /\ p \in DOMAIN b /\ w \in DOMAIN b /\ d \in DOMAIN b
    BY <1>1, <1>2, <1>3, <1>4, Zenon DEF Turns
  <2>2. c[w].red = b[p].red /\ c[p].red = FALSE /\ c[d].red = FALSE
    BY <1>4, <1>7, <2>1, Zenon
  <2>3. \A y \in DOMAIN b \ {p, w, d} : c[y].red = b[y].red
    BY <1>7, Zenon
  <2> QED
    BY <1>7, <2>2, <2>3, Zenon DEF MendedTo
<1>11. \E sub1 : Tree(r, sub1)
  BY <1>8, <1>9, RotateTree, Zenon
<1>12. RotatedTo(c, r, p, s, o, w, inner, g, gs) /\ Kept(b, r) /\ Places(r) = P
  <2>1. RotatedTo(c, r, p, s, o, w, inner, g, gs) /\ Kept(c, r) /\ Places(r) = Places(c)
    BY <1>8, <1>9, RotateFields, Zenon
  <2> QED
    BY <1>8, <2>1, KeptKept, Zenon
<1>13. \E bh1 : Weighted(r, Null, LEFT, bh1)
  <2>1. Weighted(r, Null, s, [bh EXCEPT ![p] = bh[w], ![w] = bh[p], ![d] = bh[d] + 1])
    <3>1. Tree(c, sub) /\ d = b[w].child[Other(s)] /\ d \in Heads(b)
      BY <1>4, <1>8, Zenon
    <3> HIDE DEF o, inner, g, gs, r
    <3> QED
      BY <1>9, <1>10, <3>1, MendWeights, Zenon DEF r
  <2>2. Null \notin Heads(r)
    BY <1>1, <1>12, Zenon DEF Kept
  <2>3. Weighted(r, Null, LEFT, [bh EXCEPT ![p] = bh[w], ![w] = bh[p], ![d] = bh[d] + 1])
    <3> HIDE DEF r
    <3> QED
      BY <2>1, <2>2, WeightedAnywhere, Zenon
  <2> QED
    BY <2>3, Zenon
<1> HIDE DEF r
<1>14. /\ \A y \in P : r[y].red = IF y = d THEN FALSE ELSE IF y = p THEN FALSE ELSE IF y = w THEN b[p].red ELSE b[y].red
       /\ \A y \in P : r[y].parent = IF y = p THEN w ELSE IF y = w THEN g ELSE IF y = inner THEN p ELSE b[y].parent
       /\ Root(r) = IF Root(b) = p THEN w ELSE Root(b)
  <2>1. \A y \in P : c[y].parent = b[y].parent
    BY <1>1, <1>7, Zenon DEF SameShape
  <2>2. \A y \in P : y \in DOMAIN b
    BY <1>1, Zenon
  <2> HIDE DEF P, H, inner, g, gs
  <2>3. \A y \in P : r[y].red = c[y].red
    BY <1>8, <1>12, Zenon DEF RotatedTo
  <2>4. \A y \in P : r[y].parent = IF y = p THEN w ELSE IF y = w THEN g ELSE IF y = inner THEN p ELSE c[y].parent
    BY <1>8, <1>12, Zenon DEF RotatedTo
  <2>5. Root(r) = IF Root(b) = p THEN w ELSE Root(b)
    BY <1>8, <1>12, Zenon DEF RotatedTo
  <2>6. \A y \in P : c[y].red = IF y = d THEN FALSE ELSE IF y = p THEN FALSE ELSE IF y = w THEN b[p].red ELSE b[y].red
    BY <1>7, <2>2, Zenon
  <2>7. \A y \in P :
          r[y].red = IF y = d THEN FALSE ELSE IF y = p THEN FALSE ELSE IF y = w THEN b[p].red ELSE b[y].red
    BY <2>3, <2>6, ZenonT(30)
  <2>8. \A y \in P : r[y].parent = IF y = p THEN w ELSE IF y = w THEN g ELSE IF y = inner THEN p ELSE b[y].parent
    BY <2>1, <2>4, Zenon
  <2> QED
    BY <2>5, <2>7, <2>8, Zenon
<1>15. RedsIn(r, {})
  <2> SUFFICES ASSUME NEW y \in H, r[y].red, r[r[y].parent].red PROVE FALSE
    BY <1>12, Zenon DEF RedsIn, Kept
  <2>1. y \in P /\ y # d /\ y # p /\ p \in P /\ w \in P /\ d \in P
    BY <1>1, <1>2, <1>4, <1>14, Zenon
  <2>2. CASE y = w
    <3>1. b[p].red /\ r[w].parent = g /\ g \in P /\ g # p /\ g # w
      BY <1>3, <1>14, <2>1, <2>2, Zenon DEF Turns
    <3>2. b[g].red
      BY <1>14, <2>2, <3>1, Zenon
    <3> QED
      BY <1>2, <3>1, <3>2, Zenon DEF RedsIn
  <2>3. CASE y # w /\ y = inner
    <3>1. r[y].parent = p /\ ~r[p].red
      BY <1>14, <2>1, <2>3, Zenon
    <3> QED
      BY <3>1, Zenon
  <2>4. CASE y # w /\ y # inner
    <3>1. r[y].parent = b[y].parent /\ b[y].red /\ b[y].parent \in P
      BY <1>1, <1>14, <2>1, <2>4, Zenon
    <3>2. b[y].parent # w
      <4> SUFFICES ASSUME b[y].parent = w PROVE FALSE
        BY Zenon
      <4>1. b[w].child[b[y].side] = y /\ b[y].side \in Side
        BY <1>1, Zenon
      <4> QED
        BY <1>2, <2>1, <2>4, <4>1, Zenon
    <3>3. b[b[y].parent].red
      BY <1>14, <3>1, <3>2, Zenon
    <3> QED
      BY <1>2, <3>1, <3>3, Zenon DEF RedsIn
  <2> QED
    BY <2>2, <2>3, <2>4, Zenon
<1>16. ~r[Root(r)].red /\ Root(r) # mHead
  <2>1. w \in P /\ p \in P /\ w # p /\ Root(b) # w /\ Root(b) # mHead
    <3>1. b[w].parent = p
      <4>1. Down(b, p, o)
        BY <1>1, <1>2, PlacesOfTree, Zenon
      <4> QED
        BY <1>1, <1>2, <4>1, Zenon DEF Down
    <3>2. Root(b) # mHead
      BY <1>1, <1>2 DEF Tree, Subtrees
    <3> QED
      BY <1>1, <1>2, <1>3, <3>1, <3>2 DEF Turns
  <2>2. CASE Root(b) = p
    <3>1. Root(r) = w /\ r[w].red = b[p].red
      BY <1>4, <1>14, <2>1, <2>2, Zenon
    <3> QED
      BY <1>1, <1>2, <2>1, <2>2, <3>1, Zenon
  <2>3. CASE Root(b) # p
    <3>1. Root(r) = Root(b) /\ (r[Root(b)].red => b[Root(b)].red)
      BY <1>1, <1>14, <2>1, <2>3, Zenon
    <3> QED
      BY <1>2, <2>1, <3>1, Zenon
  <2> QED
    BY <2>2, <2>3, Zenon
<1> QED
  BY <1>5, <1>11, <1>12, <1>13, <1>15, <1>16, Zenon DEF Sound

\* erase_fixup at the root of a sound tree, where its loop ends.
LEMMA SoundRooted ==
  ASSUME NEW b, Sound(b), Root(b) # mHead
  PROVE  Fixing(b, AtWork("erase", Root(b)))
<1> DEFINE x == Root(b)
           f == AtWork("erase", x)
<1>1. PICK sub : Tree(b, sub)
  BY DEF Sound
<1>2. /\ x \in Heads(b) /\ b[x].parent = mHead /\ x \in Places(b) /\ mHead \in Places(b) /\ mHead \notin Heads(b)
      /\ b[mHead].child[b[x].side] = x /\ b[x].side \in Side
  BY <1>1, PlacesOfTree
<1>3. f.op = "erase" /\ f.cur = x /\ f = AtWork("erase", f.cur)
  BY Ops
<1> HIDE DEF f
<1>4. Fits(b, f) /\ LackAt(b, f) = mHead /\ LackSide(b, f) = b[x].side
  BY <1>2, <1>3 DEF Fits, LackAt, LackSide
<1>5. Reds(b, f)
  BY <1>3 DEF Sound, RedsIn, Reds
<1>6. PICK bh : Weighted(b, Null, LEFT, bh)
  BY DEF Sound
<1>7. Null \notin Heads(b)
  BY <1>1, PlacesOfTree
<1>8. Weighted(b, mHead, b[x].side, bh)
  BY <1>2, <1>6, <1>7, WeightedAnywhere
<1>9. Fixing(b, f)
  BY <1>1, <1>4, <1>5, <1>8 DEF Fixing
<1> QED
  BY <1>9 DEF f

\* c has the colours, and bh1 the counts, of a recolouring.
TintedTo(b, c, p, s, bh, p1, s1, bh1) ==
  /\ SameShape(b, c) /\ Heads(c) = Heads(b) /\ Places(c) = Places(b)
  /\ bh1 \in [Places(b) -> Nat \ {0}] /\ bh1[mHead] = 1
  /\ \A x \in Heads(b), q \in Side :
       Blk(c, x) + At(p1, s1, x, q) + bh1[b[x].child[q]] + bh[x]
         = Blk(b, x) + At(p, s, x, q) + bh[b[x].child[q]] + bh1[x]

\* The counts of black nodes after a recolouring.
LEMMA TintedWeights ==
  ASSUME NEW b, NEW c, NEW sub, Tree(b, sub), NEW p, NEW s, NEW bh, Weighted(b, p, s, bh),
         NEW p1, NEW s1, NEW bh1, TintedTo(b, c, p, s, bh, p1, s1, bh1)
  PROVE  Weighted(c, p1, s1, bh1)
BY TintWeights DEF TintedTo

\* The sibling has a red child.
RedNephew(b, w) == \E c \in Side : b[b[w].child[c]].red

\* c is b with what is lacking at p.
ReddenedTo(b, c, p) ==
  Fixing(c, AtWork("erase", p)) /\ Kept(b, c) /\ SameShape(b, c) /\ (b[p].red => c[p].red)

\* Without a red child the sibling becomes red, and what is lacking is a level higher.
LEMMA ReddenFixes ==
  ASSUME NEW b, NEW sub, Tree(b, sub), NEW p, NEW s, Lacks(b, p, s), NEW bh, Weighted(b, p, s, bh),
         NEW w, w = b[p].child[Other(s)], ~b[w].red, ~RedNephew(b, w),
         NEW c, Painted(b, c, w, TRUE, w, TRUE, w, TRUE)
  PROVE  ReddenedTo(b, c, p)
<1> DEFINE o == Other(s)
           g == b[p].parent
           gs == b[p].side
           a == b[p].child[s]
           bh1 == [bh EXCEPT ![w] = bh[w] - 1, ![p] = bh[p] - 1]
<1>1. /\ Heads(b) \subseteq DOMAIN b /\ mHead \notin Heads(b) /\ Places(b) = Heads(b) \cup {mHead} /\ Places(b) \subseteq DOMAIN b
      /\ ~b[mHead].red /\ Typed(b)
      /\ \A y \in Places(b), q \in Side : Down(b, y, q)
      /\ g \in Places(b) /\ b[g].child[gs] = p /\ gs \in Side
      /\ \A y \in Heads(b) : b[y].parent = mHead => y = Root(b)
      /\ \A y \in Heads(b) : b[y].parent \in Places(b) /\ b[b[y].parent].child[b[y].side] = y /\ b[y].side \in Side
      /\ Root(b) # mHead => b[Root(b)].parent = mHead
  <2>1. p \in Heads(b)
    BY DEF Lacks
  <2> QED
    BY <2>1, PlacesOfTree, Zenon
<1>2. p \in Heads(b) /\ s \in Side /\ w \in Heads(b) /\ RedsIn(b, {}) /\ ~b[Root(b)].red /\ o \in Side /\ o # s
      /\ bh[w] = bh[a] + 1 /\ bh[a] \in Nat \ {0}
      /\ \A q \in Side : q = s \/ q = o
  <2>1. p \in Heads(b) /\ s \in Side /\ RedsIn(b, {}) /\ ~b[Root(b)].red
    BY DEF Lacks
  <2>2. o \in Side /\ o # s /\ \A q \in Side : q = s \/ q = o
    BY <2>1, Sides
  <2>3. w \in Heads(b) /\ bh[w] = bh[a] + 1 /\ bh[a] \in Nat \ {0}
    <3> HIDE DEF bh1
    <3> QED
      BY SiblingThere
  <2> QED
    BY <2>1, <2>2, <2>3
<1>3. b[w].parent = p /\ w # p /\ g # p /\ b[w].side = o
  <2>1. Parts(b, sub, p, a, w) /\ w \in sub[w] /\ p \in sub[p]
    BY <1>2, SubParts, InSub
  <2>2. Down(b, p, o)
    BY <1>1, <1>2, Zenon
  <2>3. b[w].parent = p /\ b[w].side = o
    BY <1>1, <1>2, <2>2, Zenon DEF Down
  <2>4. g # p
    <3> SUFFICES ASSUME g = p PROVE FALSE
      OBVIOUS
    <3>1. Parts(b, sub, p, p, b[p].child[Other(gs)])
      BY <1>1, <1>2, SubParts
    <3> QED
      BY <2>1, <3>1, Zenon DEF Parts
  <2> QED
    BY <2>1, <2>3, <2>4, Zenon DEF Parts
<1>5. /\ Typed(c) /\ SameShape(b, c) /\ DOMAIN c = DOMAIN b
      /\ \A n \in DOMAIN b : c[n].red = IF n = w THEN TRUE ELSE b[n].red
  BY Zenon DEF Painted, SameShape
<1>6. Tree(c, sub) /\ Heads(c) = Heads(b) /\ Places(c) = Places(b) /\ Root(c) = Root(b) /\ Kept(b, c)
  <2>1. ~c[mHead].red
    <3>1. mHead \in DOMAIN b /\ mHead # w
      BY <1>1, <1>2, Zenon
    <3> QED
      BY <1>1, <1>5, <3>1, Zenon
  <2> QED
    BY <1>5, <2>1, ShapeTree, ShapeKept
<1>7. Weighted(c, g, gs, bh1)
  <2>1. Weighs(b, p, s, bh, p, o) /\ bh \in [Places(b) -> Nat \ {0}] /\ bh[mHead] = 1
    BY <1>2 DEF Weighted
  <2>2. p \in Places(b) /\ w \in Places(b) /\ p # mHead /\ w # mHead
    BY <1>1, <1>2, Zenon
  <2>3. bh[p] = Blk(b, p) + bh[w] /\ Blk(b, p) \in Nat
    BY <1>2, <2>1, <2>2 DEF Weighs, At, Blk
  <2>4. bh1 \in [Places(b) -> Nat \ {0}] /\ bh1[mHead] = 1 /\ bh1[w] = bh[w] - 1 /\ bh1[p] = bh[p] - 1
        /\ \A y \in Places(b) : y # w /\ y # p => bh1[y] = bh[y]
    <3>1. bh[w] \in Nat /\ bh[w] - 1 \in Nat \ {0} /\ bh[p] - 1 \in Nat \ {0}
      BY <1>2, <2>1, <2>2, <2>3
    <3>2. bh1 \in [Places(b) -> Nat \ {0}]
      BY <2>1, <3>1, Zenon
    <3>3. bh1[w] = bh[w] - 1 /\ bh1[p] = bh[p] - 1 /\ \A y \in Places(b) : y # w /\ y # p => bh1[y] = bh[y]
      BY <1>3, <2>1, <2>2, Zenon
    <3>4. mHead \in Places(b)
      BY <1>1
    <3>5. bh1[mHead] = 1
      BY <2>1, <2>2, <3>3, <3>4, Zenon
    <3> QED
      BY <3>2, <3>3, <3>5, Zenon
  <2> HIDE DEF bh1
  <2>5. ASSUME NEW x \in Heads(b), NEW q \in Side
        PROVE Blk(c, x) + At(g, gs, x, q) + bh1[b[x].child[q]] + bh[x]
                = Blk(b, x) + At(p, s, x, q) + bh[b[x].child[q]] + bh1[x]
    <3> DEFINE z == b[x].child[q]
    <3>1. z \in Places(b) /\ (z # mHead => b[z].parent = x /\ b[z].side = q) /\ x \in Places(b) /\ x \in DOMAIN b
      BY <1>1 DEF Down
    <3>2. Blk(c, x) = (IF x = w THEN 0 ELSE Blk(b, x)) /\ Blk(b, x) \in Nat /\ Blk(b, w) = 1
      BY <1>5, <3>1, Zenon DEF Blk
    <3>3. bh[x] \in Nat \ {0} /\ bh[z] \in Nat \ {0} /\ bh[w] \in Nat \ {0} /\ bh[p] \in Nat \ {0}
      BY <2>1, <2>2, <3>1
    <3>4. z = w <=> x = p /\ q = o
      BY <1>2, <1>3, <2>2, <3>1, Zenon
    <3>5. z = p <=> x = g /\ q = gs
      BY <1>1, <2>2, <3>1, Zenon
    <3>6. At(g, gs, x, q) = (IF z = p THEN 1 ELSE 0) /\ At(p, s, x, q) = (IF x = p /\ q = s THEN 1 ELSE 0)
      BY <3>5 DEF At
    <3>7. bh1[z] = IF z = w \/ z = p THEN bh[z] - 1 ELSE bh[z]
      BY <2>4, <3>1
    <3>8. bh1[x] = IF x = w \/ x = p THEN bh[x] - 1 ELSE bh[x]
      BY <2>4, <3>1
    <3> HIDE DEF z
    <3>9. x = p => z # p
      BY <1>3, <3>5
    <3>10. x = w => z # p /\ z # w
      <4>1. x = w => z # w
        BY <1>3, <3>4
      <4>2. ASSUME x = w, z = p PROVE FALSE
        <5>1. g = w
          BY <3>5, <4>2
        <5>2. Parts(b, sub, p, a, w) /\ Parts(b, sub, w, p, b[w].child[Other(q)]) /\ p \in sub[p] /\ w \in sub[w]
          BY <1>2, <4>2, SubParts, InSub, Zenon DEF z
        <5>3. w \notin sub[p] /\ w \in sub[p]
          BY <5>2, Zenon DEF Parts
        <5> QED
          BY <5>3
      <4> QED
        BY <4>1, <4>2
    <3>11. Blk(c, x) + At(g, gs, x, q) + bh1[z] + bh[x] = Blk(b, x) + At(p, s, x, q) + bh[z] + bh1[x]
      <4>1. CASE x = p /\ q = s
        <5>1. z # w /\ z # p
          BY <1>2, <3>4, <3>9, <4>1
        <5>2. Blk(c, x) = Blk(b, x) /\ At(g, gs, x, q) = 0 /\ At(p, s, x, q) = 1 /\ bh1[z] = bh[z] /\ bh1[x] = bh[x] - 1
          BY <1>3, <3>2, <3>6, <3>7, <3>8, <4>1, <5>1
        <5> QED
          BY <3>2, <3>3, <5>2
      <4>2. CASE x = p /\ q = o
        <5>1. z = w /\ z # p
          BY <3>4, <3>9, <4>2
        <5>2. Blk(c, x) = Blk(b, x) /\ At(g, gs, x, q) = 0 /\ At(p, s, x, q) = 0 /\ bh1[z] = bh[z] - 1 /\ bh1[x] = bh[x] - 1
          BY <1>2, <1>3, <3>2, <3>6, <3>7, <3>8, <4>2, <5>1, Zenon
        <5> QED
          BY <3>2, <3>3, <5>2
      <4>3. CASE x = w
        <5>1. Blk(c, x) = 0 /\ Blk(b, x) = 1 /\ At(g, gs, x, q) = 0 /\ At(p, s, x, q) = 0 /\ bh1[z] = bh[z] /\ bh1[x] = bh[x] - 1
          BY <1>3, <3>2, <3>6, <3>7, <3>8, <3>10, <4>3
        <5> QED
          BY <3>3, <5>1
      <4>4. CASE x # p /\ x # w /\ z = p
        <5>1. Blk(c, x) = Blk(b, x) /\ At(g, gs, x, q) = 1 /\ At(p, s, x, q) = 0 /\ bh1[z] = bh[z] - 1 /\ bh1[x] = bh[x]
          BY <3>2, <3>6, <3>7, <3>8, <4>4
        <5> QED
          BY <3>2, <3>3, <5>1
      <4>5. CASE x # p /\ x # w /\ z # p
        <5>1. Blk(c, x) = Blk(b, x) /\ At(g, gs, x, q) = 0 /\ At(p, s, x, q) = 0 /\ bh1[z] = bh[z] /\ bh1[x] = bh[x]
          BY <3>2, <3>4, <3>6, <3>7, <3>8, <4>5
        <5> QED
          BY <3>2, <3>3, <5>1
      <4> QED
        BY <1>2, <4>1, <4>2, <4>3, <4>4, <4>5
    <3> QED
      BY <3>11 DEF z
  <2> HIDE DEF g, gs
  <2>6. \A x \in Heads(b), q \in Side :
          Blk(c, x) + At(g, gs, x, q) + bh1[b[x].child[q]] + bh[x]
            = Blk(b, x) + At(p, s, x, q) + bh[b[x].child[q]] + bh1[x]
    BY <2>5
  <2>7. SameShape(b, c) /\ Heads(c) = Heads(b) /\ Places(c) = Places(b) /\ bh1 \in [Places(b) -> Nat \ {0}] /\ bh1[mHead] = 1
    BY <1>5, <1>6, <2>4
  <2>8. TintedTo(b, c, p, s, bh, g, gs, bh1)
    BY <2>6, <2>7 DEF TintedTo
  <2> QED
    BY <2>8, TintedWeights
<1> DEFINE f == AtWork("erase", p)
<1>8. f.op = "erase" /\ f.cur = p /\ f = AtWork("erase", f.cur)
  BY Ops
<1> HIDE DEF f
<1>9. \A y \in Places(b) : c[y].parent = b[y].parent /\ c[y].side = b[y].side /\ c[y].child = b[y].child
                           /\ c[y].red = (IF y = w THEN TRUE ELSE b[y].red)
  <2>1. \A y \in Places(b) : y \in DOMAIN b
    BY <1>1
  <2> QED
    BY <1>5, <2>1, Zenon DEF SameShape
<1>10. Fits(c, f) /\ LackAt(c, f) = g /\ LackSide(c, f) = gs
  <2>1. p \in Places(b) /\ (p = Root(b) \/ g \in Heads(b))
    BY <1>1, <1>2, Zenon
  <2>2. c[p].parent = g /\ c[p].side = gs /\ c[g].child = b[g].child
    BY <1>1, <1>9, <2>1, Zenon
  <2>3. f.cur \in Places(c) /\ c[f.cur].parent \in Places(c) /\ c[f.cur].side \in Side
        /\ c[c[f.cur].parent].child[c[f.cur].side] = f.cur /\ (f.cur = Root(c) \/ c[f.cur].parent \in Heads(c))
    BY <1>1, <1>6, <1>8, <2>1, <2>2, Zenon
  <2> HIDE DEF g, gs
  <2> QED
    BY <1>8, <2>2, <2>3 DEF Fits, LackAt, LackSide
<1>11. Reds(c, f)
  <2>1. ASSUME NEW y \in Heads(c), c[y].red, c[c[y].parent].red PROVE p = c[y].parent \/ p = y
    <3>1. y \in Heads(b) /\ y \in Places(b) /\ c[y].parent = b[y].parent /\ b[y].parent \in Places(b)
      BY <1>1, <1>6, <1>9, <2>1, Zenon
    <3>2. CASE y = w
      BY <1>3, <3>1, <3>2
    <3>3. CASE y # w /\ b[y].parent = w
      <4>1. b[w].child[b[y].side] = y /\ b[y].side \in Side
        BY <1>1, <3>1, <3>3, Zenon
      <4>2. ~b[y].red
        BY <4>1, Zenon DEF RedNephew
      <4> QED
        BY <1>9, <2>1, <3>1, <3>3, <4>2, Zenon
    <3>4. CASE y # w /\ b[y].parent # w
      <4>1. b[y].red /\ b[b[y].parent].red
        BY <1>9, <2>1, <3>1, <3>4, ZenonT(30)
      <4> QED
        BY <1>2, <3>1, <4>1 DEF RedsIn
    <3> QED
      BY <3>2, <3>3, <3>4
  <2>2. ~c[Root(c)].red
    <3>1. Root(b) # w /\ Root(b) \in Places(b)
      <4>1. Root(b) \in Places(b)
        BY PlacesOfTree
      <4> QED
        BY <1>1, <1>2, <1>3, <4>1
    <3> QED
      BY <1>2, <1>6, <1>9, <3>1, ZenonT(30)
  <2> QED
    BY <1>8, <2>1, <2>2 DEF Reds
<1>12. Fixing(c, f)
  BY <1>6, <1>7, <1>10, <1>11, Zenon DEF Fixing
<1>13. b[p].red => c[p].red
  BY <1>1, <1>2, <1>3, <1>9, Zenon
<1> QED
  BY <1>5, <1>6, <1>12, <1>13 DEF f, ReddenedTo

\* The far one is red after FarRed.
FarPrepared(b, b1, p, s) == Prepared(b, b1, p, s) /\ b1[b1[b1[p].child[Other(s)]].child[Other(s)]].red

\* FarRed makes the far child of the sibling red, where it has a red child at all.
LEMMA FarRedPrepared ==
  ASSUME NEW b, NEW sub, Tree(b, sub), NEW p, NEW s, Lacks(b, p, s), NEW bh, Weighted(b, p, s, bh),
         NEW w, w = b[p].child[Other(s)], ~b[w].red, RedNephew(b, w)
  PROVE  FarPrepared(b, FarRed(b, p, s), p, s)
<1>1. \E c \in Side : b[b[w].child[c]].red
  BY Zenon DEF RedNephew
<1> QED
  BY <1>1, FarRedLacks, Zenon DEF FarPrepared

\* What a turn of erase_fixup leaves: if there is another turn, it has only recoloured, and
\* gone up to the parent.
TurnedTo(b, f, c, g) ==
  /\ Fixing(c, g) /\ Kept(b, c)
  /\ Running(c, g) => SameShape(b, c) /\ g.cur = b[f.cur].parent

\* Both ways through a turn of erase_fixup leave that.
LEMMA EraseTurn ==
  ASSUME NEW b, NEW f, Fixing(b, f), f.op = "erase", Lacking(b, f.cur),
         NEW p, p = b[f.cur].parent, NEW s, s = b[f.cur].side, NEW b1, b1 = BlackSibling(b, p, s),
         NEW w, w = b1[p].child[Other(s)]
  PROVE  /\ (\A c \in Side : ~b1[b1[w].child[c]].red)
              => TurnedTo(b, f, [b1 EXCEPT ![w].red = TRUE], AtWork("erase", p))
         /\ (\E c \in Side : b1[b1[w].child[c]].red)
              => LET c == Mend(FarRed(b1, p, s), p, s)
                 IN TurnedTo(b, f, c, AtWork("erase", Root(c)))
<1>1. Fits(b, f) /\ Reds(b, f)
  BY Zenon DEF Fixing
<1>2. /\ f.cur \in Places(b) /\ p \in Places(b) /\ s \in Side /\ b[p].child[s] = f.cur
      /\ f.cur = Root(b) \/ p \in Heads(b)
      /\ LackAt(b, f) = p /\ LackSide(b, f) = s
  BY <1>1, FitsErase, Zenon
<1>3. PICK sub : Tree(b, sub)
  BY DEF Fixing
<1>4. PICK bh : Weighted(b, p, s, bh)
  BY <1>2, Zenon DEF Fixing
<1>5. Lacks(b, p, s)
  <2>1. p \in Heads(b) /\ ~b[f.cur].red /\ f.cur # Root(b)
    BY <1>2, Zenon DEF Lacking
  <2>2. RedsIn(b, {}) /\ ~b[Root(b)].red
    BY <1>1, <2>1, Zenon DEF Reds, RedsIn
  <2> QED
    BY <1>2, <2>1, <2>2, Zenon DEF Lacks
<1>6. Prepared(b, b1, p, s) /\ (b[b[p].child[Other(s)]].red => b1[p].red) /\ (~b[b[p].child[Other(s)]].red => b1 = b)
  BY <1>3, <1>4, <1>5, BlackSiblingLacks, ZenonT(30)
<1>7. PICK sub1 : Tree(b1, sub1)
  BY <1>6, Zenon DEF Prepared
<1>8. PICK bh1 : Weighted(b1, p, s, bh1)
  BY <1>6, Zenon DEF Prepared
<1>9. Lacks(b1, p, s) /\ Kept(b, b1) /\ ~b1[w].red
  BY <1>6, Zenon DEF Prepared
<1>10. ASSUME \A c \in Side : ~b1[b1[w].child[c]].red
       PROVE  TurnedTo(b, f, [b1 EXCEPT ![w].red = TRUE], AtWork("erase", p))
  <2> DEFINE c == [b1 EXCEPT ![w].red = TRUE]
             g == AtWork("erase", p)
  <2>1. Fixing(c, g) /\ Kept(b1, c) /\ SameShape(b1, c) /\ (b1[p].red => c[p].red)
    <3>1. ~RedNephew(b1, w)
      BY <1>10, Zenon DEF RedNephew
    <3>2. Painted(b1, c, w, TRUE, w, TRUE, w, TRUE)
      <4>1. w \in DOMAIN b1 /\ Typed(b1)
        <5>1. w \in Heads(b1)
          BY <1>7, <1>8, <1>9, SiblingThere, Zenon
        <5> QED
          BY <1>7, <5>1, PlacesOfTree, Zenon
      <4> QED
        BY <4>1, PaintOne, Zenon
    <3> HIDE DEF c, g
    <3>3. ReddenedTo(b1, c, p)
      BY <1>7, <1>8, <1>9, <3>1, <3>2, ReddenFixes, Zenon
    <3> QED
      BY <3>3, Zenon DEF ReddenedTo, g
  <2>2. g.op = "erase" /\ g.cur = p
    BY Ops
  <2> HIDE DEF c, g
  <2>3. Kept(b, c)
    BY <1>9, <2>1, KeptKept, Zenon
  <2>4. ASSUME Running(c, g) PROVE SameShape(b, c) /\ g.cur = b[f.cur].parent
    <3>1. ~c[p].red
      BY <2>2, <2>4 DEF Running, Lacking
    <3>2. b1 = b
      BY <1>6, <2>1, <3>1, Zenon
    <3> QED
      BY <2>1, <2>2, <3>2
  <2>5. TurnedTo(b, f, c, g)
    BY <2>1, <2>3, <2>4, Zenon DEF TurnedTo
  <2> QED
    BY <2>5, Zenon DEF c, g
<1>11. ASSUME \E c \in Side : b1[b1[w].child[c]].red
       PROVE  LET c == Mend(FarRed(b1, p, s), p, s)
              IN TurnedTo(b, f, c, AtWork("erase", Root(c)))
  <2> DEFINE b2 == FarRed(b1, p, s)
             w2 == b2[p].child[Other(s)]
             c == Mend(b2, p, s)
             g == AtWork("erase", Root(c))
  <2>1. Prepared(b1, b2, p, s) /\ b2[b2[w2].child[Other(s)]].red
    <3>1. RedNephew(b1, w)
      BY <1>11, Zenon DEF RedNephew
    <3> HIDE DEF c, g, b2
    <3>2. FarPrepared(b1, FarRed(b1, p, s), p, s)
      BY <1>7, <1>8, <1>9, <3>1, FarRedPrepared, Zenon
    <3> QED
      BY <3>2, Zenon DEF FarPrepared, b2
  <2> HIDE DEF b2
  <2>2. PICK sub2 : Tree(b2, sub2)
    BY <2>1, Zenon DEF Prepared
  <2>3. PICK bh2 : Weighted(b2, p, s, bh2)
    BY <2>1, Zenon DEF Prepared
  <2>4. Lacks(b2, p, s) /\ Kept(b1, b2) /\ ~b2[w2].red
    BY <2>1, Zenon DEF Prepared
  <2>5. Sound(c) /\ Kept(b2, c) /\ Root(c) # mHead
    <3> HIDE DEF c
    <3> QED
      BY <2>1, <2>2, <2>3, <2>4, MendSound, Zenon DEF c
  <2>6. g.op = "erase" /\ g.cur = Root(c)
    BY Ops
  <2> HIDE DEF c, w2
  <2>7. Fixing(c, g)
    BY <2>5, SoundRooted
  <2>8. Kept(b, c)
    BY <1>9, <2>4, <2>5, KeptKept, Zenon
  <2> HIDE DEF g
  <2>9. ~Running(c, g)
    BY <2>6 DEF Running, Lacking
  <2>10. TurnedTo(b, f, c, g)
    BY <2>7, <2>8, <2>9 DEF TurnedTo
  <2> QED
    BY <2>10, Zenon DEF g, c, b2
<1> QED
  BY <1>10, <1>11, Zenon

\* A turn of erase_fixup leaves what it lacks as its only fault.
LEMMA EraseFixupFixes ==
  ASSUME Fixing(t, fixup), EraseFixup
  PROVE  TurnedTo(t, fixup, t', fixup')
<1> DEFINE p == t[fixup.cur].parent
           s == t[fixup.cur].side
           b == BlackSibling(t, p, s)
           w == b[p].child[Other(s)]
           n == [b EXCEPT ![w].red = TRUE]
           m == Mend(FarRed(b, p, s), p, s)
<1>1. /\ fixup.op = "erase" /\ Lacking(t, fixup.cur)
      /\ IF \A c \in Side : ~b[b[w].child[c]].red
         THEN t' = n /\ fixup' = [fixup EXCEPT !.cur = p]
         ELSE t' = m /\ fixup' = [fixup EXCEPT !.cur = Root(m)]
  BY Zenon DEF EraseFixup
<1>2. \A v : [fixup EXCEPT !.cur = v] = AtWork("erase", v)
  <2>1. fixup = AtWork("erase", fixup.cur)
    BY <1>1, FitsErase, Zenon DEF Fixing
  <2> QED
    BY <2>1 DEF AtWork
<1>3. /\ (\A c \in Side : ~b[b[w].child[c]].red) => TurnedTo(t, fixup, n, AtWork("erase", p))
      /\ (\E c \in Side : b[b[w].child[c]].red) => TurnedTo(t, fixup, m, AtWork("erase", Root(m)))
  <2>1. fixup.op = "erase" /\ Lacking(t, fixup.cur)
    BY <1>1, Zenon
  <2> HIDE DEF n, m
  <2> QED
    BY <2>1, EraseTurn, Zenon DEF n, m
<1> HIDE DEF n, m, b, w, p, s
<1>4. CASE \A c \in Side : ~b[b[w].child[c]].red
  <2>1. t' = n /\ fixup' = AtWork("erase", p)
    BY <1>1, <1>2, <1>4
  <2> QED
    BY <1>3, <1>4, <2>1
<1>5. CASE ~\A c \in Side : ~b[b[w].child[c]].red
  <2>1. t' = m /\ fixup' = AtWork("erase", Root(m))
    BY <1>1, <1>2, <1>5
  <2> QED
    BY <1>3, <1>5, <2>1
<1> QED
  BY <1>4, <1>5

-----------------------------------------------------------------------------
(***************************************************************************)
(* Where a node is inserted.                                               *)
(***************************************************************************)

\* From each x of H there is a step to next[x], of lower rank, until done[x].
Descends(H, N, rank, V, done, out, next) ==
  /\ N \in Nat /\ rank \in [H -> 0 .. N] /\ out \in [H -> V]
  /\ \A x \in H : done[x] \/ (next[x] \in H /\ rank[next[x]] < rank[x])

\* g has the value of out at the end of these steps.
Arrives(g, H, V, done, out, next) ==
  g \in [H -> V] /\ \A x \in H : g[x] = IF done[x] THEN out[x] ELSE g[next[x]]

\* Such a function exists.
LEMMA Descent ==
  ASSUME NEW H, NEW N, NEW rank, NEW V, NEW done, NEW out, NEW next,
         Descends(H, N, rank, V, done, out, next)
  PROVE  \E g : Arrives(g, H, V, done, out, next)
<1> DEFINE step == [x \in H |-> [g \in [H -> V] |-> IF done[x] THEN out[x] ELSE g[next[x]]]]
<1>1. /\ N \in Nat /\ rank \in [H -> 0 .. N] /\ out \in [H -> V]
      /\ \A x \in H : done[x] \/ (next[x] \in H /\ rank[next[x]] < rank[x])
  BY DEF Descends
<1>2. CASE H = {}
  <2>1. out \in [H -> V] /\ Arrives(out, H, V, done, out, next)
    BY <1>1, <1>2 DEF Arrives
  <2> QED
    BY <2>1
<1>3. CASE H # {}
  <2>1. PICK x0 : x0 \in H
    BY <1>3
  <2>2. out[x0] \in V
    BY <1>1, <2>1
  <2>3. step \in [H -> [[H -> V] -> V]]
    BY <1>1
  <2>4. LooksDown(H, rank, V, step)
    BY <1>1 DEF LooksDown
  <2>5. Steps(H, N, rank, V, out[x0], step)
    BY <1>1, <2>2, <2>3, <2>4 DEF Steps
  <2>6. PICK g : Solves(g, H, V, step)
    <3> HIDE DEF step
    <3> QED
      BY <2>5, RecursionOverRank
  <2>7. g \in [H -> V] /\ \A x \in H : g[x] = step[x][g]
    <3> HIDE DEF step
    <3> QED
      BY <2>6 DEF Solves
  <2>8. Arrives(g, H, V, done, out, next)
    BY <2>7 DEF Arrives
  <2> QED
    BY <2>8
<1> QED
  BY <1>2, <1>3

\* In the subtree of y, a node of key k belongs below at on side s, or in its ring.
SpotIn(b, sub, k, y, at, s) ==
  /\ at \in sub[y]
  /\ s = RING => KeyOf[at] = k
  /\ s # RING => /\ s \in Side /\ b[at].child[s] = mHead /\ Beyond(s, k, KeyOf[at])
                 /\ \A z \in sub[y], q \in Side : at \in sub[b[z].child[q]] => Beyond(q, k, KeyOf[z])

\* The same of the tree, which may be empty.
Spot(b, sub, k, at, s) ==
  \/ Root(b) = mHead /\ at = mHead /\ s = LEFT
  \/ Root(b) # mHead /\ SpotIn(b, sub, k, Root(b), at, s)

\* What the recursion of do_insert defines.
LEMMA PlaceSteps ==
  ASSUME NEW b, NEW sub, Tree(b, sub), NEW k \in Nat, Root(b) # mHead
  PROVE  \E f \in [Heads(b) -> [at : Heads(b), side : Side \cup {RING}]] :
           /\ Place(b, k) = f[Root(b)]
           /\ \A y \in Heads(b) :
                LET s == IF k < KeyOf[y] THEN LEFT ELSE RIGHT
                    c == b[y].child[s]
                IN f[y] = IF KeyOf[y] = k THEN [at |-> y, side |-> RING]
                          ELSE IF c = mHead THEN [at |-> y, side |-> s] ELSE f[c]
<1> DEFINE H == Heads(b)
           V == [at : H, side : Side \cup {RING}]
           sd(y) == IF k < KeyOf[y] THEN LEFT ELSE RIGHT
           ch(y) == b[y].child[sd(y)]
           done == [y \in H |-> KeyOf[y] = k \/ ch(y) = mHead]
           out == [y \in H |-> [at |-> y, side |-> IF KeyOf[y] = k THEN RING ELSE sd(y)]]
           next == [y \in H |-> ch(y)]
           Rec(h) == h = [y \in H |-> CASE KeyOf[y] = k -> [at |-> y, side |-> RING]
                                        [] KeyOf[y] # k /\ ch(y) = mHead -> [at |-> y, side |-> sd(y)]
                                        [] OTHER -> h[ch(y)]]
           impl == CHOOSE h : Rec(h)
           size == SizeOf(b, sub)
           N == Cardinality(H)
<1>1. N \in Nat /\ size \in [H -> 0 .. N]
      /\ \A x \in H, s \in Side : b[x].child[s] # mHead => b[x].child[s] \in H /\ size[b[x].child[s]] < size[x]
  BY SizesFall
<1>2. \A y \in H : sd(y) \in Side
  BY DEF Side
<1>3. Descends(H, N, size, V, done, out, next)
  <2>1. out \in [H -> V]
    BY <1>2
  <2>2. \A x \in H : done[x] \/ (next[x] \in H /\ size[next[x]] < size[x])
    BY <1>1, <1>2, Zenon
  <2> QED
    BY <1>1, <2>1, <2>2 DEF Descends
<1>4. PICK g : Arrives(g, H, V, done, out, next)
  <2> HIDE DEF H, V, done, out, next, size, N
  <2> QED
    BY <1>3, Descent
<1>5. g \in [H -> V] /\ \A y \in H : g[y] = IF done[y] THEN out[y] ELSE g[next[y]]
  <2> HIDE DEF H, V, done, out, next
  <2> QED
    BY <1>4 DEF Arrives
<1>6. \A y \in H : g[y] = CASE KeyOf[y] = k -> [at |-> y, side |-> RING]
                            [] KeyOf[y] # k /\ ch(y) = mHead -> [at |-> y, side |-> sd(y)]
                            [] OTHER -> g[ch(y)]
  <2> SUFFICES ASSUME NEW y \in H
               PROVE g[y] = CASE KeyOf[y] = k -> [at |-> y, side |-> RING]
                              [] KeyOf[y] # k /\ ch(y) = mHead -> [at |-> y, side |-> sd(y)]
                              [] OTHER -> g[ch(y)]
    OBVIOUS
  <2>1. g[y] = IF KeyOf[y] = k \/ ch(y) = mHead THEN [at |-> y, side |-> IF KeyOf[y] = k THEN RING ELSE sd(y)] ELSE g[ch(y)]
    BY <1>5, Zenon
  <2> HIDE DEF done, out, next, H, V, sd, ch
  <2>2. CASE KeyOf[y] = k
    BY <2>1, <2>2
  <2>3. CASE KeyOf[y] # k /\ ch(y) = mHead
    BY <2>1, <2>3
  <2>4. CASE KeyOf[y] # k /\ ch(y) # mHead
    BY <2>1, <2>4
  <2> QED
    BY <2>2, <2>3, <2>4
<1>7. Rec(g)
  BY <1>5, <1>6
<1>8. Rec(impl)
  <2> HIDE DEF Rec
  <2> QED
    BY <1>7
<1>9. Place(b, k) = impl[Root(b)]
  BY Zenon DEF Place
<1> HIDE DEF impl
<1>10. \A y \in H : impl[y] = IF KeyOf[y] = k THEN [at |-> y, side |-> RING]
                              ELSE IF ch(y) = mHead THEN [at |-> y, side |-> sd(y)] ELSE impl[ch(y)]
  <2> SUFFICES ASSUME NEW y \in H
               PROVE  impl[y] = IF KeyOf[y] = k THEN [at |-> y, side |-> RING]
                              ELSE IF ch(y) = mHead THEN [at |-> y, side |-> sd(y)] ELSE impl[ch(y)]
    OBVIOUS
  <2>1. impl[y] = CASE KeyOf[y] = k -> [at |-> y, side |-> RING]
                            [] KeyOf[y] # k /\ ch(y) = mHead -> [at |-> y, side |-> sd(y)]
                            [] OTHER -> impl[ch(y)]
    BY <1>8, Zenon
  <2> HIDE DEF sd, ch
  <2>2. CASE KeyOf[y] = k
    BY <2>1, <2>2
  <2>3. CASE KeyOf[y] # k /\ ch(y) = mHead
    BY <2>1, <2>3
  <2>4. CASE KeyOf[y] # k /\ ch(y) # mHead
    BY <2>1, <2>4
  <2> QED
    BY <2>2, <2>3, <2>4
<1>11. impl \in [H -> V]
  <2> DEFINE G == {y \in H : impl[y] \in V}
  <2>1. H \subseteq G
    <3>1. ASSUME NEW y \in H, \A q \in Side : b[y].child[q] # mHead => b[y].child[q] \in G PROVE y \in G
      <4>1. ch(y) # mHead => impl[ch(y)] \in V
        BY <1>2, <3>1
      <4>2. sd(y) \in Side
        BY <1>2
      <4> HIDE DEF sd, ch
      <4>3. impl[y] = IF KeyOf[y] = k THEN [at |-> y, side |-> RING]
                      ELSE IF ch(y) = mHead THEN [at |-> y, side |-> sd(y)] ELSE impl[ch(y)]
        BY <1>10
      <4>4. [at |-> y, side |-> RING] \in V /\ [at |-> y, side |-> sd(y)] \in V
        BY <4>2
      <4> HIDE DEF V
      <4> QED
        BY <4>1, <4>3, <4>4
    <3> HIDE DEF G
    <3> QED
      BY <3>1, TreeInduction
  <2>2. impl = [y \in H |-> impl[y]]
    BY <1>8
  <2> HIDE DEF V, H
  <2> QED
    BY <2>1, <2>2
<1> HIDE DEF V
<1>12. impl \in [Heads(b) -> V] /\ Place(b, k) = impl[Root(b)] /\
           \A y \in Heads(b) :
                LET s == IF k < KeyOf[y] THEN LEFT ELSE RIGHT
                    c == b[y].child[s]
                IN impl[y] = IF KeyOf[y] = k THEN [at |-> y, side |-> RING]
                          ELSE IF c = mHead THEN [at |-> y, side |-> s] ELSE impl[c]
  BY <1>9, <1>10, <1>11
<1> QED
  BY <1>12 DEF V

\* Where do_insert puts a node is the spot of its key.
LEMMA PlaceSpot ==
  ASSUME NEW b, NEW sub, Tree(b, sub), NEW k \in Nat
  PROVE  Spot(b, sub, k, Place(b, k).at, Place(b, k).side)
<1> DEFINE H == Heads(b)
<1>1. CASE Root(b) = mHead
  <2>1. Place(b, k) = [at |-> mHead, side |-> LEFT]
    BY <1>1 DEF Place
  <2> QED
    BY <1>1, <2>1 DEF Spot
<1>2. CASE Root(b) # mHead
  <2>1. PICK f \in [H -> [at : H, side : Side \cup {RING}]] :
           /\ Place(b, k) = f[Root(b)]
           /\ \A y \in H :
                LET s == IF k < KeyOf[y] THEN LEFT ELSE RIGHT
                    c == b[y].child[s]
                IN f[y] = IF KeyOf[y] = k THEN [at |-> y, side |-> RING]
                          ELSE IF c = mHead THEN [at |-> y, side |-> s] ELSE f[c]
    BY <1>2, PlaceSteps
  <2> DEFINE G == {y \in H : SpotIn(b, sub, k, y, f[y].at, f[y].side)}
  <2>2. ASSUME NEW y \in H, \A q \in Side : b[y].child[q] # mHead => b[y].child[q] \in G
        PROVE  y \in G
    <3> DEFINE s == IF k < KeyOf[y] THEN LEFT ELSE RIGHT
               c == b[y].child[s]
               d == b[y].child[Other(s)]
    <3>1. s \in Side /\ Other(s) \in Side /\ s # RING /\ \A q \in Side : q = s \/ q = Other(s)
      <4>1. s \in Side
        BY DEF Side
      <4> QED
        BY <4>1, Sides
    <3>2. KeyOf[y] # k => Beyond(s, k, KeyOf[y])
      <4>1. KeyOf[y] \in Nat
        BY HeadsTyped DEF Tree
      <4> QED
        BY <4>1, Sides DEF Beyond
    <3>3. f[y] = IF KeyOf[y] = k THEN [at |-> y, side |-> RING]
                 ELSE IF c = mHead THEN [at |-> y, side |-> s] ELSE f[c]
      BY <2>1
    <3> HIDE DEF s, c, d, G
    <3>4. Parts(b, sub, y, c, d) /\ sub[mHead] = {}
      BY <3>1, SubParts DEF c, d, Tree, Subtrees
    <3>5. CASE KeyOf[y] = k
      <4>1. f[y].at = y /\ f[y].side = RING
        BY <3>3, <3>5
      <4>2. SpotIn(b, sub, k, y, f[y].at, f[y].side)
        BY <3>4, <3>5, <4>1 DEF SpotIn, Parts
      <4> QED
        BY <4>2 DEF G
    <3>6. CASE KeyOf[y] # k /\ c = mHead
      <4>1. f[y].at = y /\ f[y].side = s
        BY <3>3, <3>6
      <4>2. ASSUME NEW z \in sub[y], NEW q \in Side, y \in sub[b[z].child[q]] PROVE Beyond(q, k, KeyOf[z])
        <5>1. z \in H /\ sub[z] \subseteq sub[y]
          BY SubOfSub
        <5>2. Parts(b, sub, z, b[z].child[q], b[z].child[Other(q)])
          BY <5>1, SubParts
        <5>3. z \notin sub[b[z].child[q]] /\ sub[b[z].child[q]] \subseteq sub[z] /\ y \in H
          BY <5>2 DEF Parts
        <5>4. sub[y] \subseteq sub[b[z].child[q]]
          <6>1. b[z].child[q] \in H
            BY <3>4, <4>2, <5>2 DEF Parts, Places
          <6> QED
            BY <4>2, <6>1, SubOfSub
        <5> QED
          BY <5>3, <5>4
      <4>3. SpotIn(b, sub, k, y, f[y].at, f[y].side)
        BY <3>1, <3>2, <3>4, <3>6, <4>1, <4>2 DEF SpotIn, Parts, c
      <4> QED
        BY <4>3 DEF G
    <3>7. CASE KeyOf[y] # k /\ c # mHead
      <4>1. f[y] = f[c] /\ SpotIn(b, sub, k, c, f[c].at, f[c].side)
        BY <2>2, <3>1, <3>3, <3>7 DEF G, c
      <4> DEFINE at == f[c].at
                 a == f[c].side
      <4>2. SpotIn(b, sub, k, c, at, a)
        BY <4>1
      <4> HIDE DEF at, a
      <4>3. at \in sub[y] /\ at \in sub[c] /\ at \notin sub[d]
        BY <3>4, <4>2 DEF SpotIn, Parts
      <4>4. ASSUME NEW z \in sub[y], NEW q \in Side, at \in sub[b[z].child[q]], a # RING PROVE Beyond(q, k, KeyOf[z])
        <5>1. CASE z \in sub[c]
          BY <4>2, <4>4, <5>1 DEF SpotIn
        <5>2. CASE z = y
          <6>1. q = s
            BY <3>1, <4>3, <4>4, <5>2 DEF d
          <6> QED
            BY <3>2, <3>7, <5>2, <6>1
        <5>3. CASE z \in sub[d]
          <6>1. d \in H
            BY <3>4, <5>3 DEF Parts, Places
          <6>2. sub[z] \subseteq sub[d] /\ z \in H
            BY <5>3, <6>1, SubOfSub
          <6>3. Parts(b, sub, z, b[z].child[q], b[z].child[Other(q)])
            BY <6>2, SubParts
          <6> QED
            BY <4>3, <4>4, <6>2, <6>3 DEF Parts
        <5> QED
          BY <3>4, <5>1, <5>2, <5>3 DEF Parts
      <4>5. SpotIn(b, sub, k, y, at, a)
        BY <4>2, <4>3, <4>4 DEF SpotIn
      <4> QED
        BY <4>1, <4>5 DEF G, at, a
    <3> QED
      BY <3>5, <3>6, <3>7
  <2>3. H \subseteq G
    <3> HIDE DEF G
    <3> QED
      BY <2>2, TreeInduction
  <2>4. Root(b) \in H
    BY <1>2, PlacesOfTree
  <2> QED
    BY <1>2, <2>1, <2>3, <2>4 DEF Spot
<1> QED
  BY <1>1, <1>2

\* In c there is a new node n, red and alone, the child of at on side s.
AttachedTo(b, c, n, at, s) ==
  /\ DOMAIN c = DOMAIN b \cup {n}
  /\ c[n] = NodeBase(Both(mHead), Both(n), at, s, TRUE)
  /\ \A y \in DOMAIN b :
       /\ c[y].near = b[y].near /\ c[y].parent = b[y].parent /\ c[y].side = b[y].side /\ c[y].red = b[y].red
       /\ y # at => c[y].child = b[y].child
  /\ \A y \in DOMAIN b, q \in Side : c[y].child[q] = IF y = at /\ q = s THEN n ELSE b[y].child[q]

\* attach_to does that.
LEMMA AttachAttached ==
  ASSUME NEW b, Typed(b), NEW n \in Nodes, n \notin DOMAIN b, NEW at \in DOMAIN b, NEW s \in Side, b[at].child[s] = mHead
  PROVE  Typed(AttachTo(b, n, at, s)) /\ AttachedTo(b, AttachTo(b, n, at, s), n, at, s)
<1> DEFINE new == NodeBase(Both(b[at].child[s]), Both(n), at, s, TRUE)
           b1 == [y \in DOMAIN b \cup {n} |-> IF y = n THEN new ELSE b[y]]
           c == Hang(b1, at, s, n)
<1>1. AttachTo(b, n, at, s) = c
  BY DEF AttachTo
<1>2. new = NodeBase(Both(mHead), Both(n), at, s, TRUE) /\ new \in Base
  BY DEF NodeBase, Both, Base, Typed
<1>3. Typed(b1) /\ at \in DOMAIN b1 /\ n \in DOMAIN b1 /\ DOMAIN b1 = DOMAIN b \cup {n} /\ at # n
  <2>1. \A y \in DOMAIN b1 : b1[y] \in Base
    BY <1>2, Zenon DEF Typed
  <2>2. DOMAIN b1 = DOMAIN b \cup {n} /\ b1 = [y \in DOMAIN b1 |-> b1[y]]
    BY Zenon
  <2> HIDE DEF b1
  <2>3. b1 \in [DOMAIN b1 -> Base]
    BY <2>1, <2>2
  <2> QED
    BY <2>2, <2>3 DEF Typed
<1>4. b1[n] = NodeBase(Both(mHead), Both(n), at, s, TRUE) /\ \A y \in DOMAIN b : b1[y] = b[y]
  BY <1>2, Zenon
<1> HIDE DEF b1, new
<1>5. Typed(c) /\ Hangs(b1, c, at, s, n)
  BY <1>3, HangHangs
<1>6. DOMAIN c = DOMAIN b \cup {n} /\ c \in [DOMAIN c -> Base]
  BY <1>3, <1>5 DEF Hangs, Typed
<1> HIDE DEF c
<1>7. c[n] = NodeBase(Both(mHead), Both(n), at, s, TRUE)
  <2>1. c[n].near = Both(n) /\ c[n].red = TRUE /\ c[n].parent = at /\ c[n].side = s
    BY <1>3, <1>4, <1>5 DEF Hangs, NodeBase
  <2>2. \A q \in Side : c[n].child[q] = mHead
    BY <1>3, <1>4, <1>5 DEF Hangs, NodeBase, Both
  <2>3. c[n] \in Base
    BY <1>6
  <2>4. c[n].child \in [Side -> Nodes \cup {mHead, Null}]
    BY <2>3 DEF Base
  <2>5. c[n].child = Both(mHead)
    BY <2>2, <2>4 DEF Both
  <2> QED
    BY <2>1, <2>3, <2>5, Zenon DEF NodeBase, Base
<1>8. ASSUME NEW y \in DOMAIN b
      PROVE  /\ c[y].near = b[y].near /\ c[y].parent = b[y].parent /\ c[y].side = b[y].side /\ c[y].red = b[y].red
             /\ y # at => c[y].child = b[y].child
             /\ \A q \in Side : c[y].child[q] = IF y = at /\ q = s THEN n ELSE b[y].child[q]
  <2>1. y # n /\ y \in DOMAIN b1 /\ b1[y] = b[y] /\ y \in DOMAIN c
    BY <1>3, <1>4, <1>6
  <2>2. c[y].near = b[y].near /\ c[y].parent = b[y].parent /\ c[y].side = b[y].side /\ c[y].red = b[y].red
    BY <1>5, <2>1 DEF Hangs
  <2>3. \A q \in Side : c[y].child[q] = IF y = at /\ q = s THEN n ELSE b[y].child[q]
    BY <1>5, <2>1 DEF Hangs
  <2>4. c[y].child \in [Side -> Nodes \cup {mHead, Null}] /\ b[y].child \in [Side -> Nodes \cup {mHead, Null}]
    BY <1>6, <2>1 DEF Base, Typed
  <2>5. ASSUME y # at PROVE c[y].child = b[y].child
    <3>1. \A q \in Side : c[y].child[q] = b[y].child[q]
      BY <2>3, <2>5
    <3> QED
      BY <2>4, <3>1
  <2> QED
    BY <2>2, <2>3, <2>5
<1> QED
  BY <1>1, <1>5, <1>6, <1>7, <1>8 DEF AttachedTo

\* A node in its spot is one more node of the tree.
LEMMA AttachTree ==
  ASSUME NEW b, NEW sub, Tree(b, sub), NEW n \in Nodes, n \notin DOMAIN b,
         NEW at, NEW s, s # RING, Spot(b, sub, KeyOf[n], at, s),
         NEW c, Typed(c), AttachedTo(b, c, n, at, s)
  PROVE  /\ \E sub1 : Tree(c, sub1)
         /\ Heads(c) = Heads(b) \cup {n} /\ Root(c) = (IF at = mHead THEN n ELSE Root(b))
         /\ at \in Places(b) /\ s \in Side /\ b[at].child[s] = mHead
<1> DEFINE H == Heads(b)
           P == Places(b)
           k == KeyOf[n]
           sub1 == [y \in P \cup {n} |-> IF y = n THEN {n} ELSE IF at \in sub[y] THEN sub[y] \cup {n} ELSE sub[y]]
<1>1. /\ H \subseteq DOMAIN b /\ mHead \notin H /\ P = H \cup {mHead} /\ P \subseteq DOMAIN b /\ Null \notin P
      /\ Root(b) \in P /\ Typed(b) /\ sub[mHead] = {} /\ sub[Root(b)] = H /\ n # mHead /\ n \notin P /\ n # Null
      /\ b[mHead].child[RIGHT] = mHead /\ ~b[mHead].red
      /\ \A y \in P, q \in Side : Down(b, y, q)
      /\ \A y \in H : b[y].parent \in P /\ b[b[y].parent].child[b[y].side] = y /\ b[y].side \in Side
      /\ sub \in [P -> SUBSET H]
  BY PlacesOfTree, Names, Zenon DEF Tree, Subtrees, Links
<1>2. /\ at \in P /\ s \in Side /\ b[at].child[s] = mHead /\ (at = mHead => H = {} /\ s = LEFT)
      /\ at # mHead => /\ Beyond(s, k, KeyOf[at])
                       /\ \A z \in H, q \in Side : at \in sub[b[z].child[q]] => Beyond(q, k, KeyOf[z])
  <2>1. CASE Root(b) = mHead
    <3>1. at = mHead /\ s = LEFT
      BY <2>1 DEF Spot, SpotIn
    <3>2. b[mHead].child[LEFT] = mHead
      BY <2>1 DEF Root
    <3> QED
      BY <1>1, <2>1, <3>1, <3>2, Sides
  <2>2. CASE Root(b) # mHead
    <3>1. SpotIn(b, sub, k, Root(b), at, s)
      BY <2>2 DEF Spot
    <3> QED
      BY <1>1, <3>1 DEF SpotIn
  <2> QED
    BY <2>1, <2>2
<1>3. /\ DOMAIN c = DOMAIN b \cup {n}
      /\ c[n].child = Both(mHead) /\ c[n].parent = at /\ c[n].side = s /\ c[n].red = TRUE
      /\ \A y \in DOMAIN b : c[y].parent = b[y].parent /\ c[y].side = b[y].side /\ c[y].red = b[y].red
      /\ \A y \in DOMAIN b, q \in Side : c[y].child[q] = IF y = at /\ q = s THEN n ELSE b[y].child[q]
  BY DEF AttachedTo, NodeBase
<1>4. \A q \in Side : c[n].child[q] = mHead
  BY <1>3 DEF Both
<1>5. Heads(c) = H \cup {n} /\ Places(c) = P \cup {n}
  <2>1. c[n].parent # Null
    BY <1>1, <1>2, <1>3
  <2>2. Heads(c) = H \cup {n}
    BY <1>1, <1>3, <2>1 DEF Heads, IsHead
  <2> QED
    BY <1>1, <2>2 DEF Places
<1>6. Root(c) = IF at = mHead THEN n ELSE Root(b)
  <2>1. mHead \in DOMAIN b /\ LEFT \in Side
    BY <1>1, Sides
  <2> QED
    BY <1>2, <1>3, <2>1
    DEF Root
<1> HIDE DEF H, P
<1>7. Links(c)
  <2>1. c[mHead].child[RIGHT] = mHead /\ ~c[mHead].red
    <3>1. mHead \in DOMAIN b /\ RIGHT \in Side /\ LEFT # RIGHT
      BY <1>1, Sides DEF P
    <3> QED
      BY <1>1, <1>2, <1>3, <3>1
  <2>2. ASSUME NEW x \in P \cup {n}, NEW q \in Side
        PROVE  /\ c[x].child[q] \in P \cup {n}
               /\ c[x].child[q] # mHead => c[c[x].child[q]].parent = x /\ c[c[x].child[q]].side = q
    <3>1. CASE x = n
      BY <1>1, <1>4, <3>1
    <3>2. CASE x \in P /\ x = at /\ q = s
      <4>1. c[x].child[q] = n
        BY <1>1, <1>3, <3>2
      <4> QED
        BY <1>3, <3>2, <4>1
    <3>3. CASE x \in P /\ ~(x = at /\ q = s)
      <4>1. c[x].child[q] = b[x].child[q] /\ b[x].child[q] \in P
            /\ (b[x].child[q] # mHead => b[b[x].child[q]].parent = x /\ b[b[x].child[q]].side = q)
        BY <1>1, <1>3, <3>3 DEF Down, P
      <4> QED
        BY <1>1, <1>3, <4>1
    <3> QED
      BY <3>1, <3>2, <3>3
  <2>3. ASSUME NEW x \in H \cup {n} PROVE c[x].parent \in P \cup {n} /\ c[c[x].parent].child[c[x].side] = x
    <3>1. CASE x = n
      BY <1>1, <1>2, <1>3, <3>1
    <3>2. CASE x # n
      <4>1. x \in H /\ b[x].parent \in P /\ b[b[x].parent].child[b[x].side] = x /\ b[x].side \in Side /\ x # mHead
        BY <1>1, <3>2
      <4>2. c[x].parent = b[x].parent /\ c[x].side = b[x].side
        BY <1>1, <1>3, <4>1
      <4>3. ~(b[x].parent = at /\ b[x].side = s)
        BY <1>2, <4>1
      <4> QED
        BY <1>1, <1>3, <4>1, <4>2, <4>3
    <3> QED
      BY <3>1, <3>2
  <2> QED
    BY <1>5, <2>1, <2>2, <2>3 DEF Links
<1>8. /\ sub1[n] = {n} /\ sub1[mHead] = {}
      /\ \A y \in P : sub1[y] = IF at \in sub[y] THEN sub[y] \cup {n} ELSE sub[y]
      /\ sub1 \in [P \cup {n} -> SUBSET (H \cup {n})]
  <2>1. \A y \in P : sub1[y] = IF at \in sub[y] THEN sub[y] \cup {n} ELSE sub[y]
    BY <1>1
  <2>2. sub1[n] = {n} /\ mHead \in P
    BY <1>1
  <2>3. \A y \in P \cup {n} : sub1[y] \subseteq H \cup {n}
    BY <1>1, <2>1, <2>2
  <2> QED
    BY <1>1, <2>1, <2>2, <2>3
<1> HIDE DEF sub1
<1>9. sub1[Root(c)] = H \cup {n}
  <2>1. CASE at = mHead
    BY <1>2, <1>6, <1>8, <2>1
  <2>2. CASE at # mHead
    <3>1. at \in H /\ Root(b) \in P
      BY <1>1, <1>2, <2>2
    <3> QED
      BY <1>1, <1>6, <1>8, <2>2, <3>1, Zenon
  <2> QED
    BY <2>1, <2>2
<1>10. ASSUME NEW x \in H \cup {n}, NEW q \in Side
       PROVE  LET d == c[x].child[q]
                  e == c[x].child[Other(q)]
              IN /\ sub1[x] = {x} \cup sub1[d] \cup sub1[e]
                 /\ \A y \in sub1[d] : Beyond(q, KeyOf[y], KeyOf[x])
  <2> DEFINE o == Other(q)
  <2>1. o \in Side /\ o # q
    BY Sides
  <2>2. CASE x = n
    BY <1>4, <1>8, <2>1, <2>2
  <2>3. CASE x # n
    <3> DEFINE d0 == b[x].child[q]
               e0 == b[x].child[o]
               d == c[x].child[q]
               e == c[x].child[o]
    <3>1. x \in H /\ x \in P /\ x \in DOMAIN b
      BY <1>1, <2>3
    <3>2. Parts(b, sub, x, d0, e0)
      BY <3>1, SubParts DEF H
    <3>3. \A y \in sub[d0] : Beyond(q, KeyOf[y], KeyOf[x])
      BY <3>1 DEF Tree, Subtrees, H
    <3>4. d = (IF x = at /\ q = s THEN n ELSE d0) /\ e = (IF x = at /\ o = s THEN n ELSE e0)
      BY <1>3, <2>1, <3>1
    <3>5. d0 \in P /\ e0 \in P
      BY <3>2 DEF Parts, P
    <3>6. (x = at /\ q = s => d0 = mHead) /\ (x = at /\ o = s => e0 = mHead)
      BY <1>2
    <3> HIDE DEF d, e, d0, e0, o
    <3>7. sub1[d] = (IF (x = at /\ q = s) \/ at \in sub[d0] THEN sub[d0] \cup {n} ELSE sub[d0])
      <4>1. CASE x = at /\ q = s
        BY <1>1, <1>8, <3>4, <3>6, <4>1
      <4>2. CASE ~(x = at /\ q = s)
        BY <1>8, <3>4, <3>5, <4>2
      <4> QED
        BY <4>1, <4>2
    <3>8. sub1[e] = (IF (x = at /\ o = s) \/ at \in sub[e0] THEN sub[e0] \cup {n} ELSE sub[e0])
      <4>1. CASE x = at /\ o = s
        BY <1>1, <1>8, <3>4, <3>6, <4>1
      <4>2. CASE ~(x = at /\ o = s)
        BY <1>8, <3>4, <3>5, <4>2, Zenon
      <4> QED
        BY <4>1, <4>2
    <3>9. s = q \/ s = o
      BY <1>2, Sides DEF o
    <3>10. sub1[x] = IF at \in sub[x] THEN sub[x] \cup {n} ELSE sub[x]
      BY <1>8, <3>1
    <3>11. sub1[x] = {x} \cup sub1[d] \cup sub1[e]
      BY <3>2, <3>7, <3>8, <3>9, <3>10 DEF Parts
    <3>12. ASSUME NEW y \in sub1[d] PROVE Beyond(q, KeyOf[y], KeyOf[x])
      <4>1. CASE y = n
        <5>1. (x = at /\ q = s) \/ at \in sub[d0]
          <6>1. n \notin sub[d0]
            BY <1>1, <3>2, <3>5 DEF H, P
          <6> QED
            BY <3>7, <3>12, <4>1, <6>1
        <5>2. at # mHead
          <6>1. sub[d0] \subseteq H /\ x # mHead
            BY <1>1, <3>1, <3>5
          <6> QED
            BY <1>1, <5>1, <6>1
        <5> QED
          BY <1>2, <3>1, <4>1, <5>1, <5>2 DEF d0
      <4>2. CASE y # n
        BY <3>3, <3>7, <3>12, <4>2
      <4> QED
        BY <4>1, <4>2
    <3> QED
      BY <3>11, <3>12 DEF d, e, o
  <2> QED
    BY <2>2, <2>3
<1>11. Subtrees(c, sub1)
  <2>1. ASSUME NEW x \in Heads(c) PROVE sub1[x] = {x} \cup sub1[c[x].child[LEFT]] \cup sub1[c[x].child[RIGHT]]
    BY <1>5, <1>10, Sides
  <2>2. ASSUME NEW x \in Heads(c), NEW q \in Side, NEW y \in sub1[c[x].child[q]] PROVE Beyond(q, KeyOf[y], KeyOf[x])
    BY <1>5, <1>10
  <2> QED
    BY <1>5, <1>8, <1>9, <2>1, <2>2 DEF Subtrees
<1>12. IsFiniteSet(Heads(c))
  <2>1. IsFiniteSet(H)
    BY DEF Tree, H
  <2> QED
    BY <1>5, <2>1, FS_AddElement
<1>13. Tree(c, sub1)
  BY <1>7, <1>11, <1>12 DEF Tree
<1> QED
  BY <1>2, <1>5, <1>6, <1>13 DEF H, P

\* Being red it changes no count, and is the only fault there may be.
LEMMA AttachFixing ==
  ASSUME NEW b, NEW sub, Tree(b, sub), Sound(b), NEW n \in Nodes, n \notin DOMAIN b,
         NEW at, NEW s, s # RING, Spot(b, sub, KeyOf[n], at, s),
         NEW c, Typed(c), AttachedTo(b, c, n, at, s)
  PROVE  Fixing(c, AtWork("insert", n))
<1> DEFINE H == Heads(b)
           P == Places(b)
           f == AtWork("insert", n)
<1>1. /\ \E sub1 : Tree(c, sub1)
      /\ Heads(c) = H \cup {n} /\ Root(c) = (IF at = mHead THEN n ELSE Root(b))
      /\ at \in P /\ s \in Side /\ b[at].child[s] = mHead
  BY AttachTree
<1>2. /\ H \subseteq DOMAIN b /\ mHead \notin H /\ P = H \cup {mHead} /\ P \subseteq DOMAIN b /\ Null \notin P
      /\ n \notin P /\ Root(b) \in P /\ n # mHead
      /\ \A y \in H : b[y].parent \in P
      /\ \A y \in P, q \in Side : Down(b, y, q)
  BY PlacesOfTree, Names
<1>3. /\ c[n].red = TRUE /\ \A q \in Side : c[n].child[q] = mHead
      /\ \A y \in DOMAIN b : c[y].parent = b[y].parent /\ c[y].red = b[y].red
      /\ \A y \in DOMAIN b, q \in Side : c[y].child[q] = IF y = at /\ q = s THEN n ELSE b[y].child[q]
  BY DEF AttachedTo, NodeBase, Both
<1>4. Places(c) = P \cup {n}
  BY <1>1, <1>2 DEF Places
<1>5. PICK bh : Weighted(b, Null, LEFT, bh)
  BY DEF Sound
<1> DEFINE bh1 == [y \in P \cup {n} |-> IF y = n THEN 1 ELSE bh[y]]
<1>6. bh \in [P -> Nat \ {0}] /\ bh[mHead] = 1 /\ \A y \in H, q \in Side : Weighs(b, Null, LEFT, bh, y, q)
  BY <1>5 DEF Weighted
<1>7. bh1 \in [P \cup {n} -> Nat \ {0}] /\ bh1[mHead] = 1 /\ bh1[n] = 1 /\ \A y \in P : bh1[y] = bh[y]
  <2>1. \A y \in P : bh1[y] = bh[y]
    BY <1>2
  <2>2. bh1[n] = 1 /\ mHead \in P /\ mHead # n
    BY <1>2
  <2> QED
    BY <1>2, <1>6, <2>1, <2>2
<1> HIDE DEF bh1, H, P
<1>8. ASSUME NEW x \in H \cup {n}, NEW q \in Side PROVE Weighs(c, Null, LEFT, bh1, x, q)
  <2>1. x # Null /\ At(Null, LEFT, x, q) = 0
    <3>1. x # Null
      BY <1>2, <1>4, Names
    <3> QED
      BY <3>1 DEF At
  <2>2. CASE x = n
    <3>1. Blk(c, x) = 0 /\ c[x].child[q] = mHead
      BY <1>3, <2>2 DEF Blk
    <3> QED
      BY <1>7, <2>1, <2>2, <3>1 DEF Weighs
  <2>3. CASE x # n
    <3>1. x \in H /\ x \in P /\ x \in DOMAIN b
      BY <1>2, <2>3
    <3>2. Weighs(b, Null, LEFT, bh, x, q) /\ Blk(c, x) = Blk(b, x) /\ b[x].child[q] \in P
      BY <1>2, <1>3, <1>6, <3>1 DEF Blk, Down, P
    <3>3. bh1[c[x].child[q]] = bh[b[x].child[q]]
      <4>1. CASE x = at /\ q = s
        <5>1. c[x].child[q] = n /\ b[x].child[q] = mHead
          BY <1>1, <1>3, <3>1, <4>1
        <5> QED
          BY <1>6, <1>7, <5>1
      <4>2. CASE ~(x = at /\ q = s)
        <5>1. c[x].child[q] = b[x].child[q]
          BY <1>3, <3>1, <4>2
        <5> QED
          BY <1>7, <3>2, <5>1
      <4> QED
        BY <4>1, <4>2
    <3> QED
      BY <1>7, <2>1, <3>1, <3>2, <3>3 DEF Weighs
  <2> QED
    BY <2>2, <2>3
<1>9. Weighted(c, Null, LEFT, bh1)
  BY <1>1, <1>4, <1>7, <1>8 DEF Weighted
<1>10. f.op = "insert" /\ f.cur = n /\ f = AtWork("insert", f.cur)
  BY Ops
<1> HIDE DEF f
<1>11. Fits(c, f) /\ LackAt(c, f) = Null /\ LackSide(c, f) = LEFT
  BY <1>1, <1>3, <1>10 DEF Fits, LackAt, LackSide
<1>12. Reds(c, f)
  <2>1. RedsIn(b, {}) /\ ~b[Root(b)].red
    BY DEF Sound
  <2>2. ASSUME NEW y \in Heads(c), c[y].red, c[c[y].parent].red PROVE y = n
    <3> SUFFICES ASSUME y # n PROVE FALSE
      OBVIOUS
    <3>1. y \in H /\ y \in DOMAIN b /\ b[y].parent \in P /\ b[y].parent \in DOMAIN b
      BY <1>1, <1>2
    <3>2. b[y].red /\ b[b[y].parent].red
      BY <1>3, <2>2, <3>1
    <3> QED
      BY <2>1, <3>1, <3>2 DEF RedsIn, H
  <2>3. c[Root(c)].red => n = Root(c)
    <3>1. Root(b) \in DOMAIN b
      BY <1>2
    <3> QED
      BY <1>1, <1>3, <2>1, <3>1
  <2> QED
    BY <1>10, <2>2, <2>3 DEF Reds
<1>13. Fixing(c, f)
  BY <1>1, <1>9, <1>11, <1>12 DEF Fixing
<1> QED
  BY <1>13 DEF f

-----------------------------------------------------------------------------
(***************************************************************************)
(* What erasing a node does to the tree.                                   *)
(***************************************************************************)

\* d is b without r, in whose place its child e stands.
CutTo(b, d, r, e) ==
  /\ DOMAIN d = DOMAIN b \ {r}
  /\ \A y \in DOMAIN b \ {r} :
       /\ d[y].near = b[y].near /\ d[y].red = b[y].red
       /\ d[y].parent = IF y = e THEN b[r].parent ELSE b[y].parent
       /\ d[y].side = IF y = e THEN b[r].side ELSE b[y].side
       /\ y # b[r].parent => d[y].child = b[y].child
  /\ \A y \in DOMAIN b \ {r}, q \in Side :
       d[y].child[q] = IF y = b[r].parent /\ q = b[r].side THEN e ELSE b[y].child[q]

\* Leaving a node out.
Without(b, r) == [y \in DOMAIN b \ {r} |-> b[y]]

\* substitute_with does that.
LEMMA SubstituteCuts ==
  ASSUME NEW b, NEW sub, Tree(b, sub), NEW r \in Heads(b), NEW q \in Side, NEW e, e = b[r].child[q]
  PROVE  /\ Typed(SubstituteWith(b, r, e)) /\ Hangs(b, SubstituteWith(b, r, e), b[r].parent, b[r].side, e)
         /\ Typed(Without(SubstituteWith(b, r, e), r)) /\ CutTo(b, Without(SubstituteWith(b, r, e), r), r, e)
<1> DEFINE p == b[r].parent
           s == b[r].side
           c == SubstituteWith(b, r, e)
           d == Without(c, r)
<1>1. /\ p \in DOMAIN b /\ s \in Side /\ e \in DOMAIN b /\ Typed(b) /\ mHead \in DOMAIN b /\ r # mHead
  <2>1. /\ p \in Places(b) /\ s \in Side /\ e \in Places(b) /\ Typed(b) /\ Places(b) \subseteq DOMAIN b /\ mHead \in Places(b)
        /\ r # mHead
    <3>1. Down(b, r, q)
      BY PlacesOfTree
    <3> QED
      BY <3>1, PlacesOfTree DEF Down
  <2> QED
    BY <2>1
<1>2. c = Hang(b, p, s, e)
  BY DEF SubstituteWith
<1>3. Typed(c) /\ Hangs(b, c, p, s, e)
  <2> HIDE DEF c, p, s
  <2> QED
    BY <1>1, <1>2, HangHangs
<1>4. DOMAIN c = DOMAIN b
  BY <1>3 DEF Hangs
<1> HIDE DEF c, p, s
<1>5. DOMAIN d = DOMAIN b \ {r} /\ \A y \in DOMAIN b \ {r} : d[y] = c[y]
  BY <1>4 DEF Without
<1>6. Typed(d)
  <2>1. d = [y \in DOMAIN d |-> d[y]]
    BY <1>5 DEF Without
  <2>2. \A y \in DOMAIN d : d[y] \in Base
    BY <1>3, <1>4, <1>5 DEF Typed
  <2> HIDE DEF d
  <2>3. d \in [DOMAIN d -> Base]
    BY <2>1, <2>2
  <2> QED
    BY <1>1, <1>5, <2>3 DEF Typed
<1> HIDE DEF d
<1>7. CutTo(b, d, r, e)
  <2>1. ASSUME NEW y \in DOMAIN b \ {r}
        PROVE  /\ d[y].near = b[y].near /\ d[y].red = b[y].red
               /\ d[y].parent = IF y = e THEN p ELSE b[y].parent
               /\ d[y].side = IF y = e THEN s ELSE b[y].side
               /\ \A a \in Side : d[y].child[a] = IF y = p /\ a = s THEN e ELSE b[y].child[a]
    BY <1>3, <1>5 DEF Hangs
  <2>2. ASSUME NEW y \in DOMAIN b \ {r}, y # p PROVE d[y].child = b[y].child
    <3>1. \A a \in Side : d[y].child[a] = b[y].child[a]
      BY <2>1, <2>2
    <3>2. d[y].child \in [Side -> Nodes \cup {mHead, Null}] /\ b[y].child \in [Side -> Nodes \cup {mHead, Null}]
      BY <1>1, <1>5, <1>6 DEF Typed, Base
    <3> QED
      BY <3>1, <3>2
  <2> QED
    BY <1>5, <2>1, <2>2 DEF CutTo, p, s
<1> QED
  BY <1>3, <1>6, <1>7 DEF c, d, p, s

\* Its places are those of b but r.
LEMMA CutPlaces ==
  ASSUME NEW b, NEW sub, Tree(b, sub), NEW r \in Heads(b), NEW q \in Side, b[r].child[Other(q)] = mHead,
         NEW e, e = b[r].child[q], NEW d, Typed(d), CutTo(b, d, r, e)
  PROVE  /\ Heads(d) = Heads(b) \ {r} /\ Places(d) = Places(b) \ {r} /\ e \in Places(d) /\ b[r].parent \in Places(d)
         /\ Root(d) = (IF Root(b) = r THEN e ELSE Root(b)) /\ b[r].side \in Side
         /\ (b[r].parent = mHead <=> Root(b) = r)
<1> DEFINE H == Heads(b)
           P == Places(b)
           p == b[r].parent
           s == b[r].side
<1>1. /\ H \subseteq DOMAIN b /\ mHead \notin H /\ P = H \cup {mHead} /\ P \subseteq DOMAIN b /\ Null \notin P
      /\ Root(b) \in P /\ p \in P /\ s \in Side /\ b[p].child[s] = r /\ r # mHead
      /\ b[mHead].child[RIGHT] = mHead
      /\ (\A y \in P, a \in Side : Down(b, y, a))
  BY PlacesOfTree DEF Tree, Links
<1>2. Parts(b, sub, r, e, b[r].child[Other(q)]) /\ p # r
  <2>1. Parts(b, sub, r, e, b[r].child[Other(q)])
    BY SubParts
  <2>2. ASSUME p = r PROVE FALSE
    <3>1. Parts(b, sub, r, r, b[r].child[Other(s)])
      BY <1>1, <2>2, SubParts
    <3> QED
      BY <3>1 DEF Parts
  <2> QED
    BY <2>1, <2>2
<1>3. e \in P /\ e # r
  BY <1>2 DEF Parts
<1>4. /\ DOMAIN d = DOMAIN b \ {r}
      /\ \A y \in DOMAIN b \ {r} : d[y].parent = IF y = e THEN p ELSE b[y].parent
      /\ \A y \in DOMAIN b \ {r}, a \in Side : d[y].child[a] = IF y = p /\ a = s THEN e ELSE b[y].child[a]
  BY DEF CutTo
<1>5. Heads(d) = H \ {r}
  <2>1. ASSUME NEW y \in DOMAIN b \ {mHead, r} PROVE d[y].parent # Null <=> b[y].parent # Null
    <3>1. CASE y = e
      <4>1. y \in H
        BY <1>1, <1>3, <2>1, <3>1
      <4>2. b[y].parent # Null
        BY <4>1 DEF Heads, IsHead
      <4>3. d[y].parent = p /\ p # Null
        BY <1>1, <1>4, <2>1, <3>1
      <4> QED
        BY <4>2, <4>3
    <3>2. CASE y # e
      BY <1>4, <2>1, <3>2
    <3> QED
      BY <3>1, <3>2
  <2> QED
    BY <1>4, <2>1 DEF Heads, IsHead
<1>6. Places(d) = P \ {r}
  BY <1>1, <1>5 DEF Places
<1>7. p = mHead <=> Root(b) = r
  <2>1. ASSUME p = mHead PROVE Root(b) = r
    <3>1. s = LEFT
      BY <1>1, <2>1, Sides
    <3> QED
      BY <1>1, <2>1, <3>1 DEF Root
  <2>2. ASSUME Root(b) = r PROVE p = mHead
    BY <1>1, <2>2, PlacesOfTree
  <2> QED
    BY <2>1, <2>2
<1>8. Root(d) = IF Root(b) = r THEN e ELSE Root(b)
  <2>1. mHead \in DOMAIN b \ {r} /\ LEFT \in Side
    BY <1>1, Sides
  <2>2. p = mHead => s = LEFT
    <3> SUFFICES ASSUME p = mHead PROVE s = LEFT
      OBVIOUS
    <3> QED
      BY <1>1, Sides
  <2>3. Root(d) = IF mHead = p /\ LEFT = s THEN e ELSE b[mHead].child[LEFT]
    BY <1>4, <2>1 DEF Root
  <2> QED
    BY <1>7, <2>2, <2>3 DEF Root
<1> QED
  BY <1>1, <1>2, <1>3, <1>5, <1>6, <1>7, <1>8

\* Cutting out a node that has at most one child leaves a tree.
LEMMA CutTree ==
  ASSUME NEW b, NEW sub, Tree(b, sub), NEW r \in Heads(b), NEW q \in Side, b[r].child[Other(q)] = mHead,
         NEW e, e = b[r].child[q], NEW d, Typed(d), CutTo(b, d, r, e)
  PROVE  Tree(d, [y \in Places(d) |-> sub[y] \ {r}])
<1> DEFINE H == Heads(b)
           P == Places(b)
           p == b[r].parent
           s == b[r].side
           sub1 == [y \in Places(d) |-> sub[y] \ {r}]
<1>1. /\ H \subseteq DOMAIN b /\ mHead \notin H /\ P = H \cup {mHead} /\ P \subseteq DOMAIN b /\ Null \notin P
      /\ Root(b) \in P /\ p \in P /\ s \in Side /\ b[p].child[s] = r /\ r # mHead /\ Typed(b)
      /\ b[mHead].child[RIGHT] = mHead /\ ~b[mHead].red
      /\ (\A y \in P, a \in Side : Down(b, y, a))
      /\ (\A y \in H : b[y].parent \in P /\ b[b[y].parent].child[b[y].side] = y /\ b[y].side \in Side)
      /\ sub \in [P -> SUBSET H] /\ sub[mHead] = {} /\ sub[Root(b)] = H
  BY PlacesOfTree DEF Tree, Links, Subtrees
<1>2. /\ Heads(d) = H \ {r} /\ Places(d) = P \ {r} /\ e \in P \ {r} /\ p \in P \ {r}
      /\ Root(d) = (IF Root(b) = r THEN e ELSE Root(b)) /\ (p = mHead <=> Root(b) = r)
  BY CutPlaces
<1>3. /\ DOMAIN d = DOMAIN b \ {r}
      /\ \A y \in DOMAIN b \ {r} : /\ d[y].parent = IF y = e THEN p ELSE b[y].parent
                                   /\ d[y].side = IF y = e THEN s ELSE b[y].side
                                   /\ d[y].red = b[y].red
      /\ \A y \in DOMAIN b \ {r}, a \in Side : d[y].child[a] = IF y = p /\ a = s THEN e ELSE b[y].child[a]
  BY DEF CutTo
<1>4. sub[r] = {r} \cup sub[e] /\ r \notin sub[e]
  <2>1. Parts(b, sub, r, e, b[r].child[Other(q)])
    BY SubParts
  <2> QED
    BY <1>1, <2>1 DEF Parts
<1>5. ASSUME NEW y \in P \ {r}, NEW a \in Side
      PROVE  LET z == b[y].child[a]
             IN /\ z \in P /\ (z # mHead => b[z].parent = y /\ b[z].side = a)
                /\ (z = r <=> y = p /\ a = s) /\ (z = e /\ e # mHead => FALSE)
                /\ d[y].child[a] = IF z = r THEN e ELSE z
  <2> DEFINE z == b[y].child[a]
  <2>1. z \in P /\ (z # mHead => b[z].parent = y /\ b[z].side = a)
    BY <1>1 DEF Down
  <2>2. z = r <=> y = p /\ a = s
    BY <1>1, <2>1
  <2>3. ASSUME z = e, e # mHead PROVE FALSE
    <3>1. b[e].parent = r
      <4>1. Down(b, r, q)
        BY <1>1
      <4> QED
        BY <2>3, <4>1 DEF Down
    <3> QED
      BY <2>1, <2>3, <3>1
  <2>4. d[y].child[a] = IF y = p /\ a = s THEN e ELSE z
    BY <1>1, <1>3
  <2> HIDE DEF z
  <2>5. d[y].child[a] = IF z = r THEN e ELSE z
    BY <2>2, <2>4
  <2> QED
    BY <2>1, <2>2, <2>3, <2>5 DEF z
<1> HIDE DEF H, P
<1>6. Links(d)
  <2>1. d[mHead].child[RIGHT] = mHead /\ ~d[mHead].red
    <3>1. mHead \in DOMAIN b \ {r} /\ RIGHT \in Side /\ LEFT # RIGHT /\ mHead \in P \ {r}
      BY <1>1, Sides DEF P
    <3> QED
      BY <1>1, <1>3, <1>5, <3>1
  <2>2. ASSUME NEW x \in P \ {r}, NEW a \in Side
        PROVE  /\ d[x].child[a] \in P \ {r}
               /\ d[x].child[a] # mHead => d[d[x].child[a]].parent = x /\ d[d[x].child[a]].side = a
    <3> DEFINE z == b[x].child[a]
    <3>1. /\ z \in P /\ (z # mHead => b[z].parent = x /\ b[z].side = a)
          /\ (z = r <=> x = p /\ a = s) /\ (z = e /\ e # mHead => FALSE)
          /\ d[x].child[a] = IF z = r THEN e ELSE z
      BY <1>5
    <3> HIDE DEF z, p, s
    <3>2. CASE z = r
      <4>1. d[x].child[a] = e /\ x = p /\ a = s /\ e \in DOMAIN b \ {r}
        BY <1>1, <1>2, <3>1, <3>2
      <4>2. d[e].parent = p /\ d[e].side = s
        BY <1>3, <4>1
      <4> QED
        BY <1>2, <4>1, <4>2
    <3>3. CASE z # r
      <4>1. d[x].child[a] = z /\ z \in P \ {r} /\ z \in DOMAIN b \ {r}
        BY <1>1, <3>1, <3>3
      <4>2. z # mHead => d[z].parent = b[z].parent /\ d[z].side = b[z].side
        BY <1>3, <3>1, <4>1
      <4> QED
        BY <3>1, <4>1, <4>2
    <3> QED
      BY <3>2, <3>3
  <2>3. ASSUME NEW x \in H \ {r} PROVE d[x].parent \in P \ {r} /\ d[d[x].parent].child[d[x].side] = x
    <3>0. x \in DOMAIN b \ {r} /\ x # mHead
      BY <1>1
    <3>1. CASE x = e
      <4>1. d[x].parent = p /\ d[x].side = s
        BY <1>3, <3>0, <3>1
      <4> QED
        BY <1>1, <1>2, <1>5, <3>1, <4>1
    <3>2. CASE x # e
      <4>1. b[x].parent \in P /\ b[b[x].parent].child[b[x].side] = x /\ b[x].side \in Side
        BY <1>1
      <4>2. d[x].parent = b[x].parent /\ d[x].side = b[x].side
        BY <1>3, <3>0, <3>2
      <4>3. b[x].parent # r
        <5> SUFFICES ASSUME b[x].parent = r PROVE FALSE
          OBVIOUS
        <5>1. b[r].child[b[x].side] = x
          BY <4>1
        <5> QED
          BY <3>0, <3>2, <4>1, <5>1, Sides
      <4>4. d[b[x].parent].child[b[x].side] = x
        BY <1>5, <4>1, <4>3
      <4> QED
        BY <4>1, <4>2, <4>3, <4>4
    <3> QED
      BY <3>1, <3>2
  <2> QED
    BY <1>2, <2>1, <2>2, <2>3 DEF Links
<1>7. /\ sub1 \in [P \ {r} -> SUBSET (H \ {r})] /\ sub1[mHead] = {}
      /\ \A y \in P \ {r} : sub1[y] = sub[y] \ {r}
  <2>1. \A y \in P \ {r} : sub1[y] = sub[y] \ {r}
    BY <1>2
  <2>2. mHead \in P \ {r}
    BY <1>1
  <2>3. \A y \in P \ {r} : sub1[y] \subseteq H \ {r}
    BY <1>1, <2>1
  <2> QED
    BY <1>1, <1>2, <2>1, <2>2, <2>3
<1> HIDE DEF sub1
<1>8. sub1[Root(d)] = H \ {r}
  <2>1. CASE Root(b) = r
    BY <1>1, <1>2, <1>4, <1>7, <2>1
  <2>2. CASE Root(b) # r
    BY <1>1, <1>2, <1>7, <2>2
  <2> QED
    BY <2>1, <2>2
<1>9. ASSUME NEW x \in H \ {r}, NEW a \in Side
      PROVE  /\ sub1[d[x].child[a]] = sub[b[x].child[a]] \ {r}
             /\ \A y \in sub1[d[x].child[a]] : Beyond(a, KeyOf[y], KeyOf[x])
  <2>1. x \in P \ {r}
    BY <1>1
  <2> DEFINE z == b[x].child[a]
  <2>2. z \in P /\ d[x].child[a] = IF z = r THEN e ELSE z
    BY <1>5, <2>1
  <2>3. \A y \in sub[z] : Beyond(a, KeyOf[y], KeyOf[x])
    BY DEF Tree, Subtrees, H
  <2> HIDE DEF z
  <2>4. sub1[d[x].child[a]] = sub[z] \ {r}
    <3>1. CASE z = r
      <4>1. sub1[e] = sub[e] \ {r}
        BY <1>2, <1>7
      <4>2. sub[z] \ {r} = sub[e]
        BY <1>4, <3>1
      <4> QED
        BY <1>4, <2>2, <3>1, <4>1, <4>2
    <3>2. CASE z # r
      BY <1>7, <2>2, <3>2
    <3> QED
      BY <3>1, <3>2
  <2> QED
    BY <2>3, <2>4 DEF z
<1>10. Subtrees(d, sub1)
  <2>1. ASSUME NEW x \in H \ {r} PROVE sub1[x] = {x} \cup sub1[d[x].child[LEFT]] \cup sub1[d[x].child[RIGHT]]
    <3>1. sub[x] = {x} \cup sub[b[x].child[LEFT]] \cup sub[b[x].child[RIGHT]]
      BY DEF Tree, Subtrees, H
    <3>2. sub1[x] = sub[x] \ {r}
      BY <1>1, <1>7
    <3>3. sub1[d[x].child[LEFT]] = sub[b[x].child[LEFT]] \ {r} /\ sub1[d[x].child[RIGHT]] = sub[b[x].child[RIGHT]] \ {r}
      BY <1>9, Sides
    <3> QED
      BY <3>1, <3>2, <3>3
  <2>2. \A x \in H \ {r}, a \in Side : \A y \in sub1[d[x].child[a]] : Beyond(a, KeyOf[y], KeyOf[x])
    BY <1>9
  <2> QED
    BY <1>2, <1>7, <1>8, <2>1, <2>2 DEF Subtrees
<1>11. IsFiniteSet(Heads(d))
  <2>1. IsFiniteSet(H) /\ Heads(d) \subseteq H
    BY <1>2 DEF Tree, H
  <2> QED
    BY <2>1, FS_Subset
<1>12. Tree(d, sub1)
  BY <1>6, <1>10, <1>11 DEF Tree
<1> QED
  BY <1>12 DEF sub1

\* Its place lacks a black node if it was black.
LEMMA CutWeights ==
  ASSUME NEW b, NEW sub, Tree(b, sub), NEW r \in Heads(b), NEW q \in Side, b[r].child[Other(q)] = mHead,
         NEW e, e = b[r].child[q], NEW d, Typed(d), CutTo(b, d, r, e), NEW bh, Weighted(b, Null, LEFT, bh)
  PROVE  Weighted(d, IF b[r].red THEN Null ELSE b[r].parent, b[r].side, [y \in Places(d) |-> bh[y]])
<1> DEFINE H == Heads(b)
           P == Places(b)
           p == b[r].parent
           s == b[r].side
           at == IF b[r].red THEN Null ELSE p
           bh1 == [y \in Places(d) |-> bh[y]]
<1>1. /\ H \subseteq DOMAIN b /\ mHead \notin H /\ P = H \cup {mHead} /\ P \subseteq DOMAIN b /\ Null \notin P
      /\ p \in P /\ s \in Side /\ b[p].child[s] = r /\ r # mHead
      /\ (\A y \in P, a \in Side : Down(b, y, a))
  BY PlacesOfTree
<1>2. /\ Heads(d) = H \ {r} /\ Places(d) = P \ {r} /\ e \in P \ {r} /\ p \in P \ {r}
  BY CutPlaces
<1>3. /\ \A y \in DOMAIN b \ {r} : d[y].red = b[y].red
      /\ \A y \in DOMAIN b \ {r}, a \in Side : d[y].child[a] = IF y = p /\ a = s THEN e ELSE b[y].child[a]
  BY DEF CutTo
<1>4. bh \in [P -> Nat \ {0}] /\ bh[mHead] = 1 /\ \A y \in H, a \in Side : Weighs(b, Null, LEFT, bh, y, a)
  BY DEF Weighted
<1>5. \A x \in H : \A a : At(Null, LEFT, x, a) = 0
  BY <1>1, Names DEF At
<1>6. bh1 \in [P \ {r} -> Nat \ {0}] /\ bh1[mHead] = 1 /\ \A y \in P \ {r} : bh1[y] = bh[y]
  <2>1. mHead \in P \ {r}
    BY <1>1
  <2> QED
    BY <1>2, <1>4, <2>1
<1>7. bh[r] = Blk(b, r) + 0 + bh[e]
  BY <1>4, <1>5 DEF Weighs
<1> HIDE DEF bh1, H, P
<1>8. ASSUME NEW x \in H \ {r}, NEW a \in Side PROVE Weighs(d, at, s, bh1, x, a)
  <2> DEFINE z == b[x].child[a]
  <2>1. x \in P \ {r} /\ x \in DOMAIN b \ {r} /\ z \in P /\ (z # mHead => b[z].parent = x /\ b[z].side = a)
    BY <1>1 DEF Down, P
  <2>2. bh[x] = Blk(b, x) + 0 + bh[z] /\ Blk(d, x) = Blk(b, x) /\ Blk(b, x) \in {0, 1}
    BY <1>3, <1>4, <1>5, <2>1 DEF Weighs, Blk
  <2>3. bh[e] \in Nat /\ bh[r] \in Nat /\ bh[z] \in Nat /\ Blk(b, r) \in {0, 1}
    <3>1. r \in P /\ e \in P
      BY <1>1, <1>2 DEF H
    <3> QED
      BY <1>4, <2>1, <3>1 DEF Blk
  <2>4. z = r <=> x = p /\ a = s
    BY <1>1, <2>1
  <2> HIDE DEF z
  <2>5. d[x].child[a] = IF z = r THEN e ELSE z
    BY <1>3, <2>1, <2>4 DEF z
  <2>6. CASE z = r
    <3>1. bh1[d[x].child[a]] = bh[e] /\ bh1[x] = bh[x] /\ x # Null
      BY <1>1, <1>2, <1>6, <2>1, <2>5, <2>6
    <3>2. At(at, s, x, a) = Blk(b, r)
      BY <2>4, <2>6, <3>1 DEF At, Blk
    <3>3. bh[x] = Blk(b, x) + Blk(b, r) + bh[e]
      BY <1>7, <2>2, <2>3, <2>6
    <3> QED
      BY <2>2, <3>1, <3>2, <3>3 DEF Weighs
  <2>7. CASE z # r
    <3>1. bh1[d[x].child[a]] = bh[z] /\ bh1[x] = bh[x]
      BY <1>6, <2>1, <2>5, <2>7
    <3>2. At(at, s, x, a) = 0
      <4>1. x # Null
        BY <1>1, <2>1
      <4> QED
        BY <2>4, <2>7, <4>1 DEF At
    <3> QED
      BY <2>2, <3>1, <3>2 DEF Weighs
  <2> QED
    BY <2>6, <2>7
<1>9. Weighted(d, at, s, bh1)
  BY <1>2, <1>6, <1>8 DEF Weighted
<1> QED
  BY <1>9 DEF bh1

\* The place of a black node is the only fault in the colours.
LEMMA CutReds ==
  ASSUME NEW b, NEW sub, Tree(b, sub), NEW r \in Heads(b), NEW q \in Side, b[r].child[Other(q)] = mHead,
         NEW e, e = b[r].child[q], NEW d, Typed(d), CutTo(b, d, r, e), RedsIn(b, {}), ~b[Root(b)].red
  PROVE  /\ RedsIn(d, IF b[r].red THEN {} ELSE {e})
         /\ d[Root(d)].red => ~b[r].red /\ Root(d) = e
<1> DEFINE H == Heads(b)
           P == Places(b)
           p == b[r].parent
<1>1. /\ H \subseteq DOMAIN b /\ mHead \notin H /\ P = H \cup {mHead} /\ P \subseteq DOMAIN b
      /\ Root(b) \in P /\ ~b[mHead].red /\ r # mHead
      /\ \A y \in H : b[y].parent \in P
  BY PlacesOfTree
<1>2. /\ Heads(d) = H \ {r} /\ Places(d) = P \ {r} /\ e \in P \ {r} /\ p \in P \ {r}
      /\ Root(d) = IF Root(b) = r THEN e ELSE Root(b)
  BY CutPlaces
<1>3. \A y \in DOMAIN b \ {r} : d[y].red = b[y].red /\ d[y].parent = IF y = e THEN p ELSE b[y].parent
  BY DEF CutTo
<1>4. b[r].red => ~b[e].red
  BY BelowRed
<1> HIDE DEF p
<1>5. ASSUME NEW y \in H \ {r}, d[y].red, d[d[y].parent].red PROVE y = e /\ ~b[r].red
  <2>1. y \in DOMAIN b \ {r} /\ b[y].red
    BY <1>1, <1>3, <1>5
  <2>2. y = e
    <3> SUFFICES ASSUME y # e PROVE FALSE
      OBVIOUS
    <3>1. d[y].parent = b[y].parent /\ b[y].parent \in P
      BY <1>1, <1>3, <2>1
    <3>2. b[y].parent # r
      <4> SUFFICES ASSUME b[y].parent = r PROVE FALSE
        OBVIOUS
      <4>1. b[r].child[b[y].side] = y /\ b[y].side \in Side
        BY PlacesOfTree
      <4> QED
        BY <1>1, <4>1, Sides
    <3>3. b[b[y].parent].red
      BY <1>1, <1>3, <1>5, <3>1, <3>2
    <3> QED
      BY <2>1, <3>3 DEF RedsIn
  <2> QED
    BY <1>4, <2>1, <2>2
<1>6. ASSUME d[Root(d)].red PROVE ~b[r].red /\ Root(d) = e
  <2>1. CASE Root(b) = r
    BY <1>2, <2>1
  <2>2. CASE Root(b) # r
    <3>1. Root(d) = Root(b) /\ Root(b) \in DOMAIN b \ {r}
      BY <1>1, <1>2, <2>2
    <3> QED
      BY <1>3, <1>6, <3>1
  <2> QED
    BY <2>1, <2>2
<1> QED
  BY <1>2, <1>5, <1>6 DEF RedsIn

\* r has the children, the place and the colour of n, and n is out.
Switches(b, c, n, r) ==
  LET l == b[n].child[LEFT]
      h == b[n].child[RIGHT]
  IN /\ DOMAIN c = DOMAIN b
     /\ \A y \in DOMAIN b : c[y].near = b[y].near /\ c[y].red = IF y = r THEN b[n].red ELSE b[y].red
     /\ \A y \in DOMAIN b, q \in Side :
          c[y].child[q] = IF y = b[n].parent /\ q = b[n].side THEN r ELSE IF y = r THEN b[n].child[q] ELSE b[y].child[q]
     /\ \A y \in DOMAIN b :
          /\ c[y].parent = IF y = r THEN b[n].parent ELSE IF y = h \/ y = l THEN r ELSE b[y].parent
          /\ c[y].side = IF y = r THEN b[n].side ELSE IF y = h THEN RIGHT ELSE IF y = l THEN LEFT ELSE b[y].side

\* switch_with does that.
LEMMA SwitchSwitches ==
  ASSUME NEW b, Typed(b), NEW n \in DOMAIN b, NEW r \in DOMAIN b, n # r,
         b[n].child[LEFT] \in DOMAIN b \ {r}, b[n].child[RIGHT] \in DOMAIN b \ {r},
         b[n].parent \in DOMAIN b
  PROVE  Typed(SwitchWith(b, r, n)) /\ Switches(b, SwitchWith(b, r, n), n, r)
<1> DEFINE m == b[n]
           l == m.child[LEFT]
           h == m.child[RIGHT]
           p == m.parent
           s == m.side
           b1 == [b EXCEPT ![r].child = m.child, ![r].red = m.red]
           b2 == Hang(b1, r, LEFT, l)
           b3 == Hang(b2, r, RIGHT, h)
           c == Hang(b3, p, s, r)
<1>1. SwitchWith(b, r, n) = c
  BY DEF SwitchWith
<1>2. b[n] \in Base /\ b[r] \in Base /\ s \in Side /\ b \in [DOMAIN b -> Base] /\ LEFT \in Side /\ RIGHT \in Side /\ LEFT # RIGHT
      /\ m.child \in [Side -> Nodes \cup {mHead, Null}] /\ m.red \in BOOLEAN
  <2>1. b[n] \in Base /\ b[r] \in Base /\ b \in [DOMAIN b -> Base]
    BY DEF Typed
  <2> QED
    BY <2>1, Sides DEF Base
<1>3. DOMAIN b1 = DOMAIN b /\ Typed(b1)
  <2>1. DOMAIN b1 = DOMAIN b
    OBVIOUS
  <2>2. b1 \in [DOMAIN b -> Base]
    BY <1>2, Zenon DEF Base
  <2> HIDE DEF b1
  <2> QED
    BY <2>1, <2>2 DEF Typed
<1>4. \A y \in DOMAIN b :
        /\ b1[y].near = b[y].near /\ b1[y].parent = b[y].parent /\ b1[y].side = b[y].side
        /\ b1[y].child = (IF y = r THEN m.child ELSE b[y].child)
        /\ b1[y].red = (IF y = r THEN m.red ELSE b[y].red)
  BY <1>2 DEF Base
<1>5. l \in DOMAIN b1 /\ h \in DOMAIN b1 /\ p \in DOMAIN b1 /\ r \in DOMAIN b1 /\ l # r /\ h # r
  BY <1>3
<1> HIDE DEF b1, m, l, h, p, s
<1>6. Typed(b2) /\ Hangs(b1, b2, r, LEFT, l) /\ DOMAIN b2 = DOMAIN b1
  <2>1. Typed(b2) /\ Hangs(b1, b2, r, LEFT, l)
    BY <1>2, <1>3, <1>5, HangHangs
  <2> QED
    BY <2>1 DEF Hangs
<1> HIDE DEF b2
<1>7. Typed(b3) /\ Hangs(b2, b3, r, RIGHT, h) /\ DOMAIN b3 = DOMAIN b1
  <2>1. Typed(b3) /\ Hangs(b2, b3, r, RIGHT, h)
    BY <1>2, <1>5, <1>6, HangHangs
  <2> QED
    BY <1>6, <2>1 DEF Hangs
<1> HIDE DEF b3
<1>8. Typed(c) /\ Hangs(b3, c, p, s, r) /\ DOMAIN c = DOMAIN b
  <2>1. Typed(c) /\ Hangs(b3, c, p, s, r)
    BY <1>2, <1>5, <1>7, HangHangs
  <2> QED
    BY <1>3, <1>7, <2>1 DEF Hangs
<1> HIDE DEF c
<1>9. ASSUME NEW y \in DOMAIN b, NEW q \in Side
      PROVE  c[y].child[q] = IF y = p /\ q = s THEN r ELSE IF y = r THEN m.child[q] ELSE b[y].child[q]
  <2>1. y \in DOMAIN b1 /\ y \in DOMAIN b2 /\ y \in DOMAIN b3
    BY <1>3, <1>6, <1>7
  <2>2. c[y].child[q] = IF y = p /\ q = s THEN r ELSE b3[y].child[q]
    BY <1>8, <2>1 DEF Hangs
  <2>3. b3[y].child[q] = IF y = r /\ q = RIGHT THEN h ELSE b2[y].child[q]
    BY <1>2, <1>7, <2>1 DEF Hangs
  <2>4. b2[y].child[q] = IF y = r /\ q = LEFT THEN l ELSE b1[y].child[q]
    BY <1>2, <1>6, <2>1 DEF Hangs
  <2>5. b1[y].child[q] = IF y = r THEN m.child[q] ELSE b[y].child[q]
    BY <1>4
  <2>6. l = m.child[LEFT] /\ h = m.child[RIGHT]
    BY DEF l, h
  <2> QED
    BY <2>2, <2>3, <2>4, <2>5, <2>6
<1>10. ASSUME NEW y \in DOMAIN b
      PROVE  /\ c[y].near = b[y].near /\ c[y].red = IF y = r THEN m.red ELSE b[y].red
             /\ c[y].parent = IF y = r THEN p ELSE IF y = h \/ y = l THEN r ELSE b[y].parent
             /\ c[y].side = IF y = r THEN s ELSE IF y = h THEN RIGHT ELSE IF y = l THEN LEFT ELSE b[y].side
  <2>1. y \in DOMAIN b1 /\ y \in DOMAIN b2 /\ y \in DOMAIN b3
    BY <1>3, <1>6, <1>7
  <2>2. /\ c[y].near = b3[y].near /\ c[y].red = b3[y].red
        /\ c[y].parent = (IF y = r THEN p ELSE b3[y].parent) /\ c[y].side = (IF y = r THEN s ELSE b3[y].side)
    BY <1>8, <2>1 DEF Hangs
  <2>3. /\ b3[y].near = b2[y].near /\ b3[y].red = b2[y].red
        /\ b3[y].parent = (IF y = h THEN r ELSE b2[y].parent) /\ b3[y].side = (IF y = h THEN RIGHT ELSE b2[y].side)
    BY <1>7, <2>1 DEF Hangs
  <2>4. /\ b2[y].near = b1[y].near /\ b2[y].red = b1[y].red
        /\ b2[y].parent = (IF y = l THEN r ELSE b1[y].parent) /\ b2[y].side = (IF y = l THEN LEFT ELSE b1[y].side)
    BY <1>6, <2>1 DEF Hangs
  <2>5. /\ b1[y].near = b[y].near /\ b1[y].parent = b[y].parent /\ b1[y].side = b[y].side
        /\ b1[y].red = (IF y = r THEN m.red ELSE b[y].red)
    BY <1>4
  <2> QED
    BY <2>2, <2>3, <2>4, <2>5
<1>11. Switches(b, c, n, r)
  BY <1>8, <1>9, <1>10 DEF Switches, m, l, h, p, s
<1> QED
  BY <1>1, <1>8, <1>11

\* c is b with r in the place of the head n.
Renamed(b, c, n, r) ==
  /\ DOMAIN c = (DOMAIN b \cup {r}) \ {n}
  /\ c[r].parent = b[n].parent /\ c[r].side = b[n].side /\ c[r].red = b[n].red
  /\ \A q \in Side : c[r].child[q] = b[n].child[q]
  /\ \A y \in DOMAIN b \ {n, r} :
       /\ c[y].red = b[y].red
       /\ y \in Places(b) => \A q \in Side : c[y].child[q] = IF b[y].child[q] = n THEN r ELSE b[y].child[q]
       /\ y # mHead => c[y].side = b[y].side /\ c[y].parent = IF b[y].parent = n THEN r ELSE b[y].parent

\* r can take the place of n.
Replaces(b, n, r) ==
  n \in Heads(b) /\ r \in Nodes /\ r \notin Heads(b) /\ r # n

\* Its places are those of b, with r for n.
LEMMA RenamedPlaces ==
  ASSUME NEW b, NEW sub, Tree(b, sub), NEW n, NEW r, Replaces(b, n, r), NEW c, Typed(c), Renamed(b, c, n, r)
  PROVE  /\ Heads(c) = (Heads(b) \cup {r}) \ {n} /\ Places(c) = (Places(b) \cup {r}) \ {n}
         /\ Root(c) = IF Root(b) = n THEN r ELSE Root(b)
<1>1. /\ Heads(b) \subseteq DOMAIN b /\ mHead \notin Heads(b) /\ Places(b) = Heads(b) \cup {mHead}
      /\ Null \notin Places(b) /\ mHead \in DOMAIN b
      /\ \A y \in Heads(b) : b[y].parent \in Places(b)
  BY PlacesOfTree DEF Typed
<1>2. n \in Heads(b) /\ r \in Nodes /\ r \notin Heads(b) /\ r # n /\ r # mHead /\ r # Null
  BY Names DEF Replaces
<1>3. r \in Heads(c)
  <2>1. b[n].parent \in Places(b)
    BY <1>1, <1>2
  <2> QED
    BY <1>1, <1>2, <2>1 DEF Renamed, Heads, IsHead
<1>4. ASSUME NEW y, y # r PROVE y \in Heads(c) <=> y \in Heads(b) /\ y # n
  <2>1. CASE y \in DOMAIN b \ {n, r, mHead}
    <3>1. c[y].parent = IF b[y].parent = n THEN r ELSE b[y].parent
      BY <2>1 DEF Renamed
    <3>2. c[y].parent # Null <=> b[y].parent # Null
      <4>1. n # Null
        BY <1>1, <1>2
      <4> QED
        BY <1>2, <3>1, <4>1
    <3>3. y \in DOMAIN c
      BY <2>1 DEF Renamed
    <3> QED
      BY <2>1, <3>2, <3>3 DEF Heads, IsHead
  <2>2. CASE y \notin DOMAIN b \ {n, r, mHead}
    BY <1>4, <2>2 DEF Heads, Renamed
  <2> QED
    BY <2>1, <2>2
<1>5. Heads(c) = (Heads(b) \cup {r}) \ {n}
  BY <1>2, <1>3, <1>4
<1>6. Root(c) = IF Root(b) = n THEN r ELSE Root(b)
  <2>1. mHead \in DOMAIN b \ {n, r} /\ LEFT \in Side /\ mHead \in Places(b)
    BY <1>1, <1>2, Sides
  <2> QED
    BY <2>1 DEF Renamed, Root
<1>7. Places(c) = (Places(b) \cup {r}) \ {n}
  <2>1. n # mHead
    BY <1>1, <1>2
  <2> QED
    BY <1>5, <2>1 DEF Places
<1> QED
  BY <1>5, <1>6, <1>7

\* The key of r is where that of n was.
Fitting(b, sub, n, r) ==
  /\ \A z \in Heads(b), q \in Side : n \in sub[b[z].child[q]] => Beyond(q, KeyOf[r], KeyOf[z])
  /\ \A q \in Side : \A y \in sub[b[n].child[q]] : Beyond(q, KeyOf[y], KeyOf[r])

\* Then it is still a tree.
LEMMA RenamedTree ==
  ASSUME NEW b, NEW sub, Tree(b, sub), NEW n, NEW r, Replaces(b, n, r), Fitting(b, sub, n, r),
         NEW c, Typed(c), Renamed(b, c, n, r)
  PROVE  \E sub1 : Tree(c, sub1)
<1> DEFINE H == Heads(b)
           P == Places(b)
           old(y) == IF y = r THEN n ELSE y
           new(y) == IF y = n THEN r ELSE y
           moved(S) == IF n \in S THEN (S \ {n}) \cup {r} ELSE S
           sub1 == [y \in Places(c) |-> moved(sub[old(y)])]
<1>1. /\ H \subseteq DOMAIN b /\ mHead \notin H /\ P = H \cup {mHead} /\ P \subseteq DOMAIN b /\ Null \notin P
      /\ Root(b) \in P /\ Typed(b)
      /\ b[mHead].child[RIGHT] = mHead /\ ~b[mHead].red
      /\ (\A y \in P, a \in Side : Down(b, y, a))
      /\ (\A y \in H : b[y].parent \in P /\ b[b[y].parent].child[b[y].side] = y /\ b[y].side \in Side)
      /\ sub \in [P -> SUBSET H] /\ sub[mHead] = {} /\ sub[Root(b)] = H
  BY PlacesOfTree, Zenon DEF Tree, Links, Subtrees
<1>2. n \in H /\ r \in Nodes /\ r \notin H /\ r # n /\ r # mHead /\ n # mHead /\ r \notin P
  BY <1>1, Names DEF Replaces
<1>3. Heads(c) = (H \cup {r}) \ {n} /\ Places(c) = (P \cup {r}) \ {n} /\ Root(c) = new(Root(b))
  BY RenamedPlaces
<1>4. /\ c[r].parent = b[n].parent /\ c[r].side = b[n].side
      /\ \A q \in Side : c[r].child[q] = b[n].child[q]
      /\ \A y \in P \ {n} :
           /\ c[y].red = b[y].red
           /\ \A q \in Side : c[y].child[q] = new(b[y].child[q])
           /\ y # mHead => c[y].side = b[y].side /\ c[y].parent = new(b[y].parent)
  <2>1. \A y \in P \ {n} : y \in DOMAIN b \ {n, r}
    BY <1>1, <1>2
  <2> QED
    BY <2>1 DEF Renamed
<1>5. \A q \in Side : b[n].child[q] # n /\ b[n].parent # n
  <2>1. \A q \in Side : b[n].child[q] # n
    <3>1. \A q \in Side : Parts(b, sub, n, b[n].child[q], b[n].child[Other(q)])
      BY <1>2, SubParts
    <3> QED
      BY <3>1 DEF Parts
  <2>2. b[n].parent # n
    BY <1>1, <1>2, <2>1
  <2> QED
    BY <2>1, <2>2
<1> HIDE DEF H, P
<1>6. ASSUME NEW x \in Places(c), NEW q \in Side
      PROVE  LET z == b[old(x)].child[q]
             IN /\ old(x) \in P /\ z \in P /\ c[x].child[q] = new(z)
                /\ (z # mHead => b[z].parent = old(x) /\ b[z].side = q)
  <2>1. old(x) \in P /\ (x # r => x \in P \ {n})
    BY <1>1, <1>2, <1>3
  <2>2. Down(b, old(x), q)
    BY <1>1, <2>1
  <2>3. c[x].child[q] = new(b[old(x)].child[q])
    <3>1. CASE x = r
      BY <1>4, <1>5, <3>1
    <3>2. CASE x # r
      BY <1>4, <2>1, <3>2
    <3> QED
      BY <3>1, <3>2
  <2> QED
    BY <2>1, <2>2, <2>3 DEF Down, P
<1>7. Links(c)
  <2>1. c[mHead].child[RIGHT] = mHead /\ ~c[mHead].red
    <3>1. mHead \in P \ {n} /\ RIGHT \in Side
      BY <1>1, <1>2, Sides DEF P
    <3> QED
      BY <1>1, <1>2, <1>4, <3>1
  <2>2. ASSUME NEW x \in Places(c), NEW q \in Side
        PROVE  /\ c[x].child[q] \in Places(c)
               /\ c[x].child[q] # mHead => c[c[x].child[q]].parent = x /\ c[c[x].child[q]].side = q
    <3> DEFINE z == b[old(x)].child[q]
    <3>1. /\ old(x) \in P /\ z \in P /\ c[x].child[q] = new(z)
          /\ (z # mHead => b[z].parent = old(x) /\ b[z].side = q)
      BY <1>6
    <3> HIDE DEF z
    <3>2. c[x].child[q] \in Places(c)
      BY <1>2, <1>3, <3>1
    <3>3. x # n
      BY <1>3
    <3>4. CASE z = n
      <4>1. c[r].parent = b[n].parent /\ c[r].side = b[n].side /\ b[n].parent = old(x) /\ b[n].side = q
        BY <1>2, <1>4, <3>1, <3>4
      <4>2. x # r
        BY <1>5, <4>1, Sides
      <4> QED
        BY <3>1, <3>2, <3>4, <4>1, <4>2
    <3>5. CASE z # n /\ z # mHead
      <4>1. c[z].side = b[z].side /\ c[z].parent = new(b[z].parent)
        BY <1>4, <3>1, <3>5
      <4> QED
        BY <1>2, <3>1, <3>2, <3>3, <3>5, <4>1
    <3>6. CASE z = mHead
      BY <1>2, <3>1, <3>2, <3>6
    <3> QED
      BY <3>4, <3>5, <3>6
  <2>3. ASSUME NEW x \in Heads(c) PROVE c[x].parent \in Places(c) /\ c[c[x].parent].child[c[x].side] = x
    <3> DEFINE y == old(x)
               g == b[y].parent
               a == b[y].side
    <3>1. y \in H /\ x = new(y) /\ g \in P /\ b[g].child[a] = y /\ a \in Side
      BY <1>1, <1>2, <1>3
    <3>2. c[x].parent = new(g) /\ c[x].side = a
      <4>1. CASE x = r
        BY <1>4, <1>5, <3>1, <4>1, Sides
      <4>2. CASE x # r
        <5>1. x \in P \ {n} /\ x # mHead /\ y = x
          BY <1>1, <1>3, <4>2
        <5> QED
          BY <1>4, <5>1
      <4> QED
        BY <4>1, <4>2
    <3> HIDE DEF y, g, a
    <3>3. new(g) \in Places(c) /\ old(new(g)) = g
      BY <1>2, <1>3, <3>1
    <3>4. c[new(g)].child[a] = new(b[g].child[a])
      BY <1>6, <3>1, <3>3
    <3> QED
      BY <3>1, <3>2, <3>3, <3>4
  <2> QED
    BY <2>1, <2>2, <2>3 DEF Links, Places
<1>8. \A y \in Places(c) : old(y) \in P /\ sub1[y] = moved(sub[old(y)])
  BY <1>1, <1>2, <1>3
<1>9. \A y \in P : new(y) \in Places(c) /\ sub1[new(y)] = moved(sub[y])
  <2>1. \A y \in P : new(y) \in Places(c) /\ old(new(y)) = y
    BY <1>2, <1>3
  <2> QED
    BY <2>1
<1>10. ASSUME NEW x \in Heads(c), NEW q \in Side
       PROVE  /\ sub1[c[x].child[q]] = moved(sub[b[old(x)].child[q]])
              /\ \A y \in sub1[c[x].child[q]] : Beyond(q, KeyOf[y], KeyOf[x])
  <2> DEFINE z == b[old(x)].child[q]
  <2>1. x \in Places(c) /\ old(x) \in H
    BY <1>2, <1>3 DEF Places
  <2>2. z \in P /\ c[x].child[q] = new(z)
    BY <1>6, <2>1
  <2>3. \A y \in sub[z] : Beyond(q, KeyOf[y], KeyOf[old(x)])
    BY <2>1 DEF Tree, Subtrees, H
  <2>4. (n \in sub[z] => Beyond(q, KeyOf[r], KeyOf[old(x)])) /\ (old(x) = n => \A y \in sub[z] : Beyond(q, KeyOf[y], KeyOf[r]))
    BY <2>1 DEF Fitting, H
  <2>5. old(x) = n => n \notin sub[z]
    <3> SUFFICES ASSUME old(x) = n PROVE n \notin sub[z]
      OBVIOUS
    <3>1. Parts(b, sub, n, b[n].child[q], b[n].child[Other(q)])
      BY <1>2, SubParts DEF H
    <3> HIDE DEF old
    <3> QED
      BY <3>1 DEF Parts
  <2> HIDE DEF z
  <2>6. sub1[c[x].child[q]] = moved(sub[z])
    BY <1>9, <2>2, Zenon
  <2>7. ASSUME NEW y \in moved(sub[z]) PROVE Beyond(q, KeyOf[y], KeyOf[x])
    <3>1. CASE x = r
      <4>1. y \in sub[z]
        BY <2>5, <2>7, <3>1
      <4> QED
        BY <2>4, <3>1, <4>1
    <3>2. CASE x # r /\ n \in sub[z] /\ y = r
      BY <2>4, <3>2
    <3>3. CASE x # r /\ ~(n \in sub[z] /\ y = r)
      <4>1. y \in sub[z]
        BY <2>7, <3>3
      <4> QED
        BY <2>3, <3>3, <4>1
    <3> QED
      BY <3>1, <3>2, <3>3
  <2> HIDE DEF sub1
  <2>8. \A y \in sub1[c[x].child[q]] : Beyond(q, KeyOf[y], KeyOf[x])
    BY <2>6, <2>7
  <2> QED
    BY <2>6, <2>8, Zenon DEF z
<1>11. Subtrees(c, sub1)
  <2>1. sub1 \in [Places(c) -> SUBSET Heads(c)]
    <3>1. \A y \in Places(c) : moved(sub[old(y)]) \subseteq Heads(c)
      <4>1. \A y \in Places(c) : sub[old(y)] \subseteq H
        BY <1>1, <1>8
      <4> HIDE DEF old
      <4> QED
        BY <1>2, <1>3, <4>1
    <3> QED
      BY <3>1
  <2>2. sub1[mHead] = {}
    <3>1. mHead \in P /\ new(mHead) = mHead
      BY <1>1, <1>2 DEF P
    <3> HIDE DEF sub1
    <3> QED
      BY <1>1, <1>9, <3>1, Zenon
  <2>3. sub1[Root(c)] = Heads(c)
    <3>1. sub1[new(Root(b))] = moved(sub[Root(b)])
      BY <1>1, <1>9, Zenon
    <3> HIDE DEF sub1
    <3> QED
      BY <1>1, <1>2, <1>3, <3>1
  <2>4. ASSUME NEW x \in Heads(c) PROVE sub1[x] = {x} \cup sub1[c[x].child[LEFT]] \cup sub1[c[x].child[RIGHT]]
    <3> DEFINE y == old(x)
               l == b[y].child[LEFT]
               h == b[y].child[RIGHT]
    <3>1. y \in H /\ x \in Places(c) /\ x = new(y)
      BY <1>2, <1>3 DEF Places
    <3>2. sub[y] = {y} \cup sub[l] \cup sub[h]
      <4> HIDE DEF y
      <4> QED
        BY <3>1 DEF Tree, Subtrees, H
    <3>3. sub1[x] = moved(sub[y])
      BY <1>8, <3>1
    <3>4. sub1[c[x].child[LEFT]] = moved(sub[l]) /\ sub1[c[x].child[RIGHT]] = moved(sub[h])
      BY <1>10, Sides, ZenonT(30)
    <3>5. y = n => n \notin sub[l] /\ n \notin sub[h]
      <4> SUFFICES ASSUME y = n PROVE n \notin sub[l] /\ n \notin sub[h]
        OBVIOUS
      <4>1. Parts(b, sub, y, l, h)
        <5> HIDE DEF y
        <5> QED
          BY <3>1, SubParts, Sides DEF H
      <4> HIDE DEF y, l, h
      <4> QED
        BY <4>1 DEF Parts
    <3> HIDE DEF y, l, h, sub1
    <3>6. moved(sub[y]) = {x} \cup moved(sub[l]) \cup moved(sub[h])
      <4>1. CASE y = n
        BY <3>1, <3>2, <3>5, <4>1
      <4>2. CASE y # n
        BY <3>1, <3>2, <4>2
      <4> QED
        BY <4>1, <4>2
    <3> QED
      BY <3>3, <3>4, <3>6
  <2> HIDE DEF sub1
  <2>5. \A x \in Heads(c), q \in Side : \A y \in sub1[c[x].child[q]] : Beyond(q, KeyOf[y], KeyOf[x])
    BY <1>10, Zenon
  <2> QED
    BY <2>1, <2>2, <2>3, <2>4, <2>5 DEF Subtrees
<1>12. IsFiniteSet(Heads(c))
  <2>1. IsFiniteSet(H \cup {r}) /\ Heads(c) \subseteq H \cup {r}
    <3>1. IsFiniteSet(H)
      BY DEF Tree, H
    <3> QED
      BY <1>3, <3>1, FS_AddElement
  <2> QED
    BY <2>1, FS_Subset
<1> HIDE DEF sub1
<1>13. Tree(c, sub1)
  BY <1>7, <1>11, <1>12 DEF Tree
<1> QED
  BY <1>13

\* The names of nodes before and after.
OldName(n, r, y) == IF y = r THEN n ELSE y
NewName(n, r, y) == IF y = n THEN r ELSE y

\* The fields of the places.
RenamedFields(b, c, n, r) ==
  /\ \A y \in Places(c) : OldName(n, r, y) \in Places(b) /\ NewName(n, r, OldName(n, r, y)) = y
                          /\ c[y].red = b[OldName(n, r, y)].red
  /\ \A y \in Heads(c) : OldName(n, r, y) \in Heads(b) /\ c[y].parent = NewName(n, r, b[OldName(n, r, y)].parent)
                         /\ c[y].side = b[OldName(n, r, y)].side
  /\ \A y \in Places(c), q \in Side : c[y].child[q] = NewName(n, r, b[OldName(n, r, y)].child[q])
  /\ \A y \in Places(b) : NewName(n, r, y) \in Places(c) /\ OldName(n, r, NewName(n, r, y)) = y
  /\ \A y \in Heads(b) : NewName(n, r, y) \in Heads(c)
  /\ NewName(n, r, mHead) = mHead

\* switch_with does that to the fields of the tree.
LEMMA RenamedNames ==
  ASSUME NEW b, NEW sub, Tree(b, sub), NEW n, NEW r, Replaces(b, n, r), NEW c, Typed(c), Renamed(b, c, n, r)
  PROVE  RenamedFields(b, c, n, r)
<1> DEFINE H == Heads(b)
           P == Places(b)
           old(y) == OldName(n, r, y)
           new(y) == NewName(n, r, y)
<1>1. /\ mHead \notin H /\ P = H \cup {mHead} /\ P \subseteq DOMAIN b /\ Null \notin P
      /\ (\A y \in P, q \in Side : Down(b, y, q))
      /\ (\A y \in H : b[y].parent \in P /\ b[b[y].parent].child[b[y].side] = y /\ b[y].side \in Side)
  BY PlacesOfTree
<1>2. n \in H /\ r \notin H /\ r # n /\ r # mHead /\ n # mHead /\ r \notin P
  BY <1>1, Names DEF Replaces
<1>3. Heads(c) = (H \cup {r}) \ {n} /\ Places(c) = (P \cup {r}) \ {n}
  BY RenamedPlaces
<1>4. \A y \in P \ {n} :
           /\ c[y].red = b[y].red
           /\ \A q \in Side : c[y].child[q] = new(b[y].child[q])
           /\ y # mHead => c[y].side = b[y].side /\ c[y].parent = new(b[y].parent)
  <2>1. \A y \in P \ {n} : y \in DOMAIN b \ {n, r}
    BY <1>1, <1>2
  <2> QED
    BY <2>1 DEF Renamed, NewName
<1>5. \A q \in Side : b[n].child[q] # n /\ b[n].parent # n
  <2>1. \A q \in Side : b[n].child[q] # n
    <3>1. \A q \in Side : Parts(b, sub, n, b[n].child[q], b[n].child[Other(q)])
      BY <1>2, SubParts
    <3> QED
      BY <3>1 DEF Parts
  <2> QED
    BY <1>1, <1>2, <2>1
<1>6. c[r].parent = b[n].parent /\ c[r].side = b[n].side /\ c[r].red = b[n].red /\ \A q \in Side : c[r].child[q] = b[n].child[q]
  BY DEF Renamed
<1>7. new(mHead) = mHead /\ (\A y \in P : new(y) \in Places(c) /\ old(new(y)) = y) /\ (\A y \in H : new(y) \in Heads(c))
  BY <1>1, <1>2, <1>3 DEF OldName, NewName
<1>8. \A y \in Places(c) : old(y) \in P /\ new(old(y)) = y /\ (y # r => y \in P \ {n} /\ old(y) = y)
  BY <1>1, <1>2, <1>3 DEF OldName, NewName
<1>9. ASSUME NEW y \in Places(c)
      PROVE c[y].red = b[old(y)].red /\ \A q \in Side : c[y].child[q] = new(b[old(y)].child[q])
  <2>1. CASE y = r
    BY <1>5, <1>6, <2>1 DEF OldName, NewName
  <2>2. CASE y # r
    BY <1>4, <1>8, <2>2
  <2> QED
    BY <2>1, <2>2
<1>10. ASSUME NEW y \in Heads(c)
       PROVE  old(y) \in H /\ c[y].parent = new(b[old(y)].parent) /\ c[y].side = b[old(y)].side
  <2>1. CASE y = r
    <3>1. n # b[n].parent
      BY <1>2, <1>5, Sides
    <3> QED
      BY <1>2, <1>6, <2>1, <3>1 DEF OldName, NewName
  <2>2. CASE y # r
    <3>1. y \in P \ {n} /\ y # mHead /\ old(y) = y /\ y \in H
      BY <1>1, <1>3, <2>2 DEF OldName
    <3> QED
      BY <1>4, <3>1
  <2> QED
    BY <2>1, <2>2
<1> QED
  BY <1>7, <1>8, <1>9, <1>10 DEF RenamedFields

\* The counts are those of the old names.
LEMMA RenamedWeights ==
  ASSUME NEW b, NEW sub, Tree(b, sub), NEW n, NEW r, Replaces(b, n, r), NEW c, Typed(c), Renamed(b, c, n, r),
         NEW p, p \in Places(b) \cup {Null}, NEW s, NEW bh, Weighted(b, p, s, bh)
  PROVE  Weighted(c, NewName(n, r, p), s, [y \in Places(c) |-> bh[OldName(n, r, y)]])
<1> DEFINE bh1 == [y \in Places(c) |-> bh[OldName(n, r, y)]]
<1>1. RenamedFields(b, c, n, r)
  BY RenamedNames
<1>2. \A y \in Places(c) : OldName(n, r, y) \in Places(b) /\ NewName(n, r, OldName(n, r, y)) = y
                           /\ c[y].red = b[OldName(n, r, y)].red
                           /\ \A q \in Side : c[y].child[q] = NewName(n, r, b[OldName(n, r, y)].child[q])
  BY <1>1 DEF RenamedFields
<1>3. \A y \in Places(b) : NewName(n, r, y) \in Places(c) /\ OldName(n, r, NewName(n, r, y)) = y
  BY <1>1 DEF RenamedFields
<1>4. NewName(n, r, mHead) = mHead /\ mHead \in Places(b) /\ mHead \in Places(c) /\ Heads(c) \subseteq Places(c)
      /\ \A y \in Heads(c) : OldName(n, r, y) \in Heads(b)
  BY <1>1 DEF RenamedFields, Places
<1>5. bh \in [Places(b) -> Nat \ {0}] /\ bh[mHead] = 1 /\ \A x \in Heads(b), q \in Side : Weighs(b, p, s, bh, x, q)
  BY DEF Weighted
<1>6. OldName(n, r, mHead) = mHead
  BY <1>3, <1>4
<1>7. bh1 \in [Places(c) -> Nat \ {0}] /\ bh1[mHead] = 1 /\ \A y \in Places(c) : bh1[y] = bh[OldName(n, r, y)]
  BY <1>2, <1>4, <1>5, <1>6
<1>8. \A y \in Places(c) : y = NewName(n, r, p) <=> OldName(n, r, y) = p
  <2>1. p # r
    BY Names, HeadsTyped DEF Replaces, Tree, Places
  <2> QED
    BY <1>2, <2>1 DEF OldName, NewName
<1>9. \A y \in Places(b), q \in Side : b[y].child[q] \in Places(b)
  BY PlacesOfTree DEF Down
<1> HIDE DEF bh1
<1>10. ASSUME NEW x \in Heads(c), NEW q \in Side PROVE Weighs(c, NewName(n, r, p), s, bh1, x, q)
  <2> DEFINE y == OldName(n, r, x)
             z == b[y].child[q]
  <2>1. y \in Heads(b) /\ y \in Places(b) /\ z \in Places(b) /\ x \in Places(c)
    BY <1>2, <1>4, <1>9
  <2>2. Weighs(b, p, s, bh, y, q)
    BY <1>5, <2>1
  <2>3. bh1[x] = bh[y] /\ c[x].child[q] = NewName(n, r, z) /\ c[x].red = b[y].red
    BY <1>2, <1>7, <2>1
  <2> HIDE DEF z
  <2>4. bh1[NewName(n, r, z)] = bh[z]
    BY <1>3, <1>7, <2>1
  <2>5. Blk(c, x) = Blk(b, y) /\ At(NewName(n, r, p), s, x, q) = At(p, s, y, q)
    BY <1>8, <2>1, <2>3 DEF Blk, At
  <2> HIDE DEF y
  <2> QED
    BY <2>2, <2>3, <2>4, <2>5 DEF Weighs, z
<1>11. Weighted(c, NewName(n, r, p), s, bh1)
  BY <1>7, <1>10 DEF Weighted
<1> QED
  BY <1>11 DEF bh1

\* And so are the faults.
LEMMA RenamedReds ==
  ASSUME NEW b, NEW sub, Tree(b, sub), NEW n, NEW r, Replaces(b, n, r), NEW c, Typed(c), Renamed(b, c, n, r)
  PROVE  /\ \A y \in Heads(c) : c[y].red /\ c[c[y].parent].red =>
              LET o == OldName(n, r, y)
              IN o \in Heads(b) /\ b[o].red /\ b[b[o].parent].red /\ y = NewName(n, r, o)
         /\ c[Root(c)].red => b[Root(b)].red
         /\ Root(c) = NewName(n, r, Root(b))
<1>1. RenamedFields(b, c, n, r)
  BY RenamedNames
<1>2. Root(c) = NewName(n, r, Root(b))
  BY RenamedPlaces DEF NewName
<1>3. ASSUME NEW y \in Places(b) PROVE c[NewName(n, r, y)].red = b[y].red
  BY <1>1 DEF RenamedFields
<1>4. Root(b) \in Places(b) /\ \A y \in Heads(b) : b[y].parent \in Places(b)
  BY PlacesOfTree
<1>5. \A y \in Heads(c) : OldName(n, r, y) \in Heads(b) /\ c[y].parent = NewName(n, r, b[OldName(n, r, y)].parent)
                          /\ c[y].red = b[OldName(n, r, y)].red /\ y = NewName(n, r, OldName(n, r, y))
  <2>1. Heads(c) \subseteq Places(c)
    BY DEF Places
  <2> QED
    BY <1>1, <2>1 DEF RenamedFields
<1>6. c[Root(c)].red => b[Root(b)].red
  BY <1>2, <1>3, <1>4
<1>7. ASSUME NEW y \in Heads(c), c[y].red, c[c[y].parent].red
      PROVE  LET o == OldName(n, r, y)
             IN o \in Heads(b) /\ b[o].red /\ b[b[o].parent].red /\ y = NewName(n, r, o)
  <2> DEFINE o == OldName(n, r, y)
  <2>1. o \in Heads(b) /\ c[y].parent = NewName(n, r, b[o].parent) /\ c[y].red = b[o].red /\ y = NewName(n, r, o)
    BY <1>5
  <2> HIDE DEF o
  <2>2. c[NewName(n, r, b[o].parent)].red = b[b[o].parent].red
    BY <1>3, <1>4, <2>1
  <2> QED
    BY <1>7, <2>1, <2>2 DEF o
<1> QED
  BY <1>2, <1>6, <1>7

\* cut has the nodes of d, and r.
Covers(d, cut, r) ==
  /\ DOMAIN cut = DOMAIN d \cup {r} /\ Typed(cut)
  /\ \A y \in DOMAIN d \ {r} : cut[y] = d[y]

\* What a switch leaves as it was, and what it makes of the sentinel.
Beside(cut, c, n, r) ==
  /\ \A y \in DOMAIN c : c[y].near = cut[y].near /\ (y \notin Places(c) => c[y].child = cut[y].child)
  /\ IF cut[n].child[RIGHT] = mHead THEN c[mHead].parent = r /\ c[mHead].side = RIGHT
     ELSE cut[n].child[LEFT] # mHead => c[mHead].parent = cut[mHead].parent /\ c[mHead].side = cut[mHead].side

\* switch_with renames n.
LEMMA SwitchRenames ==
  ASSUME NEW d, NEW sub, Tree(d, sub), NEW n, NEW r, Replaces(d, n, r), NEW cut, Covers(d, cut, r)
  PROVE  LET c == Without(SwitchWith(cut, r, n), n)
         IN Typed(c) /\ Renamed(d, c, n, r) /\ Beside(cut, c, n, r)
<1> DEFINE w == SwitchWith(cut, r, n)
           c == Without(w, n)
           H == Heads(d)
           P == Places(d)
           l == d[n].child[LEFT]
           h == d[n].child[RIGHT]
           p == d[n].parent
           s == d[n].side
<1>1. /\ H \subseteq DOMAIN d /\ mHead \notin H /\ P = H \cup {mHead} /\ P \subseteq DOMAIN d /\ Null \notin P
      /\ mHead \in DOMAIN d
      /\ (\A y \in P, q \in Side : Down(d, y, q))
      /\ (\A y \in H : d[y].parent \in P /\ d[d[y].parent].child[d[y].side] = y /\ d[y].side \in Side)
  BY PlacesOfTree DEF Typed
<1>2. n \in H /\ r \in Nodes /\ r \notin H /\ r # n /\ r # mHead /\ n # mHead /\ r \notin P
  BY <1>1, Names DEF Replaces
<1>3. DOMAIN cut = DOMAIN d \cup {r} /\ Typed(cut) /\ (\A y \in DOMAIN d \ {r} : cut[y] = d[y]) /\ cut[n] = d[n]
  BY <1>1, <1>2 DEF Covers
<1>4. l \in P /\ h \in P /\ p \in P /\ s \in Side
  BY <1>1, <1>2, Sides DEF Down
<1>5. Typed(w) /\ Switches(cut, w, n, r)
  <2>1. n \in DOMAIN cut /\ r \in DOMAIN cut /\ l \in DOMAIN cut \ {r} /\ h \in DOMAIN cut \ {r} /\ p \in DOMAIN cut
    BY <1>1, <1>2, <1>3, <1>4
  <2> QED
    BY <1>2, <1>3, <2>1, SwitchSwitches
<1> HIDE DEF w, l, h, p, s
<1>6. /\ DOMAIN w = DOMAIN d \cup {r}
      /\ \A y \in DOMAIN cut : w[y].near = cut[y].near /\ w[y].red = IF y = r THEN d[n].red ELSE cut[y].red
      /\ \A y \in DOMAIN cut, q \in Side :
           w[y].child[q] = IF y = p /\ q = s THEN r ELSE IF y = r THEN d[n].child[q] ELSE cut[y].child[q]
      /\ \A y \in DOMAIN cut :
           /\ w[y].parent = IF y = r THEN p ELSE IF y = h \/ y = l THEN r ELSE cut[y].parent
           /\ w[y].side = IF y = r THEN s ELSE IF y = h THEN RIGHT ELSE IF y = l THEN LEFT ELSE cut[y].side
  BY <1>3, <1>5 DEF Switches, l, h, p, s
<1>7. DOMAIN c = (DOMAIN d \cup {r}) \ {n} /\ \A y \in DOMAIN c : c[y] = w[y]
  BY <1>6 DEF Without
<1>8. Typed(c)
  <2>1. c = [y \in DOMAIN c |-> c[y]]
    BY <1>7 DEF Without
  <2>2. \A y \in DOMAIN c : c[y] \in Base
    BY <1>5, <1>6, <1>7 DEF Typed
  <2> HIDE DEF c
  <2>3. c \in [DOMAIN c -> Base]
    BY <2>1, <2>2
  <2> QED
    BY <1>1, <1>2, <1>5, <1>6, <1>7, <2>3 DEF Typed
<1> HIDE DEF c, H, P
<1>9. Renamed(d, c, n, r)
  <2>1. r \in DOMAIN c /\ r \in DOMAIN cut /\ c[r] = w[r]
    BY <1>2, <1>3, <1>7
  <2>2. c[r].parent = p /\ c[r].side = s /\ c[r].red = d[n].red /\ \A q \in Side : c[r].child[q] = d[n].child[q]
    BY <1>2, <1>4, <1>6, <2>1
  <2>3. ASSUME NEW y \in DOMAIN d \ {n, r}
        PROVE  /\ c[y].red = d[y].red
               /\ y \in P => \A q \in Side : c[y].child[q] = IF d[y].child[q] = n THEN r ELSE d[y].child[q]
               /\ y # mHead => c[y].side = d[y].side /\ c[y].parent = IF d[y].parent = n THEN r ELSE d[y].parent
    <3>1. y \in DOMAIN c /\ y \in DOMAIN cut /\ c[y] = w[y] /\ cut[y] = d[y]
      BY <1>3, <1>7
    <3>2. c[y].red = d[y].red
      BY <1>6, <3>1
    <3>3. ASSUME y \in P, NEW q \in Side PROVE c[y].child[q] = IF d[y].child[q] = n THEN r ELSE d[y].child[q]
      <4>1. c[y].child[q] = IF y = p /\ q = s THEN r ELSE d[y].child[q]
        BY <1>6, <3>1
      <4>2. d[y].child[q] = n <=> y = p /\ q = s
        BY <1>1, <1>2, <3>3 DEF Down, p, s
      <4> QED
        BY <4>1, <4>2
    <3>4. ASSUME y # mHead PROVE c[y].side = d[y].side /\ c[y].parent = IF d[y].parent = n THEN r ELSE d[y].parent
      <4>1. /\ c[y].parent = IF y = h \/ y = l THEN r ELSE d[y].parent
            /\ c[y].side = IF y = h THEN RIGHT ELSE IF y = l THEN LEFT ELSE d[y].side
        BY <1>6, <3>1
      <4>2. Down(d, n, LEFT) /\ Down(d, n, RIGHT) /\ n \in P
        BY <1>1, <1>2, Sides
      <4>3. (y = h => d[y].parent = n /\ d[y].side = RIGHT) /\ (y = l => d[y].parent = n /\ d[y].side = LEFT)
        BY <3>4, <4>2 DEF Down, h, l
      <4>4. ASSUME d[y].parent = n PROVE y = h \/ y = l
        <5>1. y \in H
          <6>1. d[y].parent # Null
            BY <1>1, <4>2, <4>4
          <6> QED
            BY <3>4, <6>1 DEF H, Heads, IsHead
        <5>2. d[n].child[d[y].side] = y /\ d[y].side \in Side
          BY <1>1, <4>4, <5>1
        <5> QED
          BY <5>2 DEF h, l, Side
      <4> QED
        BY <4>1, <4>3, <4>4, Sides
    <3> QED
      BY <3>2, <3>3, <3>4
  <2> QED
    BY <1>7, <2>2, <2>3 DEF Renamed, p, s, P
<1>10. Beside(cut, c, n, r)
  <2>1. Places(c) = (P \cup {r}) \ {n}
    BY <1>8, <1>9, RenamedPlaces DEF P
  <2>2. ASSUME NEW y \in DOMAIN c PROVE c[y].near = cut[y].near /\ (y \notin Places(c) => c[y].child = cut[y].child)
    <3>1. y \in DOMAIN cut /\ c[y] = w[y]
      BY <1>3, <1>7
    <3>2. c[y].near = cut[y].near
      BY <1>6, <3>1
    <3>3. ASSUME y \notin Places(c) PROVE c[y].child = cut[y].child
      <4>1. y # p /\ y # r
        BY <1>2, <1>4, <1>7, <2>1, <3>3
      <4>2. \A q \in Side : c[y].child[q] = cut[y].child[q]
        BY <1>6, <3>1, <4>1
      <4>3. c[y].child \in [Side -> Nodes \cup {mHead, Null}] /\ cut[y].child \in [Side -> Nodes \cup {mHead, Null}]
        BY <1>3, <1>8, <3>1 DEF Typed, Base
      <4> QED
        BY <4>2, <4>3
    <3> QED
      BY <3>2, <3>3
  <2>3. mHead \in DOMAIN cut /\ c[mHead] = w[mHead] /\ mHead # r
    BY <1>1, <1>2, <1>3, <1>7
  <2>4. /\ c[mHead].parent = (IF mHead = h \/ mHead = l THEN r ELSE cut[mHead].parent)
        /\ c[mHead].side = (IF mHead = h THEN RIGHT ELSE IF mHead = l THEN LEFT ELSE cut[mHead].side)
    BY <1>6, <2>3
  <2>5. cut[n].child[RIGHT] = h /\ cut[n].child[LEFT] = l
    BY <1>3 DEF h, l
  <2> QED
    BY <2>2, <2>4, <2>5 DEF Beside
<1> QED
  BY <1>8, <1>9, <1>10 DEF c, w

\* Renaming keeps a sound tree.
LEMMA RenamedSound ==
  ASSUME NEW b, NEW sub, Tree(b, sub), Sound(b), NEW n, NEW r, Replaces(b, n, r), Fitting(b, sub, n, r),
         NEW c, Typed(c), Renamed(b, c, n, r)
  PROVE  Sound(c)
<1>1. \E sub1 : Tree(c, sub1)
  BY RenamedTree
<1>2. PICK bh : Weighted(b, Null, LEFT, bh)
  BY DEF Sound
<1>3. Weighted(c, NewName(n, r, Null), LEFT, [y \in Places(c) |-> bh[OldName(n, r, y)]])
  BY <1>2, RenamedWeights
<1>4. NewName(n, r, Null) = Null
  <2>1. n # Null
    BY Names, HeadsTyped DEF Replaces, Tree, Places
  <2> QED
    BY <2>1 DEF NewName
<1>5. \E bh1 : Weighted(c, Null, LEFT, bh1)
  BY <1>3, <1>4, Zenon
<1>6. RedsIn(c, {}) /\ ~c[Root(c)].red
  <2>1. RedsIn(b, {}) /\ ~b[Root(b)].red
    BY DEF Sound
  <2> QED
    BY <2>1, RenamedReds DEF RedsIn
<1> QED
  BY <1>1, <1>5, <1>6 DEF Sound

\* And one that lacks a black node at the place of e.
LEMMA RenamedFixing ==
  ASSUME NEW b, NEW sub, Tree(b, sub), NEW e, Fixing(b, AtWork("erase", e)), NEW n, NEW r, Replaces(b, n, r),
         Fitting(b, sub, n, r), NEW c, Typed(c), Renamed(b, c, n, r), e # n,
         e = mHead => c[mHead].parent = NewName(n, r, b[mHead].parent) /\ c[mHead].side = b[mHead].side
  PROVE  Fixing(c, AtWork("erase", e))
<1> DEFINE f == AtWork("erase", e)
           p == b[e].parent
           s == b[e].side
<1>1. f.op = "erase" /\ f.cur = e /\ f = AtWork("erase", f.cur)
  BY Ops
<1> HIDE DEF f
<1>2. Fixing(b, f)
  BY DEF f
<1>3. Fits(b, f) /\ Reds(b, f)
  BY <1>2 DEF Fixing
<1>4. /\ e \in Places(b) /\ p \in Places(b) /\ s \in Side /\ b[p].child[s] = e /\ (e = Root(b) \/ p \in Heads(b))
      /\ LackAt(b, f) = p /\ LackSide(b, f) = s
  BY <1>1, <1>3, FitsErase, Zenon
<1>5. PICK bh : Weighted(b, p, s, bh)
  BY <1>2, <1>4 DEF Fixing
<1>6. \E sub1 : Tree(c, sub1)
  BY RenamedTree
<1>7. Weighted(c, NewName(n, r, p), s, [y \in Places(c) |-> bh[OldName(n, r, y)]])
  BY <1>4, <1>5, RenamedWeights
<1>8. RenamedFields(b, c, n, r)
  BY RenamedNames
<1>9. NewName(n, r, e) = e /\ e \in Places(c)
  <2>1. NewName(n, r, e) = e
    BY DEF NewName
  <2> QED
    BY <1>4, <1>8, <2>1 DEF RenamedFields
<1>10. c[e].parent = NewName(n, r, p) /\ c[e].side = s
  <2>1. CASE e = mHead
    BY <2>1
  <2>2. CASE e # mHead
    <3>1. e \in Heads(c)
      BY <1>9, <2>2 DEF Places
    <3>2. OldName(n, r, e) = e
      BY <1>4, <1>8, <1>9 DEF RenamedFields
    <3> QED
      BY <1>8, <3>1, <3>2 DEF RenamedFields
  <2> QED
    BY <2>1, <2>2
<1> HIDE DEF p, s
<1>11. NewName(n, r, p) \in Places(c) /\ c[NewName(n, r, p)].child[s] = e /\ (p \in Heads(b) => NewName(n, r, p) \in Heads(c))
  <2>1. NewName(n, r, p) \in Places(c) /\ OldName(n, r, NewName(n, r, p)) = p /\ (p \in Heads(b) => NewName(n, r, p) \in Heads(c))
    BY <1>4, <1>8 DEF RenamedFields
  <2>2. c[NewName(n, r, p)].child[s] = NewName(n, r, b[p].child[s])
    BY <1>4, <1>8, <2>1 DEF RenamedFields
  <2> QED
    BY <1>4, <1>9, <2>1, <2>2
<1>12. Root(c) = NewName(n, r, Root(b))
  BY RenamedReds
<1>13. Fits(c, f) /\ LackAt(c, f) = NewName(n, r, p) /\ LackSide(c, f) = s
  BY <1>1, <1>4, <1>9, <1>10, <1>11, <1>12 DEF Fits, LackAt, LackSide
<1>14. Reds(c, f)
  <2>1. ASSUME NEW y \in Heads(c), c[y].red, c[c[y].parent].red PROVE e = y \/ e = c[y].parent
    <3> DEFINE o == OldName(n, r, y)
    <3>1. o \in Heads(b) /\ b[o].red /\ b[b[o].parent].red /\ y = NewName(n, r, o)
      BY <2>1, RenamedReds
    <3>2. e = o \/ e = b[o].parent
      BY <1>1, <1>3, <3>1 DEF Reds
    <3>3. c[y].parent = NewName(n, r, b[o].parent)
      BY <1>8 DEF RenamedFields
    <3> HIDE DEF o
    <3> QED
      BY <1>9, <3>1, <3>2, <3>3
  <2>2. c[Root(c)].red => e = Root(c)
    <3> SUFFICES ASSUME c[Root(c)].red PROVE e = Root(c)
      OBVIOUS
    <3>1. b[Root(b)].red
      BY RenamedReds
    <3>2. e = Root(b)
      BY <1>1, <1>3, <3>1 DEF Reds
    <3> QED
      BY <1>9, <1>12, <3>2
  <2> QED
    BY <1>1, <2>1, <2>2 DEF Reds
<1>15. \E bh1 : Weighted(c, LackAt(c, f), LackSide(c, f), bh1)
  BY <1>7, <1>13, Zenon
<1>16. Fixing(c, f)
  BY <1>6, <1>13, <1>14, <1>15 DEF Fixing
<1> QED
  BY <1>16 DEF f

\* After a cut the tree is sound, or lacks a black node where the cut was.
LEMMA CutFixing ==
  ASSUME NEW b, NEW sub, Tree(b, sub), Sound(b), NEW r \in Heads(b), NEW q \in Side, b[r].child[Other(q)] = mHead,
         NEW e, e = b[r].child[q], NEW d, Typed(d), CutTo(b, d, r, e)
  PROVE  (b[r].red => Sound(d)) /\ (~b[r].red => Fixing(d, AtWork("erase", e)))
<1> DEFINE p == b[r].parent
           s == b[r].side
           f == AtWork("erase", e)
<1>1. Tree(d, [y \in Places(d) |-> sub[y] \ {r}])
  BY CutTree
<1>2. PICK bh : Weighted(b, Null, LEFT, bh)
  BY DEF Sound
<1>3. Weighted(d, IF b[r].red THEN Null ELSE p, s, [y \in Places(d) |-> bh[y]])
  BY <1>2, CutWeights
<1>4. RedsIn(d, IF b[r].red THEN {} ELSE {e}) /\ (d[Root(d)].red => ~b[r].red /\ Root(d) = e)
  <2>1. RedsIn(b, {}) /\ ~b[Root(b)].red
    BY DEF Sound
  <2> QED
    BY <2>1, CutReds
<1>5. /\ Heads(d) = Heads(b) \ {r} /\ Places(d) = Places(b) \ {r} /\ e \in Places(d) /\ p \in Places(d)
      /\ Root(d) = (IF Root(b) = r THEN e ELSE Root(b)) /\ s \in Side /\ (p = mHead <=> Root(b) = r)
  BY CutPlaces
<1>6. ASSUME b[r].red PROVE Sound(d)
  <2>1. Weighted(d, Null, s, [y \in Places(d) |-> bh[y]])
    BY <1>3, <1>6
  <2>2. Null \notin Heads(d)
    BY <1>1, PlacesOfTree
  <2>3. Weighted(d, Null, LEFT, [y \in Places(d) |-> bh[y]])
    BY <2>1, <2>2, WeightedAnywhere
  <2>4. \E bh1 : Weighted(d, Null, LEFT, bh1)
    BY <2>3, Zenon
  <2>5. \E sub1 : Tree(d, sub1)
    BY <1>1, Zenon
  <2>6. RedsIn(d, {}) /\ ~d[Root(d)].red
    BY <1>4, <1>6
  <2> QED
    BY <2>4, <2>5, <2>6 DEF Sound
<1>7. ASSUME ~b[r].red PROVE Fixing(d, f)
  <2>1. f.op = "erase" /\ f.cur = e /\ f = AtWork("erase", f.cur)
    BY Ops
  <2> HIDE DEF f
  <2>2. d[e].parent = p /\ d[e].side = s /\ d[p].child[s] = e
    <3>1. e \in DOMAIN b \ {r} /\ p \in DOMAIN b \ {r}
      BY <1>5, PlacesOfTree
    <3> QED
      BY <1>5, <3>1 DEF CutTo
  <2>3. e = Root(d) \/ p \in Heads(d)
    BY <1>5 DEF Places
  <2> HIDE DEF p, s
  <2>4. Fits(d, f) /\ LackAt(d, f) = p /\ LackSide(d, f) = s
    BY <1>5, <2>1, <2>2, <2>3 DEF Fits, LackAt, LackSide
  <2>5. Reds(d, f)
    <3>1. RedsIn(d, {e}) /\ (d[Root(d)].red => Root(d) = e)
      BY <1>4, <1>7
    <3> QED
      BY <2>1, <3>1 DEF RedsIn, Reds
  <2>6. Weighted(d, LackAt(d, f), LackSide(d, f), [y \in Places(d) |-> bh[y]])
    BY <1>3, <1>7, <2>4
  <2>7. \E bh1 : Weighted(d, LackAt(d, f), LackSide(d, f), bh1)
    BY <2>6, Zenon
  <2>8. \E sub1 : Tree(d, sub1)
    BY <1>1, Zenon
  <2> QED
    BY <2>4, <2>5, <2>7, <2>8 DEF Fixing
<1> QED
  BY <1>6, <1>7 DEF f

\* c is b without the head n.
CutDone(b, c, n) ==
  /\ DOMAIN c = DOMAIN b \ {n} /\ Typed(c) /\ Heads(c) = Heads(b) \ {n}
  /\ \A y \in DOMAIN c : c[y].near = b[y].near /\ (y \notin Places(c) => c[y].child = b[y].child)

\* repl has at most one child, and a key next to that of n.
LEMMA ReplAlone ==
  ASSUME NEW b, NEW sub, Tree(b, sub), NEW n \in Heads(b), NEW r, r = ReplOf(b, n), NEW q, q = CutSide(b, n)
  PROVE  /\ r \in Heads(b) /\ q \in Side /\ b[r].child[Other(q)] = mHead
         /\ r # n => /\ b[n].child[LEFT] # mHead /\ b[n].child[RIGHT] # mHead
                     /\ Extreme(r, sub[b[n].child[RIGHT]], LEFT)
<1>1. /\ \A a \in Side : b[n].child[a] \in Places(b)
      /\ Places(b) = Heads(b) \cup {mHead}
  BY PlacesOfTree DEF Down
<1>2. CASE b[n].child[RIGHT] # mHead /\ b[n].child[LEFT] # mHead
  <2>1. r = MinOrMax(b, b[n].child[RIGHT], LEFT) /\ q = RIGHT
    BY <1>2 DEF ReplOf, CutSide
  <2>2. b[n].child[RIGHT] \in Heads(b)
    BY <1>1, <1>2, Sides
  <2> QED
    BY <1>2, <2>1, <2>2, MinOrMaxExtreme, Sides
<1>3. CASE ~(b[n].child[RIGHT] # mHead /\ b[n].child[LEFT] # mHead)
  <2>1. r = n /\ q = IF b[n].child[RIGHT] # mHead THEN RIGHT ELSE LEFT
    BY <1>3 DEF ReplOf, CutSide
  <2> QED
    BY <1>3, <2>1, Sides
<1> QED
  BY <1>2, <1>3

\* Its key fits where n was, once it is cut out.
LEMMA ReplFits ==
  ASSUME NEW b, NEW sub, Tree(b, sub), NEW n \in Heads(b), NEW r \in Heads(b), r # n, NEW q \in Side,
         b[r].child[Other(q)] = mHead, b[n].child[LEFT] # mHead, b[n].child[RIGHT] # mHead,
         Extreme(r, sub[b[n].child[RIGHT]], LEFT),
         NEW e, e = b[r].child[q], NEW d, Typed(d), CutTo(b, d, r, e)
  PROVE  /\ Fitting(d, [y \in Places(d) |-> sub[y] \ {r}], n, r) /\ n \in Heads(d) /\ e # n
         /\ IF b[r].parent = n THEN b[r].side = RIGHT /\ d[n].child[RIGHT] = e /\ d[n].child[LEFT] # mHead
            ELSE d[n].child[LEFT] # mHead /\ d[n].child[RIGHT] # mHead
<1> DEFINE H == Heads(b)
           P == Places(b)
           l == b[n].child[LEFT]
           h == b[n].child[RIGHT]
           p == b[r].parent
           s == b[r].side
           sub1 == [y \in Places(d) |-> sub[y] \ {r}]
<1>1. /\ H \subseteq DOMAIN b /\ mHead \notin H /\ P = H \cup {mHead} /\ P \subseteq DOMAIN b
      /\ (\A y \in P, a \in Side : Down(b, y, a))
      /\ (\A y \in H : b[y].parent \in P /\ b[b[y].parent].child[b[y].side] = y /\ b[y].side \in Side)
      /\ sub[mHead] = {} /\ LEFT \in Side /\ RIGHT \in Side
      /\ \A y \in H : KeyOf[y] \in Nat
  BY PlacesOfTree, Sides, HeadsTyped, Zenon DEF Tree, Subtrees
<1>2. /\ Heads(d) = H \ {r} /\ Places(d) = P \ {r} /\ e \in P \ {r} /\ p \in P \ {r}
  BY CutPlaces
<1>3. \A y \in P \ {r}, a \in Side : d[y].child[a] = IF y = p /\ a = s THEN e ELSE b[y].child[a]
  BY <1>1, Zenon DEF CutTo
<1>4. Parts(b, sub, n, l, h) /\ Parts(b, sub, n, h, l) /\ Parts(b, sub, r, e, b[r].child[Other(q)])
  BY <1>1, Sides, SubParts
<1>5. r \in sub[h] /\ r \in sub[n] /\ r \notin sub[l] /\ sub[e] \subseteq sub[r] /\ sub[r] \subseteq sub[h] /\ n \notin sub[h]
      /\ h \in H /\ l \in H
  <2>1. h \in H /\ l \in H
    BY <1>1, <1>4, Zenon DEF Parts
  <2>2. r \in sub[h]
    BY DEF Extreme
  <2>3. sub[r] \subseteq sub[h]
    BY <2>1, <2>2, SubOfSub
  <2> QED
    BY <1>4, <2>1, <2>2, <2>3, Zenon DEF Parts
<1>6. e # n
  <2> SUFFICES ASSUME e = n PROVE FALSE
    OBVIOUS
  <2>1. n \in sub[n]
    BY <1>4, Zenon DEF Parts
  <2> QED
    BY <1>5, <2>1
<1>7. IF p = n THEN s = RIGHT /\ d[n].child[RIGHT] = e /\ d[n].child[LEFT] # mHead
      ELSE d[n].child[LEFT] # mHead /\ d[n].child[RIGHT] # mHead
  <2>1. n \in P \ {r}
    BY <1>1, Zenon
  <2>2. CASE p = n
    <3>1. b[n].child[s] = r /\ s \in Side
      BY <1>1, <2>2
    <3>2. s # LEFT
      <4> SUFFICES ASSUME s = LEFT PROVE FALSE
        OBVIOUS
      <4>1. r = l /\ r \in sub[r]
        BY <1>4, <3>1, Zenon DEF Parts
      <4> QED
        BY <1>5, <4>1, Zenon
    <3>3. s = RIGHT
      BY <3>1, <3>2 DEF Side
    <3> QED
      BY <1>1, <1>3, <2>1, <2>2, <3>2, <3>3, Zenon
  <2>3. CASE p # n
    BY <1>1, <1>3, <2>1, <2>3
  <2> QED
    BY <2>2, <2>3
<1>8. \A y \in P \ {r} : sub1[y] = sub[y] \ {r}
  BY <1>2
<1> HIDE DEF sub1
<1>9. ASSUME NEW y \in P \ {r}, NEW a \in Side PROVE d[y].child[a] \in P \ {r} /\ sub1[d[y].child[a]] \subseteq sub[b[y].child[a]]
  <2>1. CASE y = p /\ a = s
    <3>1. d[y].child[a] = e /\ b[y].child[a] = r
      BY <1>1, <1>3, <2>1, Zenon
    <3>2. sub1[e] \subseteq sub[e]
      BY <1>2, <1>8
    <3> QED
      BY <1>2, <1>5, <3>1, <3>2
  <2>2. CASE ~(y = p /\ a = s)
    <3>1. d[y].child[a] = b[y].child[a]
      BY <1>3, <2>2
    <3>2. b[y].child[a] \in P /\ b[y].child[a] # r
      <4>1. Down(b, y, a) /\ r # mHead
        BY <1>1
      <4> QED
        BY <2>2, <4>1 DEF Down
    <3> QED
      BY <1>8, <3>1, <3>2
  <2> QED
    BY <2>1, <2>2
<1>10. ASSUME NEW z \in Heads(d), NEW a \in Side, n \in sub1[d[z].child[a]] PROVE Beyond(a, KeyOf[r], KeyOf[z])
  <2>1. z \in H /\ z \in P \ {r}
    BY <1>1, <1>2, Zenon
  <2>2. n \in sub[b[z].child[a]]
    BY <1>9, <1>10, <2>1
  <2>3. sub[n] \subseteq sub[b[z].child[a]]
    <3>1. b[z].child[a] \in P
      BY <1>1, <2>1, Zenon DEF Down
    <3>2. b[z].child[a] \in H
      BY <1>1, <2>2, <3>1, Zenon
    <3> QED
      BY <2>2, <3>2, SubOfSub
  <2>4. r \in sub[b[z].child[a]]
    BY <1>5, <2>3, Zenon
  <2> QED
    BY <2>1, <2>4, Zenon DEF Tree, Subtrees
<1>11. ASSUME NEW a \in Side, NEW y \in sub1[d[n].child[a]] PROVE Beyond(a, KeyOf[y], KeyOf[r])
  <2>1. n \in P \ {r}
    BY <1>1, Zenon
  <2>2. y \in sub[b[n].child[a]] /\ y # r
    <3>1. d[n].child[a] \in P \ {r}
      BY <1>9, <2>1
    <3> QED
      BY <1>8, <1>9, <1>11, <2>1, <3>1, ZenonT(30)
  <2>3. Beyond(RIGHT, KeyOf[r], KeyOf[n])
    BY <1>1, <1>5, Zenon DEF Tree, Subtrees
  <2>4. CASE a = LEFT
    <3>1. Beyond(LEFT, KeyOf[y], KeyOf[n]) /\ y \in H
      BY <1>1, <1>4, <2>2, <2>4, Zenon DEF Tree, Subtrees, Parts
    <3> QED
      BY <1>1, <2>3, <2>4, <3>1, Sides DEF Beyond
  <2>5. CASE a = RIGHT
    <3>1. Beyond(LEFT, KeyOf[r], KeyOf[y]) /\ y \in H
      BY <1>4, <2>2, <2>5, Zenon DEF Extreme, Parts
    <3> QED
      BY <1>1, <2>5, <3>1, Sides, Zenon DEF Beyond
  <2> QED
    BY <2>4, <2>5 DEF Side
<1>12. Fitting(d, sub1, n, r)
  BY <1>10, <1>11 DEF Fitting
<1> QED
  BY <1>2, <1>6, <1>7, <1>12 DEF sub1

\* c is b without the head n, where the place of e lacks a black node if r was black.
CutOutTo(b, c, n, r, e) ==
  /\ CutDone(b, c, n)
  /\ b[r].red => Sound(c)
  /\ ~b[r].red => Fixing(c, AtWork("erase", e))

\* A node without two children is cut out.
LEMMA CutOutAlone ==
  ASSUME NEW b, NEW sub, Tree(b, sub), Sound(b), NEW n \in Heads(b), NEW q \in Side, b[n].child[Other(q)] = mHead,
         NEW e, e = b[n].child[q]
  PROVE  CutOutTo(b, Without(SubstituteWith(b, n, e), n), n, n, e)
<1> DEFINE d == Without(SubstituteWith(b, n, e), n)
<1>1. Typed(d) /\ CutTo(b, d, n, e)
  BY SubstituteCuts
<1>2. (b[n].red => Sound(d)) /\ (~b[n].red => Fixing(d, AtWork("erase", e)))
  BY <1>1, CutFixing
<1> HIDE DEF d
<1>3. Heads(d) = Heads(b) \ {n} /\ b[n].parent \in Places(d)
  BY <1>1, CutPlaces
<1>4. DOMAIN d = DOMAIN b \ {n}
      /\ \A y \in DOMAIN b \ {n} : d[y].near = b[y].near /\ (y # b[n].parent => d[y].child = b[y].child)
  BY <1>1 DEF CutTo
<1>5. CutDone(b, d, n)
  BY <1>1, <1>3, <1>4 DEF CutDone
<1>6. CutOutTo(b, d, n, n, e)
  BY <1>2, <1>5 DEF CutOutTo
<1> QED
  BY <1>6 DEF d

\* Otherwise its successor is, and takes its place.
LEMMA CutOutSwitched ==
  ASSUME NEW b, NEW sub, Tree(b, sub), Sound(b), NEW n \in Heads(b), NEW r \in Heads(b), r # n, NEW q \in Side,
         b[r].child[Other(q)] = mHead, b[n].child[LEFT] # mHead, b[n].child[RIGHT] # mHead,
         Extreme(r, sub[b[n].child[RIGHT]], LEFT), NEW e, e = b[r].child[q]
  PROVE  CutOutTo(b, Without(SwitchWith(SubstituteWith(b, r, e), r, n), n), n, r, e)
<1> DEFINE cut == SubstituteWith(b, r, e)
           d == Without(cut, r)
           c == Without(SwitchWith(cut, r, n), n)
           sub1 == [y \in Places(d) |-> sub[y] \ {r}]
<1>1. Typed(cut) /\ Hangs(b, cut, b[r].parent, b[r].side, e) /\ Typed(d) /\ CutTo(b, d, r, e)
  BY SubstituteCuts
<1> HIDE DEF cut
<1>2. (b[r].red => Sound(d)) /\ (~b[r].red => Fixing(d, AtWork("erase", e)))
  BY <1>1, CutFixing
<1>3. Tree(d, sub1)
  BY <1>1, CutTree
<1>4. /\ Fitting(d, sub1, n, r) /\ n \in Heads(d) /\ e # n
      /\ IF b[r].parent = n THEN b[r].side = RIGHT /\ d[n].child[RIGHT] = e /\ d[n].child[LEFT] # mHead
         ELSE d[n].child[LEFT] # mHead /\ d[n].child[RIGHT] # mHead
  BY <1>1, ReplFits
<1>5. Heads(d) = Heads(b) \ {r} /\ b[r].parent \in Places(d)
  BY <1>1, CutPlaces
<1>6. DOMAIN cut = DOMAIN b /\ \A y \in DOMAIN b : cut[y].near = b[y].near
  BY <1>1 DEF Hangs
<1>7. DOMAIN b = (DOMAIN b \ {r}) \cup {r} /\ r \in Nodes /\ mHead \in DOMAIN b /\ mHead # r
  BY HeadsTyped, ZenonT(30) DEF Tree, Typed
<1>8. Covers(d, cut, r) /\ DOMAIN d = DOMAIN b \ {r} /\ \A y \in DOMAIN d : cut[y] = d[y]
  BY <1>1, <1>6, <1>7 DEF Covers, Without
<1> HIDE DEF d, sub1
<1>9. Replaces(d, n, r)
  BY <1>4, <1>5, <1>7 DEF Replaces
<1>10. Typed(c) /\ Renamed(d, c, n, r) /\ Beside(cut, c, n, r)
  BY <1>3, <1>8, <1>9, SwitchRenames
<1> HIDE DEF c
<1>11. Heads(c) = Heads(b) \ {n} /\ r \in Heads(c) /\ Places(c) = (Places(d) \cup {r}) \ {n}
  BY <1>3, <1>5, <1>9, <1>10, RenamedPlaces, <1>4
<1>12. DOMAIN c = DOMAIN b \ {n}
  BY <1>7, <1>8, <1>10 DEF Renamed
<1>13. \A y \in DOMAIN b \ {r} : y # b[r].parent => d[y].child = b[y].child
  BY <1>1 DEF CutTo
<1>14. \A y \in DOMAIN c : c[y].near = cut[y].near /\ (y \notin Places(c) => c[y].child = cut[y].child)
  BY <1>10 DEF Beside
<1>15. \A y \in DOMAIN c : c[y].near = b[y].near /\ (y \notin Places(c) => c[y].child = b[y].child)
  <2>1. \A y \in DOMAIN c : y \notin Places(c) => y # r /\ y # b[r].parent
    BY <1>5, <1>11, <1>12 DEF Places
  <2> QED
    BY <2>1, <1>6, <1>8, <1>12, <1>13, <1>14
<1>16. CutDone(b, c, n)
  BY <1>10, <1>11, <1>12, <1>15 DEF CutDone
<1>17. e = mHead => c[mHead].parent = NewName(n, r, d[mHead].parent) /\ c[mHead].side = d[mHead].side
  <2> SUFFICES ASSUME e = mHead PROVE c[mHead].parent = NewName(n, r, d[mHead].parent) /\ c[mHead].side = d[mHead].side
    OBVIOUS
  <2>1. d[mHead].parent = b[r].parent /\ d[mHead].side = b[r].side /\ cut[mHead] = d[mHead] /\ cut[n] = d[n]
    <3>1. mHead \in DOMAIN b \ {r} /\ n \in DOMAIN d
      BY <1>7, <1>8, HeadsTyped DEF Tree
    <3> QED
      BY <3>1, <1>1, <1>8 DEF CutTo
  <2>2. /\ cut[n].child[RIGHT] = mHead => c[mHead].parent = r /\ c[mHead].side = RIGHT
        /\ cut[n].child[RIGHT] # mHead /\ cut[n].child[LEFT] # mHead
             => c[mHead].parent = cut[mHead].parent /\ c[mHead].side = cut[mHead].side
    BY <1>10 DEF Beside
  <2> QED
    BY <2>1, <2>2, <1>4 DEF NewName
<1>18. b[r].red => Sound(c)
  BY <1>2, <1>3, <1>4, <1>9, <1>10, RenamedSound
<1>19. ~b[r].red => Fixing(c, AtWork("erase", e))
  BY <1>2, <1>3, <1>4, <1>9, <1>10, <1>17, RenamedFixing
<1>20. CutOutTo(b, c, n, r, e)
  BY <1>16, <1>18, <1>19 DEF CutOutTo
<1> QED
  BY <1>20 DEF c, cut

\* What do_erase does to a head that is alone with its key.
LEMMA CutOutFixes ==
  ASSUME NEW b, NEW sub, Tree(b, sub), Sound(b), NEW n \in Heads(b), NEW r, r = ReplOf(b, n),
         NEW e, e = b[r].child[CutSide(b, n)]
  PROVE  CutOutTo(b, CutOut(b, n), n, r, e)
<1>1. PICK q : q = CutSide(b, n)
  OBVIOUS
<1>2. /\ r \in Heads(b) /\ q \in Side /\ b[r].child[Other(q)] = mHead /\ e = b[r].child[q]
      /\ r # n => /\ b[n].child[LEFT] # mHead /\ b[n].child[RIGHT] # mHead
                  /\ Extreme(r, sub[b[n].child[RIGHT]], LEFT)
  BY <1>1, ReplAlone
<1>3. CASE r = n
  <2>1. CutOut(b, n) = Without(SubstituteWith(b, n, e), n)
    <3>1. DOMAIN SubstituteWith(b, n, e) = DOMAIN b
      BY DEF SubstituteWith, Hang
    <3> QED
      BY <3>1, <1>3 DEF CutOut, Without
  <2> QED
    BY <2>1, <1>2, <1>3, CutOutAlone
<1>4. CASE r # n
  <2>1. CutOut(b, n) = Without(SwitchWith(SubstituteWith(b, r, e), r, n), n)
    <3>1. DOMAIN SubstituteWith(b, r, e) = DOMAIN b
      BY DEF SubstituteWith, Hang
    <3>2. PICK cut : cut = SubstituteWith(b, r, e)
      OBVIOUS
    <3>3. DOMAIN SwitchWith(cut, r, n) = DOMAIN cut
      BY Zenon DEF SwitchWith, Hang
    <3> QED
      BY <3>1, <3>2, <3>3, <1>4 DEF CutOut, Without
  <2> QED
    BY <2>1, <1>2, <1>4, CutOutSwitched
<1> QED
  BY <1>3, <1>4

-----------------------------------------------------------------------------
(***************************************************************************)
(* The rings of nodes of equal keys.                                       *)
(***************************************************************************)
\* c has the tree of b.
Alike(b, c) ==
  /\ Typed(c) /\ Heads(c) = Heads(b)
  /\ \A y \in Places(b) : /\ c[y].child = b[y].child /\ c[y].parent = b[y].parent
                          /\ c[y].side = b[y].side /\ c[y].red = b[y].red

\* Then it is as sound.
LEMMA AlikeSound ==
  ASSUME NEW b, Sound(b), NEW c, Alike(b, c)
  PROVE  Sound(c)
<1>1. PICK sub : Tree(b, sub)
  BY DEF Sound
<1>2. PICK bh : Weighted(b, Null, LEFT, bh)
  BY DEF Sound
<1>3. Places(c) = Places(b) /\ Heads(c) = Heads(b) /\ Typed(c) /\ mHead \in Places(b)
  BY DEF Alike, Places
<1>4. /\ \A y \in Places(b) : /\ c[y].child = b[y].child /\ c[y].parent = b[y].parent
                              /\ c[y].side = b[y].side /\ c[y].red = b[y].red
      /\ Root(c) = Root(b)
  BY <1>3 DEF Alike, Root
<1>5. /\ Heads(b) \subseteq Places(b) /\ Root(b) \in Places(b)
      /\ \A y \in Heads(b) : b[y].parent \in Places(b)
      /\ \A y \in Places(b), q \in Side : b[y].child[q] \in Places(b)
  BY <1>1, PlacesOfTree DEF Down, Places
<1>6. Links(c)
  BY <1>1, <1>3, <1>4, <1>5, Sides DEF Tree, Links
<1>7. Subtrees(c, sub)
  BY <1>1, <1>3, <1>4, <1>5 DEF Tree, Subtrees
<1>8. Tree(c, sub)
  BY <1>1, <1>3, <1>6, <1>7 DEF Tree
<1>9. Weighted(c, Null, LEFT, bh)
  BY <1>2, <1>3, <1>4, <1>5 DEF Weighted, Weighs, Blk, At
<1>10. RedsIn(b, {}) /\ ~b[Root(b)].red
  BY DEF Sound
<1>11. RedsIn(c, {}) /\ ~c[Root(c)].red
  BY <1>3, <1>4, <1>5, <1>10 DEF RedsIn
<1> QED
  BY <1>8, <1>9, <1>11 DEF Sound

\* In c the node p has x on its left, q has y on its right, and that is all that is new.
Nears(b, c, p, x, q, y) ==
  /\ DOMAIN c = DOMAIN b
  /\ \A z \in DOMAIN b :
       /\ c[z].child = b[z].child /\ c[z].parent = b[z].parent /\ c[z].side = b[z].side /\ c[z].red = b[z].red
       /\ c[z].near[LEFT] = IF z = p THEN x ELSE b[z].near[LEFT]
       /\ c[z].near[RIGHT] = IF z = q THEN y ELSE b[z].near[RIGHT]

\* What link and unlink write does that.
Neared(b, p, x, q, y) == [b EXCEPT ![p].near[LEFT] = x, ![q].near[RIGHT] = y]

\* Assigning two neighbours does that.
LEMMA NearsNears ==
  ASSUME NEW b, Typed(b), NEW p \in DOMAIN b, NEW q \in DOMAIN b, NEW x \in Nodes \cup {mHead}, NEW y \in Nodes \cup {mHead}
  PROVE  Nears(b, Neared(b, p, x, q, y), p, x, q, y) /\ Neared(b, p, x, q, y) \in [DOMAIN b -> Base]
<1> DEFINE c1 == [b EXCEPT ![p].near[LEFT] = x]
           c == [c1 EXCEPT ![q].near[RIGHT] = y]
<1>1. b \in [DOMAIN b -> Base]
  BY DEF Typed
<1>2. /\ DOMAIN c1 = DOMAIN b /\ c1 \in [DOMAIN b -> Base]
      /\ \A z \in DOMAIN b :
           /\ c1[z].child = b[z].child /\ c1[z].parent = b[z].parent /\ c1[z].side = b[z].side /\ c1[z].red = b[z].red
           /\ c1[z].near[LEFT] = (IF z = p THEN x ELSE b[z].near[LEFT])
           /\ c1[z].near[RIGHT] = b[z].near[RIGHT]
  <2>1. \A z \in DOMAIN b : b[z] \in Base /\ b[z].near \in [Side -> Nodes \cup {mHead}]
    BY <1>1 DEF Base
  <2>2. c1 = [z \in DOMAIN b |-> IF z = p THEN [b[p] EXCEPT !.near = [b[p].near EXCEPT ![LEFT] = x]] ELSE b[z]]
    BY <1>1
  <2>3. [b[p].near EXCEPT ![LEFT] = x] \in [Side -> Nodes \cup {mHead}]
    BY <2>1, Zenon
  <2>4. [b[p] EXCEPT !.near = [b[p].near EXCEPT ![LEFT] = x]] \in Base
    BY <2>1, <2>3 DEF Base
  <2>5. c1 \in [DOMAIN b -> Base]
    BY <2>1, <2>2, <2>4, Zenon
  <2>6. \A z \in DOMAIN b :
           /\ c1[z].child = b[z].child /\ c1[z].parent = b[z].parent /\ c1[z].side = b[z].side /\ c1[z].red = b[z].red
    BY <2>1, <2>2 DEF Base
  <2>7. \A z \in DOMAIN b : z # p => c1[z] = b[z]
    BY <2>2
  <2>8. c1[p].near = [b[p].near EXCEPT ![LEFT] = x]
    BY <2>1, <2>2 DEF Base
  <2>9. c1[p].near[LEFT] = x /\ c1[p].near[RIGHT] = b[p].near[RIGHT]
    BY <2>1, <2>8, Sides
  <2> QED
    BY <2>2, <2>5, <2>6, <2>7, <2>9, Zenon
<1> HIDE DEF c1
<1>3. /\ DOMAIN c = DOMAIN b /\ c \in [DOMAIN b -> Base]
      /\ \A z \in DOMAIN b :
           /\ c[z].child = c1[z].child /\ c[z].parent = c1[z].parent /\ c[z].side = c1[z].side /\ c[z].red = c1[z].red
           /\ c[z].near[LEFT] = c1[z].near[LEFT]
           /\ c[z].near[RIGHT] = (IF z = q THEN y ELSE c1[z].near[RIGHT])
  <2>1. \A z \in DOMAIN b : c1[z] \in Base /\ c1[z].near \in [Side -> Nodes \cup {mHead}]
    BY <1>2 DEF Base
  <2>2. c = [z \in DOMAIN b |-> IF z = q THEN [c1[q] EXCEPT !.near = [c1[q].near EXCEPT ![RIGHT] = y]] ELSE c1[z]]
    BY <1>2, Zenon
  <2>3. [c1[q].near EXCEPT ![RIGHT] = y] \in [Side -> Nodes \cup {mHead}]
    BY <2>1, Zenon
  <2>4. [c1[q] EXCEPT !.near = [c1[q].near EXCEPT ![RIGHT] = y]] \in Base
    BY <2>1, <2>3 DEF Base
  <2>5. c \in [DOMAIN b -> Base]
    BY <2>1, <2>2, <2>4, Zenon
  <2>6. \A z \in DOMAIN b :
           /\ c[z].child = c1[z].child /\ c[z].parent = c1[z].parent /\ c[z].side = c1[z].side /\ c[z].red = c1[z].red
    BY <2>1, <2>2 DEF Base
  <2>7. \A z \in DOMAIN b : z # q => c[z] = c1[z]
    BY <2>2
  <2>8. c[q].near = [c1[q].near EXCEPT ![RIGHT] = y]
    BY <2>1, <2>2 DEF Base
  <2>9. c[q].near[RIGHT] = y /\ c[q].near[LEFT] = c1[q].near[LEFT]
    BY <2>1, <2>8, Sides
  <2> QED
    BY <2>2, <2>5, <2>6, <2>7, <2>9
<1>4. c = Neared(b, p, x, q, y)
  BY DEF c1, Neared
<1> HIDE DEF c
<1>5. Nears(b, c, p, x, q, y) /\ c \in [DOMAIN b -> Base]
  BY <1>2, <1>3 DEF Nears
<1> QED
  BY <1>4, <1>5

\* x is in the ring of h, last.
LinkedTo(b, c, x, h) ==
  /\ DOMAIN c = DOMAIN b \cup {x} /\ Alike(b, c)
  /\ c[x].near[LEFT] = b[h].near[LEFT] /\ c[x].near[RIGHT] = h /\ c[x].child = Both(Null)
  /\ \A z \in DOMAIN b :
       /\ c[z].child = b[z].child
       /\ c[z].near[LEFT] = IF z = h THEN x ELSE b[z].near[LEFT]
       /\ c[z].near[RIGHT] = IF z = b[h].near[LEFT] THEN x ELSE b[z].near[RIGHT]

\* link puts it there.
LEMMA LinkLinks ==
  ASSUME NEW b, Typed(b), NEW x \in Nodes, x \notin DOMAIN b, NEW h \in DOMAIN b \ {mHead}, b[h].near[LEFT] \in DOMAIN b
  PROVE  LinkedTo(b, Link(b, x, h), x, h)
<1> DEFINE l == b[h].near[LEFT]
           near == [s \in Side |-> IF s = LEFT THEN b[h].near[LEFT] ELSE h]
           new == NodeBase(Both(Null), near, Null, LEFT, TRUE)
           around == Neared(b, h, x, l, x)
           c == [y \in DOMAIN b \cup {x} |-> IF y = x THEN new ELSE around[y]]
<1>1. Link(b, x, h) = c
  BY DEF Link, Neared
<1>2. DOMAIN b \subseteq Nodes \cup {mHead} /\ mHead \in DOMAIN b /\ x # mHead /\ l \in Nodes \cup {mHead}
  BY Names DEF Typed
<1>3. Nears(b, around, h, x, l, x) /\ around \in [DOMAIN b -> Base]
  BY <1>2, NearsNears
<1> HIDE DEF around
<1>4. DOMAIN around = DOMAIN b
  BY <1>3 DEF Nears
<1>5. near \in [Side -> Nodes \cup {mHead}] /\ near[LEFT] = l /\ near[RIGHT] = h
  BY <1>2, Sides
<1> HIDE DEF near, l
<1>6. new \in Base /\ new.near = near /\ new.child = Both(Null) /\ new.parent = Null
  BY <1>5, Sides DEF NodeBase, Both, Base
<1> HIDE DEF new
<1>7. DOMAIN c = DOMAIN b \cup {x} /\ c[x] = new /\ \A y \in DOMAIN b : c[y] = around[y]
  OBVIOUS
<1>8. c \in [DOMAIN c -> Base]
  BY <1>3, <1>4, <1>6
<1> HIDE DEF c
<1>9. Typed(c)
  BY <1>2, <1>7, <1>8 DEF Typed
<1>10. \A z \in DOMAIN b :
       /\ c[z].child = b[z].child /\ c[z].parent = b[z].parent /\ c[z].side = b[z].side /\ c[z].red = b[z].red
       /\ c[z].near[LEFT] = IF z = h THEN x ELSE b[z].near[LEFT]
       /\ c[z].near[RIGHT] = IF z = l THEN x ELSE b[z].near[RIGHT]
  BY <1>3, <1>7 DEF Nears
<1>11. Heads(c) = Heads(b)
  BY <1>6, <1>7, <1>10 DEF Heads, IsHead
<1>12. Alike(b, c)
  BY <1>9, <1>10, <1>11, HeadsTyped DEF Alike
<1>13. LinkedTo(b, c, x, h)
  BY <1>5, <1>6, <1>7, <1>10, <1>12 DEF LinkedTo, l
<1> QED
  BY <1>1, <1>13

\* n is out of its ring.
UnlinkedTo(b, c, n) ==
  /\ DOMAIN c = DOMAIN b \ {n}
  /\ \A z \in DOMAIN c :
       /\ c[z].child = b[z].child
       /\ c[z].near[LEFT] = IF z = b[n].near[RIGHT] THEN b[n].near[LEFT] ELSE b[z].near[LEFT]
       /\ c[z].near[RIGHT] = IF z = b[n].near[LEFT] THEN b[n].near[RIGHT] ELSE b[z].near[RIGHT]

\* unlink does that.
LEMMA UnlinkUnlinks ==
  ASSUME NEW b, Typed(b), NEW n \in DOMAIN b \ {mHead}, b[n].near[LEFT] \in DOMAIN b, b[n].near[RIGHT] \in DOMAIN b
  PROVE  UnlinkedTo(b, Unlink(b, n), n) /\ Alike(Without(b, n), Unlink(b, n))
<1> DEFINE l == b[n].near[LEFT]
           r == b[n].near[RIGHT]
           around == Neared(b, r, l, l, r)
           c == [y \in DOMAIN b \ {n} |-> around[y]]
           d == Without(b, n)
<1>1. Unlink(b, n) = c
  BY DEF Unlink, Neared
<1>2. DOMAIN b \subseteq Nodes \cup {mHead} /\ mHead \in DOMAIN b /\ l \in Nodes \cup {mHead} /\ r \in Nodes \cup {mHead}
  BY DEF Typed
<1>3. Nears(b, around, r, l, l, r) /\ around \in [DOMAIN b -> Base]
  BY <1>2, NearsNears, Zenon
<1> HIDE DEF around
<1>4. DOMAIN around = DOMAIN b
  BY <1>3 DEF Nears
<1>5. DOMAIN c = DOMAIN b \ {n} /\ \A y \in DOMAIN c : c[y] = around[y] /\ y \in DOMAIN b
  OBVIOUS
<1>6. c \in [DOMAIN c -> Base]
  BY <1>3, <1>4
<1> HIDE DEF c
<1>7. Typed(c)
  BY <1>2, <1>5, <1>6 DEF Typed
<1>8. \A z \in DOMAIN c :
       /\ c[z].child = b[z].child /\ c[z].parent = b[z].parent /\ c[z].side = b[z].side /\ c[z].red = b[z].red
       /\ c[z].near[LEFT] = IF z = r THEN l ELSE b[z].near[LEFT]
       /\ c[z].near[RIGHT] = IF z = l THEN r ELSE b[z].near[RIGHT]
  BY <1>3, <1>5 DEF Nears
<1>9. UnlinkedTo(b, c, n)
  BY <1>5, <1>8 DEF UnlinkedTo
<1>10. DOMAIN d = DOMAIN c /\ \A z \in DOMAIN c : d[z] = b[z]
  BY <1>5 DEF Without
<1> HIDE DEF d
<1>11. \A z \in DOMAIN c :
       c[z].child = d[z].child /\ c[z].parent = d[z].parent /\ c[z].side = d[z].side /\ c[z].red = d[z].red
  BY <1>8, <1>10
<1>12. Heads(c) = Heads(d)
  BY <1>10, <1>11 DEF Heads, IsHead
<1>13. Places(d) \subseteq DOMAIN c
  BY <1>7, <1>10 DEF Places, Heads, Typed
<1>14. Alike(d, c)
  BY <1>7, <1>11, <1>12, <1>13 DEF Alike
<1>15. UnlinkedTo(b, c, n) /\ Alike(Without(b, n), c)
  BY <1>9, <1>14 DEF d
<1> QED
  BY <1>1, <1>15, Zenon

-----------------------------------------------------------------------------
(***************************************************************************)
(* The order of the nodes.                                                 *)
(***************************************************************************)
\* What comes behind position i, mHead at the end.
After(w, i) == IF i < Len(w) THEN w[i + 1] ELSE mHead

\* c is w with n at position i.
InsertedTo(w, c, i, n) ==
  /\ Len(c) = Len(w) + 1
  /\ \A j \in 1 .. Len(c) : c[j] = IF j < i THEN w[j] ELSE IF j = i THEN n ELSE w[j - 1]

\* c is w without its position i.
RemovedTo(w, c, i) ==
  /\ Len(c) = Len(w) - 1
  /\ \A j \in 1 .. Len(c) : c[j] = IF j < i THEN w[j] ELSE w[j + 1]

\* What a concatenation holds.
LEMMA Concatenated ==
  ASSUME NEW S, NEW a \in Seq(S), NEW v \in Seq(S)
  PROVE  /\ (a \o v) \in Seq(S) /\ Len(a \o v) = Len(a) + Len(v)
         /\ \A j \in 1 .. Len(a) + Len(v) : (a \o v)[j] = IF j <= Len(a) THEN a[j] ELSE v[j - Len(a)]
  OBVIOUS

\* InsertAt does that.
LEMMA InsertAtInserts ==
  ASSUME NEW S, NEW w \in Seq(S), NEW n \in S, NEW i \in 1 .. Len(w) + 1
  PROVE  AsBag!InsertAt(w, i, n) \in Seq(S) /\ InsertedTo(w, AsBag!InsertAt(w, i, n), i, n)
<1> DEFINE u == SubSeq(w, 1, i - 1)
           v == SubSeq(w, i, Len(w))
           c == (u \o <<n>>) \o v
<1>1. u \in Seq(S) /\ Len(u) = i - 1 /\ \A j \in 1 .. Len(u) : u[j] = w[j]
  OBVIOUS
<1>2. v \in Seq(S) /\ Len(v) = Len(w) - i + 1 /\ \A j \in 1 .. Len(v) : v[j] = w[i + j - 1]
  OBVIOUS
<1>3. AsBag!InsertAt(w, i, n) = c
  BY DEF AsBag!InsertAt
<1> HIDE DEF u, v
<1> DEFINE a == u \o <<n>>
<1>4. a \in Seq(S) /\ Len(a) = i /\ \A j \in 1 .. Len(a) : a[j] = IF j < i THEN w[j] ELSE n
  BY <1>1
<1> HIDE DEF a
<1>0. /\ (a \o v) \in Seq(S) /\ Len(a \o v) = Len(a) + Len(v)
      /\ \A j \in 1 .. Len(a) + Len(v) : (a \o v)[j] = IF j <= Len(a) THEN a[j] ELSE v[j - Len(a)]
  BY <1>2, <1>4, Concatenated
<1>9. Len(w) \in Nat /\ i \in Nat
  OBVIOUS
<1> HIDE DEF c
<1>5. (a \o v) \in Seq(S) /\ Len(a \o v) = Len(w) + 1
  BY <1>0, <1>2, <1>4, <1>9
<1>6. ASSUME NEW j \in 1 .. Len(w) + 1
      PROVE  (a \o v)[j] = IF j < i THEN w[j] ELSE IF j = i THEN n ELSE w[j - 1]
  <2>1. j \in Nat /\ j >= 1 /\ j <= Len(w) + 1
    BY <1>9
  <2>2. CASE j < i
    <3>1. j \in 1 .. Len(a) /\ j <= Len(a) /\ j \in 1 .. Len(a) + Len(v)
      BY <1>2, <1>4, <1>9, <2>1, <2>2
    <3>2. (a \o v)[j] = w[j]
      BY <1>0, <1>4, <2>2, <3>1
    <3> QED
      BY <2>2, <3>2
  <2>3. CASE j = i
    <3>1. j \in 1 .. Len(a) /\ j <= Len(a) /\ j \in 1 .. Len(a) + Len(v) /\ ~(j < i)
      BY <1>2, <1>4, <1>9, <2>1, <2>3
    <3>2. (a \o v)[j] = n
      BY <1>0, <1>4, <2>3, <3>1
    <3> QED
      BY <2>3, <3>1, <3>2
  <2>4. CASE j > i
    <3>1. j - i \in 1 .. Len(v) /\ i + (j - i) - 1 = j - 1 /\ ~(j <= Len(a)) /\ j - Len(a) = j - i
          /\ j \in 1 .. Len(a) + Len(v) /\ ~(j < i) /\ j # i
      BY <1>2, <1>4, <1>9, <2>1, <2>4
    <3>2. (a \o v)[j] = v[j - i]
      BY <1>0, <3>1, Zenon
    <3>3. v[j - i] = w[i + (j - i) - 1]
      BY <1>2, <3>1
    <3> QED
      BY <3>1, <3>2, <3>3
  <2>5. j < i \/ j = i \/ j > i
    BY <1>9, <2>1
  <2> QED
    BY <2>2, <2>3, <2>4, <2>5, Zenon
<1>7. InsertedTo(w, a \o v, i, n)
  BY <1>5, <1>6, Zenon DEF InsertedTo
<1> QED
  BY <1>3, <1>5, <1>7 DEF a, c

\* RemoveAt does that.
LEMMA RemoveAtRemoves ==
  ASSUME NEW S, NEW w \in Seq(S), NEW i \in DOMAIN w
  PROVE  AsBag!RemoveAt(w, i) \in Seq(S) /\ RemovedTo(w, AsBag!RemoveAt(w, i), i)
<1> DEFINE u == SubSeq(w, 1, i - 1)
           v == SubSeq(w, i + 1, Len(w))
           c == u \o v
<1>1. u \in Seq(S) /\ Len(u) = i - 1 /\ \A j \in 1 .. Len(u) : u[j] = w[j]
  OBVIOUS
<1>2. v \in Seq(S) /\ Len(v) = Len(w) - i /\ \A j \in 1 .. Len(v) : v[j] = w[i + j]
  OBVIOUS
<1>3. AsBag!RemoveAt(w, i) = c
  BY DEF AsBag!RemoveAt
<1> HIDE DEF u, v
<1>0. /\ (u \o v) \in Seq(S) /\ Len(u \o v) = Len(u) + Len(v)
      /\ \A j \in 1 .. Len(u) + Len(v) : (u \o v)[j] = IF j <= Len(u) THEN u[j] ELSE v[j - Len(u)]
  BY <1>1, <1>2, Concatenated, Zenon
<1>9. Len(w) \in Nat /\ i \in Nat /\ i >= 1 /\ i <= Len(w)
  OBVIOUS
<1>8. Len(u) + Len(v) = Len(w) - 1
  BY <1>1, <1>2, <1>9
<1>5. (u \o v) \in Seq(S) /\ Len(u \o v) = Len(w) - 1
  BY <1>0, <1>8
<1>6. ASSUME NEW j \in 1 .. Len(w) - 1
      PROVE  (u \o v)[j] = IF j < i THEN w[j] ELSE w[j + 1]
  <2>1. CASE j < i
    <3>1. j \in 1 .. Len(u) /\ (u \o v)[j] = u[j]
      <4>1. j \in 1 .. Len(u) /\ j \in 1 .. Len(u) + Len(v) /\ j <= Len(u)
        BY <1>1, <1>8, <1>9, <2>1
      <4> QED
        BY <1>0, <4>1, Zenon
    <3> QED
      BY <1>1, <1>9, <2>1, <3>1
  <2>2. CASE j >= i
    <3>1. j \in Nat /\ i \in Nat /\ j - (i - 1) \in 1 .. Len(v) /\ i + (j - (i - 1)) = j + 1
      BY <1>2, <2>2
    <3>2. (u \o v)[j] = v[j - (i - 1)]
      <4>1. Len(u) = i - 1 /\ j \in 1 .. Len(u) + Len(v) /\ ~(j <= Len(u))
        BY <1>1, <1>8, <1>9, <2>2
      <4> QED
        BY <1>0, <4>1, Zenon
    <3>3. v[j - (i - 1)] = w[i + (j - (i - 1))]
      BY <1>2, <3>1, Zenon
    <3> QED
      BY <1>9, <2>2, <3>1, <3>2, <3>3
  <2>3. j \in Nat /\ (j < i \/ j >= i)
    BY <1>9
  <2>4. CASE j < i
    BY <2>1, <2>4, Zenon
  <2>5. CASE j >= i
    <3>1. ~(j < i)
      BY <1>9, <2>3, <2>5
    <3> QED
      BY <2>2, <2>5, <3>1, Zenon
  <2> QED
    BY <2>3, <2>4, <2>5, Zenon
<1>7. RemovedTo(w, u \o v, i)
  BY <1>5, <1>6 DEF RemovedTo
<1> QED
  BY <1>3, <1>5, <1>7

\* The places of the new sequence among those of the old.
LEMMA InsertedAfter ==
  ASSUME NEW S, NEW w \in Seq(S), NEW c \in Seq(S), NEW n, NEW i \in 1 .. Len(w) + 1, InsertedTo(w, c, i, n)
  PROVE  \A j \in DOMAIN c :
           \/ c[j] = n /\ After(c, j) = (IF i <= Len(w) THEN w[i] ELSE mHead)
           \/ \E k \in DOMAIN w : c[j] = w[k] /\ After(c, j) = IF k + 1 = i THEN n ELSE After(w, k)
<1>1. /\ Len(c) = Len(w) + 1 /\ Len(w) \in Nat /\ DOMAIN c = 1 .. Len(c) /\ DOMAIN w = 1 .. Len(w)
      /\ \A j \in 1 .. Len(c) : c[j] = IF j < i THEN w[j] ELSE IF j = i THEN n ELSE w[j - 1]
  <2>1. Len(w) \in Nat /\ DOMAIN c = 1 .. Len(c) /\ DOMAIN w = 1 .. Len(w)
    OBVIOUS
  <2> QED
    BY <2>1, Zenon DEF InsertedTo
<1> SUFFICES ASSUME NEW j \in DOMAIN c
             PROVE  \/ c[j] = n /\ After(c, j) = (IF i <= Len(w) THEN w[i] ELSE mHead)
                    \/ \E k \in DOMAIN w : c[j] = w[k] /\ After(c, j) = IF k + 1 = i THEN n ELSE After(w, k)
  OBVIOUS
<1>2. CASE j < i
  <2>1. j \in DOMAIN w /\ c[j] = w[j] /\ After(c, j) = c[j + 1] /\ j + 1 \in 1 .. Len(c)
    BY <1>1, <1>2 DEF After
  <2>2. c[j + 1] = IF j + 1 = i THEN n ELSE w[j + 1]
    BY <1>1, <1>2, <2>1
  <2>3. j + 1 # i => After(w, j) = w[j + 1]
    BY <1>1, <1>2 DEF After
  <2> QED
    BY <2>1, <2>2, <2>3
<1>3. CASE j = i
  <2>1. c[j] = n
    BY <1>1, <1>3
  <2>2. i <= Len(w) => After(c, j) = w[i]
    BY <1>1, <1>3 DEF After
  <2>3. i > Len(w) => After(c, j) = mHead
    BY <1>1, <1>3 DEF After
  <2> QED
    BY <1>1, <2>1, <2>2, <2>3
<1>4. CASE j > i
  <2>1. j - 1 \in DOMAIN w /\ c[j] = w[j - 1] /\ (j - 1) + 1 # i
    BY <1>1, <1>4
  <2>2. After(c, j) = After(w, j - 1)
    BY <1>1, <1>4 DEF After
  <2> QED
    BY <2>1, <2>2
<1> QED
  BY <1>1, <1>2, <1>3, <1>4

\* What comes behind a position when a node is taken out.
LEMMA RemovedAfter ==
  ASSUME NEW S, NEW w \in Seq(S), NEW c \in Seq(S), NEW i \in DOMAIN w, RemovedTo(w, c, i)
  PROVE  \A j \in DOMAIN c : \E k \in DOMAIN w :
           k # i /\ c[j] = w[k] /\ After(c, j) = IF k + 1 = i THEN After(w, i) ELSE After(w, k)
<1>1. /\ Len(c) = Len(w) - 1 /\ Len(w) \in Nat /\ DOMAIN c = 1 .. Len(c) /\ DOMAIN w = 1 .. Len(w)
      /\ \A j \in 1 .. Len(c) : c[j] = IF j < i THEN w[j] ELSE w[j + 1]
  BY DEF RemovedTo
<1> SUFFICES ASSUME NEW j \in DOMAIN c
             PROVE  \E k \in DOMAIN w :
                      k # i /\ c[j] = w[k] /\ After(c, j) = IF k + 1 = i THEN After(w, i) ELSE After(w, k)
  OBVIOUS
<1>2. CASE j < i
  <2>1. j \in DOMAIN w /\ c[j] = w[j] /\ j # i
    BY <1>1, <1>2
  <2>2. j + 1 = i => After(c, j) = After(w, i)
    BY <1>1, <1>2 DEF After
  <2>3. j + 1 # i => After(c, j) = After(w, j)
    BY <1>1, <1>2 DEF After
  <2> QED
    BY <2>1, <2>2, <2>3
<1>3. CASE j >= i
  <2>1. j + 1 \in DOMAIN w /\ c[j] = w[j + 1] /\ j + 1 # i /\ (j + 1) + 1 # i
    BY <1>1, <1>3
  <2>2. After(c, j) = After(w, j + 1)
    BY <1>1, <1>3 DEF After
  <2> QED
    BY <2>1, <2>2
<1> QED
  BY <1>1, <1>2, <1>3

\* Where a node of key k belongs: behind those of no larger key.
Split(w, i, k) ==
  /\ i \in 1 .. Len(w) + 1
  /\ \A j \in 1 .. i - 1 : KeyOf[w[j]] <= k
  /\ \A j \in i .. Len(w) : KeyOf[w[j]] > k

\* No node is in w twice, and their keys rise.
Sorted(w) == \A i, j \in DOMAIN w : i < j => w[i] # w[j] /\ KeyOf[w[i]] <= KeyOf[w[j]]

\* There is one such place.
LEMMA SplitThere ==
  ASSUME NEW w \in Seq(Nodes), Sorted(w), NEW k \in Nat
  PROVE  \E i : Split(w, i, k)
<1> DEFINE T == {i \in Nat : i \in DOMAIN w /\ KeyOf[w[i]] > k}
<1>1. DOMAIN w = 1 .. Len(w) /\ Len(w) \in Nat /\ \A i \in DOMAIN w : w[i] \in Nodes /\ KeyOf[w[i]] \in Nat
  BY NodesAssumption
<1>2. CASE T = {}
  <2>1. Split(w, Len(w) + 1, k)
    BY <1>1, <1>2 DEF Split
  <2> QED
    BY <2>1
<1>3. CASE T # {}
  <2>1. PICK x \in T : \A y \in T : ~(<<y, x>> \in Less)
    <3>1. T \subseteq Nat
      OBVIOUS
    <3> HIDE DEF T
    <3> QED
      BY <1>3, <3>1, WFMin, LessWellFounded, Zenon
  <2>2. x \in 1 .. Len(w) /\ KeyOf[w[x]] > k
    BY <1>1
  <2>3. ASSUME NEW j \in 1 .. x - 1 PROVE KeyOf[w[j]] <= k
    <3>1. j \in DOMAIN w /\ <<j, x>> \in Less
      BY <1>1, <2>2 DEF Less
    <3> QED
      BY <1>1, <2>1, <3>1
  <2>4. ASSUME NEW j \in x .. Len(w) PROVE KeyOf[w[j]] > k
    <3>1. j \in DOMAIN w /\ x \in DOMAIN w /\ (j = x \/ x < j)
      BY <1>1, <2>2
    <3>2. KeyOf[w[x]] <= KeyOf[w[j]]
      BY <1>1, <3>1 DEF Sorted
    <3> QED
      BY <1>1, <2>2, <3>1, <3>2
  <2>5. Split(w, x, k)
    BY <1>1, <2>2, <2>3, <2>4 DEF Split
  <2> QED
    BY <2>5
<1> QED
  BY <1>2, <1>3

\* It stays sorted.
LEMMA InsertedSorted ==
  ASSUME NEW w \in Seq(Nodes), Sorted(w), NEW n \in Nodes, NEW i, Split(w, i, KeyOf[n]),
         \A j \in DOMAIN w : w[j] # n, NEW c, InsertedTo(w, c, i, n), c \in Seq(Nodes)
  PROVE  Sorted(c)
<1>1. /\ Len(c) = Len(w) + 1 /\ Len(w) \in Nat /\ DOMAIN c = 1 .. Len(c) /\ DOMAIN w = 1 .. Len(w)
      /\ \A j \in 1 .. Len(c) : c[j] = IF j < i THEN w[j] ELSE IF j = i THEN n ELSE w[j - 1]
  <2>1. Len(w) \in Nat /\ DOMAIN c = 1 .. Len(c) /\ DOMAIN w = 1 .. Len(w)
    OBVIOUS
  <2> QED
    BY <2>1, Zenon DEF InsertedTo
<1>0. KeyOf[n] \in Nat /\ \A j \in DOMAIN w : w[j] \in Nodes /\ KeyOf[w[j]] \in Nat
  BY NodesAssumption
<1>2. /\ i \in 1 .. Len(w) + 1
      /\ \A j \in 1 .. i - 1 : KeyOf[w[j]] <= KeyOf[n]
      /\ \A j \in i .. Len(w) : KeyOf[w[j]] > KeyOf[n]
  BY DEF Split
<1> SUFFICES ASSUME NEW p \in DOMAIN c, NEW q \in DOMAIN c, p < q PROVE c[p] # c[q] /\ KeyOf[c[p]] <= KeyOf[c[q]]
  BY DEF Sorted
<1>3. CASE q < i
  BY <1>1, <1>2, <1>3 DEF Sorted
<1>4. CASE q = i
  BY <1>0, <1>1, <1>2, <1>4 DEF Sorted
<1>5. CASE p < i /\ i < q
  <2>1. p \in DOMAIN w /\ q - 1 \in DOMAIN w /\ p < q - 1 /\ c[p] = w[p] /\ c[q] = w[q - 1]
    BY <1>1, <1>2, <1>5
  <2> QED
    BY <2>1 DEF Sorted
<1>6. CASE p = i
  <2>1. q - 1 \in DOMAIN w /\ q - 1 \in i .. Len(w) /\ c[p] = n /\ c[q] = w[q - 1]
    BY <1>1, <1>2, <1>6
  <2> QED
    BY <1>0, <1>1, <1>2, <2>1
<1>7. CASE i < p
  <2>1. p - 1 \in DOMAIN w /\ q - 1 \in DOMAIN w /\ p - 1 < q - 1 /\ c[p] = w[p - 1] /\ c[q] = w[q - 1]
    BY <1>1, <1>2, <1>7
  <2> QED
    BY <2>1 DEF Sorted
<1> QED
  BY <1>1, <1>2, <1>3, <1>4, <1>5, <1>6, <1>7

\* A sorted list stays one when a node is taken out.
LEMMA RemovedSorted ==
  ASSUME NEW w \in Seq(Nodes), Sorted(w), NEW i \in DOMAIN w, NEW c, RemovedTo(w, c, i), c \in Seq(Nodes)
  PROVE  Sorted(c)
<1>1. /\ Len(c) = Len(w) - 1 /\ Len(w) \in Nat /\ DOMAIN c = 1 .. Len(c) /\ DOMAIN w = 1 .. Len(w)
      /\ \A j \in 1 .. Len(c) : c[j] = IF j < i THEN w[j] ELSE w[j + 1]
  BY DEF RemovedTo
<1> SUFFICES ASSUME NEW p \in DOMAIN c, NEW q \in DOMAIN c, p < q PROVE c[p] # c[q] /\ KeyOf[c[p]] <= KeyOf[c[q]]
  BY DEF Sorted
<1>2. CASE q < i
  BY <1>1, <1>2 DEF Sorted
<1>3. CASE p < i /\ i <= q
  <2>1. p \in DOMAIN w /\ q + 1 \in DOMAIN w /\ p < q + 1 /\ c[p] = w[p] /\ c[q] = w[q + 1]
    BY <1>1, <1>3
  <2> QED
    BY <2>1 DEF Sorted
<1>4. CASE i <= p
  <2>1. p + 1 \in DOMAIN w /\ q + 1 \in DOMAIN w /\ p + 1 < q + 1 /\ c[p] = w[p + 1] /\ c[q] = w[q + 1]
    BY <1>1, <1>4
  <2> QED
    BY <2>1 DEF Sorted
<1> QED
  BY <1>1, <1>2, <1>3, <1>4

\* The neighbours of x have x as theirs.
Mutual(b, x) ==
  LET l == b[x].near[LEFT]
      r == b[x].near[RIGHT]
  IN /\ l \in DOMAIN b /\ b[l].near[RIGHT] = x
     /\ r \in DOMAIN b /\ b[r].near[LEFT] = x

\* The rings are closed, the nodes outside the tree have no children, and each has a head.
Rings(b) ==
  /\ b[mHead].near[LEFT] = mHead /\ b[mHead].near[RIGHT] = mHead
  /\ \A x \in DOMAIN b : Mutual(b, x)
  /\ \A x \in DOMAIN b \ Places(b) : b[x].child = Both(Null)
  /\ \A x \in DOMAIN b \ {mHead} : \E h \in Heads(b) : KeyOf[h] = KeyOf[x]

\* y, which comes behind x, is the next one in the ring, or the ring closes with x, and
\* y is the head of another.
Pair(b, x, y) ==
  IF y # mHead /\ KeyOf[y] = KeyOf[x]
  THEN b[x].near[RIGHT] = y /\ y \notin Heads(b)
  ELSE /\ b[x].near[RIGHT] \in Heads(b) /\ KeyOf[b[x].near[RIGHT]] = KeyOf[x]
       /\ y # mHead => y \in Heads(b)

\* w lists the nodes by their keys.
Lists(b, w) ==
  /\ w \in Seq(DOMAIN b \ {mHead}) /\ Sorted(w)
  /\ \A x \in DOMAIN b \ {mHead} : \E i \in DOMAIN w : w[i] = x

\* Those of equal keys as they are in their ring.
Enumerates(b, w) ==
  /\ Rings(b) /\ Lists(b, w)
  /\ Len(w) > 0 => w[1] \in Heads(b)
  /\ \A i \in DOMAIN w : Pair(b, w[i], After(w, i))

\* The members of the list.
LEMMA Listed ==
  ASSUME NEW b, Typed(b), NEW w, Lists(b, w)
  PROVE  /\ w \in Seq(Nodes) /\ Len(w) \in Nat /\ DOMAIN w = 1 .. Len(w) /\ Sorted(w)
         /\ \A i \in DOMAIN w : w[i] \in DOMAIN b /\ w[i] # mHead /\ w[i] \in Nodes /\ KeyOf[w[i]] \in Nat
         /\ \A i \in DOMAIN w : After(w, i) \in DOMAIN b
         /\ \A x \in Nodes : KeyOf[x] \in Nat
<1>1. w \in Seq(DOMAIN b \ {mHead}) /\ Sorted(w)
  BY DEF Lists
<1>2. DOMAIN b \subseteq Nodes \cup {mHead} /\ mHead \in DOMAIN b
  BY DEF Typed
<1>3. DOMAIN b \ {mHead} \subseteq Nodes
  BY <1>2
<1>4. Len(w) \in Nat /\ DOMAIN w = 1 .. Len(w) /\ \A i \in DOMAIN w : w[i] \in DOMAIN b \ {mHead}
  BY <1>1
<1>5. w \in Seq(Nodes)
  BY <1>1, <1>3
<1>6. \A x \in Nodes : KeyOf[x] \in Nat
  BY NodesAssumption
<1>7. \A i \in DOMAIN w : After(w, i) \in DOMAIN b
  <2> SUFFICES ASSUME NEW i \in DOMAIN w PROVE After(w, i) \in DOMAIN b
    OBVIOUS
  <2>1. CASE i < Len(w)
    <3>1. i + 1 \in DOMAIN w
      BY <1>4, <2>1
    <3> QED
      BY <1>4, <2>1, <3>1 DEF After
  <2>2. CASE ~(i < Len(w))
    BY <1>2, <2>2 DEF After
  <2> QED
    BY <2>1, <2>2
<1> QED
  BY <1>1, <1>3, <1>4, <1>5, <1>6, <1>7

\* What turns of the loops leave.
LEMMA EnumeratesKept ==
  ASSUME NEW b, Typed(b), NEW c, Kept(b, c), NEW w, Enumerates(b, w)
  PROVE  Enumerates(c, w)
<1>1. DOMAIN c = DOMAIN b /\ Heads(c) = Heads(b) /\ Places(c) = Places(b)
  BY DEF Kept, Places
<1>2. \A y \in DOMAIN b : c[y].near = b[y].near /\ (y \notin Places(b) => c[y].child = b[y].child)
  BY DEF Kept
<1>3. Rings(b) /\ Lists(b, w) /\ (Len(w) > 0 => w[1] \in Heads(b)) /\ \A i \in DOMAIN w : Pair(b, w[i], After(w, i))
  BY DEF Enumerates
<1>4. Rings(c)
  <2>1. mHead \in DOMAIN b
    BY DEF Typed
  <2>2. \A x \in DOMAIN b : Mutual(b, x)
    BY <1>3 DEF Rings
  <2>3. ASSUME NEW x \in DOMAIN b PROVE Mutual(c, x)
    <3>1. /\ b[x].near[LEFT] \in DOMAIN b /\ b[b[x].near[LEFT]].near[RIGHT] = x
          /\ b[x].near[RIGHT] \in DOMAIN b /\ b[b[x].near[RIGHT]].near[LEFT] = x
      BY <2>2 DEF Mutual
    <3>2. \A y \in DOMAIN b : c[y].near = b[y].near
      BY <1>2
    <3>3. c[x].near = b[x].near /\ c[b[x].near[LEFT]].near = b[b[x].near[LEFT]].near
          /\ c[b[x].near[RIGHT]].near = b[b[x].near[RIGHT]].near
      BY <3>1, <3>2
    <3> QED
      BY <1>1, <3>1, <3>3 DEF Mutual
  <2>4. c[mHead].near[LEFT] = mHead /\ c[mHead].near[RIGHT] = mHead
    BY <1>2, <1>3, <2>1 DEF Rings
  <2>5. \A x \in DOMAIN c \ Places(c) : c[x].child = Both(Null)
    BY <1>1, <1>2, <1>3 DEF Rings
  <2>6. \A x \in DOMAIN c \ {mHead} : \E h \in Heads(c) : KeyOf[h] = KeyOf[x]
    BY <1>1, <1>3 DEF Rings
  <2> QED
    BY <1>1, <2>3, <2>4, <2>5, <2>6 DEF Rings
<1>5. Lists(c, w)
  BY <1>1, <1>3 DEF Lists
<1>6. \A i \in DOMAIN w : w[i] \in DOMAIN b
  BY <1>3 DEF Lists
<1>7. \A i \in DOMAIN w : Pair(c, w[i], After(w, i))
  BY <1>1, <1>2, <1>3, <1>6 DEF Pair
<1> QED
  BY <1>1, <1>3, <1>4, <1>5, <1>7 DEF Enumerates

-----------------------------------------------------------------------------
\* A new node at position i of the list.
LEMMA ListsInserted ==
  ASSUME NEW b, Typed(b), NEW w, Lists(b, w), NEW n \in Nodes, n \notin DOMAIN b,
         NEW i, Split(w, i, KeyOf[n]), NEW c, DOMAIN c = DOMAIN b \cup {n}
  PROVE  /\ Lists(c, AsBag!InsertAt(w, i, n)) /\ InsertedTo(w, AsBag!InsertAt(w, i, n), i, n)
         /\ AsBag!InsertAt(w, i, n) \in Seq(Nodes)
<1> DEFINE v == AsBag!InsertAt(w, i, n)
           S == (DOMAIN b \ {mHead}) \cup {n}
<1>1. /\ w \in Seq(Nodes) /\ Len(w) \in Nat /\ DOMAIN w = 1 .. Len(w) /\ Sorted(w)
      /\ \A j \in DOMAIN w : w[j] \in DOMAIN b
  BY Listed
<1>2. i \in 1 .. Len(w) + 1
  BY DEF Split
<1>3. w \in Seq(S) /\ n \in S
  <2>1. w \in Seq(DOMAIN b \ {mHead})
    BY DEF Lists
  <2> QED
    BY <2>1
<1>4. v \in Seq(S) /\ InsertedTo(w, v, i, n)
  BY <1>2, <1>3, InsertAtInserts, Zenon
<1>5. v \in Seq(Nodes)
  BY <1>1, <1>2, InsertAtInserts
<1> HIDE DEF v
<1>6. Sorted(v)
  BY <1>1, <1>4, <1>5, InsertedSorted
<1>7. S = DOMAIN c \ {mHead}
  BY Names
<1>8. ASSUME NEW x \in S PROVE \E j \in DOMAIN v : v[j] = x
  <2>1. /\ Len(v) = Len(w) + 1 /\ DOMAIN v = 1 .. Len(v)
        /\ \A j \in 1 .. Len(v) : v[j] = IF j < i THEN w[j] ELSE IF j = i THEN n ELSE w[j - 1]
    BY <1>4 DEF InsertedTo
  <2>2. CASE x = n
    <3>1. i \in DOMAIN v /\ v[i] = n
      BY <1>1, <1>2, <2>1
    <3> QED
      BY <2>2, <3>1
  <2>3. CASE x # n
    <3>1. PICK j \in DOMAIN w : w[j] = x
      BY <2>3 DEF Lists
    <3>2. CASE j < i
      <4>1. j \in DOMAIN v /\ v[j] = w[j]
        BY <1>1, <1>2, <2>1, <3>2
      <4> QED
        BY <3>1, <4>1
    <3>3. CASE j >= i
      <4>1. j + 1 \in DOMAIN v /\ v[j + 1] = w[j]
        BY <1>1, <1>2, <2>1, <3>3
      <4> QED
        BY <3>1, <4>1
    <3> QED
      BY <1>1, <1>2, <3>2, <3>3
  <2> QED
    BY <2>2, <2>3
<1>9. Lists(c, v)
  BY <1>4, <1>6, <1>7, <1>8 DEF Lists
<1> QED
  BY <1>4, <1>5, <1>9 DEF v

\* The pairs it is in.
LEMMA PairsInserted ==
  ASSUME NEW c, NEW w \in Seq(Nodes), NEW v \in Seq(Nodes), NEW n, NEW i \in 1 .. Len(w) + 1, InsertedTo(w, v, i, n),
         Pair(c, n, IF i <= Len(w) THEN w[i] ELSE mHead),
         \A k \in DOMAIN w : Pair(c, w[k], IF k + 1 = i THEN n ELSE After(w, k))
  PROVE  \A j \in DOMAIN v : Pair(c, v[j], After(v, j))
<1> SUFFICES ASSUME NEW j \in DOMAIN v PROVE Pair(c, v[j], After(v, j))
  OBVIOUS
<1>1. \/ v[j] = n /\ After(v, j) = (IF i <= Len(w) THEN w[i] ELSE mHead)
      \/ \E k \in DOMAIN w : v[j] = w[k] /\ After(v, j) = IF k + 1 = i THEN n ELSE After(w, k)
  BY InsertedAfter
<1> QED
  BY <1>1

\* A node less in the list.
LEMMA ListsRemoved ==
  ASSUME NEW b, Typed(b), NEW w, Lists(b, w), NEW i \in DOMAIN w, NEW c, DOMAIN c = DOMAIN b \ {w[i]}
  PROVE  /\ Lists(c, AsBag!RemoveAt(w, i)) /\ RemovedTo(w, AsBag!RemoveAt(w, i), i)
         /\ AsBag!RemoveAt(w, i) \in Seq(Nodes)
<1> DEFINE v == AsBag!RemoveAt(w, i)
<1>1. /\ w \in Seq(Nodes) /\ Len(w) \in Nat /\ DOMAIN w = 1 .. Len(w) /\ Sorted(w)
      /\ \A j \in DOMAIN w : w[j] \in DOMAIN b /\ w[j] # mHead
  BY Listed
<1>2. v \in Seq(Nodes) /\ RemovedTo(w, v, i)
  BY <1>1, RemoveAtRemoves
<1> HIDE DEF v
<1>3. Sorted(v)
  BY <1>1, <1>2, RemovedSorted, Zenon
<1>4. /\ Len(v) = Len(w) - 1 /\ DOMAIN v = 1 .. Len(v)
      /\ \A j \in 1 .. Len(v) : v[j] = IF j < i THEN w[j] ELSE w[j + 1]
  BY <1>2 DEF RemovedTo
<1>5. ASSUME NEW j \in DOMAIN v PROVE v[j] \in DOMAIN c \ {mHead}
  <2>1. CASE j < i
    <3>1. j \in DOMAIN w /\ v[j] = w[j] /\ w[j] # w[i]
      BY <1>1, <1>4, <2>1 DEF Sorted
    <3> QED
      BY <1>1, <3>1
  <2>2. CASE j >= i
    <3>1. j + 1 \in DOMAIN w /\ v[j] = w[j + 1] /\ i < j + 1
      BY <1>1, <1>4, <2>2
    <3>2. w[j + 1] # w[i]
      BY <3>1, <1>1 DEF Sorted
    <3> QED
      BY <1>1, <3>1, <3>2
  <2> QED
    BY <1>1, <1>4, <2>1, <2>2
<1>6. v \in Seq(DOMAIN c \ {mHead})
  BY <1>2, <1>5
<1>7. ASSUME NEW x \in DOMAIN c \ {mHead} PROVE \E j \in DOMAIN v : v[j] = x
  <2>1. PICK j \in DOMAIN w : w[j] = x
    BY DEF Lists
  <2>2. j # i
    BY <2>1
  <2>3. CASE j < i
    <3>1. j \in DOMAIN v /\ v[j] = w[j]
      BY <1>1, <1>4, <2>3
    <3> QED
      BY <2>1, <3>1
  <2>4. CASE j > i
    <3>1. j - 1 \in DOMAIN v /\ ~(j - 1 < i) /\ (j - 1) + 1 = j
      BY <1>1, <1>4, <2>4
    <3>2. v[j - 1] = w[j]
      BY <1>4, <3>1
    <3> QED
      BY <2>1, <3>1, <3>2
  <2> QED
    BY <1>1, <2>2, <2>3, <2>4
<1>8. Lists(c, v)
  BY <1>3, <1>6, <1>7 DEF Lists
<1> QED
  BY <1>2, <1>8 DEF v

\* The pairs that are left, when a node is taken out.
LEMMA PairsRemoved ==
  ASSUME NEW c, NEW w \in Seq(Nodes), NEW v \in Seq(Nodes), NEW i \in DOMAIN w, RemovedTo(w, v, i),
         \A k \in DOMAIN w \ {i} : Pair(c, w[k], IF k + 1 = i THEN After(w, i) ELSE After(w, k))
  PROVE  \A j \in DOMAIN v : Pair(c, v[j], After(v, j))
<1> SUFFICES ASSUME NEW j \in DOMAIN v PROVE Pair(c, v[j], After(v, j))
  OBVIOUS
<1>1. \E k \in DOMAIN w : k # i /\ v[j] = w[k] /\ After(v, j) = IF k + 1 = i THEN After(w, i) ELSE After(w, k)
  BY RemovedAfter
<1> QED
  BY <1>1

\* Where a key belongs in the list a ring ends, and another begins.
LEMMA SplitRings ==
  ASSUME NEW b, Typed(b), NEW w, Enumerates(b, w), NEW k \in Nat, NEW i, Split(w, i, k)
  PROVE  /\ i <= Len(w) => w[i] \in Heads(b) /\ KeyOf[w[i]] # k
         /\ \A j \in DOMAIN w : j + 1 = i =>
              b[w[j]].near[RIGHT] \in Heads(b) /\ KeyOf[b[w[j]].near[RIGHT]] = KeyOf[w[j]] /\ KeyOf[w[j]] <= k
<1>1. /\ Lists(b, w) /\ (Len(w) > 0 => w[1] \in Heads(b))
      /\ \A j \in DOMAIN w : Pair(b, w[j], After(w, j))
  BY DEF Enumerates
<1>2. /\ Len(w) \in Nat /\ DOMAIN w = 1 .. Len(w) /\ \A j \in DOMAIN w : w[j] # mHead /\ KeyOf[w[j]] \in Nat
  BY <1>1, Listed
<1>3. /\ i \in 1 .. Len(w) + 1
      /\ \A j \in 1 .. i - 1 : KeyOf[w[j]] <= k
      /\ \A j \in i .. Len(w) : KeyOf[w[j]] > k
  BY DEF Split
<1>4. ASSUME NEW j \in DOMAIN w, j + 1 = i
      PROVE  /\ b[w[j]].near[RIGHT] \in Heads(b) /\ KeyOf[b[w[j]].near[RIGHT]] = KeyOf[w[j]] /\ KeyOf[w[j]] <= k
             /\ i <= Len(w) => w[i] \in Heads(b)
  <2>1. KeyOf[w[j]] <= k
    BY <1>2, <1>3, <1>4
  <2>2. CASE i <= Len(w)
    <3>1. After(w, j) = w[i] /\ w[i] # mHead /\ KeyOf[w[i]] > k /\ KeyOf[w[i]] \in Nat
      BY <1>2, <1>3, <1>4, <2>2 DEF After
    <3>2. KeyOf[w[i]] # KeyOf[w[j]]
      BY <1>2, <2>1, <3>1
    <3>3. Pair(b, w[j], w[i])
      BY <1>1, <3>1
    <3> QED
      BY <2>1, <3>1, <3>2, <3>3 DEF Pair
  <2>3. CASE i > Len(w)
    <3>1. After(w, j) = mHead
      BY <1>2, <1>3, <1>4, <2>3 DEF After
    <3>2. Pair(b, w[j], mHead)
      BY <1>1, <3>1
    <3> QED
      BY <1>2, <1>3, <2>1, <2>3, <3>2 DEF Pair
  <2> QED
    BY <1>2, <1>3, <2>2, <2>3
<1>5. i <= Len(w) => w[i] \in Heads(b) /\ KeyOf[w[i]] # k
  <2> SUFFICES ASSUME i <= Len(w) PROVE w[i] \in Heads(b) /\ KeyOf[w[i]] # k
    OBVIOUS
  <2>1. KeyOf[w[i]] # k
    BY <1>2, <1>3
  <2>2. CASE i = 1
    BY <1>1, <1>2, <2>1, <2>2
  <2>3. CASE i # 1
    <3>1. i - 1 \in DOMAIN w /\ (i - 1) + 1 = i
      BY <1>2, <1>3, <2>3
    <3> QED
      BY <1>4, <2>1, <3>1
  <2> QED
    BY <2>2, <2>3
<1> QED
  BY <1>4, <1>5

\* A new head.
LEMMA EnumeratesAttached ==
  ASSUME NEW b, Typed(b), NEW w, Enumerates(b, w), NEW n \in Nodes, n \notin DOMAIN b,
         NEW at \in Places(b), NEW s, NEW c, Typed(c), AttachedTo(b, c, n, at, s), Heads(c) = Heads(b) \cup {n},
         \A x \in Heads(c), y \in Heads(c) : KeyOf[x] = KeyOf[y] => x = y,
         NEW i, Split(w, i, KeyOf[n])
  PROVE  Enumerates(c, AsBag!InsertAt(w, i, n))
<1> DEFINE v == AsBag!InsertAt(w, i, n)
<1>1. /\ Rings(b) /\ Lists(b, w) /\ (Len(w) > 0 => w[1] \in Heads(b))
      /\ \A j \in DOMAIN w : Pair(b, w[j], After(w, j))
  BY DEF Enumerates
<1>2. /\ w \in Seq(Nodes) /\ Len(w) \in Nat /\ DOMAIN w = 1 .. Len(w)
      /\ \A j \in DOMAIN w : w[j] \in DOMAIN b /\ w[j] # mHead /\ KeyOf[w[j]] \in Nat
      /\ \A j \in DOMAIN w : After(w, j) \in DOMAIN b
      /\ KeyOf[n] \in Nat
  BY <1>1, Listed
<1>3. /\ DOMAIN c = DOMAIN b \cup {n} /\ c[n].near = Both(n)
      /\ \A y \in DOMAIN b : c[y].near = b[y].near /\ (y # at => c[y].child = b[y].child)
  <2>1. c[n] = NodeBase(Both(mHead), Both(n), at, s, TRUE)
    BY DEF AttachedTo
  <2> QED
    BY <2>1 DEF AttachedTo, NodeBase
<1>4. c[n].near[LEFT] = n /\ c[n].near[RIGHT] = n
  BY <1>3, Sides DEF Both
<1>5. Lists(c, v) /\ InsertedTo(w, v, i, n) /\ v \in Seq(Nodes)
  BY <1>1, <1>3, ListsInserted, Zenon
<1> HIDE DEF v
<1>6. i \in 1 .. Len(w) + 1
  BY DEF Split
<1>7. /\ i <= Len(w) => w[i] \in Heads(b) /\ KeyOf[w[i]] # KeyOf[n]
      /\ \A j \in DOMAIN w : j + 1 = i => b[w[j]].near[RIGHT] \in Heads(b) /\ KeyOf[b[w[j]].near[RIGHT]] = KeyOf[w[j]]
  BY <1>2, SplitRings
<1>8. \A z \in DOMAIN b \ {mHead} : KeyOf[z] # KeyOf[n]
  <2> SUFFICES ASSUME NEW z \in DOMAIN b \ {mHead}, KeyOf[z] = KeyOf[n] PROVE FALSE
    OBVIOUS
  <2>1. PICK h \in Heads(b) : KeyOf[h] = KeyOf[z]
    BY <1>1 DEF Rings
  <2>2. h = n
    BY <2>1
  <2> QED
    BY <2>1, <2>2, HeadsTyped
<1>9. n # mHead /\ n \notin Heads(b) /\ mHead \in DOMAIN b
  BY Names, HeadsTyped
<1>10. Rings(c)
  <2>1. c[mHead].near[LEFT] = mHead /\ c[mHead].near[RIGHT] = mHead
    BY <1>1, <1>3, <1>9 DEF Rings
  <2>2. ASSUME NEW x \in DOMAIN c PROVE Mutual(c, x)
    <3>1. CASE x = n
      BY <1>3, <1>4, <3>1 DEF Mutual
    <3>2. CASE x # n
      <4>1. x \in DOMAIN b /\ Mutual(b, x)
        BY <1>1, <1>3, <3>2 DEF Rings
      <4>2. /\ b[x].near[LEFT] \in DOMAIN b /\ b[b[x].near[LEFT]].near[RIGHT] = x
            /\ b[x].near[RIGHT] \in DOMAIN b /\ b[b[x].near[RIGHT]].near[LEFT] = x
        BY <4>1 DEF Mutual
      <4>3. c[x].near = b[x].near /\ c[b[x].near[LEFT]].near = b[b[x].near[LEFT]].near
            /\ c[b[x].near[RIGHT]].near = b[b[x].near[RIGHT]].near
        BY <1>3, <4>1, <4>2
      <4> QED
        BY <1>3, <4>2, <4>3 DEF Mutual
    <3> QED
      BY <3>1, <3>2
  <2>3. \A x \in DOMAIN c \ Places(c) : c[x].child = Both(Null)
    <3>1. Places(c) = Places(b) \cup {n}
      BY DEF Places
    <3>2. ASSUME NEW x \in DOMAIN c \ Places(c) PROVE x \in DOMAIN b \ Places(b) /\ x # at
      BY <1>3, <3>1
    <3>3. \A x \in DOMAIN b \ Places(b) : b[x].child = Both(Null)
      BY <1>1 DEF Rings
    <3> QED
      BY <1>3, <3>2, <3>3
  <2>4. \A x \in DOMAIN c \ {mHead} : \E h \in Heads(c) : KeyOf[h] = KeyOf[x]
    BY <1>1, <1>3 DEF Rings
  <2> QED
    BY <2>1, <2>2, <2>3, <2>4 DEF Rings
<1>11. Pair(c, n, IF i <= Len(w) THEN w[i] ELSE mHead)
  BY <1>4, <1>7 DEF Pair
<1>12. ASSUME NEW k \in DOMAIN w PROVE Pair(c, w[k], IF k + 1 = i THEN n ELSE After(w, k))
  <2>1. w[k] \in DOMAIN b /\ w[k] # mHead /\ c[w[k]].near = b[w[k]].near /\ KeyOf[w[k]] # KeyOf[n]
    BY <1>2, <1>3, <1>8
  <2>2. CASE k + 1 = i
    <3>1. b[w[k]].near[RIGHT] \in Heads(b) /\ KeyOf[b[w[k]].near[RIGHT]] = KeyOf[w[k]]
      BY <1>7, <2>2
    <3> QED
      BY <2>1, <2>2, <3>1 DEF Pair
  <2>3. CASE k + 1 # i
    <3>1. Pair(b, w[k], After(w, k)) /\ After(w, k) # n
      BY <1>1, <1>2
    <3> QED
      BY <2>1, <2>3, <3>1 DEF Pair
  <2> QED
    BY <2>2, <2>3
<1>13. \A j \in DOMAIN v : Pair(c, v[j], After(v, j))
  BY <1>2, <1>5, <1>6, <1>11, <1>12, PairsInserted, Zenon
<1>14. v[1] \in Heads(c)
  <2>1. Len(v) = Len(w) + 1 /\ v[1] = IF 1 < i THEN w[1] ELSE n
    BY <1>2, <1>5, <1>6 DEF InsertedTo
  <2> QED
    BY <1>1, <1>2, <1>6, <2>1
<1> QED
  BY <1>5, <1>10, <1>13, <1>14 DEF Enumerates, v

\* A node linked to its ring keeps the rings closed.
LEMMA LinkedMutual ==
  ASSUME NEW b, \A y \in DOMAIN b : Mutual(b, y), NEW x, x \notin DOMAIN b, NEW h \in DOMAIN b, NEW c, LinkedTo(b, c, x, h)
  PROVE  \A y \in DOMAIN c : Mutual(c, y)
<1> DEFINE p == b[h].near[LEFT]
<1>1. /\ DOMAIN c = DOMAIN b \cup {x} /\ c[x].near[LEFT] = p /\ c[x].near[RIGHT] = h
      /\ \A z \in DOMAIN b :
           /\ c[z].near[LEFT] = IF z = h THEN x ELSE b[z].near[LEFT]
           /\ c[z].near[RIGHT] = IF z = p THEN x ELSE b[z].near[RIGHT]
  BY DEF LinkedTo
<1>2. p \in DOMAIN b /\ b[p].near[RIGHT] = h
  BY DEF Mutual
<1> HIDE DEF p
<1>3. Mutual(c, x)
  BY <1>1, <1>2, Zenon DEF Mutual
<1>4. ASSUME NEW y \in DOMAIN b PROVE Mutual(c, y)
  <2>1. /\ b[y].near[LEFT] \in DOMAIN b /\ b[b[y].near[LEFT]].near[RIGHT] = y
        /\ b[y].near[RIGHT] \in DOMAIN b /\ b[b[y].near[RIGHT]].near[LEFT] = y
    BY DEF Mutual
  <2>2. y # h => b[y].near[LEFT] # p
    BY <1>2, <2>1
  <2>3. y # p => b[y].near[RIGHT] # h
    BY <1>2, <2>1 DEF p
  <2>4. c[y].near[LEFT] \in DOMAIN c /\ c[c[y].near[LEFT]].near[RIGHT] = y
    <3>1. CASE y = h
      BY <1>1, <3>1
    <3>2. CASE y # h
      BY <1>1, <2>1, <2>2, <3>2
    <3> QED
      BY <3>1, <3>2
  <2>5. c[y].near[RIGHT] \in DOMAIN c /\ c[c[y].near[RIGHT]].near[LEFT] = y
    <3>1. CASE y = p
      BY <1>1, <3>1
    <3>2. CASE y # p
      BY <1>1, <2>1, <2>3, <3>2
    <3> QED
      BY <3>1, <3>2
  <2> QED
    BY <2>4, <2>5 DEF Mutual
<1> QED
  BY <1>1, <1>3, <1>4

\* The last of a ring.
LEMMA EnumeratesLinked ==
  ASSUME NEW b, Typed(b), NEW w, Enumerates(b, w), NEW x \in Nodes, x \notin DOMAIN b, NEW h \in Heads(b), KeyOf[h] = KeyOf[x],
         \A y \in Heads(b), z \in Heads(b) : KeyOf[y] = KeyOf[z] => y = z,
         NEW c, LinkedTo(b, c, x, h), NEW i, Split(w, i, KeyOf[x])
  PROVE  Enumerates(c, AsBag!InsertAt(w, i, x))
<1> DEFINE v == AsBag!InsertAt(w, i, x)
           p == b[h].near[LEFT]
<1>1. /\ Rings(b) /\ Lists(b, w) /\ (Len(w) > 0 => w[1] \in Heads(b))
      /\ \A j \in DOMAIN w : Pair(b, w[j], After(w, j))
  BY DEF Enumerates
<1>2. /\ w \in Seq(Nodes) /\ Len(w) \in Nat /\ DOMAIN w = 1 .. Len(w) /\ Sorted(w)
      /\ \A j \in DOMAIN w : w[j] \in DOMAIN b /\ w[j] # mHead /\ KeyOf[w[j]] \in Nat
      /\ \A j \in DOMAIN w : After(w, j) \in DOMAIN b
      /\ KeyOf[x] \in Nat
  BY <1>1, Listed
<1>3. /\ DOMAIN c = DOMAIN b \cup {x} /\ Alike(b, c)
      /\ c[x].near[LEFT] = p /\ c[x].near[RIGHT] = h /\ c[x].child = Both(Null)
      /\ \A z \in DOMAIN b :
           /\ c[z].child = b[z].child
           /\ c[z].near[LEFT] = IF z = h THEN x ELSE b[z].near[LEFT]
           /\ c[z].near[RIGHT] = IF z = p THEN x ELSE b[z].near[RIGHT]
  BY DEF LinkedTo
<1>4. Heads(c) = Heads(b) /\ Places(c) = Places(b)
  BY <1>3 DEF Alike, Places
<1>5. Lists(c, v) /\ InsertedTo(w, v, i, x) /\ v \in Seq(Nodes)
  <2>1. DOMAIN c = DOMAIN b \cup {x} /\ Lists(b, w)
    BY <1>1, <1>3
  <2> HIDE DEF p
  <2> QED
    BY <2>1, ListsInserted, Zenon
<1> HIDE DEF v
<1>6. /\ i \in 1 .. Len(w) + 1
      /\ \A j \in 1 .. i - 1 : KeyOf[w[j]] <= KeyOf[x]
      /\ \A j \in i .. Len(w) : KeyOf[w[j]] > KeyOf[x]
  BY DEF Split
<1>7. /\ i <= Len(w) => w[i] \in Heads(b) /\ KeyOf[w[i]] # KeyOf[x]
      /\ \A j \in DOMAIN w : j + 1 = i =>
           b[w[j]].near[RIGHT] \in Heads(b) /\ KeyOf[b[w[j]].near[RIGHT]] = KeyOf[w[j]] /\ KeyOf[w[j]] <= KeyOf[x]
  BY <1>2, SplitRings
<1>8. h \in DOMAIN b /\ h # mHead /\ mHead \in DOMAIN b /\ x # mHead /\ x \notin Heads(b)
  BY Names, HeadsTyped
<1>9. p \in DOMAIN b /\ b[p].near[RIGHT] = h
  BY <1>1, <1>8 DEF Rings, Mutual
<1>10. i - 1 \in DOMAIN w /\ w[i - 1] = p /\ KeyOf[p] = KeyOf[x]
  <2>1. PICK j \in DOMAIN w : w[j] = h
    BY <1>1, <1>8 DEF Lists
  <2>2. j <= i - 1
    BY <1>2, <1>6, <2>1
  <2>3. i - 1 \in DOMAIN w /\ (i - 1) + 1 = i
    BY <1>2, <1>6, <2>1, <2>2
  <2>4. KeyOf[w[i - 1]] <= KeyOf[x]
    BY <1>6, <2>3, <1>2
  <2>5. KeyOf[w[i - 1]] >= KeyOf[x]
    <3>0. j \in Nat /\ i \in Nat
      BY <1>2, <1>6
    <3>1. j = i - 1 \/ j < i - 1
      BY <2>2, <3>0
    <3>2. KeyOf[w[j]] <= KeyOf[w[i - 1]]
      BY <1>2, <2>3, <3>1 DEF Sorted
    <3> QED
      BY <1>2, <2>1, <2>3, <3>2
  <2>6. KeyOf[w[i - 1]] = KeyOf[x]
    BY <1>2, <2>3, <2>4, <2>5
  <2>7. b[w[i - 1]].near[RIGHT] \in Heads(b) /\ KeyOf[b[w[i - 1]].near[RIGHT]] = KeyOf[w[i - 1]]
    BY <1>7, <2>3
  <2>8. b[w[i - 1]].near[RIGHT] = h
    BY <2>6, <2>7
  <2>9. Mutual(b, w[i - 1])
    BY <1>1, <1>2, <2>3 DEF Rings
  <2>10. b[h].near[LEFT] = w[i - 1]
    BY <2>8, <2>9 DEF Mutual
  <2> QED
    BY <2>3, <2>6, <2>10
<1>11. p # mHead
  BY <1>2, <1>10
<1> HIDE DEF p
<1>12. Rings(c)
  <2>1. c[mHead].near[LEFT] = mHead /\ c[mHead].near[RIGHT] = mHead
    BY <1>1, <1>3, <1>8, <1>11 DEF Rings
  <2>2. \A y \in DOMAIN c : Mutual(c, y)
    <3>1. \A y \in DOMAIN b : Mutual(b, y)
      BY <1>1 DEF Rings
    <3> QED
      BY <3>1, <1>8, LinkedMutual
  <2>3. \A y \in DOMAIN c \ Places(c) : c[y].child = Both(Null)
    BY <1>1, <1>3, <1>4 DEF Rings
  <2>4. \A y \in DOMAIN c \ {mHead} : \E g \in Heads(c) : KeyOf[g] = KeyOf[y]
    BY <1>1, <1>3, <1>4 DEF Rings
  <2> QED
    BY <2>1, <2>2, <2>3, <2>4 DEF Rings
<1>13. Pair(c, x, IF i <= Len(w) THEN w[i] ELSE mHead)
  BY <1>3, <1>4, <1>7 DEF Pair
<1>14. ASSUME NEW k \in DOMAIN w PROVE Pair(c, w[k], IF k + 1 = i THEN x ELSE After(w, k))
  <2>1. CASE k + 1 = i
    <3>1. k = i - 1
      BY <1>2, <1>6, <2>1
    <3>2. w[k] = p /\ c[p].near[RIGHT] = x
      BY <1>3, <1>9, <1>10, <3>1
    <3> QED
      BY <1>4, <1>8, <1>10, <2>1, <3>2 DEF Pair
  <2>2. CASE k + 1 # i
    <3>1. k # i - 1 /\ i - 1 \in DOMAIN w
      BY <1>2, <1>6, <1>10, <2>2
    <3>2. k < i - 1 \/ i - 1 < k
      BY <1>2, <1>6, <3>1
    <3>3. w[k] # w[i - 1]
      BY <1>2, <3>1, <3>2 DEF Sorted
    <3>4. c[w[k]].near[RIGHT] = b[w[k]].near[RIGHT]
      BY <1>2, <1>3, <1>10, <3>3
    <3>5. Pair(b, w[k], After(w, k))
      BY <1>1
    <3> QED
      BY <1>4, <2>2, <3>4, <3>5 DEF Pair
  <2> QED
    BY <2>1, <2>2
<1>15. \A j \in DOMAIN v : Pair(c, v[j], After(v, j))
  BY <1>2, <1>5, <1>6, <1>13, <1>14, PairsInserted, Zenon
<1>16. v[1] \in Heads(c)
  <2>1. Len(v) = Len(w) + 1 /\ v[1] = IF 1 < i THEN w[1] ELSE x
    BY <1>2, <1>5, <1>6 DEF InsertedTo
  <2>2. 1 < i /\ Len(w) > 0
    BY <1>2, <1>6, <1>10
  <2> QED
    BY <1>1, <1>4, <2>1, <2>2
<1> QED
  BY <1>5, <1>12, <1>15, <1>16 DEF Enumerates, v

\* In c the ring of n closes without it.
Closes(b, c, n) ==
  /\ DOMAIN c = DOMAIN b \ {n}
  /\ \A z \in DOMAIN c :
       /\ c[z].near[LEFT] = IF z = b[n].near[RIGHT] THEN b[n].near[LEFT] ELSE b[z].near[LEFT]
       /\ c[z].near[RIGHT] = IF z = b[n].near[LEFT] THEN b[n].near[RIGHT] ELSE b[z].near[RIGHT]

\* A ring that closes without a node still agrees on who is whose neighbour.
LEMMA ClosedMutual ==
  ASSUME NEW b, \A y \in DOMAIN b : Mutual(b, y), NEW n \in DOMAIN b, NEW c, Closes(b, c, n)
  PROVE  \A y \in DOMAIN c : Mutual(c, y)
<1> DEFINE l == b[n].near[LEFT]
           r == b[n].near[RIGHT]
<1>1. /\ DOMAIN c = DOMAIN b \ {n}
      /\ \A z \in DOMAIN c :
           /\ c[z].near[LEFT] = IF z = r THEN l ELSE b[z].near[LEFT]
           /\ c[z].near[RIGHT] = IF z = l THEN r ELSE b[z].near[RIGHT]
  BY DEF Closes
<1>2. l \in DOMAIN b /\ b[l].near[RIGHT] = n /\ r \in DOMAIN b /\ b[r].near[LEFT] = n
  BY DEF Mutual
<1>3. (l = n => r = n) /\ (r = n => l = n)
  BY <1>2
<1> SUFFICES ASSUME NEW y \in DOMAIN c PROVE Mutual(c, y)
  OBVIOUS
<1>4. y \in DOMAIN b /\ y # n
  BY <1>1
<1>5. /\ b[y].near[LEFT] \in DOMAIN b /\ b[b[y].near[LEFT]].near[RIGHT] = y
      /\ b[y].near[RIGHT] \in DOMAIN b /\ b[b[y].near[RIGHT]].near[LEFT] = y
  BY <1>4 DEF Mutual
<1>6. (b[y].near[RIGHT] = n => y = l) /\ (b[y].near[LEFT] = n => y = r)
  BY <1>5
<1> HIDE DEF l, r
<1>7. c[y].near[RIGHT] \in DOMAIN c /\ c[c[y].near[RIGHT]].near[LEFT] = y
  <2>1. CASE y = l
    <3>1. c[y].near[RIGHT] = r /\ r \in DOMAIN c
      BY <1>1, <1>2, <1>3, <1>4, <2>1
    <3> QED
      BY <1>1, <2>1, <3>1
  <2>2. CASE y # l
    <3>1. c[y].near[RIGHT] = b[y].near[RIGHT] /\ b[y].near[RIGHT] \in DOMAIN c
      BY <1>1, <1>5, <1>6, <2>2
    <3>2. b[y].near[RIGHT] # r
      BY <1>2, <1>4, <1>5
    <3> QED
      BY <1>1, <1>5, <3>1, <3>2
  <2> QED
    BY <2>1, <2>2
<1>8. c[y].near[LEFT] \in DOMAIN c /\ c[c[y].near[LEFT]].near[RIGHT] = y
  <2>1. CASE y = r
    <3>1. c[y].near[LEFT] = l /\ l \in DOMAIN c
      BY <1>1, <1>2, <1>3, <1>4, <2>1
    <3> QED
      BY <1>1, <2>1, <3>1
  <2>2. CASE y # r
    <3>1. c[y].near[LEFT] = b[y].near[LEFT] /\ b[y].near[LEFT] \in DOMAIN c
      BY <1>1, <1>5, <1>6, <2>2
    <3>2. b[y].near[LEFT] # l
      BY <1>2, <1>4, <1>5
    <3> QED
      BY <1>1, <1>5, <3>1, <3>2
  <2> QED
    BY <2>1, <2>2
<1> QED
  BY <1>7, <1>8 DEF Mutual

\* Different heads have different keys.
Distinct(b) == \A y \in Heads(b), z \in Heads(b) : KeyOf[y] = KeyOf[z] => y = z

\* A node in the ring of another.
LEMMA EnumeratesUnlinked ==
  ASSUME NEW b, Typed(b), NEW w, Enumerates(b, w), NEW i \in DOMAIN w, NEW n, n = w[i], n \notin Heads(b),
         NEW c, Typed(c), Closes(b, c, n), Heads(c) = Heads(b), \A y \in DOMAIN c : c[y].child = b[y].child
  PROVE  Enumerates(c, AsBag!RemoveAt(w, i))
<1> DEFINE v == AsBag!RemoveAt(w, i)
           p == b[n].near[LEFT]
           q == b[n].near[RIGHT]
<1>1. /\ Rings(b) /\ Lists(b, w) /\ (Len(w) > 0 => w[1] \in Heads(b))
      /\ \A j \in DOMAIN w : Pair(b, w[j], After(w, j))
  BY DEF Enumerates
<1>2. /\ w \in Seq(Nodes) /\ Len(w) \in Nat /\ DOMAIN w = 1 .. Len(w) /\ Sorted(w)
      /\ \A j \in DOMAIN w : w[j] \in DOMAIN b /\ w[j] # mHead /\ KeyOf[w[j]] \in Nat
  BY <1>1, Listed
<1>3. /\ DOMAIN c = DOMAIN b \ {n}
      /\ \A z \in DOMAIN c :
           /\ c[z].near[LEFT] = IF z = q THEN p ELSE b[z].near[LEFT]
           /\ c[z].near[RIGHT] = IF z = p THEN q ELSE b[z].near[RIGHT]
  BY DEF Closes
<1>4. n \in DOMAIN b /\ n # mHead /\ mHead \in DOMAIN c
  BY <1>2, <1>3 DEF Typed
<1>5. b[p].near[RIGHT] = n /\ b[q].near[LEFT] = n /\ b[mHead].near[LEFT] = mHead /\ b[mHead].near[RIGHT] = mHead
  BY <1>1, <1>4, Zenon DEF Rings, Mutual
<1>6. i - 1 \in DOMAIN w /\ w[i - 1] = p /\ KeyOf[p] = KeyOf[n]
  <2>1. i # 1
    BY <1>1, <1>2
  <2>2. i - 1 \in DOMAIN w /\ After(w, i - 1) = n
    BY <1>2, <2>1 DEF After
  <2>3. Pair(b, w[i - 1], n)
    BY <1>1, <2>2
  <2>4. KeyOf[w[i - 1]] = KeyOf[n] /\ b[w[i - 1]].near[RIGHT] = n
    BY <1>4, <2>3 DEF Pair
  <2>5. Mutual(b, w[i - 1])
    BY <1>1, <1>2, <2>2 DEF Rings
  <2>6. b[n].near[LEFT] = w[i - 1]
    BY <2>4, <2>5 DEF Mutual
  <2> QED
    BY <2>2, <2>4, <2>6
<1>7. p # mHead /\ q # mHead
  BY <1>2, <1>4, <1>5, <1>6
<1>8. Lists(c, v) /\ RemovedTo(w, v, i) /\ v \in Seq(Nodes)
  BY <1>1, <1>3, ListsRemoved, Zenon
<1> HIDE DEF v
<1>9. Rings(c)
  <2>1. c[mHead].near[LEFT] = mHead /\ c[mHead].near[RIGHT] = mHead
    BY <1>3, <1>4, <1>5, <1>7
  <2>2. \A y \in DOMAIN c : Mutual(c, y)
    <3>1. \A y \in DOMAIN b : Mutual(b, y)
      BY <1>1 DEF Rings
    <3> QED
      BY <3>1, <1>4, ClosedMutual
  <2>3. \A y \in DOMAIN c \ Places(c) : c[y].child = Both(Null)
    BY <1>1, <1>3 DEF Rings, Places
  <2>4. \A y \in DOMAIN c \ {mHead} : \E g \in Heads(c) : KeyOf[g] = KeyOf[y]
    BY <1>1, <1>3 DEF Rings
  <2> QED
    BY <2>1, <2>2, <2>3, <2>4 DEF Rings
<1> HIDE DEF p
<1>10. ASSUME NEW k \in DOMAIN w \ {i} PROVE Pair(c, w[k], IF k + 1 = i THEN After(w, i) ELSE After(w, k))
  <2>0. w[k] # n /\ w[k] \in DOMAIN c
    <3>1. k < i \/ i < k
      BY <1>2
    <3>2. w[k] # w[i]
      BY <1>2, <3>1 DEF Sorted
    <3> QED
      BY <1>2, <1>3, <3>2
  <2>1. CASE k + 1 = i
    <3>1. k = i - 1
      BY <1>2, <2>1
    <3>2. w[k] = p /\ c[p].near[RIGHT] = q
      BY <1>3, <1>6, <2>0, <3>1
    <3>3. Pair(b, n, After(w, i))
      BY <1>1
    <3> QED
      BY <1>6, <2>1, <3>2, <3>3 DEF Pair
  <2>2. CASE k + 1 # i
    <3>1. k # i - 1
      BY <1>2, <2>2
    <3>2. k < i - 1 \/ i - 1 < k
      BY <1>2, <3>1
    <3>3. w[k] # w[i - 1]
      BY <1>2, <1>6, <3>2 DEF Sorted
    <3>4. c[w[k]].near[RIGHT] = b[w[k]].near[RIGHT]
      BY <1>3, <1>6, <2>0, <3>3
    <3>5. Pair(b, w[k], After(w, k))
      BY <1>1
    <3> QED
      BY <2>2, <3>4, <3>5 DEF Pair
  <2> QED
    BY <2>1, <2>2
<1>11. \A j \in DOMAIN v : Pair(c, v[j], After(v, j))
  BY <1>2, <1>8, <1>10, PairsRemoved, Zenon
<1>12. v[1] \in Heads(c)
  <2>1. Len(v) = Len(w) - 1 /\ \A j \in 1 .. Len(v) : v[j] = IF j < i THEN w[j] ELSE w[j + 1]
    BY <1>8 DEF RemovedTo
  <2>2. 1 < i /\ 1 \in 1 .. Len(v) /\ Len(w) > 0
    BY <1>2, <1>6, <2>1
  <2> QED
    BY <1>1, <2>1, <2>2
<1> QED
  BY <1>8, <1>9, <1>11, <1>12 DEF Enumerates, v

\* A head alone with its key.
LEMMA EnumeratesCut ==
  ASSUME NEW b, Typed(b), Distinct(b), NEW w, Enumerates(b, w), NEW i \in DOMAIN w, NEW n, n = w[i], n \in Heads(b),
         b[n].near[LEFT] = n, NEW c, CutDone(b, c, n)
  PROVE  Enumerates(c, AsBag!RemoveAt(w, i))
<1> DEFINE v == AsBag!RemoveAt(w, i)
<1>1. /\ Rings(b) /\ Lists(b, w) /\ (Len(w) > 0 => w[1] \in Heads(b))
      /\ \A j \in DOMAIN w : Pair(b, w[j], After(w, j))
  BY DEF Enumerates
<1>2. /\ w \in Seq(Nodes) /\ Len(w) \in Nat /\ DOMAIN w = 1 .. Len(w) /\ Sorted(w)
      /\ \A j \in DOMAIN w : w[j] \in DOMAIN b /\ w[j] # mHead /\ KeyOf[w[j]] \in Nat
      /\ i \in Nat
  BY <1>1, Listed
<1>3. /\ DOMAIN c = DOMAIN b \ {n} /\ Typed(c) /\ Heads(c) = Heads(b) \ {n}
      /\ \A y \in DOMAIN c : c[y].near = b[y].near /\ (y \notin Places(c) => c[y].child = b[y].child)
  BY DEF CutDone
<1>4. n \in DOMAIN b /\ n # mHead /\ mHead \in DOMAIN c
  BY <1>2, <1>3 DEF Typed
<1>5. \A y \in DOMAIN b : Mutual(b, y)
  BY <1>1 DEF Rings
<1>6. b[n].near[RIGHT] = n
  BY <1>4, <1>5, Zenon DEF Mutual
<1>7. i + 1 \in DOMAIN w => w[i + 1] \in Heads(b) /\ KeyOf[w[i + 1]] > KeyOf[n] /\ After(w, i) = w[i + 1]
  <2> SUFFICES ASSUME i + 1 \in DOMAIN w
               PROVE  w[i + 1] \in Heads(b) /\ KeyOf[w[i + 1]] > KeyOf[n] /\ After(w, i) = w[i + 1]
    OBVIOUS
  <2>1. After(w, i) = w[i + 1] /\ w[i + 1] # mHead
    BY <1>2 DEF After
  <2>2. w[i + 1] # n /\ KeyOf[n] <= KeyOf[w[i + 1]]
    BY <1>2 DEF Sorted
  <2>3. Pair(b, n, w[i + 1])
    BY <1>1, <2>1
  <2>4. KeyOf[w[i + 1]] # KeyOf[n] /\ w[i + 1] \in Heads(b)
    BY <1>6, <2>1, <2>2, <2>3 DEF Pair
  <2> QED
    BY <1>2, <2>1, <2>2, <2>4
<1>8. i # 1 => /\ i - 1 \in DOMAIN w /\ KeyOf[w[i - 1]] < KeyOf[n]
               /\ b[w[i - 1]].near[RIGHT] \in Heads(b) /\ KeyOf[b[w[i - 1]].near[RIGHT]] = KeyOf[w[i - 1]]
  <2> SUFFICES ASSUME i # 1
               PROVE  /\ i - 1 \in DOMAIN w /\ KeyOf[w[i - 1]] < KeyOf[n]
                      /\ b[w[i - 1]].near[RIGHT] \in Heads(b) /\ KeyOf[b[w[i - 1]].near[RIGHT]] = KeyOf[w[i - 1]]
    OBVIOUS
  <2>1. i - 1 \in DOMAIN w /\ After(w, i - 1) = n /\ i - 1 < i
    BY <1>2 DEF After
  <2>2. KeyOf[w[i - 1]] <= KeyOf[n]
    BY <1>2, <2>1 DEF Sorted
  <2>3. Pair(b, w[i - 1], n)
    BY <1>1, <2>1
  <2>4. KeyOf[w[i - 1]] # KeyOf[n]
    BY <1>4, <2>3 DEF Pair
  <2> QED
    BY <1>2, <2>1, <2>2, <2>3, <2>4 DEF Pair
<1>9. \A j \in DOMAIN w \ {i} : KeyOf[w[j]] # KeyOf[n] /\ w[j] # n /\ w[j] \in DOMAIN c
  <2> SUFFICES ASSUME NEW j \in DOMAIN w \ {i} PROVE KeyOf[w[j]] # KeyOf[n]
    BY <1>2, <1>3
  <2>1. CASE j < i
    <3>1. i # 1 /\ (j = i - 1 \/ j < i - 1)
      BY <1>2, <2>1
    <3>2. KeyOf[w[j]] <= KeyOf[w[i - 1]]
      BY <1>2, <1>8, <3>1 DEF Sorted
    <3> QED
      BY <1>2, <1>8, <3>1, <3>2
  <2>2. CASE j > i
    <3>1. i + 1 \in DOMAIN w /\ (j = i + 1 \/ i + 1 < j)
      BY <1>2, <2>2
    <3>2. KeyOf[w[i + 1]] <= KeyOf[w[j]]
      BY <1>2, <3>1 DEF Sorted
    <3> QED
      BY <1>2, <1>7, <3>1, <3>2
  <2> QED
    BY <1>2, <2>1, <2>2
<1>10. Lists(c, v) /\ RemovedTo(w, v, i) /\ v \in Seq(Nodes)
  BY <1>1, <1>3, ListsRemoved, Zenon
<1> HIDE DEF v
<1>11. Rings(c)
  <2>1. c[mHead].near[LEFT] = mHead /\ c[mHead].near[RIGHT] = mHead
    BY <1>1, <1>3, <1>4 DEF Rings
  <2>2. ASSUME NEW y \in DOMAIN c PROVE Mutual(c, y)
    <3>1. y \in DOMAIN b /\ y # n
      BY <1>3
    <3>2. /\ b[y].near[LEFT] \in DOMAIN b /\ b[b[y].near[LEFT]].near[RIGHT] = y
          /\ b[y].near[RIGHT] \in DOMAIN b /\ b[b[y].near[RIGHT]].near[LEFT] = y
      BY <1>5, <3>1 DEF Mutual
    <3>3. b[y].near[LEFT] # n /\ b[y].near[RIGHT] # n
      BY <1>6, <3>1, <3>2
    <3>4. b[y].near[LEFT] \in DOMAIN c /\ b[y].near[RIGHT] \in DOMAIN c
      BY <1>3, <3>2, <3>3
    <3>5. c[y].near = b[y].near /\ c[b[y].near[LEFT]].near = b[b[y].near[LEFT]].near
          /\ c[b[y].near[RIGHT]].near = b[b[y].near[RIGHT]].near
      BY <1>3, <3>4
    <3> QED
      BY <3>2, <3>4, <3>5 DEF Mutual
  <2>3. ASSUME NEW y \in DOMAIN c \ Places(c) PROVE c[y].child = Both(Null)
    <3>1. y \in DOMAIN b \ Places(b)
      BY <1>3 DEF Places
    <3> QED
      BY <1>1, <1>3, <3>1 DEF Rings
  <2>4. ASSUME NEW y \in DOMAIN c \ {mHead} PROVE \E g \in Heads(c) : KeyOf[g] = KeyOf[y]
    <3>1. PICK g \in Heads(b) : KeyOf[g] = KeyOf[y]
      BY <1>1, <1>3 DEF Rings
    <3>2. PICK j \in DOMAIN w : w[j] = y
      BY <1>1, <1>3 DEF Lists
    <3>3. j # i
      BY <1>3, <3>2
    <3> QED
      BY <1>3, <1>9, <3>1, <3>2, <3>3
  <2> QED
    BY <2>1, <2>2, <2>3, <2>4 DEF Rings
<1>12. ASSUME NEW k \in DOMAIN w \ {i} PROVE Pair(c, w[k], IF k + 1 = i THEN After(w, i) ELSE After(w, k))
  <2>0. w[k] # n /\ c[w[k]].near = b[w[k]].near /\ KeyOf[w[k]] # KeyOf[n]
    BY <1>3, <1>9
  <2>1. CASE k + 1 = i
    <3>1. k = i - 1 /\ i # 1
      BY <1>2, <2>1
    <3>2. c[w[k]].near[RIGHT] \in Heads(c) /\ KeyOf[c[w[k]].near[RIGHT]] = KeyOf[w[k]] /\ KeyOf[w[k]] < KeyOf[n]
      BY <1>3, <1>8, <2>0, <3>1
    <3>3. CASE i + 1 \in DOMAIN w
      <4>1. w[i + 1] \in Heads(c) /\ KeyOf[w[i + 1]] # KeyOf[w[k]] /\ After(w, i) = w[i + 1]
        BY <1>2, <1>3, <1>7, <3>2, <3>3
      <4> QED
        BY <2>1, <3>2, <4>1 DEF Pair
    <3>4. CASE i + 1 \notin DOMAIN w
      <4>1. After(w, i) = mHead
        BY <1>2, <3>4 DEF After
      <4> QED
        BY <2>1, <3>2, <4>1 DEF Pair
    <3> QED
      BY <3>3, <3>4
  <2>2. CASE k + 1 # i
    <3>1. After(w, k) # n
      <4>1. CASE k < Len(w)
        <5>1. k + 1 \in DOMAIN w \ {i} /\ After(w, k) = w[k + 1]
          BY <1>2, <2>2, <4>1 DEF After
        <5> QED
          BY <1>9, <5>1
      <4>2. CASE ~(k < Len(w))
        BY <1>4, <4>2 DEF After
      <4> QED
        BY <4>1, <4>2
    <3>2. Pair(b, w[k], After(w, k))
      BY <1>1
    <3> QED
      BY <1>3, <2>0, <2>2, <3>1, <3>2 DEF Pair
  <2> QED
    BY <2>1, <2>2
<1>13. \A j \in DOMAIN v : Pair(c, v[j], After(v, j))
  BY <1>2, <1>10, <1>12, PairsRemoved, Zenon
<1>14. Len(v) > 0 => v[1] \in Heads(c)
  <2> SUFFICES ASSUME Len(v) > 0 PROVE v[1] \in Heads(c)
    OBVIOUS
  <2>1. Len(v) = Len(w) - 1 /\ \A j \in 1 .. Len(v) : v[j] = IF j < i THEN w[j] ELSE w[j + 1]
    BY <1>10 DEF RemovedTo
  <2>2. 1 \in 1 .. Len(v) /\ Len(w) > 1
    BY <1>2, <2>1
  <2>3. CASE i = 1
    <3>1. v[1] = w[2] /\ i + 1 = 2 /\ 2 \in DOMAIN w
      BY <1>2, <2>1, <2>2, <2>3
    <3> QED
      BY <1>3, <1>7, <1>9, <2>3, <3>1
  <2>4. CASE i # 1
    <3>1. v[1] = w[1] /\ 1 \in DOMAIN w \ {i}
      BY <1>2, <2>1, <2>2, <2>4
    <3> QED
      BY <1>1, <1>3, <1>9, <2>2, <3>1
  <2> QED
    BY <2>3, <2>4
<1> QED
  BY <1>10, <1>11, <1>13, <1>14 DEF Enumerates, v

\* The next in the ring of a head.
LEMMA NextOfHead ==
  ASSUME NEW b, Typed(b), Distinct(b), NEW w, Enumerates(b, w), NEW i \in DOMAIN w, NEW n, n = w[i], n \in Heads(b),
         b[n].near[LEFT] # n, NEW r, r = b[n].near[RIGHT]
  PROVE  /\ r \in Nodes /\ r \in DOMAIN b /\ r # n /\ r \notin Heads(b) /\ KeyOf[r] = KeyOf[n]
         /\ i + 1 \in DOMAIN w /\ w[i + 1] = r /\ r # mHead
<1>1. /\ Rings(b) /\ Lists(b, w) /\ Pair(b, n, After(w, i))
  BY DEF Enumerates
<1>2. /\ Len(w) \in Nat /\ DOMAIN w = 1 .. Len(w)
      /\ \A j \in DOMAIN w : w[j] \in DOMAIN b /\ w[j] # mHead /\ w[j] \in Nodes
      /\ i \in Nat
  BY <1>1, Listed
<1>3. r \in DOMAIN b /\ b[r].near[LEFT] = n
  BY <1>1, <1>2, Zenon DEF Rings, Mutual
<1>4. r # n
  BY <1>3
<1>5. ~(r \in Heads(b) /\ KeyOf[r] = KeyOf[n])
  BY <1>4 DEF Distinct
<1>6. After(w, i) # mHead /\ KeyOf[After(w, i)] = KeyOf[n] /\ r = After(w, i) /\ r \notin Heads(b)
  BY <1>1, <1>5 DEF Pair
<1>7. i < Len(w) /\ After(w, i) = w[i + 1]
  BY <1>6 DEF After
<1>8. i + 1 \in DOMAIN w
  BY <1>2, <1>7
<1> QED
  BY <1>2, <1>3, <1>4, <1>6, <1>7, <1>8

\* A head leaves its place to it.
LEMMA EnumeratesSwitched ==
  ASSUME NEW b, Typed(b), Distinct(b), NEW w, Enumerates(b, w), NEW i \in DOMAIN w, NEW n, n = w[i], n \in Heads(b),
         b[n].near[LEFT] # n, NEW r, r = b[n].near[RIGHT],
         NEW c, Typed(c), Closes(b, c, n), Heads(c) = (Heads(b) \cup {r}) \ {n},
         \A y \in DOMAIN c \ Places(c) : c[y].child = b[y].child
  PROVE  Enumerates(c, AsBag!RemoveAt(w, i))
<1> DEFINE v == AsBag!RemoveAt(w, i)
           l == b[n].near[LEFT]
<1>1. /\ Rings(b) /\ Lists(b, w) /\ (Len(w) > 0 => w[1] \in Heads(b))
      /\ \A j \in DOMAIN w : Pair(b, w[j], After(w, j))
  BY DEF Enumerates
<1>2. /\ w \in Seq(Nodes) /\ Len(w) \in Nat /\ DOMAIN w = 1 .. Len(w) /\ Sorted(w)
      /\ \A j \in DOMAIN w : w[j] \in DOMAIN b /\ w[j] # mHead /\ KeyOf[w[j]] \in Nat
      /\ i \in Nat
  BY <1>1, Listed
<1>3. /\ DOMAIN c = DOMAIN b \ {n}
      /\ \A z \in DOMAIN c :
           /\ c[z].near[LEFT] = IF z = r THEN l ELSE b[z].near[LEFT]
           /\ c[z].near[RIGHT] = IF z = l THEN r ELSE b[z].near[RIGHT]
  BY DEF Closes
<1>4. n \in DOMAIN b /\ n # mHead /\ mHead \in DOMAIN c
  BY <1>2, <1>3 DEF Typed
<1>5. \A y \in DOMAIN b : Mutual(b, y)
  BY <1>1 DEF Rings
<1>6. b[l].near[RIGHT] = n /\ b[mHead].near[LEFT] = mHead /\ b[mHead].near[RIGHT] = mHead
  BY <1>1, <1>4, <1>5, Zenon DEF Rings, Mutual
<1>7. /\ r \in Nodes /\ r \in DOMAIN b /\ r # n /\ r \notin Heads(b) /\ KeyOf[r] = KeyOf[n]
      /\ i + 1 \in DOMAIN w /\ w[i + 1] = r /\ r # mHead
  BY NextOfHead
<1>8. Lists(c, v) /\ RemovedTo(w, v, i) /\ v \in Seq(Nodes)
  BY <1>1, <1>3, ListsRemoved, Zenon
<1> HIDE DEF v
<1>9. l # mHead
  BY <1>4, <1>6
<1> HIDE DEF l
<1>10. Rings(c)
  <2>1. c[mHead].near[LEFT] = mHead /\ c[mHead].near[RIGHT] = mHead
    BY <1>3, <1>4, <1>6, <1>7, <1>9
  <2>2. \A y \in DOMAIN c : Mutual(c, y)
    BY <1>4, <1>5, ClosedMutual
  <2>3. ASSUME NEW y \in DOMAIN c \ Places(c) PROVE c[y].child = Both(Null)
    <3>1. y \in DOMAIN b \ Places(b)
      BY <1>3 DEF Places
    <3> QED
      BY <1>1, <3>1 DEF Rings
  <2>4. ASSUME NEW y \in DOMAIN c \ {mHead} PROVE \E g \in Heads(c) : KeyOf[g] = KeyOf[y]
    <3>1. PICK g \in Heads(b) : KeyOf[g] = KeyOf[y]
      BY <1>1, <1>3 DEF Rings
    <3>2. CASE g = n
      BY <1>7, <3>1, <3>2
    <3>3. CASE g # n
      BY <3>1, <3>3
    <3> QED
      BY <3>2, <3>3
  <2> QED
    BY <2>1, <2>2, <2>3, <2>4 DEF Rings
<1>11. ASSUME NEW k \in DOMAIN w \ {i} PROVE Pair(c, w[k], IF k + 1 = i THEN After(w, i) ELSE After(w, k))
  <2>0. w[k] # n /\ w[k] \in DOMAIN c
    <3>1. k < i \/ i < k
      BY <1>2
    <3>2. w[k] # w[i]
      BY <1>2, <3>1 DEF Sorted
    <3> QED
      BY <1>2, <1>3, <3>2
  <2>1. CASE k + 1 = i
    <3>1. After(w, k) = n /\ After(w, i) = r
      BY <1>2, <1>7, <2>1 DEF After
    <3>2. Pair(b, w[k], n)
      BY <1>1, <3>1
    <3>3. /\ KeyOf[n] # KeyOf[w[k]]
          /\ b[w[k]].near[RIGHT] \in Heads(b) /\ KeyOf[b[w[k]].near[RIGHT]] = KeyOf[w[k]]
      BY <1>4, <3>2 DEF Pair
    <3>4. w[k] # l /\ b[w[k]].near[RIGHT] # n
      BY <1>6, <3>3
    <3>5. c[w[k]].near[RIGHT] = b[w[k]].near[RIGHT]
      BY <1>3, <2>0, <3>4
    <3> QED
      BY <1>7, <2>1, <3>1, <3>3, <3>4, <3>5 DEF Pair
  <2>2. CASE k + 1 # i
    <3>1. After(w, k) # n /\ After(w, k) # r
      <4>1. CASE k < Len(w)
        <5>1. k + 1 \in DOMAIN w /\ After(w, k) = w[k + 1] /\ (k + 1 < i \/ i < k + 1) /\ (k + 1 < i + 1 \/ i + 1 < k + 1)
          BY <1>2, <2>2, <4>1 DEF After
        <5>2. w[k + 1] # w[i] /\ w[k + 1] # w[i + 1]
          BY <1>2, <1>7, <5>1 DEF Sorted
        <5> QED
          BY <1>7, <5>1, <5>2
      <4>2. CASE ~(k < Len(w))
        BY <1>4, <1>7, <4>2 DEF After
      <4> QED
        BY <4>1, <4>2
    <3>2. Pair(b, w[k], After(w, k))
      BY <1>1
    <3>3. CASE w[k] = l
      <4>1. c[w[k]].near[RIGHT] = r /\ b[w[k]].near[RIGHT] = n
        BY <1>3, <1>6, <2>0, <3>3
      <4> QED
        BY <1>7, <2>2, <3>1, <3>2, <4>1 DEF Pair
    <3>4. CASE w[k] # l
      <4>1. c[w[k]].near[RIGHT] = b[w[k]].near[RIGHT]
        BY <1>3, <2>0, <3>4
      <4>2. b[w[k]].near[RIGHT] # n
        <5>1. Mutual(b, w[k])
          BY <1>2, <1>5
        <5> QED
          BY <3>4, <5>1 DEF Mutual, l
      <4> QED
        BY <2>2, <3>1, <3>2, <4>1, <4>2 DEF Pair
    <3> QED
      BY <3>3, <3>4
  <2> QED
    BY <2>1, <2>2
<1>12. \A j \in DOMAIN v : Pair(c, v[j], After(v, j))
  BY <1>2, <1>8, <1>11, PairsRemoved, Zenon
<1>13. v[1] \in Heads(c)
  <2>1. Len(v) = Len(w) - 1 /\ \A j \in 1 .. Len(v) : v[j] = IF j < i THEN w[j] ELSE w[j + 1]
    BY <1>8 DEF RemovedTo
  <2>2. 1 \in 1 .. Len(v) /\ Len(w) > 1
    BY <1>2, <1>7, <2>1
  <2>3. CASE i = 1
    <3>1. v[1] = r
      BY <1>7, <2>1, <2>2, <2>3
    <3> QED
      BY <1>7, <3>1
  <2>4. CASE i # 1
    <3>1. v[1] = w[1] /\ 1 < i
      BY <1>2, <2>1, <2>2, <2>4
    <3>2. w[1] # n
      BY <1>2, <2>2, <3>1 DEF Sorted
    <3> QED
      BY <1>1, <2>2, <3>1, <3>2
  <2> QED
    BY <2>3, <2>4
<1> QED
  BY <1>8, <1>10, <1>12, <1>13 DEF Enumerates, v

-----------------------------------------------------------------------------
(***************************************************************************)
(* The steps.                                                              *)
(***************************************************************************)
\* When nothing runs there is no fault.
LEMMA IdleSound ==
  ASSUME NEW b, Fixing(b, Idle)
  PROVE  Sound(b)
<1>1. PICK sub : Tree(b, sub)
  BY DEF Fixing
<1>2. Null \notin Places(b) /\ Root(b) \in Places(b) /\ Heads(b) \subseteq Places(b)
  BY <1>1, PlacesOfTree DEF Places
<1>3. LackAt(b, Idle) = Null /\ LackSide(b, Idle) = LEFT
  BY Ops DEF LackAt, LackSide
<1>4. \E bh : Weighted(b, Null, LEFT, bh)
  BY <1>3 DEF Fixing
<1>5. Reds(b, Idle)
  BY DEF Fixing
<1>6. RedsIn(b, {}) /\ ~b[Root(b)].red
  BY <1>2, <1>5, Ops DEF Reds, RedsIn
<1> QED
  BY <1>1, <1>4, <1>6 DEF Sound

\* The heads of a tree are distinct.
LEMMA TreeDistinct ==
  ASSUME NEW b, NEW sub, Tree(b, sub)
  PROVE  Distinct(b) /\ Typed(b)
  BY KeysDiffer DEF Distinct, Tree

\* What a ring insertion leaves.
LEMMA InsertLinks ==
  ASSUME NEW w, Enumerates(t, w), Fixing(t, fixup), NEW n \in Nodes, Insert(n), Place(t, KeyOf[n]).side = RING
  PROVE  /\ Fixing(t', fixup')
         /\ \E i : Split(w, i, KeyOf[n]) /\ Enumerates(t', AsBag!InsertAt(w, i, n))
<1> DEFINE at == Place(t, KeyOf[n]).at
<1>1. PICK sub : Tree(t, sub)
  BY DEF Fixing
<1>2. fixup = Idle /\ n \notin DOMAIN t /\ t' = Link(t, n, at) /\ fixup' = Idle
  BY DEF Insert
<1>3. KeyOf[n] \in Nat
  BY NodesAssumption
<1>4. Spot(t, sub, KeyOf[n], at, RING)
  BY <1>1, <1>3, PlaceSpot
<1>5. at \in Heads(t) /\ KeyOf[at] = KeyOf[n]
  BY <1>1, <1>4, Sides DEF Spot, SpotIn, Tree, Subtrees
<1> HIDE DEF at
<1>6. Distinct(t) /\ Typed(t)
  BY <1>1, TreeDistinct
<1>7. at \in DOMAIN t \ {mHead}
  BY <1>5 DEF Heads
<1>8. t[at].near[LEFT] \in DOMAIN t
  BY <1>7 DEF Enumerates, Rings, Mutual
<1>9. LinkedTo(t, Link(t, n, at), n, at)
  BY <1>2, <1>6, <1>7, <1>8, LinkLinks
<1>10. PICK c : c = Link(t, n, at)
  OBVIOUS
<1>11. LinkedTo(t, c, n, at)
  BY <1>9, <1>10
<1>12. Fixing(c, Idle)
  <2>1. Sound(t)
    BY <1>2, IdleSound
  <2>2. Alike(t, c)
    BY <1>11 DEF LinkedTo
  <2> QED
    BY <2>1, <2>2, AlikeSound, SoundFixing
<1>13. PICK i : Split(w, i, KeyOf[n])
  <2>1. w \in Seq(Nodes) /\ Sorted(w)
    BY <1>6, Listed DEF Enumerates
  <2> QED
    BY <1>3, <2>1, SplitThere
<1>14. Enumerates(c, AsBag!InsertAt(w, i, n))
  <2>1. \A y \in Heads(t), z \in Heads(t) : KeyOf[y] = KeyOf[z] => y = z
    BY <1>6 DEF Distinct
  <2> QED
    BY <2>1, <1>2, <1>5, <1>6, <1>11, <1>13, EnumeratesLinked
<1>15. t' = c
  BY <1>2, <1>10
<1>16. \E j : Split(w, j, KeyOf[n]) /\ Enumerates(c, AsBag!InsertAt(w, j, n))
  BY <1>13, <1>14
<1> QED
  BY <1>2, <1>12, <1>15, <1>16

\* What the insertion of a head leaves.
LEMMA InsertAttaches ==
  ASSUME NEW w, Enumerates(t, w), Fixing(t, fixup), NEW n \in Nodes, Insert(n), Place(t, KeyOf[n]).side # RING
  PROVE  /\ Fixing(t', fixup')
         /\ \E i : Split(w, i, KeyOf[n]) /\ Enumerates(t', AsBag!InsertAt(w, i, n))
<1> DEFINE at == Place(t, KeyOf[n]).at
           s == Place(t, KeyOf[n]).side
<1>1. PICK sub : Tree(t, sub)
  BY DEF Fixing
<1>2. fixup = Idle /\ n \notin DOMAIN t /\ t' = AttachTo(t, n, at, s) /\ fixup' = AtWork("insert", n)
  BY DEF Insert, AtWork
<1>3. KeyOf[n] \in Nat
  BY NodesAssumption
<1>4. Spot(t, sub, KeyOf[n], at, s) /\ s # RING
  BY <1>1, <1>3, PlaceSpot
<1> HIDE DEF at, s
<1>5. Distinct(t) /\ Typed(t) /\ mHead \in DOMAIN t
  BY <1>1, TreeDistinct DEF Typed
<1>6. at \in DOMAIN t /\ s \in Side /\ t[at].child[s] = mHead
  <2>1. CASE Root(t) = mHead /\ at = mHead /\ s = LEFT
    BY <1>5, <2>1, Sides DEF Root
  <2>2. CASE Root(t) # mHead /\ SpotIn(t, sub, KeyOf[n], Root(t), at, s)
    BY <1>1, <1>4, <2>2 DEF SpotIn, Tree, Subtrees, Heads
  <2> QED
    BY <1>4, <2>1, <2>2 DEF Spot
<1>7. PICK c : c = AttachTo(t, n, at, s)
  OBVIOUS
<1>8. Typed(c) /\ AttachedTo(t, c, n, at, s)
  BY <1>2, <1>5, <1>6, <1>7, AttachAttached
<1>9. Sound(t)
  BY <1>2, IdleSound
<1>10. Fixing(c, AtWork("insert", n))
  BY <1>1, <1>2, <1>4, <1>8, <1>9, AttachFixing
<1>11. Heads(c) = Heads(t) \cup {n} /\ at \in Places(t)
  <2>1. n \notin DOMAIN t
    BY <1>2
  <2>2. /\ \E sub1 : Tree(c, sub1)
        /\ Heads(c) = Heads(t) \cup {n} /\ Root(c) = (IF at = mHead THEN n ELSE Root(t))
        /\ at \in Places(t) /\ s \in Side /\ t[at].child[s] = mHead
    BY <1>1, <1>4, <1>8, <2>1, AttachTree
  <2> QED
    BY <2>2
<1>12. \A y \in Heads(c), z \in Heads(c) : KeyOf[y] = KeyOf[z] => y = z
  <2>1. PICK sub1 : Tree(c, sub1)
    BY <1>10 DEF Fixing
  <2> QED
    BY <2>1, KeysDiffer
<1>13. PICK i : Split(w, i, KeyOf[n])
  <2>1. w \in Seq(Nodes) /\ Sorted(w)
    BY <1>5, Listed DEF Enumerates
  <2> QED
    BY <1>3, <2>1, SplitThere
<1>14. Enumerates(c, AsBag!InsertAt(w, i, n))
  BY <1>2, <1>5, <1>8, <1>11, <1>12, <1>13, EnumeratesAttached
<1>15. t' = c
  BY <1>2, <1>7
<1>16. \E j : Split(w, j, KeyOf[n]) /\ Enumerates(c, AsBag!InsertAt(w, j, n))
  BY <1>13, <1>14
<1> QED
  BY <1>2, <1>10, <1>15, <1>16

\* An insertion puts the node behind those of no larger key.
LEMMA InsertStep ==
  ASSUME NEW w, Enumerates(t, w), Fixing(t, fixup), NEW n \in Nodes, Insert(n)
  PROVE  /\ Fixing(t', fixup')
         /\ \E i : Split(w, i, KeyOf[n]) /\ Enumerates(t', AsBag!InsertAt(w, i, n))
  BY InsertLinks, InsertAttaches

\* What an erasure does to the list.
Removed(b, w, n) == \E i \in DOMAIN w : w[i] = n /\ Enumerates(b, AsBag!RemoveAt(w, i))

\* A node that is not a head leaves its ring.
LEMMA EraseUnlinks ==
  ASSUME NEW b, Sound(b), NEW w, Enumerates(b, w), NEW n \in DOMAIN b \ {mHead}, n \notin Heads(b)
  PROVE  Fixing(Unlink(b, n), Idle) /\ Removed(Unlink(b, n), w, n)
<1>1. PICK sub : Tree(b, sub)
  BY DEF Sound
<1>2. Distinct(b) /\ Typed(b)
  BY <1>1, TreeDistinct
<1>3. Rings(b) /\ Lists(b, w)
  BY DEF Enumerates
<1>4. b[n].near[LEFT] \in DOMAIN b /\ b[n].near[RIGHT] \in DOMAIN b
  BY <1>3 DEF Rings, Mutual
<1>5. PICK c : c = Unlink(b, n)
  OBVIOUS
<1>6. PICK d : d = Without(b, n)
  OBVIOUS
<1>7. UnlinkedTo(b, c, n) /\ Alike(d, c)
  BY <1>2, <1>4, <1>5, <1>6, UnlinkUnlinks
<1>8. Alike(b, d)
  <2>1. DOMAIN d = DOMAIN b \ {n} /\ \A y \in DOMAIN d : d[y] = b[y]
    BY <1>6 DEF Without
  <2>2. d \in [DOMAIN d -> Base]
    BY <1>2, <1>6, <2>1 DEF Without, Typed
  <2>3. Typed(d)
    BY <1>2, <2>1, <2>2 DEF Typed
  <2>4. Heads(d) = Heads(b)
    BY <2>1 DEF Heads, IsHead
  <2>5. Places(b) \subseteq DOMAIN d
    BY <1>2, <2>1 DEF Places, Heads, Typed
  <2> QED
    BY <2>1, <2>3, <2>4, <2>5 DEF Alike
<1>9. Sound(c) /\ Heads(c) = Heads(b) /\ Typed(c)
  <2>1. Sound(d)
    BY <1>8, AlikeSound
  <2>2. Sound(c)
    BY <2>1, <1>7, AlikeSound
  <2> QED
    BY <2>2, <1>7, <1>8 DEF Alike
<1>10. Closes(b, c, n) /\ \A y \in DOMAIN c : c[y].child = b[y].child
  BY <1>7 DEF UnlinkedTo, Closes
<1>11. PICK i \in DOMAIN w : w[i] = n
  BY <1>3 DEF Lists
<1>12. Enumerates(c, AsBag!RemoveAt(w, i))
  BY <1>2, <1>9, <1>10, <1>11, EnumeratesUnlinked
<1>13. Removed(c, w, n)
  BY <1>11, <1>12 DEF Removed
<1>14. Fixing(c, Idle)
  BY <1>9, SoundFixing
<1> QED
  BY <1>5, <1>13, <1>14

\* A head with a ring leaves its place to the next.
LEMMA EraseSwitches ==
  ASSUME NEW b, Sound(b), NEW w, Enumerates(b, w), NEW n \in Heads(b), b[n].near[LEFT] # n,
         NEW d, d = SwitchWith(b, b[n].near[RIGHT], n)
  PROVE  Fixing(Unlink(d, n), Idle) /\ Removed(Unlink(d, n), w, n)
<1>1. PICK sub : Tree(b, sub)
  BY DEF Sound
<1>2. Distinct(b) /\ Typed(b)
  BY <1>1, TreeDistinct
<1>3. Rings(b) /\ Lists(b, w)
  BY DEF Enumerates
<1>4. n \in DOMAIN b /\ n # mHead
  BY DEF Heads
<1>5. PICK i \in DOMAIN w : w[i] = n
  BY <1>3, <1>4 DEF Lists
<1>6. PICK r : r = b[n].near[RIGHT]
  OBVIOUS
<1>7. r \in Nodes /\ r \in DOMAIN b /\ r # n /\ r \notin Heads(b) /\ KeyOf[r] = KeyOf[n] /\ r # mHead
  BY <1>2, <1>5, <1>6, NextOfHead
<1>8. Replaces(b, n, r)
  BY <1>7 DEF Replaces
<1>9. Fitting(b, sub, n, r)
  BY <1>1, <1>7 DEF Fitting, Tree, Subtrees
<1>10. Covers(b, b, r)
  BY <1>2, <1>7 DEF Covers
<1>11. PICK c0 : c0 = Without(d, n)
  OBVIOUS
<1>12. d = SwitchWith(b, r, n)
  BY <1>6
<1>13. Typed(c0) /\ Renamed(b, c0, n, r) /\ Beside(b, c0, n, r)
  BY <1>1, <1>8, <1>10, <1>11, <1>12, SwitchRenames
<1>14. Sound(c0)
  BY <1>1, <1>8, <1>9, <1>13, RenamedSound
<1>15. Heads(c0) = (Heads(b) \cup {r}) \ {n}
  BY <1>1, <1>8, <1>13, RenamedPlaces
<1>16. Typed(d) /\ Switches(b, d, n, r)
  <2>1. b[n].child[LEFT] \in Places(b) /\ b[n].child[RIGHT] \in Places(b) /\ b[n].parent \in Places(b)
    BY <1>1, Sides DEF Tree, Links, Places
  <2>2. Places(b) \subseteq DOMAIN b /\ r \notin Places(b)
    BY <1>2, <1>7, HeadsTyped DEF Places
  <2> QED
    BY <1>2, <1>4, <1>7, <1>12, <2>1, <2>2, SwitchSwitches
<1>17. DOMAIN d = DOMAIN b /\ \A y \in DOMAIN b : d[y].near = b[y].near
  BY <1>16, Zenon DEF Switches
<1>18. b[n].near[LEFT] \in DOMAIN b /\ b[n].near[RIGHT] \in DOMAIN b
  BY <1>3, <1>4 DEF Rings, Mutual
<1>19. PICK c : c = Unlink(d, n)
  OBVIOUS
<1>20. UnlinkedTo(d, c, n) /\ Alike(c0, c)
  BY <1>4, <1>11, <1>16, <1>17, <1>18, <1>19, UnlinkUnlinks
<1>21. Sound(c)
  BY <1>14, <1>20, AlikeSound
<1>22. Heads(c) = (Heads(b) \cup {r}) \ {n} /\ Typed(c) /\ Places(c) = Places(c0)
  BY <1>15, <1>20 DEF Alike, Places
<1>23. DOMAIN c = DOMAIN b \ {n} /\ \A y \in DOMAIN c : y \in DOMAIN b
  BY <1>17, <1>20, Zenon DEF UnlinkedTo
<1>24. Closes(b, c, n)
  BY <1>4, <1>17, <1>20, <1>23 DEF UnlinkedTo, Closes
<1>25. ASSUME NEW y \in DOMAIN c \ Places(c) PROVE c[y].child = b[y].child
  <2>1. c[y].child = d[y].child
    BY <1>20, Zenon DEF UnlinkedTo
  <2>2. y \in DOMAIN c0 /\ c0[y] = d[y]
    BY <1>11, <1>17, <1>23 DEF Without
  <2>3. c0[y].child = b[y].child
    BY <1>13, <1>22, <2>2 DEF Beside
  <2> QED
    BY <2>1, <2>2, <2>3
<1>26. Enumerates(c, AsBag!RemoveAt(w, i))
  BY <1>2, <1>5, <1>6, <1>22, <1>24, <1>25, EnumeratesSwitched
<1>27. Removed(c, w, n)
  BY <1>5, <1>26 DEF Removed
<1>28. Fixing(c, Idle)
  BY <1>21, SoundFixing
<1> QED
  BY <1>19, <1>27, <1>28

\* A node that is alone in its ring is a head, and is cut out.
LEMMA EraseCuts ==
  ASSUME NEW b, Sound(b), NEW w, Enumerates(b, w), NEW n \in DOMAIN b \ {mHead}, b[n].near[LEFT] = n,
         NEW r, r = ReplOf(b, n)
  PROVE  /\ Removed(CutOut(b, n), w, n)
         /\ b[r].red => Fixing(CutOut(b, n), Idle)
         /\ ~b[r].red => Fixing(CutOut(b, n), AtWork("erase", b[r].child[CutSide(b, n)]))
<1>1. PICK sub : Tree(b, sub)
  BY DEF Sound
<1>2. Distinct(b) /\ Typed(b)
  BY <1>1, TreeDistinct
<1>3. Rings(b) /\ Lists(b, w) /\ \A j \in DOMAIN w : Pair(b, w[j], After(w, j))
  BY DEF Enumerates
<1>4. PICK i \in DOMAIN w : w[i] = n
  BY <1>3 DEF Lists
<1>5. n \in Heads(b)
  <2>1. Mutual(b, n)
    BY <1>3 DEF Rings
  <2>2. b[n].near[RIGHT] = n
    BY <2>1 DEF Mutual
  <2>3. Pair(b, n, After(w, i))
    BY <1>3, <1>4
  <2>4. After(w, i) # n
    <3>1. Len(w) \in Nat /\ DOMAIN w = 1 .. Len(w) /\ Sorted(w)
      BY <1>2, <1>3, Listed
    <3>2. CASE i < Len(w)
      <4>1. i + 1 \in DOMAIN w /\ i < i + 1 /\ After(w, i) = w[i + 1]
        BY <3>1, <3>2 DEF After
      <4> QED
        BY <1>4, <3>1, <4>1 DEF Sorted
    <3>3. CASE ~(i < Len(w))
      BY <3>3 DEF After
    <3> QED
      BY <3>2, <3>3
  <2> QED
    BY <2>2, <2>3, <2>4 DEF Pair
<1>6. PICK e : e = b[r].child[CutSide(b, n)]
  OBVIOUS
<1>7. CutOutTo(b, CutOut(b, n), n, r, e)
  BY <1>1, <1>5, <1>6, CutOutFixes
<1>8. PICK c : c = CutOut(b, n)
  OBVIOUS
<1>9. CutDone(b, c, n) /\ (b[r].red => Sound(c)) /\ (~b[r].red => Fixing(c, AtWork("erase", e)))
  BY <1>7, <1>8 DEF CutOutTo
<1>10. Enumerates(c, AsBag!RemoveAt(w, i))
  BY <1>2, <1>4, <1>5, <1>9, EnumeratesCut
<1>11. Removed(c, w, n)
  BY <1>4, <1>10 DEF Removed
<1> QED
  BY <1>6, <1>8, <1>9, <1>11, SoundFixing

\* An erasure takes the node out of the list, and moves no other.
LEMMA EraseStep ==
  ASSUME NEW w, Enumerates(t, w), Fixing(t, fixup), NEW n, Erase(n)
  PROVE  Fixing(t', fixup') /\ Removed(t', w, n)
<1>1. fixup = Idle /\ n \in DOMAIN t \ {mHead}
  BY DEF Erase, InTree
<1>2. Sound(t)
  BY <1>1, IdleSound
<1>3. n \in Heads(t) <=> IsHead(t, n)
  BY <1>1 DEF Heads
<1>4. CASE Chained(t, n) /\ ~IsHead(t, n)
  <2>1. t' = Unlink(t, n) /\ fixup' = fixup
    BY <1>4 DEF Erase
  <2> QED
    BY <1>1, <1>2, <1>3, <1>4, <2>1, EraseUnlinks
<1>5. CASE Chained(t, n) /\ IsHead(t, n)
  <2>1. t' = Unlink(SwitchWith(t, t[n].near[RIGHT], n), n) /\ fixup' = fixup
    BY <1>5 DEF Erase
  <2>2. PICK d : d = SwitchWith(t, t[n].near[RIGHT], n)
    OBVIOUS
  <2>3. t[n].near[LEFT] # n /\ n \in Heads(t)
    BY <1>3, <1>5 DEF Chained
  <2> QED
    BY <1>1, <1>2, <2>1, <2>2, <2>3, EraseSwitches
<1>6. CASE ~Chained(t, n)
  <2>1. PICK r : r = ReplOf(t, n)
    OBVIOUS
  <2>2. /\ t' = CutOut(t, n)
        /\ fixup' = IF t[r].red THEN Idle ELSE AtWork("erase", t[r].child[CutSide(t, n)])
    BY <1>6, <2>1 DEF Erase, AtWork
  <2>3. t[n].near[LEFT] = n
    BY <1>6 DEF Chained
  <2>4. /\ Removed(CutOut(t, n), w, n)
        /\ t[r].red => Fixing(CutOut(t, n), Idle)
        /\ ~t[r].red => Fixing(CutOut(t, n), AtWork("erase", t[r].child[CutSide(t, n)]))
    BY <1>1, <1>2, <2>1, <2>3, EraseCuts
  <2> QED
    BY <2>2, <2>4
<1> QED
  BY <1>4, <1>5, <1>6

\* What holds at every step: a search tree whose only fault is the one a loop works on, and
\* a list of its nodes.
IInv == Fixing(t, fixup) /\ \E w : Enumerates(t, w)

\* The empty tree.
LEMMA InitInv ==
  ASSUME Init
  PROVE  IInv
<1> DEFINE m == NodeBase(Both(mHead), Both(mHead), mHead, LEFT, FALSE)
           sub == [x \in {mHead} |-> {}]
           bh == [x \in {mHead} |-> 1]
<1>1. t = [x \in {mHead} |-> m] /\ fixup = Idle
  BY DEF Init
<1>2. m \in Base /\ m.child = Both(mHead) /\ m.near = Both(mHead) /\ m.parent = mHead /\ m.side = LEFT /\ ~m.red
  BY Sides DEF NodeBase, Base, Both
<1> HIDE DEF m
<1>3. DOMAIN t = {mHead} /\ t[mHead] = m /\ t \in [{mHead} -> Base]
  BY <1>1, <1>2
<1>4. Typed(t)
  BY <1>3 DEF Typed
<1>5. Heads(t) = {} /\ Places(t) = {mHead}
  BY <1>3 DEF Heads, Places
<1>6. /\ \A s \in Side : t[mHead].child[s] = mHead /\ t[mHead].near[s] = mHead
      /\ Root(t) = mHead /\ ~t[mHead].red
  BY <1>2, <1>3, Sides DEF Both, Root
<1>7. Tree(t, sub)
  <2>1. Links(t)
    BY <1>5, <1>6, Sides DEF Links
  <2>2. sub \in [{mHead} -> SUBSET {}] /\ sub[mHead] = {}
    OBVIOUS
  <2> HIDE DEF sub
  <2>3. Subtrees(t, sub)
    BY <1>5, <1>6, <2>2 DEF Subtrees
  <2> QED
    BY <1>4, <1>5, <2>1, <2>3, FS_EmptySet DEF Tree
<1>8. Weighted(t, Null, LEFT, bh)
  BY <1>5 DEF Weighted
<1>9. RedsIn(t, {}) /\ ~t[Root(t)].red
  BY <1>5, <1>6 DEF RedsIn
<1>10. Sound(t)
  BY <1>7, <1>8, <1>9 DEF Sound
<1>11. Enumerates(t, <<>>)
  <2>1. Rings(t)
    BY <1>3, <1>5, <1>6, Sides DEF Rings, Mutual
  <2>2. Lists(t, <<>>)
    BY <1>3 DEF Lists, Sorted
  <2> QED
    BY <2>1, <2>2 DEF Enumerates
<1> QED
  BY <1>1, <1>10, <1>11, SoundFixing DEF IInv

\* A turn of a loop leaves the list.
LEMMA TurnStep ==
  ASSUME NEW w, Enumerates(t, w), Fixing(t, fixup), InsertFixup \/ InsertDone \/ EraseFixup \/ EraseDone
  PROVE  Fixing(t', fixup') /\ Enumerates(t', w)
<1>1. Fixing(t', fixup') /\ Kept(t, t')
  <2>1. CASE InsertFixup
    BY <2>1, InsertFixupFixes
  <2>2. CASE InsertDone
    <3>1. Sound(t') /\ Kept(t, t') /\ fixup' = Idle
      BY <2>2, InsertDoneSound
    <3>2. PICK c : c = t'
      OBVIOUS
    <3>3. Fixing(c, Idle)
      BY <3>1, <3>2, SoundFixing
    <3> QED
      BY <3>1, <3>2, <3>3
  <2>3. CASE EraseFixup
    BY <2>3, EraseFixupFixes DEF TurnedTo
  <2>4. CASE EraseDone
    <3>1. Sound(t') /\ Kept(t, t') /\ fixup' = Idle
      BY <2>4, EraseDoneSound
    <3>2. PICK c : c = t'
      OBVIOUS
    <3>3. Fixing(c, Idle)
      BY <3>1, <3>2, SoundFixing
    <3> QED
      BY <3>1, <3>2, <3>3
  <2> QED
    BY <2>1, <2>2, <2>3, <2>4
<1>2. Typed(t)
  BY DEF Fixing, Tree
<1>3. PICK c : c = t'
  OBVIOUS
<1>4. Enumerates(c, w)
  BY <1>1, <1>2, <1>3, EnumeratesKept
<1> QED
  BY <1>1, <1>3, <1>4

\* Every step keeps the invariant.
LEMMA NextInv ==
  ASSUME IInv, [Next]_vars
  PROVE  IInv'
<1>1. PICK w : Enumerates(t, w)
  BY DEF IInv
<1>2. Fixing(t, fixup)
  BY DEF IInv
<1>3. ASSUME NEW n \in Nodes, Insert(n) PROVE IInv'
  <2>1. /\ Fixing(t', fixup')
        /\ \E i : Split(w, i, KeyOf[n]) /\ Enumerates(t', AsBag!InsertAt(w, i, n))
    BY <1>1, <1>2, <1>3, InsertStep
  <2> QED
    BY <2>1, Zenon DEF IInv
<1>4. ASSUME NEW n \in Nodes, Erase(n) PROVE IInv'
  <2>1. Fixing(t', fixup') /\ \E i \in DOMAIN w : w[i] = n /\ Enumerates(t', AsBag!RemoveAt(w, i))
    BY <1>1, <1>2, <1>4, EraseStep DEF Removed
  <2> QED
    BY <2>1, Zenon DEF IInv
<1>5. CASE InsertFixup \/ InsertDone \/ EraseFixup \/ EraseDone
  <2>1. Fixing(t', fixup') /\ Enumerates(t', w)
    BY <1>1, <1>2, <1>5, TurnStep
  <2> QED
    BY <2>1, Zenon DEF IInv
<1>6. CASE UNCHANGED vars
  <2>1. t' = t /\ fixup' = fixup
    BY <1>6 DEF vars
  <2> QED
    BY <2>1, <1>1, <1>2, Zenon DEF IInv
<1> QED
  BY <1>3, <1>4, <1>5, <1>6 DEF Next

\* The tree is a search tree with at most the one fault its loop works on, and its rings
\* follow a sorted list of its nodes, whatever is inserted and erased.
THEOREM InvHolds == Spec => []IInv
<1> QED
  BY InitInv, NextInv, PTL DEF Spec

-----------------------------------------------------------------------------
\* The invariant gives the types.
LEMMA InvTypeOK ==
  ASSUME IInv
  PROVE  TypeOK
<1>1. PICK w : Enumerates(t, w)
  BY DEF IInv
<1>2. PICK sub : Tree(t, sub)
  BY DEF IInv, Fixing
<1>3. /\ Typed(t) /\ Places(t) \subseteq DOMAIN t /\ mHead \in DOMAIN t /\ DOMAIN t \subseteq Nodes \cup {mHead}
      /\ \A y \in Places(t), q \in Side : Down(t, y, q)
  BY <1>2, PlacesOfTree DEF Typed
<1>4. Rings(t)
  BY <1>1 DEF Enumerates
<1>5. ASSUME NEW x \in DOMAIN t
      PROVE  /\ t[x].child \in [Side -> DOMAIN t \cup {Null}] /\ t[x].near \in [Side -> DOMAIN t]
             /\ t[x].side \in Side /\ t[x].red \in BOOLEAN
  <2>1. t[x] \in Base
    BY <1>3 DEF Typed
  <2>2. /\ t[x].child \in [Side -> Nodes \cup {mHead, Null}] /\ t[x].near \in [Side -> Nodes \cup {mHead}]
        /\ t[x].side \in Side /\ t[x].red \in BOOLEAN
    BY <2>1 DEF Base
  <2>3. t[x].near[LEFT] \in DOMAIN t /\ t[x].near[RIGHT] \in DOMAIN t
    BY <1>4 DEF Rings, Mutual
  <2>4. t[x].near \in [Side -> DOMAIN t]
    BY <2>2, <2>3 DEF Side
  <2>5. \A s \in Side : t[x].child[s] \in DOMAIN t \cup {Null}
    <3>1. CASE x \in Places(t)
      BY <1>3, <3>1 DEF Down
    <3>2. CASE x \notin Places(t)
      BY <1>4, <3>2 DEF Rings, Both
    <3> QED
      BY <3>1, <3>2
  <2> QED
    BY <2>2, <2>4, <2>5
<1>6. fixup = Idle \/ (fixup.op \in {"insert", "erase"} /\ fixup.cur \in DOMAIN t)
  <2>1. Fits(t, fixup) /\ Heads(t) \subseteq DOMAIN t
    BY DEF IInv, Fixing, Heads
  <2> QED
    BY <1>3, <2>1, Ops DEF Fits
<1> QED
  BY <1>3, <1>5, <1>6 DEF TypeOK, InTree

\* And that the links of the tree and of the rings agree.
LEMMA InvLinked ==
  ASSUME IInv
  PROVE  Linked
<1>1. PICK w : Enumerates(t, w)
  BY DEF IInv
<1>2. PICK sub : Tree(t, sub)
  BY DEF IInv, Fixing
<1>3. Distinct(t) /\ Typed(t)
  BY <1>2, TreeDistinct
<1>4. Rings(t) /\ Lists(t, w) /\ \A j \in DOMAIN w : Pair(t, w[j], After(w, j))
  BY <1>1 DEF Enumerates
<1>5. t[mHead].child[RIGHT] = mHead /\ ~t[mHead].red /\ ~Chained(t, mHead)
  BY <1>2, <1>4 DEF Tree, Links, Rings, Chained
<1>6. ASSUME NEW x \in Heads(t)
      PROVE  /\ t[x].parent \in Heads(t) \cup {mHead} /\ t[t[x].parent].child[t[x].side] = x
             /\ \A s \in Side : t[x].child[s] \in (Heads(t) \ {x}) \cup {mHead}
  <2>1. t[x].parent \in Places(t) /\ t[t[x].parent].child[t[x].side] = x
    BY <1>2 DEF Tree, Links
  <2>2. ASSUME NEW s \in Side PROVE t[x].child[s] \in (Heads(t) \ {x}) \cup {mHead}
    <3>1. t[x].child[s] \in Places(t) /\ x \in sub[x] /\ x \notin sub[t[x].child[s]]
      BY <1>2, SubBelow
    <3> QED
      BY <3>1 DEF Places
  <2> QED
    BY <2>1, <2>2 DEF Places
<1>7. ASSUME NEW x \in InTree
      PROVE  /\ t[t[x].near[RIGHT]].near[LEFT] = x /\ KeyOf[t[x].near[RIGHT]] = KeyOf[x]
             /\ \E h \in Heads(t) : KeyOf[h] = KeyOf[x]
  <2>1. x \in DOMAIN t \ {mHead}
    BY DEF InTree
  <2>2. t[t[x].near[RIGHT]].near[LEFT] = x /\ \E h \in Heads(t) : KeyOf[h] = KeyOf[x]
    BY <1>4, <2>1 DEF Rings, Mutual
  <2>3. PICK j \in DOMAIN w : w[j] = x
    BY <1>4, <2>1 DEF Lists
  <2>4. Pair(t, x, After(w, j))
    BY <1>4, <2>3
  <2>5. KeyOf[t[x].near[RIGHT]] = KeyOf[x]
    BY <2>4 DEF Pair
  <2> QED
    BY <2>2, <2>5
<1>8. \A x, y \in Heads(t) : KeyOf[x] = KeyOf[y] => x = y
  BY <1>3 DEF Distinct
<1> QED
  BY <1>5, <1>6, <1>7, <1>8 DEF Linked

\* The tree, its rings and its sentinel are consistent at every turn.
THEOREM ConsistentHolds == Spec => []Consistent
<1>1. IInv => Consistent
  BY InvTypeOK, InvLinked DEF Consistent
<1> QED
  BY <1>1, InvHolds, PTL

-----------------------------------------------------------------------------
(***************************************************************************)
(* The colours.                                                            *)
(***************************************************************************)
\* What erase_fixup counts more at a place is what the paths there lack.
LEMMA ExtraLacks ==
  ASSUME Fixing(t, fixup), NEW x \in Heads(t), NEW q \in Side
  PROVE  Extra(t[x].child[q], x, q) = At(LackAt(t, fixup), LackSide(t, fixup), x, q)
<1> DEFINE c == t[x].child[q]
           cur == fixup.cur
<1>1. PICK sub : Tree(t, sub)
  BY DEF Fixing
<1>2. Null \notin Places(t) /\ x \in Places(t) /\ Down(t, x, q) /\ x # Null
  BY <1>1, PlacesOfTree DEF Places
<1>3. CASE fixup.op # "erase"
  <2>1. LackAt(t, fixup) = Null
    BY <1>3 DEF LackAt
  <2> QED
    BY <1>2, <1>3, <2>1 DEF Extra, At
<1>4. CASE fixup.op = "erase"
  <2>1. Fits(t, fixup)
    BY DEF Fixing
  <2>2. /\ t[t[cur].parent].child[t[cur].side] = cur
        /\ LackAt(t, fixup) = t[cur].parent /\ LackSide(t, fixup) = t[cur].side
    BY <1>4, <2>1, FitsErase
  <2>3. c # mHead => t[c].parent = x /\ t[c].side = q
    BY <1>2 DEF Down
  <2> HIDE DEF c, cur
  <2>4. (cur = c /\ (c = mHead => t[mHead].parent = x /\ t[mHead].side = q)) <=> (t[cur].parent = x /\ t[cur].side = q)
    BY <2>2, <2>3 DEF c
  <2> QED
    BY <1>4, <2>2, <2>4 DEF Extra, At, c, cur
<1> QED
  BY <1>3, <1>4

\* The recursion of Weights, and what it is at a place.
Below(h, x, s) ==
  Extra(t[x].child[s], x, s) + (IF t[x].child[s] = mHead THEN 1 ELSE h[t[x].child[s]])
Weigh(h) ==
  h = [x \in Heads(t) |-> IF Below(h, x, LEFT) = Below(h, x, RIGHT) /\ Below(h, x, LEFT) > 0
                          THEN Below(h, x, LEFT) + IsBlack(x) ELSE 0]

\* What Weights says are the counts of black nodes.
LEMMA WeightsCount ==
  ASSUME Fixing(t, fixup)
  PROVE  \A x \in Heads(t) : Weights[x] > 0
<1> DEFINE p == LackAt(t, fixup)
           s == LackSide(t, fixup)
           H == Heads(t)
<1>1. PICK sub : Tree(t, sub)
  BY DEF Fixing
<1>2. PICK bh : Weighted(t, p, s, bh)
  BY DEF Fixing
<1>3. /\ bh \in [Places(t) -> Nat \ {0}] /\ bh[mHead] = 1
      /\ \A x \in H, q \in Side : bh[x] = Blk(t, x) + At(p, s, x, q) + bh[t[x].child[q]]
  BY <1>2 DEF Weighted, Weighs
<1>4. \A x \in H, q \in Side : Extra(t[x].child[q], x, q) = At(p, s, x, q)
  BY ExtraLacks
<1>5. \A x \in H, q \in Side : t[x].child[q] \in Places(t) /\ At(p, s, x, q) \in Nat
  BY <1>1, PlacesOfTree DEF Down, Places, At
<1>6. \A x \in H : bh[x] \in Nat \ {0} /\ Blk(t, x) \in Nat /\ IsBlack(x) = Blk(t, x)
  BY <1>3 DEF Places, Blk, IsBlack
<1> HIDE DEF p, s, H
<1>7. ASSUME NEW h, NEW x \in H, \A q \in Side : t[x].child[q] # mHead => h[t[x].child[q]] = bh[t[x].child[q]]
      PROVE  bh[x] = IF Below(h, x, LEFT) = Below(h, x, RIGHT) /\ Below(h, x, LEFT) > 0
                     THEN Below(h, x, LEFT) + IsBlack(x) ELSE 0
  <2>1. ASSUME NEW q \in Side PROVE Below(h, x, q) = At(p, s, x, q) + bh[t[x].child[q]] /\ bh[t[x].child[q]] \in Nat \ {0}
    <3>1. bh[t[x].child[q]] \in Nat \ {0}
      BY <1>3, <1>5
    <3>2. CASE t[x].child[q] = mHead
      BY <1>3, <1>4, <3>1, <3>2 DEF Below
    <3>3. CASE t[x].child[q] # mHead
      BY <1>4, <1>7, <3>1, <3>3 DEF Below
    <3> QED
      BY <3>1, <3>2, <3>3
  <2>2. ASSUME NEW q \in Side PROVE Below(h, x, q) > 0 /\ Below(h, x, q) \in Nat /\ bh[x] = Below(h, x, q) + IsBlack(x)
    <3>1. bh[x] = Blk(t, x) + At(p, s, x, q) + bh[t[x].child[q]]
      BY <1>3
    <3> QED
      BY <1>5, <1>6, <2>1, <3>1
  <2> QED
    BY <1>6, <2>2, Sides
<1>8. Weigh([x \in H |-> bh[x]])
  <2> DEFINE h == [x \in H |-> bh[x]]
  <2>1. \A x \in H, q \in Side : t[x].child[q] # mHead => h[t[x].child[q]] = bh[t[x].child[q]]
    BY <1>5 DEF Places, H
  <2>2. h = [x \in H |-> h[x]] /\ \A x \in H : h[x] = bh[x]
    OBVIOUS
  <2> HIDE DEF h
  <2>3. \A x \in H : h[x] = IF Below(h, x, LEFT) = Below(h, x, RIGHT) /\ Below(h, x, LEFT) > 0
                            THEN Below(h, x, LEFT) + IsBlack(x) ELSE 0
    BY <1>7, <2>1, <2>2
  <2>4. Weigh(h)
    BY <2>2, <2>3 DEF Weigh, H
  <2> QED
    BY <2>4 DEF h
<1>9. Weights = CHOOSE h : Weigh(h)
  BY Zenon DEF Weights, Weigh, Below
<1>10. Weigh(Weights)
  BY <1>8, <1>9, Zenon
<1>11. \A x \in H : Weights[x] = IF Below(Weights, x, LEFT) = Below(Weights, x, RIGHT) /\ Below(Weights, x, LEFT) > 0
                                 THEN Below(Weights, x, LEFT) + IsBlack(x) ELSE 0
  <2>1. PICK h : h = Weights
    OBVIOUS
  <2>2. Weigh(h)
    BY <1>10, <2>1
  <2>3. \A x \in H : h[x] = IF Below(h, x, LEFT) = Below(h, x, RIGHT) /\ Below(h, x, LEFT) > 0
                            THEN Below(h, x, LEFT) + IsBlack(x) ELSE 0
    BY <2>2 DEF Weigh, H
  <2> QED
    BY <2>1, <2>3
<1> DEFINE G == {x \in H : Weights[x] = bh[x]}
<1>12. \A x \in H : (\A q \in Side : t[x].child[q] # mHead => t[x].child[q] \in G) => x \in G
  <2> SUFFICES ASSUME NEW x \in H, \A q \in Side : t[x].child[q] # mHead => t[x].child[q] \in G PROVE x \in G
    OBVIOUS
  <2>1. \A q \in Side : t[x].child[q] # mHead => Weights[t[x].child[q]] = bh[t[x].child[q]]
    OBVIOUS
  <2>2. bh[x] = IF Below(Weights, x, LEFT) = Below(Weights, x, RIGHT) /\ Below(Weights, x, LEFT) > 0
                THEN Below(Weights, x, LEFT) + IsBlack(x) ELSE 0
    BY <1>7, <2>1
  <2> QED
    BY <1>11, <2>2
<1> HIDE DEF G
<1>13. H \subseteq G
  <2>1. H = Heads(t)
    BY DEF H
  <2> QED
    BY <1>1, <1>12, <2>1, TreeInduction
<1>14. \A x \in H : Weights[x] = bh[x]
  BY <1>13 DEF G
<1> QED
  BY <1>6, <1>14 DEF H

\* All paths have the same number of black nodes, and the only fault is where a loop is.
THEOREM RedBlackHolds == Spec => []RedBlack
<1>1. ASSUME IInv PROVE RedBlack
  <2>1. Fixing(t, fixup)
    BY <1>1 DEF IInv
  <2>2. PICK sub : Tree(t, sub)
    BY <2>1 DEF Fixing
  <2>3. Root(t) # mHead => Weights[Root(t)] > 0
    <3>1. Root(t) # mHead => Root(t) \in Heads(t)
      BY <2>2, PlacesOfTree DEF Places
    <3> QED
      BY <2>1, <3>1, WeightsCount
  <2>4. Reds(t, fixup)
    BY <2>1 DEF Fixing
  <2> QED
    BY <2>3, <2>4 DEF RedBlack, Reds
<1> QED
  BY <1>1, InvHolds, PTL

-----------------------------------------------------------------------------
(***************************************************************************)
(* How deep the loops are.                                                 *)
(***************************************************************************)
\* The recursion of DepthOf.
Deepens(b, h) == h = [y \in Heads(b) |-> IF y = Root(b) THEN 1 ELSE 1 + h[b[y].parent]]

\* d is a depth: one more than that of the parent.
Depths(b, d) ==
  d \in [Heads(b) -> Nat] /\ \A y \in Heads(b) : d[y] = IF y = Root(b) THEN 1 ELSE 1 + d[b[y].parent]

\* There is one.
LEMMA DepthsExist ==
  ASSUME NEW b, NEW sub, Tree(b, sub)
  PROVE  \E d : Depths(b, d)
<1> DEFINE H == Heads(b)
           rest == RestOf(b, sub)
           N == Cardinality(H)
           step == [x \in H |-> [g \in [H -> Nat] |-> IF x = Root(b) THEN 1 ELSE 1 + g[b[x].parent]]]
<1>1. /\ N \in Nat /\ rest \in [H -> 0 .. N]
      /\ \A x \in H : b[x].parent # mHead => b[x].parent \in H /\ rest[b[x].parent] < rest[x]
  BY SizesFall
<1>2. \A x \in H : b[x].parent = mHead => x = Root(b)
  BY PlacesOfTree
<1>3. step \in [H -> [[H -> Nat] -> Nat]]
  BY <1>1, <1>2
<1>4. LooksDown(H, rest, Nat, step)
  BY <1>1, <1>2 DEF LooksDown
<1>5. Steps(H, N, rest, Nat, 0, step)
  BY <1>1, <1>3, <1>4 DEF Steps
<1>6. PICK g : Solves(g, H, Nat, step)
  <2> HIDE DEF H, N, rest, step
  <2> QED
    BY <1>5, RecursionOverRank
<1>7. g \in [H -> Nat] /\ \A x \in H : g[x] = step[x][g]
  BY <1>6, Zenon DEF Solves
<1>8. Depths(b, g)
  BY <1>7 DEF Depths
<1> QED
  BY <1>8

\* And it is what DepthOf computes.
LEMMA DepthOfDepths ==
  ASSUME NEW b, NEW sub, Tree(b, sub), NEW d, Depths(b, d)
  PROVE  /\ \A y \in Heads(b) : DepthOf(b, y) = d[y]
         /\ \A y : y # Root(b) /\ b[y].parent \in Heads(b) => DepthOf(b, y) = 1 + d[b[y].parent]
<1> DEFINE H == Heads(b)
           impl == CHOOSE h : Deepens(b, h)
           G == {y \in H : impl[y] = d[y]}
<1>1. d \in [H -> Nat] /\ \A y \in H : d[y] = IF y = Root(b) THEN 1 ELSE 1 + d[b[y].parent]
  BY DEF Depths
<1>2. Deepens(b, d)
  BY <1>1 DEF Deepens
<1>3. Deepens(b, impl)
  BY <1>2, Zenon
<1>4. \A x : DepthOf(b, x) = IF x = Root(b) THEN 1 ELSE 1 + impl[b[x].parent]
  BY Zenon DEF DepthOf, Deepens
<1> HIDE DEF impl
<1>5. \A y \in H : impl[y] = IF y = Root(b) THEN 1 ELSE 1 + impl[b[y].parent]
  BY <1>3 DEF Deepens
<1>6. \A y \in H : b[y].parent \in Places(b) /\ (b[y].parent = mHead => y = Root(b))
  BY PlacesOfTree
<1>7. \A y \in Places(b), q \in Side : Down(b, y, q)
  BY PlacesOfTree
<1>8. H \subseteq G
  <2>1. Root(b) # mHead => Root(b) \in G
    <3>1. Root(b) # mHead => Root(b) \in H
      BY PlacesOfTree DEF Places
    <3> QED
      BY <1>1, <1>5, <3>1
  <2>2. ASSUME NEW x \in H \cap G, NEW s \in Side, b[x].child[s] # mHead PROVE b[x].child[s] \in G
    <3> DEFINE c == b[x].child[s]
    <3>1. c \in H /\ b[c].parent = x
      BY <1>7, <2>2 DEF Down, Places
    <3> QED
      BY <1>1, <1>5, <2>2, <3>1
  <2> HIDE DEF G
  <2> QED
    BY <2>1, <2>2, RootInduction
<1>9. \A y \in H : impl[y] = d[y]
  BY <1>8
<1> QED
  BY <1>1, <1>4, <1>5, <1>6, <1>9 DEF Places

\* The depth is that of the shape.
LEMMA DepthsKept ==
  ASSUME NEW b, NEW sub, Tree(b, sub), NEW c, SameShape(b, c), Heads(c) = Heads(b), NEW d, Depths(b, d)
  PROVE  Depths(c, d)
<1>1. Heads(b) \subseteq DOMAIN b /\ mHead \in DOMAIN b
  BY PlacesOfTree DEF Tree, Typed
<1>2. Root(c) = Root(b) /\ \A y \in Heads(b) : c[y].parent = b[y].parent
  BY <1>1 DEF SameShape, Root
<1> QED
  BY <1>2 DEF Depths

-----------------------------------------------------------------------------
\* What the turns have in common.
LEMMA TurnRises ==
  ASSUME NEW b, NEW f, Fixing(b, f), NEW c, NEW g, Fixing(c, g), Kept(b, c), Running(c, g),
         \/ UpTwo(b, f, c, g)
         \/ SameShape(b, c) /\ g.cur = b[f.cur].parent /\ g.cur \in Heads(b) /\ f.cur # Root(b)
  PROVE  DepthOf(c, g.cur) < DepthOf(b, f.cur)
<1>1. PICK sub : Tree(b, sub)
  BY DEF Fixing
<1>2. PICK sub1 : Tree(c, sub1)
  BY DEF Fixing
<1>3. PICK d : Depths(b, d)
  BY <1>1, DepthsExist
<1>4. SameShape(b, c) /\ Heads(c) = Heads(b) /\ g.cur \in Heads(b)
  BY DEF UpTwo, Kept
<1>5. Depths(c, d)
  BY <1>1, <1>3, <1>4, DepthsKept
<1>6. DepthOf(c, g.cur) = d[g.cur]
  BY <1>2, <1>4, <1>5, DepthOfDepths
<1>7. /\ \A y \in Heads(b) : DepthOf(b, y) = d[y]
      /\ \A y : y # Root(b) /\ b[y].parent \in Heads(b) => DepthOf(b, y) = 1 + d[b[y].parent]
  BY <1>1, <1>3, DepthOfDepths
<1>8. /\ \A y \in Heads(b) : d[y] \in Nat
      /\ \A y \in Heads(b) : d[y] = IF y = Root(b) THEN 1 ELSE 1 + d[b[y].parent]
  BY <1>3 DEF Depths
<1>9. mHead \notin Heads(b) /\ (Root(b) # mHead => b[Root(b)].parent = mHead)
  BY <1>1, PlacesOfTree
<1>10. CASE UpTwo(b, f, c, g)
  <2>1. /\ g.cur = b[b[f.cur].parent].parent
        /\ f.cur \in Heads(b) /\ b[f.cur].parent \in Heads(b) /\ g.cur \in Heads(b)
    BY <1>10 DEF UpTwo
  <2>2. f.cur # Root(b) /\ b[f.cur].parent # Root(b)
    BY <1>9, <2>1
  <2>3. d[f.cur] = 1 + d[b[f.cur].parent] /\ d[b[f.cur].parent] = 1 + d[g.cur]
    BY <1>8, <2>1, <2>2
  <2>4. DepthOf(b, f.cur) = d[f.cur] /\ d[g.cur] \in Nat
    BY <1>7, <1>8, <2>1
  <2> QED
    BY <1>6, <2>3, <2>4
<1>11. CASE ~UpTwo(b, f, c, g)
  <2>1. f.cur # Root(b) /\ b[f.cur].parent \in Heads(b) /\ g.cur = b[f.cur].parent
    BY <1>11
  <2>2. DepthOf(b, f.cur) = 1 + d[g.cur] /\ d[g.cur] \in Nat
    BY <1>7, <1>8, <2>1
  <2> QED
    BY <1>6, <2>2
<1> QED
  BY <1>10, <1>11

\* After a turn that another follows, the loop is higher in the tree.
LEMMA NextRises ==
  ASSUME IInv, Next, fixup # Idle, Running(t', fixup')
  PROVE  DepthOf(t', fixup'.cur) < DepthOf(t, fixup.cur)
<1>1. Fixing(t, fixup)
  BY DEF IInv
<1>2. ~Running(t', Idle)
  BY Ops DEF Running
<1>3. InsertFixup \/ EraseFixup
  BY <1>2 DEF Next, Insert, Erase, InsertDone, EraseDone
<1>4. CASE InsertFixup
  <2>1. Fixing(t', fixup') /\ Kept(t, t') /\ UpTwo(t, fixup, t', fixup')
    BY <1>1, <1>4, InsertFixupFixes
  <2>3. PICK c, g : c = t' /\ g = fixup'
    OBVIOUS
  <2>4. UpTwo(t, fixup, c, g) /\ Fixing(c, g) /\ Kept(t, c) /\ Running(c, g)
    BY <2>1, <2>3
  <2>5. DepthOf(c, g.cur) < DepthOf(t, fixup.cur)
    BY <1>1, <2>4, TurnRises
  <2> QED
    BY <2>3, <2>5
<1>5. CASE EraseFixup
  <2>1. TurnedTo(t, fixup, t', fixup')
    BY <1>1, <1>5, EraseFixupFixes
  <2>2. PICK c, g : c = t' /\ g = fixup'
    OBVIOUS
  <2>3. TurnedTo(t, fixup, c, g) /\ Running(c, g)
    BY <2>1, <2>2
  <2>4. SameShape(t, c) /\ g.cur = t[fixup.cur].parent /\ Fixing(c, g) /\ Kept(t, c)
    BY <2>3 DEF TurnedTo
  <2>5. fixup.op = "erase" /\ fixup.cur # Root(t)
    BY <1>5, Zenon DEF EraseFixup, Lacking
  <2>6. g.cur \in Heads(t)
    <3>1. Fits(t, fixup)
      BY <1>1 DEF Fixing
    <3> QED
      BY <2>4, <2>5, <3>1, FitsErase
  <2>7. DepthOf(c, g.cur) < DepthOf(t, fixup.cur)
    BY <1>1, <2>3, <2>4, <2>5, <2>6, TurnRises
  <2> QED
    BY <2>2, <2>7
<1> QED
  BY <1>3, <1>4, <1>5

\* The loops come to their ends.
THEOREM TurnsEndHolds == Spec => TurnsEnd
<1> DEFINE A == fixup # Idle /\ Running(t', fixup') => DepthOf(t', fixup'.cur) < DepthOf(t, fixup.cur)
<1>1. IInv /\ [Next]_vars => [A]_vars
  BY NextRises
<1>2. TurnsEnd <=> [][A]_vars
  BY DEF TurnsEnd
<1> HIDE DEF A
<1> QED
  BY <1>1, <1>2, InvHolds, PTL DEF Spec

-----------------------------------------------------------------------------
(***************************************************************************)
(* The searches.                                                           *)
(***************************************************************************)
\* The recursion of Bound.
Searches(b, A, h) ==
  h = [y \in Heads(b) \cup {mHead} |->
         [found \in Heads(b) \cup {mHead} |->
            CASE y = mHead -> found
              [] y # mHead /\ y \in A -> h[b[y].child[LEFT]][y]
              [] OTHER -> h[b[y].child[RIGHT]][found]]]

\* x has the least key of S, or there is none in S, and x is found.
LeastOf(x, S) == x \in S /\ \A z \in S : KeyOf[x] <= KeyOf[z]
Finds(x, S, found) == IF S = {} THEN x = found ELSE LeastOf(x, S)
Chosen(S, found) == CHOOSE x : Finds(x, S, found)

\* The nodes above some key.
Upper(b, A) == \A x \in Heads(b) \cap A, y \in Heads(b) : KeyOf[x] < KeyOf[y] => y \in A

\* What is found below y is found by one step to the left, or to the right.
LEMMA FindsStep ==
  ASSUME NEW b, NEW sub, Tree(b, sub), NEW A, Upper(b, A), NEW y \in Heads(b), NEW x, NEW found
  PROVE  /\ y \in A => (Finds(x, A \cap sub[b[y].child[LEFT]], y) => Finds(x, A \cap sub[y], found))
         /\ y \notin A => (Finds(x, A \cap sub[b[y].child[RIGHT]], found) => Finds(x, A \cap sub[y], found))
<1> DEFINE l == b[y].child[LEFT]
           r == b[y].child[RIGHT]
<1>1. sub[y] = {y} \cup sub[l] \cup sub[r] /\ sub[y] \subseteq Heads(b)
  BY Sides, SubBelow
<1>2. /\ \A z \in sub[l] : KeyOf[z] < KeyOf[y]
      /\ \A z \in sub[r] : KeyOf[z] > KeyOf[y]
  BY Sides DEF Tree, Subtrees, Beyond
<1>3. \A z \in Heads(b) : KeyOf[z] \in Nat
  BY HeadsTyped DEF Tree
<1> HIDE DEF l, r
<1>4. ASSUME y \in A, Finds(x, A \cap sub[l], y) PROVE Finds(x, A \cap sub[y], found)
  <2>1. y \in A \cap sub[y]
    BY <1>1, <1>4
  <2>2. LeastOf(x, A \cap sub[y])
    <3>1. CASE A \cap sub[l] = {}
      <4>1. x = y
        BY <1>4, <3>1 DEF Finds
      <4>2. \A z \in A \cap sub[y] : KeyOf[y] <= KeyOf[z]
        BY <1>1, <1>2, <1>3, <3>1
      <4> QED
        BY <2>1, <4>1, <4>2 DEF LeastOf
    <3>2. CASE A \cap sub[l] # {}
      <4>1. x \in A \cap sub[l] /\ \A z \in A \cap sub[l] : KeyOf[x] <= KeyOf[z]
        BY <1>4, <3>2 DEF Finds, LeastOf
      <4>2. \A z \in A \cap sub[y] : KeyOf[x] <= KeyOf[z]
        BY <1>1, <1>2, <1>3, <4>1
      <4> QED
        BY <1>1, <4>1, <4>2 DEF LeastOf
    <3> QED
      BY <3>1, <3>2
  <2> QED
    BY <2>1, <2>2 DEF Finds
<1>5. y \notin A => A \cap sub[y] = A \cap sub[r]
  <2>1. y \notin A => A \cap sub[l] = {}
    BY <1>1, <1>2 DEF Upper
  <2> QED
    BY <1>1, <2>1
<1>6. y \notin A => (Finds(x, A \cap sub[r], found) => Finds(x, A \cap sub[y], found))
  BY <1>5
<1> QED
  BY <1>4, <1>6 DEF l, r

\* There is no more than one.
LEMMA FindsOne ==
  ASSUME NEW b, NEW sub, Tree(b, sub), NEW S \in SUBSET Heads(b), NEW found, NEW x, NEW y,
         Finds(x, S, found), Finds(y, S, found)
  PROVE  x = y
<1>1. \A z \in Heads(b) : KeyOf[z] \in Nat
  BY HeadsTyped DEF Tree
<1>2. CASE S = {}
  BY <1>2 DEF Finds
<1>3. CASE S # {}
  <2>1. x \in Heads(b) /\ y \in Heads(b) /\ KeyOf[x] <= KeyOf[y] /\ KeyOf[y] <= KeyOf[x]
    BY <1>3 DEF Finds, LeastOf
  <2>2. KeyOf[x] = KeyOf[y]
    BY <1>1, <2>1
  <2> QED
    BY <2>1, <2>2, KeysDiffer
<1> QED
  BY <1>2, <1>3

\* There is one.
LEMMA FindsSome ==
  ASSUME NEW b, NEW sub, Tree(b, sub), NEW A, Upper(b, A)
  PROVE  \A y \in Places(b), found \in Places(b) :
           Finds(Chosen(A \cap sub[y], found), A \cap sub[y], found)
<1> DEFINE G == {y \in Heads(b) : \A found \in Places(b) : \E x : Finds(x, A \cap sub[y], found)}
<1>1. sub[mHead] = {} /\ Places(b) = Heads(b) \cup {mHead}
  BY DEF Tree, Subtrees, Places
<1>2. \A found : Finds(found, A \cap sub[mHead], found)
  BY <1>1 DEF Finds
<1>3. ASSUME NEW y \in Heads(b), \A s \in Side : b[y].child[s] # mHead => b[y].child[s] \in G
      PROVE  y \in G
  <2>1. ASSUME NEW s \in Side, NEW found \in Places(b) PROVE \E x : Finds(x, A \cap sub[b[y].child[s]], found)
    <3>1. CASE b[y].child[s] = mHead
      BY <1>2, <3>1
    <3>2. CASE b[y].child[s] # mHead
      BY <1>3, <3>2, Zenon
    <3> QED
      BY <3>1, <3>2
  <2>2. ASSUME NEW found \in Places(b) PROVE \E x : Finds(x, A \cap sub[y], found)
    <3>1. PICK x : Finds(x, A \cap sub[b[y].child[LEFT]], y)
      BY <1>1, <2>1, Sides
    <3>2. PICK z : Finds(z, A \cap sub[b[y].child[RIGHT]], found)
      BY <2>1, Sides, Zenon
    <3> QED
      BY <3>1, <3>2, FindsStep, Zenon
  <2> QED
    BY <2>2
<1> HIDE DEF G
<1>4. Heads(b) \subseteq G
  BY <1>3, TreeInduction
<1>5. \A y \in Places(b), found \in Places(b) : \E x : Finds(x, A \cap sub[y], found)
  BY <1>1, <1>2, <1>4, Zenon DEF G
<1> QED
  BY <1>5, Zenon DEF Chosen

\* The search ends with it.
LEMMA BoundFinds ==
  ASSUME NEW b, NEW sub, Tree(b, sub), NEW A, Upper(b, A)
  PROVE  Finds(Bound(b, A), A \cap Heads(b), mHead)
<1> DEFINE P == Heads(b) \cup {mHead}
           sol == [y \in P |-> [found \in P |-> Chosen(A \cap sub[y], found)]]
           impl == CHOOSE h : Searches(b, A, h)
<1>1. /\ P = Places(b) /\ sub[mHead] = {} /\ mHead \notin Heads(b) /\ Root(b) \in P /\ sub[Root(b)] = Heads(b)
      /\ \A y \in Heads(b), s \in Side : b[y].child[s] \in P
      /\ \A y \in P : sub[y] \subseteq Heads(b)
  BY PlacesOfTree, Zenon DEF Places, Tree, Subtrees, Down
<1>2. \A y \in P, found \in P : sol[y][found] = Chosen(A \cap sub[y], found) /\ Finds(sol[y][found], A \cap sub[y], found)
  BY <1>1, FindsSome, Zenon
<1> HIDE DEF sol
<1>3. ASSUME NEW y \in P, NEW found \in P
      PROVE  sol[y][found] = CASE y = mHead -> found
                               [] y # mHead /\ y \in A -> sol[b[y].child[LEFT]][y]
                               [] OTHER -> sol[b[y].child[RIGHT]][found]
  <2>1. Finds(sol[y][found], A \cap sub[y], found)
    BY <1>2
  <2>2. CASE y = mHead
    BY <1>1, <2>1, <2>2 DEF Finds
  <2>3. CASE y # mHead /\ y \in A
    <3>1. Finds(sol[b[y].child[LEFT]][y], A \cap sub[b[y].child[LEFT]], y)
      BY <1>1, <1>2, <2>3, Sides, Zenon
    <3>2. Finds(sol[b[y].child[LEFT]][y], A \cap sub[y], found)
      BY <2>3, <3>1, FindsStep, Zenon
    <3>3. sol[y][found] = sol[b[y].child[LEFT]][y]
      BY <1>1, <2>1, <3>2, FindsOne
    <3> QED
      BY <2>3, <3>3
  <2>4. CASE y # mHead /\ y \notin A
    <3>1. Finds(sol[b[y].child[RIGHT]][found], A \cap sub[b[y].child[RIGHT]], found)
      BY <1>1, <1>2, <2>4, Sides, Zenon
    <3>2. Finds(sol[b[y].child[RIGHT]][found], A \cap sub[y], found)
      BY <2>4, <3>1, FindsStep, Zenon
    <3>3. sol[y][found] = sol[b[y].child[RIGHT]][found]
      BY <1>1, <2>1, <3>2, FindsOne
    <3> QED
      BY <2>4, <3>3
  <2> QED
    BY <2>2, <2>3, <2>4
<1>4. Searches(b, A, sol)
  <2>1. sol = [y \in P |-> [found \in P |-> sol[y][found]]]
    BY DEF sol
  <2> QED
    BY <1>3, <2>1, Zenon DEF Searches
<1>5. Searches(b, A, impl)
  BY <1>4, Zenon
<1>6. Bound(b, A) = impl[Root(b)][mHead]
  BY Zenon DEF Bound, Searches
<1> HIDE DEF impl
<1>7. ASSUME NEW y \in P, NEW found \in P
      PROVE  impl[y][found] = CASE y = mHead -> found
                                [] y # mHead /\ y \in A -> impl[b[y].child[LEFT]][y]
                                [] OTHER -> impl[b[y].child[RIGHT]][found]
  <2>1. PICK h : h = impl
    OBVIOUS
  <2>2. Searches(b, A, h)
    BY <1>5, <2>1
  <2>3. h[y][found] = CASE y = mHead -> found
                        [] y # mHead /\ y \in A -> h[b[y].child[LEFT]][y]
                        [] OTHER -> h[b[y].child[RIGHT]][found]
    <3> DEFINE line(f) == CASE y = mHead -> f
                            [] y # mHead /\ y \in A -> h[b[y].child[LEFT]][y]
                            [] OTHER -> h[b[y].child[RIGHT]][f]
    <3>1. h[y] = [f \in P |-> line(f)]
      BY <2>2, Zenon DEF Searches
    <3>2. line(found) = CASE y = mHead -> found
                          [] y # mHead /\ y \in A -> h[b[y].child[LEFT]][y]
                          [] OTHER -> h[b[y].child[RIGHT]][found]
      OBVIOUS
    <3> HIDE DEF line
    <3>3. h[y][found] = line(found)
      BY <3>1
    <3> QED
      BY <3>2, <3>3, Zenon
  <2> QED
    BY <2>1, <2>3
<1> DEFINE G == {y \in Heads(b) : \A found \in P : Finds(impl[y][found], A \cap sub[y], found)}
<1>8. \A found \in P : Finds(impl[mHead][found], A \cap sub[mHead], found)
  BY <1>1, <1>7 DEF Finds
<1>9. ASSUME NEW y \in Heads(b), \A s \in Side : b[y].child[s] # mHead => b[y].child[s] \in G
      PROVE  y \in G
  <2>1. \A s \in Side : \A found \in P : Finds(impl[b[y].child[s]][found], A \cap sub[b[y].child[s]], found)
    BY <1>8, <1>9, Zenon
  <2>2. ASSUME NEW found \in P PROVE Finds(impl[y][found], A \cap sub[y], found)
    <3>1. CASE y \in A
      <4>1. impl[y][found] = impl[b[y].child[LEFT]][y]
        BY <1>1, <1>7, <3>1
      <4>2. Finds(impl[b[y].child[LEFT]][y], A \cap sub[b[y].child[LEFT]], y)
        BY <2>1, Sides, Zenon
      <4> QED
        BY <3>1, <4>1, <4>2, FindsStep, Zenon
    <3>2. CASE y \notin A
      <4>1. impl[y][found] = impl[b[y].child[RIGHT]][found]
        BY <1>1, <1>7, <3>2
      <4>2. Finds(impl[b[y].child[RIGHT]][found], A \cap sub[b[y].child[RIGHT]], found)
        BY <2>1, Sides, Zenon
      <4> QED
        BY <3>2, <4>1, <4>2, FindsStep, Zenon
    <3> QED
      BY <3>1, <3>2
  <2> QED
    BY <2>2, Zenon
<1> HIDE DEF G
<1>10. Heads(b) \subseteq G
  BY <1>9, TreeInduction
<1>11. Finds(impl[Root(b)][mHead], A \cap sub[Root(b)], mHead)
  BY <1>1, <1>8, <1>10, Zenon DEF G
<1> QED
  BY <1>1, <1>6, <1>11

\* lower_bound and upper_bound find the first nodes of the keys they look for.
LEMMA InvSearches ==
  ASSUME IInv
  PROVE  SearchesRight
<1>1. PICK sub : Tree(t, sub)
  BY DEF IInv, Fixing
<1>2. Heads(t) \subseteq Nodes /\ \A x \in Heads(t) : KeyOf[x] \in Nat
  BY <1>1, HeadsTyped DEF Tree
<1>3. ASSUME NEW k \in {KeyOf[n] + more : n \in Nodes, more \in {0, 1}}
      PROVE  /\ Finds(LowerBound(t, k), {x \in Heads(t) : KeyOf[x] >= k}, mHead)
             /\ Finds(UpperBound(t, k), {x \in Heads(t) : KeyOf[x] > k}, mHead)
  <2> DEFINE A == {y \in Nodes : KeyOf[y] >= k}
             B == {y \in Nodes : KeyOf[y] > k}
  <2>1. k \in Nat
    BY NodesAssumption
  <2>2. Upper(t, A) /\ Upper(t, B)
    BY <1>2, <2>1 DEF Upper
  <2>3. A \cap Heads(t) = {x \in Heads(t) : KeyOf[x] >= k} /\ B \cap Heads(t) = {x \in Heads(t) : KeyOf[x] > k}
    BY <1>2
  <2>4. LowerBound(t, k) = Bound(t, A) /\ UpperBound(t, k) = Bound(t, B)
    BY DEF LowerBound, UpperBound
  <2> HIDE DEF A, B
  <2>5. Finds(Bound(t, A), A \cap Heads(t), mHead) /\ Finds(Bound(t, B), B \cap Heads(t), mHead)
    BY <1>1, <2>2, BoundFinds
  <2> QED
    BY <2>3, <2>4, <2>5
<1> QED
  BY <1>3 DEF SearchesRight, Finds, LeastOf

\* In every tree that no loop works on, lower_bound and upper_bound find the node of the least
\* key that is large enough, or larger, and end() if there is none.
THEOREM SearchesRightHolds == Spec => []SearchesRight
<1> QED
  BY InvSearches, InvHolds, PTL

-----------------------------------------------------------------------------
(***************************************************************************)
(* The iteration.                                                          *)
(***************************************************************************)
\* z is the first head above those of S, which are next to each other, or mHead.
Over(b, S, z) ==
  /\ z # mHead => z \in Heads(b) \ S /\ \A v \in S : KeyOf[v] < KeyOf[z]
  /\ \A x \in Heads(b) \ S : \/ \A v \in S : KeyOf[x] < KeyOf[v]
                             \/ z # mHead /\ KeyOf[z] <= KeyOf[x]

\* The way up of PredOrSucc.
Climbs(b, h) == h = [y \in Heads(b) |-> IF b[y].side = RIGHT THEN h[b[y].parent] ELSE b[y].parent]

\* The root is the left child of mHead.
LEMMA RootLeft ==
  ASSUME NEW b, NEW sub, Tree(b, sub)
  PROVE  \A y \in Heads(b) : b[y].parent = mHead => y = Root(b) /\ b[y].side = LEFT
<1> SUFFICES ASSUME NEW y \in Heads(b), b[y].parent = mHead PROVE y = Root(b) /\ b[y].side = LEFT
  OBVIOUS
<1>1. b[mHead].child[b[y].side] = y /\ b[y].side \in Side /\ y # mHead /\ y = Root(b)
  BY PlacesOfTree
<1>2. b[mHead].child[RIGHT] = mHead
  BY DEF Tree, Links
<1> QED
  BY <1>1, <1>2, Sides DEF Side

\* It ends.
LEMMA ClimbsSome ==
  ASSUME NEW b, NEW sub, Tree(b, sub)
  PROVE  \E h : Climbs(b, h)
<1> DEFINE H == Heads(b)
           V == Places(b)
           rest == RestOf(b, sub)
           N == Cardinality(H)
           done == [y \in H |-> b[y].side # RIGHT]
           out == [y \in H |-> b[y].parent]
           next == [y \in H |-> b[y].parent]
<1>1. /\ N \in Nat /\ rest \in [H -> 0 .. N]
      /\ \A x \in H : b[x].parent # mHead => b[x].parent \in H /\ rest[b[x].parent] < rest[x]
  BY SizesFall
<1>2. \A y \in H : b[y].parent \in V /\ b[y].side \in Side
  BY PlacesOfTree
<1>3. Descends(H, N, rest, V, done, out, next)
  <2>1. out \in [H -> V]
    BY <1>2
  <2>2. \A y \in H : done[y] \/ (next[y] \in H /\ rest[next[y]] < rest[y])
    BY <1>1, RootLeft, Sides, Zenon
  <2> QED
    BY <1>1, <2>1, <2>2 DEF Descends
<1>4. PICK g : Arrives(g, H, V, done, out, next)
  <2> HIDE DEF H, V, done, out, next, rest, N
  <2> QED
    BY <1>3, Descent
<1>5. g \in [H -> V] /\ \A y \in H : g[y] = IF done[y] THEN out[y] ELSE g[next[y]]
  <2> HIDE DEF H, V, done, out, next
  <2> QED
    BY <1>4 DEF Arrives
<1>6. \A y \in H : g[y] = IF b[y].side = RIGHT THEN g[b[y].parent] ELSE b[y].parent
  BY <1>5, Zenon
<1>7. Climbs(b, g)
  BY <1>5, <1>6 DEF Climbs
<1> QED
  BY <1>7

\* And leads to the first head above the subtree.
LEMMA ClimbsOver ==
  ASSUME NEW b, NEW sub, Tree(b, sub), NEW h, Climbs(b, h)
  PROVE  \A y \in Heads(b) : Over(b, sub[y], h[y])
<1> DEFINE H == Heads(b)
           G == {y \in H : Over(b, sub[y], h[y])}
<1>1. \A y \in H : h[y] = IF b[y].side = RIGHT THEN h[b[y].parent] ELSE b[y].parent
  BY DEF Climbs
<1>2. Root(b) # mHead => Root(b) \in G
  <2> SUFFICES ASSUME Root(b) # mHead PROVE Root(b) \in G
    OBVIOUS
  <2>1. Root(b) \in H /\ b[Root(b)].parent = mHead
    BY PlacesOfTree DEF Places
  <2>2. h[Root(b)] = mHead
    BY <1>1, <2>1, RootLeft, Sides
  <2>3. sub[Root(b)] = H
    BY DEF Tree, Subtrees
  <2>4. Over(b, sub[Root(b)], h[Root(b)])
    BY <2>2, <2>3 DEF Over
  <2> QED
    BY <2>1, <2>4
<1>3. ASSUME NEW x \in H \cap G, NEW s \in Side, b[x].child[s] # mHead PROVE b[x].child[s] \in G
  <2> DEFINE c == b[x].child[s]
             d == b[x].child[Other(s)]
             z == h[x]
  <2>1. c \in H /\ b[c].parent = x /\ b[c].side = s
    BY <1>3, PlacesOfTree DEF Down, Places
  <2>2. Parts(b, sub, x, c, d)
    BY SubParts
  <2>3. /\ x \in sub[x] /\ x \notin sub[c] /\ sub[c] \cap sub[d] = {}
        /\ sub[x] = {x} \cup sub[c] \cup sub[d] /\ sub[x] \subseteq H
    BY <2>2 DEF Parts
  <2>4. /\ \A y \in sub[c] : Beyond(s, KeyOf[y], KeyOf[x])
        /\ \A y \in sub[d] : Beyond(Other(s), KeyOf[y], KeyOf[x])
    BY Sides DEF Tree, Subtrees
  <2>5. Over(b, sub[x], z)
    BY <1>3
  <2>6. \A y \in H : KeyOf[y] \in Nat
    BY HeadsTyped DEF Tree
  <2>7. /\ z # mHead => z \in H /\ z \notin sub[x] /\ \A v \in sub[x] : KeyOf[v] < KeyOf[z]
        /\ \A y \in H \ sub[x] : \/ \A v \in sub[x] : KeyOf[y] < KeyOf[v]
                                 \/ z # mHead /\ KeyOf[z] <= KeyOf[y]
    BY <2>5 DEF Over
  <2>8. h[c] = IF s = RIGHT THEN z ELSE x
    BY <1>1, <2>1
  <2> HIDE DEF c, d, z, G, H
  <2>9. CASE s = LEFT
    <3>1. h[c] = x /\ x # mHead /\ x \in H
      BY <2>8, <2>9, Sides, HeadsTyped, <2>3 DEF Tree, H
    <3>2. \A v \in sub[c] : KeyOf[v] < KeyOf[x]
      BY <2>4, <2>9 DEF Beyond
    <3>3. \A v \in sub[d] : KeyOf[v] > KeyOf[x]
      BY <2>4, <2>9, Sides DEF Beyond
    <3>4. ASSUME NEW y \in H \ sub[c] PROVE (\A v \in sub[c] : KeyOf[y] < KeyOf[v]) \/ KeyOf[x] <= KeyOf[y]
      <4>1. CASE y \in sub[x]
        BY <2>3, <2>6, <3>3, <4>1
      <4>2. CASE y \notin sub[x]
        BY <2>3, <2>6, <2>7, <4>2
      <4> QED
        BY <4>1, <4>2
    <3>5. Over(b, sub[c], x)
      BY <2>3, <3>1, <3>2, <3>4 DEF Over, H
    <3> QED
      BY <2>1, <3>1, <3>5 DEF G, c
  <2>10. CASE s = RIGHT
    <3>1. h[c] = z
      BY <2>8, <2>10
    <3>2. \A v \in sub[c] : KeyOf[v] > KeyOf[x]
      BY <2>4, <2>10, Sides DEF Beyond
    <3>3. \A v \in sub[d] : KeyOf[v] < KeyOf[x]
      BY <2>4, <2>10, Sides DEF Beyond
    <3>4. ASSUME NEW y \in H \ sub[c]
          PROVE (\A v \in sub[c] : KeyOf[y] < KeyOf[v]) \/ (z # mHead /\ KeyOf[z] <= KeyOf[y])
      <4>1. CASE y \in sub[x]
        <5>1. y = x \/ y \in sub[d]
          BY <2>3, <4>1
        <5>2. KeyOf[y] <= KeyOf[x]
          BY <2>6, <3>3, <5>1
        <5> QED
          BY <2>3, <2>6, <3>2, <5>2
      <4>2. CASE y \notin sub[x]
        BY <2>3, <2>7, <4>2
      <4> QED
        BY <4>1, <4>2
    <3>5. Over(b, sub[c], z)
      BY <2>3, <2>7, <3>4 DEF Over, H
    <3> QED
      BY <2>1, <3>1, <3>5 DEF G, c
  <2> QED
    BY <2>9, <2>10 DEF Side
<1> HIDE DEF G
<1>4. H \subseteq G
  BY <1>2, <1>3, RootInduction
<1> QED
  BY <1>4 DEF G

-----------------------------------------------------------------------------
\* z is the head of the next key after k.
NextHead(b, k, z) ==
  /\ z # mHead => z \in Heads(b) /\ KeyOf[z] > k
  /\ \A h \in Heads(b) : KeyOf[h] > k => z # mHead /\ KeyOf[z] <= KeyOf[h]

\* There is only one.
LEMMA NextHeadOne ==
  ASSUME NEW b, NEW sub, Tree(b, sub), NEW k \in Nat, NEW y, NEW z, NextHead(b, k, y), NextHead(b, k, z)
  PROVE  y = z
<1>1. \A h \in Heads(b) : KeyOf[h] \in Nat
  BY HeadsTyped DEF Tree
<1>2. y = mHead <=> z = mHead
  BY DEF NextHead
<1>3. CASE y # mHead /\ z # mHead
  <2>1. y \in Heads(b) /\ z \in Heads(b) /\ KeyOf[y] <= KeyOf[z] /\ KeyOf[z] <= KeyOf[y]
    BY <1>3 DEF NextHead
  <2>2. KeyOf[y] = KeyOf[z]
    BY <1>1, <2>1
  <2> QED
    BY <2>1, <2>2, KeysDiffer
<1> QED
  BY <1>2, <1>3

\* From a head, PredOrSucc goes there.
LEMMA SuccNext ==
  ASSUME NEW b, NEW sub, Tree(b, sub), NEW x, NEW cur, cur = b[x].near[RIGHT], cur \in Heads(b)
  PROVE  NextHead(b, KeyOf[cur], PredOrSucc(b, x, RIGHT))
<1> DEFINE up == CHOOSE h : Climbs(b, h)
           r == b[cur].child[RIGHT]
           l == b[cur].child[LEFT]
           res == PredOrSucc(b, x, RIGHT)
<1>1. Climbs(b, up)
  BY ClimbsSome, Zenon
<1>2. IsHead(b, cur)
  BY DEF Heads
<1>3. res = IF r # mHead THEN MinOrMax(b, r, LEFT) ELSE up[cur]
  <2>1. res = IF ~IsHead(b, cur) THEN cur ELSE IF r # mHead THEN MinOrMax(b, r, Other(RIGHT)) ELSE up[cur]
    <3> DEFINE c0 == b[x].near[RIGHT]
    <3>1. res = IF ~IsHead(b, c0) THEN c0
                ELSE IF b[c0].child[RIGHT] # mHead THEN MinOrMax(b, b[c0].child[RIGHT], Other(RIGHT)) ELSE up[c0]
      BY Zenon DEF PredOrSucc, Climbs
    <3>2. c0 = cur
      OBVIOUS
    <3> HIDE DEF c0, up, res
    <3> QED
      BY <3>1, <3>2
  <2> QED
    BY <1>2, <2>1, Sides, Zenon
<1> HIDE DEF up, res
<1>4. Over(b, sub[cur], up[cur])
  BY <1>1, ClimbsOver
<1>5. /\ \A h \in Heads(b) : KeyOf[h] \in Nat
      /\ mHead \notin Heads(b)
  BY HeadsTyped DEF Tree
<1>6. /\ sub[cur] = {cur} \cup sub[l] \cup sub[r] /\ sub[cur] \subseteq Heads(b) /\ sub[mHead] = {}
      /\ \A v \in sub[l] : KeyOf[v] < KeyOf[cur]
      /\ \A v \in sub[r] : KeyOf[v] > KeyOf[cur]
  BY Sides, SubBelow DEF Tree, Subtrees, Beyond
<1>7. r # mHead => r \in Heads(b)
  BY Sides, PlacesOfTree DEF Down, Places
<1> HIDE DEF r, l
<1>8. CASE r # mHead
  <2>1. res \in sub[r] /\ \A v \in sub[r] : v = res \/ KeyOf[res] < KeyOf[v]
    <3>1. Extreme(MinOrMax(b, r, LEFT), sub[r], LEFT)
      BY <1>7, <1>8, Sides, MinOrMaxExtreme
    <3>2. res = MinOrMax(b, r, LEFT)
      BY <1>3, <1>8
    <3> QED
      BY <3>1, <3>2 DEF Extreme, Beyond
  <2>2. res \in Heads(b) /\ res # mHead /\ KeyOf[res] > KeyOf[cur]
    BY <1>5, <1>6, <2>1
  <2>3. ASSUME NEW h \in Heads(b), KeyOf[h] > KeyOf[cur] PROVE KeyOf[res] <= KeyOf[h]
    <3>1. CASE h \in sub[cur]
      <4>1. h \in sub[r]
        BY <1>5, <1>6, <2>3, <3>1
      <4> QED
        BY <1>5, <2>1, <2>2, <4>1
    <3>2. CASE h \notin sub[cur]
      <4>1. up[cur] # mHead /\ KeyOf[up[cur]] <= KeyOf[h] /\ up[cur] \in Heads(b)
        BY <1>4, <1>5, <1>6, <2>3, <3>2 DEF Over
      <4>2. KeyOf[res] < KeyOf[up[cur]]
        BY <1>4, <1>6, <2>1, <4>1, Zenon DEF Over
      <4> QED
        BY <1>5, <2>2, <4>1, <4>2
    <3> QED
      BY <3>1, <3>2
  <2>4. NextHead(b, KeyOf[cur], res)
    BY <2>2, <2>3 DEF NextHead
  <2> QED
    BY <2>4 DEF res
<1>9. CASE r = mHead
  <2>1. res = up[cur]
    BY <1>3, <1>9
  <2>2. res # mHead => res \in Heads(b) /\ KeyOf[res] > KeyOf[cur]
    BY <1>4, <1>5, <1>6, <2>1 DEF Over
  <2>3. ASSUME NEW h \in Heads(b), KeyOf[h] > KeyOf[cur] PROVE res # mHead /\ KeyOf[res] <= KeyOf[h]
    <3>1. h \notin sub[cur]
      BY <1>5, <1>6, <1>9, <2>3
    <3> QED
      BY <1>4, <1>5, <1>6, <2>1, <2>3, <3>1 DEF Over
  <2>4. NextHead(b, KeyOf[cur], res)
    BY <2>2, <2>3 DEF NextHead
  <2> QED
    BY <2>4 DEF res
<1> QED
  BY <1>8, <1>9

\* The list goes on where an iteration does.
LEMMA WalksOn ==
  ASSUME NEW b, NEW sub, Tree(b, sub), NEW w, Enumerates(b, w), NEW i \in DOMAIN w
  PROVE  PredOrSucc(b, w[i], RIGHT) = After(w, i)
<1> DEFINE x == w[i]
           y == After(w, i)
           cur == b[x].near[RIGHT]
<1>1. Typed(b) /\ Lists(b, w) /\ Pair(b, x, y)
  BY DEF Tree, Enumerates
<1>2. /\ w \in Seq(Nodes) /\ Len(w) \in Nat /\ DOMAIN w = 1 .. Len(w) /\ Sorted(w)
      /\ \A j \in DOMAIN w : w[j] \in DOMAIN b /\ w[j] # mHead /\ w[j] \in Nodes /\ KeyOf[w[j]] \in Nat
      /\ \A j \in DOMAIN w : After(w, j) \in DOMAIN b
      /\ \A z \in Nodes : KeyOf[z] \in Nat
  BY <1>1, Listed
<1>3. CASE y # mHead /\ KeyOf[y] = KeyOf[x]
  <2>1. cur = y /\ y \notin Heads(b) /\ y \in DOMAIN b
    BY <1>1, <1>2, <1>3 DEF Pair
  <2>2. ~IsHead(b, y)
    BY <1>3, <2>1 DEF Heads
  <2>3. ~IsHead(b, b[x].near[RIGHT])
    BY <2>1, <2>2
  <2>4. PredOrSucc(b, x, RIGHT) = b[x].near[RIGHT]
    BY <2>3, Zenon DEF PredOrSucc
  <2> QED
    BY <2>1, <2>4
<1>4. CASE ~(y # mHead /\ KeyOf[y] = KeyOf[x])
  <2>1. cur \in Heads(b) /\ KeyOf[cur] = KeyOf[x] /\ (y # mHead => y \in Heads(b))
    BY <1>1, <1>4 DEF Pair
  <2>2. NextHead(b, KeyOf[cur], PredOrSucc(b, x, RIGHT))
    BY <2>1, SuccNext
  <2>3. y # mHead => i + 1 \in DOMAIN w /\ y = w[i + 1] /\ i < i + 1 /\ i < Len(w)
    BY <1>2 DEF After
  <2>4. y # mHead => KeyOf[y] > KeyOf[x]
    <3>1. y # mHead => KeyOf[x] <= KeyOf[y]
      BY <1>2, <2>3 DEF Sorted
    <3> QED
      BY <1>2, <1>4, <2>3, <3>1
  <2>5. ASSUME NEW h \in Heads(b), KeyOf[h] > KeyOf[x] PROVE y # mHead /\ KeyOf[y] <= KeyOf[h]
    <3>1. h \in DOMAIN b \ {mHead}
      BY DEF Heads
    <3>2. PICK j \in DOMAIN w : w[j] = h
      BY <1>1, <3>1 DEF Lists
    <3>3. j \in Nat /\ i \in Nat /\ j <= Len(w) /\ KeyOf[h] \in Nat /\ KeyOf[x] \in Nat
      BY <1>2, <3>2
    <3>4. i < j
      <4>1. j < i => KeyOf[h] <= KeyOf[x]
        BY <1>2, <3>2 DEF Sorted
      <4>2. j = i => KeyOf[h] = KeyOf[x]
        BY <3>2
      <4> QED
        BY <2>5, <3>3, <4>1, <4>2
    <3>5. i < Len(w) /\ y = w[i + 1] /\ i + 1 \in DOMAIN w
      BY <1>2, <3>3, <3>4 DEF After
    <3>6. y # mHead /\ KeyOf[y] \in Nat
      BY <1>2, <3>5
    <3>7. KeyOf[y] <= KeyOf[h]
      <4>1. CASE j = i + 1
        BY <3>2, <3>3, <3>5, <3>6, <4>1
      <4>2. CASE j # i + 1
        <5>1. i + 1 < j
          BY <3>3, <3>4, <4>2
        <5> QED
          BY <1>2, <3>2, <3>5, <5>1 DEF Sorted
      <4> QED
        BY <4>1, <4>2
    <3> QED
      BY <3>6, <3>7
  <2>6. NextHead(b, KeyOf[cur], y)
    BY <2>1, <2>4, <2>5 DEF NextHead
  <2>7. KeyOf[cur] \in Nat
    BY <1>2, <2>1
  <2> QED
    BY <2>2, <2>6, <2>7, NextHeadOne
<1> QED
  BY <1>3, <1>4

\* And begins where it does.
LEMMA WalkBegins ==
  ASSUME NEW b, NEW sub, Tree(b, sub), NEW w, Enumerates(b, w)
  PROVE  Begin(b) = IF Len(w) > 0 THEN w[1] ELSE mHead
<1>1. Typed(b) /\ Lists(b, w) /\ (Len(w) > 0 => w[1] \in Heads(b))
  BY DEF Tree, Enumerates
<1>2. /\ w \in Seq(Nodes) /\ Len(w) \in Nat /\ DOMAIN w = 1 .. Len(w) /\ Sorted(w)
      /\ \A j \in DOMAIN w : w[j] \in DOMAIN b /\ w[j] # mHead /\ w[j] \in Nodes /\ KeyOf[w[j]] \in Nat
      /\ \A j \in DOMAIN w : After(w, j) \in DOMAIN b
      /\ \A z \in Nodes : KeyOf[z] \in Nat
  BY <1>1, Listed
<1>3. Root(b) \in Places(b) /\ sub[Root(b)] = Heads(b) /\ sub[mHead] = {} /\ Places(b) = Heads(b) \cup {mHead}
  BY PlacesOfTree DEF Tree, Subtrees
<1>4. CASE Root(b) = mHead
  <2>1. Heads(b) = {}
    BY <1>3, <1>4
  <2>2. ~(Len(w) > 0)
    BY <1>1, <2>1
  <2> QED
    BY <1>4, <2>2 DEF Begin
<1>5. CASE Root(b) # mHead
  <2> DEFINE m == MinOrMax(b, Root(b), LEFT)
  <2>1. Begin(b) = m
    BY <1>5 DEF Begin
  <2>2. Extreme(m, Heads(b), LEFT)
    <3>1. Root(b) \in Heads(b)
      BY <1>3, <1>5
    <3>2. Extreme(m, sub[Root(b)], LEFT)
      BY <3>1, Sides, MinOrMaxExtreme
    <3> QED
      BY <1>3, <3>2
  <2> HIDE DEF m
  <2>3. m \in Heads(b) /\ \A y \in Heads(b) : y = m \/ KeyOf[m] < KeyOf[y]
    BY <2>2 DEF Extreme, Beyond
  <2>4. PICK j \in DOMAIN w : w[j] = m
    BY <1>1, <2>3 DEF Lists, Heads
  <2>5. j \in Nat /\ j >= 1 /\ Len(w) > 0 /\ 1 \in DOMAIN w /\ w[1] \in Heads(b)
    BY <1>1, <1>2, <2>4
  <2>6. w[1] = m
    <3>1. CASE j = 1
      BY <2>4, <3>1
    <3>2. CASE j # 1
      <4>1. KeyOf[w[1]] <= KeyOf[m]
        BY <1>2, <2>4, <2>5, <3>2 DEF Sorted
      <4>2. KeyOf[w[1]] \in Nat /\ KeyOf[m] \in Nat
        BY <1>2, <2>4, <2>5
      <4> QED
        BY <2>3, <2>5, <4>1, <4>2
    <3> QED
      BY <3>1, <3>2
  <2> QED
    BY <2>1, <2>5, <2>6
<1> QED
  BY <1>4, <1>5

-----------------------------------------------------------------------------
\* The end of w from position i on.
Rest(w, i) == [k \in 1 .. Len(w) + 1 - i |-> w[k + i - 1]]

\* From position 1 on it is all of it.
LEMMA RestWhole ==
  ASSUME NEW S, NEW w \in Seq(S)
  PROVE  Rest(w, 1) = w
<1>1. Len(w) \in Nat /\ DOMAIN w = 1 .. Len(w)
  OBVIOUS
<1>2. w = [k \in 1 .. Len(w) |-> w[k]]
  OBVIOUS
<1>3. Rest(w, 1) = [k \in 1 .. Len(w) |-> w[k]]
  BY <1>1 DEF Rest
<1> QED
  BY <1>2, <1>3

\* One position after the other.
LEMMA RestStep ==
  ASSUME NEW S, NEW w \in Seq(S), NEW i \in 1 .. Len(w)
  PROVE  Rest(w, i) = <<w[i]>> \o (IF i = Len(w) THEN <<>> ELSE Rest(w, i + 1))
<1>1. Len(w) \in Nat /\ i \in Nat /\ i >= 1 /\ i <= Len(w) /\ w[i] \in S
  OBVIOUS
<1> DEFINE N == Len(w) - i
           v == IF i = Len(w) THEN <<>> ELSE Rest(w, i + 1)
           c == <<w[i]>> \o v
<1>2. N \in Nat
  BY <1>1
<1>3. Len(w) + 1 - (i + 1) = N /\ Len(w) + 1 - i = N + 1 /\ \A k \in 1 .. N : k + (i + 1) - 1 = k + i /\ k + i \in 1 .. Len(w)
  BY <1>1
<1>4. Rest(w, i + 1) = [k \in 1 .. N |-> w[k + i]]
  BY <1>3, <1>1 DEF Rest
<1>5. v \in Seq(S) /\ Len(v) = N /\ \A k \in 1 .. N : v[k] = w[k + i]
  <2>1. CASE i = Len(w)
    BY <1>1, <2>1
  <2>2. CASE i # Len(w)
    <3>1. v = [k \in 1 .. N |-> w[k + i]]
      BY <1>4, <2>2
    <3>2. \A k \in 1 .. N : w[k + i] \in S
      BY <1>1, <1>3
    <3>3. v \in [1 .. N -> S]
      BY <3>1, <3>2, Zenon
    <3> HIDE DEF v, N
    <3>4. v \in Seq(S)
      BY <1>2, <3>3
    <3> QED
      BY <1>2, <3>1, <3>3, <3>4
  <2> QED
    BY <2>1, <2>2
<1> HIDE DEF v, N
<1>6. <<w[i]>> \in Seq(S) /\ Len(<<w[i]>>) = 1 /\ <<w[i]>>[1] = w[i]
  BY <1>1
<1>7. /\ c \in Seq(S) /\ Len(c) = 1 + N
      /\ \A j \in 1 .. 1 + N : c[j] = IF j <= 1 THEN <<w[i]>>[j] ELSE v[j - 1]
  BY <1>5, <1>6, Concatenated
<1>8. \A j \in 1 .. N + 1 : c[j] = w[j + i - 1]
  <2> SUFFICES ASSUME NEW j \in 1 .. N + 1 PROVE c[j] = w[j + i - 1]
    BY Zenon
  <2> HIDE DEF c
  <2>1. CASE j = 1
    <3>1. j + i - 1 = i /\ c[j] = w[i]
      BY <1>1, <1>2, <1>6, <1>7, <2>1
    <3> QED
      BY <3>1
  <2>2. CASE j # 1
    <3>1. j - 1 \in 1 .. N /\ (j - 1) + i = j + i - 1 /\ ~(j <= 1)
      BY <1>1, <1>2, <2>2
    <3>2. c[j] = v[j - 1]
      BY <1>2, <1>7, <3>1
    <3> QED
      BY <1>5, <3>1, <3>2
  <2> QED
    BY <2>1, <2>2
<1>9. c = [j \in 1 .. N + 1 |-> c[j]]
  <2> HIDE DEF c
  <2>1. c \in Seq(S) /\ Len(c) = N + 1
    BY <1>2, <1>7
  <2>2. c \in [1 .. Len(c) -> S]
    BY <2>1
  <2> QED
    BY <2>1, <2>2
<1>10. Rest(w, i) = [j \in 1 .. N + 1 |-> w[j + i - 1]]
  BY <1>3 DEF Rest
<1> HIDE DEF c
<1>11. Rest(w, i) = c
  BY <1>8, <1>9, <1>10
<1> QED
  BY <1>11 DEF c, v

-----------------------------------------------------------------------------
\* The recursion of WalkOf.
Goes(b, h) ==
  h = [x \in DOMAIN b \ {mHead} |->
         <<x>> \o (IF PredOrSucc(b, x, RIGHT) = mHead THEN <<>> ELSE h[PredOrSucc(b, x, RIGHT)])]

\* An iteration meets the nodes of the list.
LEMMA WalkLists ==
  ASSUME NEW b, NEW sub, Tree(b, sub), NEW w, Enumerates(b, w)
  PROVE  WalkOf(b) = w
<1> DEFINE D == DOMAIN b \ {mHead}
           next(x) == PredOrSucc(b, x, RIGHT)
           pos(x) == CHOOSE i \in DOMAIN w : w[i] = x
           sol == [x \in D |-> Rest(w, pos(x))]
           impl == CHOOSE h : Goes(b, h)
<1>1. Typed(b) /\ Lists(b, w)
  BY DEF Tree, Enumerates
<1>2. /\ w \in Seq(Nodes) /\ Len(w) \in Nat /\ DOMAIN w = 1 .. Len(w) /\ Sorted(w)
      /\ \A j \in DOMAIN w : w[j] \in DOMAIN b /\ w[j] # mHead /\ w[j] \in Nodes /\ KeyOf[w[j]] \in Nat
      /\ \A j \in DOMAIN w : After(w, j) \in DOMAIN b
      /\ \A z \in Nodes : KeyOf[z] \in Nat
  BY <1>1, Listed
<1>3. \A i \in DOMAIN w : next(w[i]) = After(w, i)
  BY WalksOn
<1>4. \A x \in D : pos(x) \in DOMAIN w /\ w[pos(x)] = x
  BY <1>1 DEF Lists
<1>5. \A i \in DOMAIN w : w[i] \in D
  BY <1>2
<1>6. \A i \in DOMAIN w : pos(w[i]) = i
  <2> SUFFICES ASSUME NEW i \in DOMAIN w PROVE pos(w[i]) = i
    OBVIOUS
  <2>1. pos(w[i]) \in DOMAIN w /\ w[pos(w[i])] = w[i]
    BY <1>4, <1>5
  <2> HIDE DEF pos
  <2>2. ~(pos(w[i]) < i) /\ ~(i < pos(w[i]))
    BY <1>2, <2>1 DEF Sorted
  <2> QED
    BY <1>2, <2>1, <2>2
<1>7. \A i \in DOMAIN w : After(w, i) = mHead <=> i = Len(w)
  BY <1>2 DEF After
<1>8. \A i \in DOMAIN w : i # Len(w) => After(w, i) = w[i + 1] /\ i + 1 \in DOMAIN w
  BY <1>2 DEF After
<1> HIDE DEF pos, next
<1>9. \A i \in DOMAIN w : sol[w[i]] = Rest(w, i)
  BY <1>5, <1>6
<1>10. ASSUME NEW h, NEW i \in DOMAIN w, i # Len(w) => h[w[i + 1]] = Rest(w, i + 1)
       PROVE  <<w[i]>> \o (IF next(w[i]) = mHead THEN <<>> ELSE h[next(w[i])]) = Rest(w, i)
  <2>1. Rest(w, i) = <<w[i]>> \o (IF i = Len(w) THEN <<>> ELSE Rest(w, i + 1))
    BY <1>2, RestStep, Zenon
  <2>2. CASE i = Len(w)
    <3>1. next(w[i]) = mHead
      BY <1>3, <1>7, <2>2
    <3> QED
      BY <2>1, <2>2, <3>1
  <2>3. CASE i # Len(w)
    <3>1. next(w[i]) # mHead /\ next(w[i]) = w[i + 1]
      BY <1>3, <1>7, <1>8, <2>3
    <3>2. h[next(w[i])] = Rest(w, i + 1)
      BY <1>10, <2>3, <3>1
    <3> QED
      BY <2>1, <2>3, <3>1, <3>2
  <2> QED
    BY <2>2, <2>3
<1>11. Goes(b, sol)
  <2>1. ASSUME NEW x \in D PROVE sol[x] = <<x>> \o (IF next(x) = mHead THEN <<>> ELSE sol[next(x)])
    <3>1. PICK i \in DOMAIN w : w[i] = x
      BY <1>4
    <3>2. i # Len(w) => sol[w[i + 1]] = Rest(w, i + 1)
      BY <1>8, <1>9, Zenon
    <3> HIDE DEF sol
    <3>3. sol[w[i]] = <<w[i]>> \o (IF next(w[i]) = mHead THEN <<>> ELSE sol[next(w[i])])
      BY <1>9, <1>10, <3>2, Zenon
    <3> QED
      BY <3>1, <3>3
  <2>2. sol = [x \in D |-> sol[x]]
    OBVIOUS
  <2> HIDE DEF sol
  <2>3. sol = [x \in D |-> <<x>> \o (IF next(x) = mHead THEN <<>> ELSE sol[next(x)])]
    BY <2>1, <2>2, Zenon
  <2> QED
    BY <2>3, Zenon DEF Goes, D, next
<1>12. Goes(b, impl)
  BY <1>11, Zenon
<1>13. WalkOf(b) = IF Begin(b) = mHead THEN <<>> ELSE impl[Begin(b)]
  BY Zenon DEF WalkOf, Goes
<1> HIDE DEF impl, sol
<1>14. \A i \in DOMAIN w : impl[w[i]] = <<w[i]>> \o (IF next(w[i]) = mHead THEN <<>> ELSE impl[next(w[i])])
  <2>1. PICK h : h = impl
    OBVIOUS
  <2>2. h = [x \in D |-> <<x>> \o (IF next(x) = mHead THEN <<>> ELSE h[next(x)])]
    <3>1. Goes(b, h)
      BY <1>12, <2>1
    <3> QED
      BY <3>1, Zenon DEF Goes, D, next
  <2> HIDE DEF D
  <2>3. \A x \in D : h[x] = <<x>> \o (IF next(x) = mHead THEN <<>> ELSE h[next(x)])
    BY <2>2, Zenon
  <2>4. \A i \in DOMAIN w : h[w[i]] = <<w[i]>> \o (IF next(w[i]) = mHead THEN <<>> ELSE h[next(w[i])])
    BY <1>5, <2>3
  <2> QED
    BY <2>1, <2>4
<1> DEFINE T == {n \in Nat : n < Len(w) => impl[w[Len(w) - n]] = Rest(w, Len(w) - n)}
<1>15. \A i \in DOMAIN w : (i # Len(w) => impl[w[i + 1]] = Rest(w, i + 1)) => impl[w[i]] = Rest(w, i)
  BY <1>10, <1>14, Zenon
<1>16. T = Nat
  <2>1. 0 \in T
    <3>1. 0 < Len(w) => Len(w) - 0 = Len(w) /\ Len(w) \in DOMAIN w
      BY <1>2
    <3> QED
      BY <1>15, <3>1
  <2>2. ASSUME NEW n \in T PROVE n + 1 \in T
    <3>1. CASE n + 1 < Len(w)
      <4> DEFINE i == Len(w) - (n + 1)
      <4>1. n \in Nat /\ i \in DOMAIN w /\ i # Len(w) /\ i + 1 = Len(w) - n /\ n < Len(w)
        <5>1. n \in Nat /\ Len(w) \in Nat
          BY <1>2, <2>2
        <5>2. i \in 1 .. Len(w) /\ i # Len(w) /\ i + 1 = Len(w) - n /\ n < Len(w)
          BY <3>1, <5>1
        <5> QED
          BY <1>2, <5>1, <5>2, Zenon
      <4>2. impl[w[i + 1]] = Rest(w, i + 1)
        BY <2>2, <4>1, Zenon
      <4> HIDE DEF i
      <4>3. impl[w[i]] = Rest(w, i)
        BY <1>15, <4>1, <4>2
      <4> QED
        BY <4>1, <4>3 DEF i
    <3>2. CASE ~(n + 1 < Len(w))
      BY <3>2
    <3> QED
      BY <3>1, <3>2
  <2> HIDE DEF T
  <2>3. T \in SUBSET Nat
    BY DEF T
  <2> QED
    BY <2>1, <2>2, <2>3, SetInduction
<1>17. Begin(b) = IF Len(w) > 0 THEN w[1] ELSE mHead
  BY WalkBegins
<1>18. CASE Len(w) > 0
  <2>1. Len(w) - 1 \in T /\ Len(w) - 1 < Len(w) /\ Len(w) - (Len(w) - 1) = 1 /\ 1 \in DOMAIN w
    BY <1>2, <1>16, <1>18
  <2>2. impl[w[1]] = Rest(w, 1)
    BY <2>1
  <2>3. Rest(w, 1) = w
    BY <1>2, RestWhole
  <2>4. Begin(b) = w[1] /\ w[1] # mHead
    BY <1>2, <1>17, <1>18, <2>1
  <2> QED
    BY <1>13, <2>2, <2>3, <2>4
<1>19. CASE ~(Len(w) > 0)
  <2>1. w = <<>> /\ Begin(b) = mHead
    BY <1>2, <1>17, <1>19
  <2> QED
    BY <1>13, <2>1
<1> QED
  BY <1>18, <1>19

\* The list that an iteration meets at a step.
LEMMA WalkThere ==
  ASSUME NEW b, NEW f, Fixing(b, f), NEW w, Enumerates(b, w)
  PROVE  WalkOf(b) = w
<1>1. PICK sub : Tree(b, sub)
  BY DEF Fixing
<1> QED
  BY <1>1, WalkLists

\* Every step inserts or erases what the bag does, or leaves its order.
LEMMA NextOrders ==
  ASSUME IInv, [Next]_vars
  PROVE  [AsBag!Next]_Walk
<1>1. PICK w : Enumerates(t, w)
  BY DEF IInv
<1>2. Fixing(t, fixup)
  BY DEF IInv
<1>3. Walk = w
  BY <1>1, <1>2, WalkThere DEF Walk
<1>4. PICK sub : Tree(t, sub)
  BY <1>2 DEF Fixing
<1>5. Typed(t) /\ Lists(t, w)
  BY <1>1, <1>4 DEF Tree, Enumerates
<1>6. Len(w) \in Nat /\ DOMAIN w = 1 .. Len(w) /\ \A j \in DOMAIN w : w[j] \in DOMAIN t /\ w[j] # mHead
  BY <1>5, Listed
<1>7. ASSUME NEW v, Fixing(t', fixup'), Enumerates(t', v) PROVE Walk' = v
  <2>1. PICK c, g : c = t' /\ g = fixup'
    OBVIOUS
  <2>2. Fixing(c, g) /\ Enumerates(c, v)
    BY <1>7, <2>1
  <2>3. WalkOf(c) = v
    BY <2>2, WalkThere
  <2>4. Walk' = WalkOf(t')
    BY DEF Walk
  <2> QED
    BY <2>1, <2>3, <2>4
<1>8. ASSUME NEW n \in Nodes, Insert(n) PROVE AsBag!Insert(n)
  <2>1. PICK i : Fixing(t', fixup') /\ Split(w, i, KeyOf[n]) /\ Enumerates(t', AsBag!InsertAt(w, i, n))
    BY <1>1, <1>2, <1>8, InsertStep
  <2>2. Walk' = AsBag!InsertAt(w, i, n)
    BY <1>7, <2>1
  <2>3. n \notin AsBag!ToSet(w)
    <3>1. n \notin DOMAIN t
      BY <1>8 DEF Insert
    <3> QED
      BY <1>6, <3>1 DEF AsBag!ToSet
  <2>4. /\ i \in 1 .. Len(w) + 1
        /\ \A j \in 1 .. i - 1 : KeyOf[w[j]] <= KeyOf[n]
        /\ \A j \in i .. Len(w) : KeyOf[w[j]] > KeyOf[n]
    BY <2>1 DEF Split
  <2> QED
    BY <1>3, <2>2, <2>3, <2>4 DEF AsBag!Insert
<1>9. ASSUME NEW n \in Nodes, Erase(n) PROVE AsBag!Erase(n)
  <2>1. PICK i \in DOMAIN w : Fixing(t', fixup') /\ w[i] = n /\ Enumerates(t', AsBag!RemoveAt(w, i))
    BY <1>1, <1>2, <1>9, EraseStep DEF Removed
  <2>2. Walk' = AsBag!RemoveAt(w, i)
    BY <1>7, <2>1
  <2> QED
    BY <1>3, <2>1, <2>2 DEF AsBag!Erase
<1>10. CASE InsertFixup \/ InsertDone \/ EraseFixup \/ EraseDone
  <2>1. Fixing(t', fixup') /\ Enumerates(t', w)
    BY <1>1, <1>2, <1>10, TurnStep
  <2> QED
    BY <1>3, <1>7, <2>1
<1>11. CASE UNCHANGED vars
  <2>1. t' = t
    BY <1>11 DEF vars
  <2>2. Walk' = Walk
    BY <2>1 DEF Walk
  <2> QED
    BY <2>2
<1> QED
  BY <1>8, <1>9, <1>10, <1>11 DEF Next, AsBag!Next

\* An empty tree has an empty order.
LEMMA InitOrders ==
  ASSUME Init
  PROVE  AsBag!Init
<1>1. Root(t) = mHead
  BY DEF Init, Root, NodeBase, Both, Side
<1>2. Begin(t) = mHead
  BY <1>1 DEF Begin
<1>3. WalkOf(t) = <<>>
  BY <1>2, Zenon DEF WalkOf
<1> QED
  BY <1>3 DEF AsBag!Init, Walk

\* The tree keeps its nodes in the order of their keys, and those of equal keys in that in
\* which they were inserted, at every turn of its loops.
THEOREM ImplementsOrderedBagHolds == Spec => ImplementsOrderedBag
<1> QED
  BY InitOrders, NextOrders, InvHolds, PTL DEF Spec, ImplementsOrderedBag, AsBag!Spec
=============================================================================
