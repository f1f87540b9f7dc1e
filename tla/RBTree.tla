------------------------------- MODULE RBTree -------------------------------
(***************************************************************************)
(* intrusive_multi_rbtree, in which big_memory_pool searches the best fit: *)
(* a red-black tree whose nodes are parts of the objects in it.  Of nodes  *)
(* with equal keys one, the head, is in the tree, the others in a ring     *)
(* with it.  The sentinel mHead is every missing child, the parent of the  *)
(* root, and the end of every iteration; its own parent is written by      *)
(* whatever touches a missing child, and read by erase_fixup.              *)
(*                                                                         *)
(* A turn of the loop of insert_fixup or erase_fixup is a step.            *)
(***************************************************************************)
EXTENDS Naturals, Sequences

CONSTANTS
  Nodes,        \* the nodes there are, numbers
  KeyOf,        \* the key of each
  Together      \* bound: the sets of nodes of which any may be in the tree at once

ASSUME NodesAssumption ==
  /\ Nodes \subseteq Nat \ {0, 1} /\ KeyOf \in [Nodes -> Nat]
  /\ Together \subseteq SUBSET Nodes

VARIABLES
  t,            \* node_base of mHead and of the nodes in the tree
  fixup         \* what runs: [op, cur], cur as in insert_fixup and erase_fixup

vars == <<t, fixup>>

Null == 0
mHead == 1
LEFT == "LEFT"
RIGHT == "RIGHT"
Side == {LEFT, RIGHT}
RING == "RING"
Other(s) == CHOOSE o \in Side : o # s
Both(x) == [s \in Side |-> x]

\* child: mChildren, near: mNeighbours; parent, side and red are kept in mParent.
NodeBase(child, near, parent, s, red) ==
  [child |-> child, near |-> near, parent |-> parent, side |-> s, red |-> red]

Idle == [op |-> "idle", cur |-> Null]

Init ==
  /\ t = [x \in {mHead} |-> NodeBase(Both(mHead), Both(mHead), mHead, LEFT, FALSE)]
  /\ fixup = Idle

InTree == DOMAIN t \ {mHead}
Root(b) == b[mHead].child[LEFT]
IsHead(b, x) == b[x].parent # Null
Heads(b) == {x \in DOMAIN b \ {mHead} : IsHead(b, x)}
Chained(b, x) == b[x].near[LEFT] # x

-----------------------------------------------------------------------------
\* x becomes the child of p on side s.
Hang(b, p, s, x) == [b EXCEPT ![p].child[s] = x, ![x].parent = p, ![x].side = s]

\* rotate.  (Mutant first: the child that changes sides keeps its parent.)
RotateOrphan(b, x, s) ==
  LET o == Other(s)
      top == b[x].child[o]
      lower == [b EXCEPT ![x].child[o] = b[top].child[s]]
  IN Hang(Hang(lower, b[x].parent, b[x].side, top), top, s, x)
Rotate(b, x, s) ==
  LET o == Other(s)
      top == b[x].child[o]
      lower == Hang(b, x, o, b[top].child[s])
  IN Hang(Hang(lower, b[x].parent, b[x].side, top), top, s, x)

\* attach_to: x becomes the child of p on side s.
AttachTo(b, x, p, s) ==
  LET new == NodeBase(Both(b[p].child[s]), Both(x), p, s, TRUE)
  IN Hang([y \in DOMAIN b \cup {x} |-> IF y = x THEN new ELSE b[y]], p, s, x)

\* link: x comes into the ring, before its head h, which makes it the last one.
\* (Mutant first: it comes behind h.)
LinkBehind(b, x, h) ==
  LET new == NodeBase(Both(Null), [s \in Side |-> IF s = LEFT THEN h ELSE b[h].near[RIGHT]],
                      Null, LEFT, TRUE)
      around == [b EXCEPT ![b[h].near[RIGHT]].near[LEFT] = x, ![h].near[RIGHT] = x]
  IN [y \in DOMAIN b \cup {x} |-> IF y = x THEN new ELSE around[y]]
Link(b, x, h) ==
  LET new == NodeBase(Both(Null), [s \in Side |-> IF s = LEFT THEN b[h].near[LEFT] ELSE h],
                      Null, LEFT, TRUE)
      around == [b EXCEPT ![h].near[LEFT] = x, ![b[h].near[LEFT]].near[RIGHT] = x]
  IN [y \in DOMAIN b \cup {x} |-> IF y = x THEN new ELSE around[y]]

\* unlink, after which nothing refers to x any more.
Unlink(b, x) ==
  LET l == b[x].near[LEFT]
      r == b[x].near[RIGHT]
      around == [b EXCEPT ![r].near[LEFT] = l, ![l].near[RIGHT] = r]
  IN [y \in DOMAIN b \ {x} |-> around[y]]

\* substitute_with: the child c takes the place of x.
SubstituteWith(b, x, c) == Hang(b, b[x].parent, b[x].side, c)

\* switch_with: r takes the place of n, with its children and its colour.
SwitchWith(b, r, n) ==
  LET m == b[n]
      taken == [b EXCEPT ![r].child = m.child, ![r].red = m.red]
  IN Hang(Hang(Hang(taken, r, LEFT, m.child[LEFT]), r, RIGHT, m.child[RIGHT]), m.parent, m.side, r)

-----------------------------------------------------------------------------
\* min_or_max of the subtree of x, which is not missing.
MinOrMax(b, x, s) ==
  LET deepest[y \in Heads(b)] == IF b[y].child[s] = mHead THEN y ELSE deepest[b[y].child[s]]
  IN deepest[x]

\* pred_or_succ.
PredOrSucc(b, x, s) ==
  LET cur == b[x].near[s]
      up[y \in Heads(b)] == IF b[y].side = s THEN up[b[y].parent] ELSE b[y].parent
  IN IF ~IsHead(b, cur) THEN cur
     ELSE IF b[cur].child[s] # mHead THEN MinOrMax(b, b[cur].child[s], Other(s))
     ELSE up[cur]

Begin(b) == IF Root(b) = mHead THEN mHead ELSE MinOrMax(b, Root(b), LEFT)

\* do_lower_bound and do_upper_bound: the last node at which the search turned left.
\* (Mutant first: equal keys turn right.)
Bound(b, leftAt) ==
  LET places == Heads(b) \cup {mHead}
      best[y \in places] ==
        [found \in places |->
           CASE y = mHead -> found
             [] y # mHead /\ y \in leftAt -> best[b[y].child[LEFT]][y]
             [] OTHER -> best[b[y].child[RIGHT]][found]]
  IN best[Root(b)][mHead]
LowerBoundStrict(b, k) == Bound(b, {y \in Nodes : KeyOf[y] > k})
LowerBound(b, k) == Bound(b, {y \in Nodes : KeyOf[y] >= k})
UpperBound(b, k) == Bound(b, {y \in Nodes : KeyOf[y] > k})

\* Where do_insert puts a node of key k: the child of at on side s, or, if s is RING, in
\* the ring of at.
Place(b, k) ==
  LET go[y \in Heads(b)] ==
        LET s == IF k < KeyOf[y] THEN LEFT ELSE RIGHT
            c == b[y].child[s]
        IN CASE KeyOf[y] = k -> [at |-> y, side |-> RING]
             [] KeyOf[y] # k /\ c = mHead -> [at |-> y, side |-> s]
             [] OTHER -> go[c]
  IN IF Root(b) = mHead THEN [at |-> mHead, side |-> LEFT] ELSE go[Root(b)]

-----------------------------------------------------------------------------
Insert(n) ==
  /\ fixup = Idle /\ n \notin DOMAIN t
  /\ \E S \in Together : InTree \cup {n} \subseteq S
  /\ LET place == Place(t, KeyOf[n])
     IN IF place.side = RING
        THEN t' = Link(t, n, place.at) /\ UNCHANGED fixup
        ELSE /\ t' = AttachTo(t, n, place.at, place.side)
             /\ fixup' = [op |-> "insert", cur |-> n]

\* One turn of insert_fixup: recolour and go up, or rotate, after which the loop ends.
\* (Mutant first: a cur between p and pp is not rotated to the outside.)
Inside(b, cur) == [tree |-> b, cur |-> cur]
Outside(b, cur) ==
  LET p == b[cur].parent
      s == b[p].side
  IN IF cur = b[p].child[Other(s)] THEN [tree |-> Rotate(b, p, s), cur |-> p]
                                   ELSE [tree |-> b, cur |-> cur]

InsertFixup ==
  /\ fixup.op = "insert"
  /\ LET p == t[fixup.cur].parent
         pp == t[p].parent
         s == t[p].side
         uncle == t[pp].child[Other(s)]
         out == Outside(t, fixup.cur)
         p1 == out.tree[out.cur].parent
     IN /\ t[p].red
        /\ IF t[uncle].red
           THEN /\ t' = [t EXCEPT ![p].red = FALSE, ![uncle].red = FALSE, ![pp].red = TRUE]
                /\ fixup' = [fixup EXCEPT !.cur = pp]
           ELSE /\ t' = Rotate([out.tree EXCEPT ![p1].red = FALSE, ![pp].red = TRUE], pp, Other(s))
                /\ fixup' = [fixup EXCEPT !.cur = out.cur]

InsertDone ==
  /\ fixup.op = "insert" /\ ~t[t[fixup.cur].parent].red
  /\ t' = [t EXCEPT ![Root(t)].red = FALSE]
  /\ fixup' = Idle

-----------------------------------------------------------------------------
\* What do_erase does to a node that is alone with its key: repl, n or its successor, is
\* cut out, and takes the place of n.
ReplOf(b, n) ==
  IF b[n].child[RIGHT] # mHead /\ b[n].child[LEFT] # mHead
  THEN MinOrMax(b, b[n].child[RIGHT], LEFT) ELSE n
CutSide(b, n) == IF b[n].child[RIGHT] # mHead THEN RIGHT ELSE LEFT
CutOut(b, n) ==
  LET repl == ReplOf(b, n)
      cut == SubstituteWith(b, repl, b[repl].child[CutSide(b, n)])
      switched == IF repl = n THEN cut ELSE SwitchWith(cut, repl, n)
  IN [y \in DOMAIN b \ {n} |-> switched[y]]

Erase(n) ==
  /\ fixup = Idle /\ n \in InTree
  /\ CASE Chained(t, n) /\ ~IsHead(t, n) ->
            t' = Unlink(t, n) /\ UNCHANGED fixup
       [] Chained(t, n) /\ IsHead(t, n) ->
            t' = Unlink(SwitchWith(t, t[n].near[RIGHT], n), n) /\ UNCHANGED fixup
       [] OTHER ->
            LET repl == ReplOf(t, n)
            IN /\ t' = CutOut(t, n)
               /\ fixup' = IF t[repl].red THEN Idle
                           ELSE [op |-> "erase", cur |-> t[repl].child[CutSide(t, n)]]

\* One turn of erase_fixup, at a cur whose paths lack a black node; p is its parent, s its
\* side.  First a red sibling is rotated away.  If the sibling w has no red child
\* it becomes red and p lacks a black node; otherwise rotations mend it.
\* (Mutant first: the new top of the rotation does not take the colour of p.)
Lacking(b, cur) == ~b[cur].red /\ cur # Root(b)

BlackSibling(b, p, s) ==
  LET w == b[p].child[Other(s)]
  IN IF b[w].red THEN Rotate([b EXCEPT ![w].red = FALSE, ![p].red = TRUE], p, s) ELSE b

\* The far child of w is made red by a rotation if it is not.
FarRed(b, p, s) ==
  LET o == Other(s)
      w == b[p].child[o]
      c == b[w].child[s]
  IN IF b[b[w].child[o]].red THEN b
     ELSE Rotate([b EXCEPT ![c].red = FALSE, ![w].red = TRUE], w, o)

MendBlack(b, p, s) ==
  LET w == b[p].child[Other(s)]
  IN Rotate([b EXCEPT ![w].red = FALSE, ![p].red = FALSE, ![b[w].child[Other(s)]].red = FALSE], p, s)
Mend(b, p, s) ==
  LET w == b[p].child[Other(s)]
  IN Rotate([b EXCEPT ![w].red = b[p].red, ![p].red = FALSE, ![b[w].child[Other(s)]].red = FALSE], p, s)

EraseFixup ==
  /\ fixup.op = "erase" /\ Lacking(t, fixup.cur)
  /\ LET p == t[fixup.cur].parent
         s == t[fixup.cur].side
         b == BlackSibling(t, p, s)
         w == b[p].child[Other(s)]
     IN IF \A c \in Side : ~b[b[w].child[c]].red
        THEN /\ t' = [b EXCEPT ![w].red = TRUE]
             /\ fixup' = [fixup EXCEPT !.cur = p]
        ELSE LET mended == Mend(FarRed(b, p, s), p, s)
             IN t' = mended /\ fixup' = [fixup EXCEPT !.cur = Root(mended)]

EraseDone ==
  /\ fixup.op = "erase" /\ ~Lacking(t, fixup.cur)
  /\ t' = [t EXCEPT ![fixup.cur].red = FALSE]
  /\ fixup' = Idle

Next ==
  \/ \E n \in Nodes : Insert(n) \/ Erase(n)
  \/ InsertFixup \/ InsertDone
  \/ EraseFixup \/ EraseDone

Spec == Init /\ [][Next]_vars

-----------------------------------------------------------------------------
TypeOK ==
  /\ mHead \in DOMAIN t /\ InTree \subseteq Nodes
  /\ \A x \in DOMAIN t :
       /\ t[x].child \in [Side -> DOMAIN t \cup {Null}] /\ t[x].near \in [Side -> DOMAIN t]
       /\ t[x].side \in Side /\ t[x].red \in BOOLEAN
  /\ fixup = Idle \/ (fixup.op \in {"insert", "erase"} /\ fixup.cur \in DOMAIN t)

\* Children and parents agree, the sentinel keeps its place and its colour, and the ring
\* of a head holds nodes of its key that are in the tree only through it.
Linked ==
  /\ t[mHead].child[RIGHT] = mHead /\ ~t[mHead].red /\ ~Chained(t, mHead)
  /\ \A x \in Heads(t) :
       /\ t[x].parent \in Heads(t) \cup {mHead} /\ t[t[x].parent].child[t[x].side] = x
       /\ \A s \in Side : t[x].child[s] \in (Heads(t) \ {x}) \cup {mHead}
  /\ \A x \in InTree :
       /\ t[t[x].near[RIGHT]].near[LEFT] = x /\ KeyOf[t[x].near[RIGHT]] = KeyOf[x]
       /\ \E h \in Heads(t) : KeyOf[h] = KeyOf[x]
  /\ \A x, y \in Heads(t) : KeyOf[x] = KeyOf[y] => x = y

Consistent == TypeOK /\ Linked

\* The black nodes on every path from x down, where the one that erase_fixup is at counts
\* one more; 0 if they differ.  A missing child is black, and erase_fixup is at
\* that which the sentinel says.
IsBlack(x) == IF t[x].red THEN 0 ELSE 1
Extra(x, p, s) ==
  IF fixup.op = "erase" /\ fixup.cur = x /\ (x = mHead => t[mHead].parent = p /\ t[mHead].side = s)
  THEN 1 ELSE 0
Weights ==
  LET weight[x \in Heads(t)] ==
        LET below(s) ==
              LET c == t[x].child[s]
              IN Extra(c, x, s) + (IF c = mHead THEN 1 ELSE weight[c])
            l == below(LEFT)
            r == below(RIGHT)
        IN IF l = r /\ l > 0 THEN l + IsBlack(x) ELSE 0
  IN weight

\* All paths have the same number of black nodes, and no red node has a red parent, but
\* for the node at which a loop is: so that the loops leave a red-black tree, whose
\* root is black, and while one runs its only fault is the one it works on.
RedBlack ==
  /\ Root(t) # mHead => Weights[Root(t)] > 0
  /\ \A x \in Heads(t) : t[x].red /\ t[t[x].parent].red =>
       fixup.cur = x \/ (fixup.op = "erase" /\ fixup.cur = t[x].parent)
  /\ t[Root(t)].red => fixup.cur = Root(t)

\* lower_bound, from which the pool takes its best fit, is the first node of the least
\* key that is large enough, upper_bound that of the least larger one, both end()
\* if there is none.
SearchesRight ==
  fixup = Idle =>
    \A k \in {KeyOf[n] + more : n \in Nodes, more \in {0, 1}} :
      LET least(x, S) == IF S = {} THEN x = mHead ELSE x \in S /\ \A y \in S : KeyOf[x] <= KeyOf[y]
      IN /\ least(LowerBound(t, k), {x \in Heads(t) : KeyOf[x] >= k})
         /\ least(UpperBound(t, k), {x \in Heads(t) : KeyOf[x] > k})

\* What an iteration with ++ meets, from begin() to end().
WalkOf(b) ==
  LET on[x \in DOMAIN b \ {mHead}] ==
        LET next == PredOrSucc(b, x, RIGHT)
        IN <<x>> \o (IF next = mHead THEN <<>> ELSE on[next])
  IN IF Begin(b) = mHead THEN <<>> ELSE on[Begin(b)]
Walk == WalkOf(t)

\* The loops come to their ends, in no more turns than the tree is deep: a turn after which
\* there is another has gone up.
Running(b, f) ==
  \/ f.op = "insert" /\ b[b[f.cur].parent].red
  \/ f.op = "erase" /\ Lacking(b, f.cur)
DepthOf(b, x) ==
  LET depth[y \in Heads(b)] == IF y = Root(b) THEN 1 ELSE 1 + depth[b[y].parent]
  IN IF x = Root(b) THEN 1 ELSE 1 + depth[b[x].parent]
TurnsEnd ==
  [][fixup # Idle /\ Running(t', fixup') => DepthOf(t', fixup'.cur) < DepthOf(t, fixup.cur)]_vars

\* The tree keeps its nodes in order, at every turn of the loops.
AsBag == INSTANCE OrderedBag WITH order <- Walk
ImplementsOrderedBag == AsBag!Spec
=============================================================================
