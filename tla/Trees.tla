------------------------------- MODULE Trees -------------------------------
(***************************************************************************)
(* The three header-only trees of src/rb_tree: the red-black tree          *)
(* (rb_tree), the order-statistic tree (os_tree: a size at every node) and *)
(* the interval tree (int_tree: an interval and the greatest right end at  *)
(* every node).  The headers repeat one algorithm; each copy adds its own  *)
(* bookkeeping.  A tree here is a record with the bookkeeping of all       *)
(* three, and `kind' says which of them it is.                             *)
(*                                                                         *)
(* The code is sequential.  A call is modelled with the variables of its   *)
(* loops in `call', one action per pass of a loop, so that what holds      *)
(* between two passes can be stated; no call begins before the last ended. *)
(*                                                                         *)
(* Code that the headers write twice, once with left and right exchanged,  *)
(* is written once here with the side as a parameter.  Reading a member of *)
(* a null pointer (only the sentinel has null children) ends the process:  *)
(* the tree is then dead.                                                  *)
(***************************************************************************)
EXTENDS Integers, FiniteSets, FiniteSetsExt, Sequences

CONSTANTS
    Kinds,      \* which headers, a subset of {"rb", "os", "int"}
    Data,       \* the data inserted, removed and searched for
    Intervals,  \* what an interval tree is given: <<datum, left end, right end>>
    MaxNodes,   \* bound on the nodes of the tree
    Copies      \* bound on the nodes with one datum

ASSUME TreeAssumption ==
    /\ Kinds \subseteq {"rb", "os", "int"}
    /\ Data \subseteq Int
    /\ Intervals \subseteq Data \X Int \X Int
    /\ \A i \in Intervals : i[2] <= i[3]     \* insert prints an error otherwise
    /\ MaxNodes \in Nat \ {0}
    /\ Copies \in Nat \ {0}

VARIABLES kind, tree, nodes, held, call
(* kind   the header the tree is built from                                *)
(* tree   the root, and the fields of the nodes and of NIL_NODE            *)
(* nodes  the nodes linked in and not taken out: each stays allocated      *)
(* held   how often each datum was inserted and not removed: what a user   *)
(*        of the tree expects in it                                        *)
(* call   the call under way, with its local variables                     *)
vars == <<kind, tree, nodes, held, call>>

\* A node is named after its datum, the c-th with that datum, so that equal
\* trees are one state.  The code never looks at a node's address.
NIL        == <<0, 0>>
NodesOf(d) == {d} \X (1 .. Copies)
Nodes      == Data \X (1 .. Copies)
Links      == Nodes \cup {NIL}
Datum(n)   == n[1]

Sides == {"left", "right"}
Opp(side) == IF side = "left" THEN "right" ELSE "left"

Null == <<0, -1>>      \* the null pointer: a parent not set yet

EmptyTree ==
    [root   |-> NIL, dead |-> FALSE,
     kid    |-> [s \in Sides |-> [n \in Nodes |-> NIL]],
     parent |-> [n \in Links |-> Null],
     color  |-> [n \in Links |-> "BLACK"],
     key    |-> [n \in Nodes |-> 0],
     high   |-> [n \in Nodes |-> 0],
     size   |-> [n \in Links |-> 0],
     maxHigh |-> [n \in Links |-> 0]]

\* the process has ended, and the tree with it
DeadTree == [EmptyTree EXCEPT !.dead = TRUE]

\* what a node's size and max_high should be, from its children (GET_MAX_HIGH)
SizeOf(t, n) == t.size[t.kid["left"][n]] + t.size[t.kid["right"][n]] + 1
GetMaxHigh(t, n) ==
    Max({t.maxHigh[t.kid["left"][n]], t.maxHigh[t.kid["right"][n]], t.high[n]})

Paint(t, n, c) == [t EXCEPT !.color[n] = c]

----------------------------------------------------------------------------
\* `old' gives its place below its parent, or the root, to `new'
Replace(t, old, new) ==
    LET up == t.parent[old]
    IN  IF up = NIL THEN [t EXCEPT !.root = new]
        ELSE IF old = t.kid["left"][up] THEN [t EXCEPT !.kid["left"][up] = new]
        ELSE [t EXCEPT !.kid["right"][up] = new]

\* mutants: the node that goes down is counted, or spanned, before it is complete
BadResize(t, n, temp) == LET s == [t EXCEPT !.size[n] = SizeOf(t, n)]
                         IN  [s EXCEPT !.size[temp] = s.size[n]]
BadRehigh(t, n, temp) == LET s == [t EXCEPT !.maxHigh[n] = GetMaxHigh(t, n)]
                         IN  [s EXCEPT !.maxHigh[temp] = s.maxHigh[n]]

Resize(t, n, temp)  == LET s == [t EXCEPT !.size[temp] = t.size[n]]
                       IN  [s EXCEPT !.size[n] = SizeOf(s, n)]
Rehigh(t, n, temp)  == LET s == [t EXCEPT !.maxHigh[temp] = t.maxHigh[n]]
                       IN  [s EXCEPT !.maxHigh[n] = GetMaxHigh(s, n)]

\* mutant: the test for the sentinel is the wrong way round
BadAdopt(t, c, n) == IF c # NIL THEN t ELSE [t EXCEPT !.parent[c] = n]

\* the inner grandchild of a rotation gets its new parent
Adopt(t, c, n) == IF c = NIL THEN t ELSE [t EXCEPT !.parent[c] = n]

\* left_rotate (side "left") and right_rotate (side "right")
Rotate(t, n, side) ==
    LET temp  == t.kid[Opp(side)][n]
        inner == t.kid[side][temp]
        t1 == [t EXCEPT !.kid[Opp(side)][n] = inner]
        t2 == Adopt(t1, inner, n)
        t3 == [t2 EXCEPT !.parent[temp] = t.parent[n]]
        t4 == Replace(t3, n, temp)
        t5 == [t4 EXCEPT !.kid[side][temp] = n, !.parent[n] = temp]
    IN  IF temp = NIL THEN DeadTree
        ELSE CASE kind = "os"  -> Resize(t5, n, temp)
               [] kind = "int" -> Rehigh(t5, n, temp)
               [] OTHER        -> t5

Transplant(t, u, v) == [Replace(t, u, v) EXCEPT !.parent[v] = t.parent[u]]

----------------------------------------------------------------------------
\* A call and its loop variables.
\* pc     which loop the call is in
\* node   new_node, del_node or fixup_node
\* at     the node the loop has come to (work, curr_node, p_temp)
\* temp   the node above it, in insert
\* arg    the datum, the k or the left end asked for; high: the right end
\* k      search_k's k, which shrinks
\* black  temp_original_color = BLACK
\* stack, out, up   in_order's stack, what it has printed, in its inner loop
Idle == [pc |-> "idle", node |-> NIL, at |-> NIL, temp |-> NIL, arg |-> 0, high |-> 0,
         k |-> 0, black |-> FALSE, stack |-> <<>>, out |-> <<>>, up |-> FALSE]

Ready       == call = Idle /\ ~tree.dead
In(pc)      == call.pc = pc
MoveTo(n)   == call' = [call EXCEPT !.at = n]
Return      == call' = Idle
Kid(side, n) == tree.kid[side][n]
SideOf(x, y) == IF x < y THEN "left" ELSE "right"
ReadOnly    == UNCHANGED <<kind, tree, nodes, held>>

----------------------------------------------------------------------------
\* make_shared of a red node.  The key is what insert goes by: the datum, or the
\* left end of an interval, whatever its datum is.
NewNode(t, n, key, h) ==
    [t EXCEPT !.key[n] = key, !.high[n] = h, !.color[n] = "RED", !.size[n] = 1,
              !.maxHigh[n] = h, !.kid["left"][n] = NIL, !.kid["right"][n] = NIL]

Insert(d, low, high) ==
    /\ Ready
    /\ Cardinality(nodes) < MaxNodes
    /\ IF kind = "int" THEN <<d, low, high>> \in Intervals ELSE low = d /\ high = d
    /\ \E n \in NodesOf(d) \ nodes :
          /\ \A m \in NodesOf(d) \ nodes : n[2] <= m[2]
          /\ tree' = NewNode(tree, n, low, high)
          /\ call' = [Idle EXCEPT !.pc = "descend", !.node = n, !.at = tree.root]
    /\ UNCHANGED <<kind, nodes, held>>

\* insert's way down
Descend ==
    /\ In("descend") /\ call.at # NIL
    /\ call' = [call EXCEPT !.temp = call.at,
                            !.at = Kid(SideOf(tree.key[call.node], tree.key[call.at]), call.at)]
    /\ ReadOnly

\* mutant: equal keys go down to the right and are linked to the left
BadHang(t, n, temp) ==
    LET new == [t EXCEPT !.parent[n] = temp]
    IN  IF temp = NIL THEN [new EXCEPT !.root = n]
        ELSE IF t.key[n] <= t.key[temp] THEN [new EXCEPT !.kid["left"][temp] = n]
        ELSE [new EXCEPT !.kid["right"][temp] = n]

Hang(t, n, temp) ==
    LET new == [t EXCEPT !.parent[n] = temp]
    IN  IF temp = NIL THEN [new EXCEPT !.root = n]
        ELSE IF t.key[n] < t.key[temp] THEN [new EXCEPT !.kid["left"][temp] = n]
        ELSE [new EXCEPT !.kid["right"][temp] = n]

\* the new node is linked; the rb tree has no bookkeeping to climb for
Link ==
    LET n == call.node
    IN  /\ In("descend") /\ call.at = NIL
        /\ tree' = Hang(tree, n, call.temp)
        /\ nodes' = nodes \cup {n}
        /\ held' = [held EXCEPT ![Datum(n)] = @ + 1]
        /\ call' = [Idle EXCEPT !.pc = "insert_fixup", !.node = n,
                                !.at = IF kind = "rb" THEN NIL ELSE call.temp]
        /\ UNCHANGED kind

\* The way up before a fixup: sizes change by one, max_high is computed anew.
Climb ==
    /\ call.pc \in {"insert_fixup", "remove_fixup"} /\ call.at # NIL
    /\ tree' = IF kind = "os"
               THEN [tree EXCEPT !.size[call.at] = IF In("insert_fixup") THEN @ + 1 ELSE @ - 1]
               ELSE [tree EXCEPT !.maxHigh[call.at] = GetMaxHigh(tree, call.at)]
    /\ MoveTo(tree.parent[call.at])
    /\ UNCHANGED <<kind, nodes, held>>

----------------------------------------------------------------------------
\* One pass of insert_fixup.  After a red uncle the code goes on with the
\* grandparent in the same pass: its parent is painted black and its
\* grandparent is rotated, too.
Uncle(t, n) ==
    LET p == t.parent[n]
        g == t.parent[p]
    IN  t.kid[IF p = t.kid["left"][g] THEN "right" ELSE "left"][g]

\* the node to go on with after the first half of the pass, and the tree then
Upper(t, n, side) ==
    IF t.color[Uncle(t, n)] = "RED" THEN t.parent[t.parent[n]]
    ELSE IF n = t.kid[Opp(side)][t.parent[n]] THEN t.parent[n] ELSE n
FirstHalf(t, n, side) ==
    LET p == t.parent[n]
    IN  IF t.color[Uncle(t, n)] = "RED"
        THEN Paint(Paint(Paint(t, p, "BLACK"), Uncle(t, n), "BLACK"), t.parent[p], "RED")
        ELSE IF n = t.kid[Opp(side)][p] THEN Rotate(t, p, side) ELSE t
SecondHalf(t, n, side) ==
    LET p == t.parent[n]
        g == t.parent[p]
        t1 == Paint(t, p, "BLACK")
    IN  IF t.dead \/ p = NIL THEN t
        ELSE IF g = NIL THEN t1
        ELSE Rotate(Paint(t1, g, "RED"), g, Opp(side))

InsertPass(t, n) ==
    LET p    == t.parent[n]
        g    == t.parent[p]
        side == IF p = t.kid["left"][g] THEN "left" ELSE "right"
    IN  IF g = NIL THEN DeadTree
        ELSE SecondHalf(FirstHalf(t, n, side), Upper(t, n, side), side)

\* the next node of the loop, unless the process has ended
GoOn(n) == IF tree'.dead THEN Return ELSE call' = [call EXCEPT !.node = n]

InsertFixup ==
    LET n == call.node
        p == tree.parent[n]
        g == tree.parent[p]
    IN  /\ In("insert_fixup") /\ call.at = NIL /\ tree.color[p] = "RED"
        /\ tree' = InsertPass(tree, n)
        /\ GoOn(Upper(tree, n, IF p = tree.kid["left"][g] THEN "left" ELSE "right"))
        /\ UNCHANGED <<kind, nodes, held>>

InsertDone ==
    /\ In("insert_fixup") /\ call.at = NIL
    /\ tree.color[tree.parent[call.node]] = "BLACK"
    /\ tree' = Paint(tree, tree.root, "BLACK")
    /\ Return
    /\ UNCHANGED <<kind, nodes, held>>

----------------------------------------------------------------------------
Remove(d) ==
    /\ Ready
    /\ call' = [Idle EXCEPT !.pc = "search", !.at = tree.root, !.arg = d]
    /\ ReadOnly

\* search_node goes by the data, in an interval tree too
Search ==
    /\ In("search") /\ call.at # NIL /\ Datum(call.at) # call.arg
    /\ MoveTo(Kid(SideOf(call.arg, Datum(call.at)), call.at))
    /\ ReadOnly

\* remove returns false
Missed == In("search") /\ call.at = NIL
NotFound == Missed /\ Return /\ ReadOnly

TakenOut(d) == held' = [held EXCEPT ![d] = @ - 1]

\* the child that takes the place of a node with one child
OnlyKid(t, n) == IF t.kid["left"][n] = NIL THEN t.kid["right"][n] ELSE t.kid["left"][n]

\* remove_node up to the bookkeeping: temp is del, or its successor, which takes
\* del's place, colour and size
Unlink(t, del, temp) ==
    LET l     == t.kid["left"][del]
        r     == t.kid["right"][del]
        fixup == OnlyKid(t, temp)
        moved == IF t.parent[temp] = del THEN [t EXCEPT !.parent[fixup] = temp]
                 ELSE [Transplant(t, temp, fixup) EXCEPT !.kid["right"][temp] = r,
                                                         !.parent[r] = temp]
    IN  IF temp = del THEN Transplant(t, del, fixup)
        ELSE [Transplant(moved, del, temp) EXCEPT
                 !.kid["left"][temp] = l, !.parent[l] = temp,
                 !.color[temp] = t.color[del], !.size[temp] = t.size[del]]

\* the node's memory goes with its last shared_ptr, which nobody reads again
Free(t, n) ==
    [t EXCEPT !.kid["left"][n] = NIL, !.kid["right"][n] = NIL, !.parent[n] = Null,
              !.color[n] = "BLACK", !.key[n] = 0, !.high[n] = 0,
              !.size[n] = 0, !.maxHigh[n] = 0]

TakeOut(del, temp) ==
    LET fixup == OnlyKid(tree, temp)
    IN  /\ tree' = Free(Unlink(tree, del, temp), del)
        /\ nodes' = nodes \ {del}
        /\ TakenOut(call.arg)
        /\ call' = [Idle EXCEPT !.pc = "remove_fixup", !.node = fixup,
                                !.at = IF kind = "rb" THEN NIL ELSE tree'.parent[fixup],
                                !.black = tree.color[temp] = "BLACK"]
        /\ UNCHANGED kind

Found == In("search") /\ call.at # NIL /\ Datum(call.at) = call.arg

RemoveOneKid ==
    /\ Found /\ \E side \in Sides : Kid(side, call.at) = NIL
    /\ TakeOut(call.at, call.at)

RemoveTwoKids ==
    /\ Found /\ \A side \in Sides : Kid(side, call.at) # NIL
    /\ call' = [call EXCEPT !.pc = "min", !.node = call.at, !.at = Kid("right", call.at)]
    /\ ReadOnly

\* min_node
GoToMin ==
    /\ In("min") /\ Kid("left", call.at) # NIL
    /\ MoveTo(Kid("left", call.at))
    /\ ReadOnly

RemoveMin ==
    /\ In("min") /\ Kid("left", call.at) = NIL
    /\ TakeOut(call.node, call.at)

\* One pass of remove_fixup with p the parent of n; a sentinel as brother has
\* null children.
RedBrother(t, p, side) ==
    LET brother == t.kid[Opp(side)][p]
    IN  IF t.color[brother] = "RED"
        THEN Rotate(Paint(Paint(t, brother, "BLACK"), p, "RED"), p, side) ELSE t

BlackNephews(t, brother) ==
    \A s \in Sides : t.color[t.kid[s][brother]] = "BLACK"

BlackBrother(t, p, side) ==
    LET brother == t.kid[Opp(side)][p]
        near    == t.kid[side][brother]
        far     == t.kid[Opp(side)][brother]
    IN  IF t.dead \/ brother = NIL THEN DeadTree
        ELSE IF BlackNephews(t, brother) THEN Paint(t, brother, "RED")
        ELSE IF t.color[far] = "BLACK"
             THEN Rotate(Paint(Paint(t, near, "BLACK"), brother, "RED"), brother, Opp(side))
        ELSE Rotate(Paint(Paint(Paint(t, brother, t.color[p]), p, "BLACK"), far, "BLACK"),
                    p, side)

\* the node the loop goes on with: the parent, the same one, or the root
NextNode(t, n, p, side) ==
    LET brother == t.kid[Opp(side)][p]
    IN  IF BlackNephews(t, brother) THEN p
        ELSE IF t.color[t.kid[Opp(side)][brother]] = "BLACK" THEN n
        ELSE tree'.root

FixedUp == ~call.black \/ call.node = tree.root \/ tree.color[call.node] = "RED"

RemoveFixup ==
    LET n    == call.node
        p    == tree.parent[n]
        side == IF n = tree.kid["left"][p] THEN "left" ELSE "right"
        t    == RedBrother(tree, p, side)
    IN  /\ In("remove_fixup") /\ call.at = NIL /\ ~FixedUp
        /\ tree' = BlackBrother(t, p, side)
        /\ GoOn(NextNode(t, n, p, side))
        /\ UNCHANGED <<kind, nodes, held>>

RemoveDone ==
    /\ In("remove_fixup") /\ call.at = NIL /\ FixedUp
    /\ tree' = IF call.black THEN Paint(tree, call.node, "BLACK") ELSE tree
    /\ Return
    /\ UNCHANGED <<kind, nodes, held>>

----------------------------------------------------------------------------
\* search_k of the order-statistic tree
SearchK(k) ==
    /\ Ready /\ kind = "os"
    /\ call' = [Idle EXCEPT !.pc = "search_k", !.at = tree.root, !.arg = k, !.k = k]
    /\ ReadOnly

RankBelow(n) == tree.size[Kid("left", n)] + 1
KAnswered == In("search_k") /\ (call.at # NIL => call.k = RankBelow(call.at))

StepK ==
    /\ In("search_k") /\ ~KAnswered
    /\ IF call.k < RankBelow(call.at) THEN MoveTo(Kid("left", call.at))
       ELSE call' = [call EXCEPT !.at = Kid("right", call.at), !.k = @ - RankBelow(call.at)]
    /\ ReadOnly

IsOverlap(low1, high1, low2, high2) == ~(high1 < low2) /\ ~(high2 < low1)
Meets(n) == IsOverlap(call.arg, call.high, tree.key[n], tree.high[n])

\* interval_search of the interval tree
IntervalSearch(low, high) ==
    /\ Ready /\ kind = "int"
    /\ call' = [Idle EXCEPT !.pc = "int_search", !.at = tree.root,
                            !.arg = low, !.high = high]
    /\ ReadOnly

OverlapAnswered == In("int_search") /\ (call.at # NIL => Meets(call.at))

StepOverlap ==
    LET l == Kid("left", call.at)
    IN  /\ In("int_search") /\ ~OverlapAnswered
        /\ MoveTo(IF l # NIL /\ tree.maxHigh[l] >= call.arg THEN l ELSE Kid("right", call.at))
        /\ ReadOnly

\* in_order: down to the left, then up through the stack until a node has a
\* right child
Push(n, s) == <<n>> \o s
InOrder ==
    /\ Ready
    /\ call' = [Idle EXCEPT !.pc = "in_order",
                            !.stack = IF tree.root = NIL THEN <<>> ELSE <<tree.root>>]
    /\ ReadOnly

GoLeft ==
    LET l == Kid("left", Head(call.stack))
    IN  /\ In("in_order") /\ call.stack # <<>> /\ ~call.up /\ l # NIL
        /\ call' = [call EXCEPT !.stack = Push(l, @)]
        /\ ReadOnly

Visit ==
    LET n == Head(call.stack)
        r == Kid("right", n)
    IN  /\ In("in_order") /\ call.stack # <<>> /\ (call.up \/ Kid("left", n) = NIL)
        /\ call' = [call EXCEPT !.out = Append(@, n), !.up = r = NIL,
                                !.stack = IF r = NIL THEN Tail(@) ELSE Push(r, Tail(@))]
        /\ ReadOnly

Listed == In("in_order") /\ call.stack = <<>>

Answer == (KAnswered \/ OverlapAnswered \/ Listed) /\ Return /\ ReadOnly

----------------------------------------------------------------------------
Init ==
    /\ kind \in Kinds
    /\ tree = EmptyTree
    /\ nodes = {}
    /\ held = [d \in Data |-> 0]
    /\ call = Idle

Inserting == \/ \E d \in Data : Insert(d, d, d)
             \/ \E i \in Intervals : Insert(i[1], i[2], i[3])
             \/ Descend \/ Link \/ Climb \/ InsertFixup \/ InsertDone
Removing  == \/ \E d \in Data : Remove(d)
             \/ Search \/ NotFound \/ RemoveOneKid \/ RemoveTwoKids \/ GoToMin \/ RemoveMin
             \/ RemoveFixup \/ RemoveDone
Asking    == \/ \E k \in 0 .. Cardinality(nodes) + 1 : SearchK(k)
             \/ \E i \in Intervals : IntervalSearch(i[2], i[3])
             \/ InOrder \/ StepK \/ StepOverlap \/ GoLeft \/ Visit \/ Answer

Next == Inserting \/ Removing \/ Asking

Spec == Init /\ [][Next]_vars

----------------------------------------------------------------------------
\* TypeOK: the root has no parent, every other node hangs below the node its
\* parent pointer names, every link leads to a node that is allocated, the
\* sentinel stays black, its bookkeeping zero -- between any two passes of a
\* loop.  (Node, NIL_NODE, rb_tree.hpp; os_tree.hpp; int_tree.hpp)
TypeOK ==
    /\ kind \in Kinds
    /\ ~tree.dead =>
         /\ tree.root \in nodes \cup {NIL}
         /\ tree.root # NIL => tree.parent[tree.root] = NIL
         /\ \A n \in nodes, s \in Sides :
               LET c == tree.kid[s][n] IN c # NIL => c \in nodes /\ tree.parent[c] = n
         /\ tree.color[NIL] = "BLACK" /\ tree.size[NIL] = 0 /\ tree.maxHigh[NIL] = 0

\* the intervals of the tree are ordered as their data are
SameOrder == \A m, n \in nodes : tree.key[m] <= tree.key[n] => Datum(m) <= Datum(n)

\* KeepsContents: whatever was inserted and removed, the traversal of in_order
\* prints exactly the data that are held, each as often as it was put in, in
\* the order of the keys -- although insert_fixup and remove_fixup rotate nodes
\* with equal keys to either side, and remove takes the first match search_node
\* meets.  And remove fails only for a datum that is not held: search_node goes
\* by the data where insert went by the left ends, so that in an interval tree
\* this needs intervals that are ordered as their data are; in another one remove
\* may miss what the tree holds.
KeepsContents ==
    /\ Listed =>
         /\ \A i, j \in 1 .. Len(call.out) :
               i < j => tree.key[call.out[i]] <= tree.key[call.out[j]]
         /\ \A d \in Data :
               Cardinality({i \in 1 .. Len(call.out) : Datum(call.out[i]) = d}) = held[d]
    /\ Missed /\ (kind = "int" => SameOrder) => held[call.arg] = 0

\* FindsKth: search_k answers a node with the k-th smallest datum, and none for
\* a k beyond the number of nodes, so every size is right after any rotation
\* and removal.
FindsKth ==
    KAnswered =>
      IF call.at = NIL THEN call.arg \notin 1 .. Cardinality(nodes)
      ELSE /\ call.at \in nodes
           /\ Cardinality({n \in nodes : Datum(n) < Datum(call.at)}) < call.arg
           /\ call.arg <= Cardinality({n \in nodes : Datum(n) <= Datum(call.at)})

\* FindsOverlap: interval_search finds an interval that meets the one asked for
\* exactly when the tree holds one, so no max_high is too small on the way.  With an
\* interval that ends below 0 in the tree the sentinel's max_high of 0 counts as an
\* end: a search from 0 or below may then miss, though what it finds is right.
FindsOverlap ==
    OverlapAnswered =>
      /\ call.at # NIL => call.at \in nodes /\ Meets(call.at)
      /\ (call.arg > 0 \/ \A n \in nodes : tree.high[n] >= 0) =>
           (call.at = NIL <=> ~\E n \in nodes : Meets(n))

\* NeverReadsNull: no call reads a child of the sentinel.  The comment on
\* NIL_NODE says the sentinel is there so that the code can treat the boundary
\* conditions simply (rb_tree.hpp:36).
NeverReadsNull == ~tree.dead
=============================================================================
