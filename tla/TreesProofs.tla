----------------------------- MODULE TreesProofs -----------------------------
(***************************************************************************)
(* Proofs about the trees, for any data, intervals and number of nodes.    *)
(*                                                                         *)
(* A tree is spoken of through two witnesses that the code does not have:  *)
(* rank[n], the place of node n in the order of in_order, and sub[n], the  *)
(* nodes at or below n.  `Shape' says that links, ranks and subtrees agree;*)
(* `Good' adds the types, the sentinel and the bookkeeping, which may be   *)
(* off at the nodes above `stale' while a way up is under way.  A rotation *)
(* keeps the ranks and changes two subtrees; a new leaf is ranked between  *)
(* its neighbours; a node taken out leaves the rest of the ranks alone.    *)
(*                                                                         *)
(* The module goes from what the shape implies over the operations on the  *)
(* tree (hanging a leaf, rotating, unlinking, painting) to the inductive   *)
(* invariant IInv of the loops, one lemma per action, and ends with the    *)
(* theorems: TypeOK, KeepsContents, FindsKth and FindsOverlap always hold. *)
(***************************************************************************)
EXTENDS Trees, FiniteSetTheorems, SequenceTheorems, TLAPS

(* The shape of a tree t over the nodes N.                                 *)
Colors == {"RED", "BLACK"}
Trees  == [root : Links, dead : BOOLEAN, kid : [Sides -> [Nodes -> Links]],
           parent : [Links -> Links \cup {Null}], color : [Links -> Colors],
           key : [Nodes -> Int], high : [Nodes -> Int],
           size : [Links -> Int], maxHigh : [Links -> Int]]

\* root, children and parents agree
Linked(t, N) ==
    /\ t.root \in N \cup {NIL}
    /\ t.root # NIL => t.parent[t.root] = NIL
    /\ \A n \in N, s \in Sides :
          /\ t.kid[s][n] \in N \cup {NIL}
          /\ t.kid[s][n] # NIL => t.parent[t.kid[s][n]] = n
    /\ \A n \in N \ {t.root} :
          t.parent[n] \in N /\ \E s \in Sides : t.kid[s][t.parent[n]] = n

\* sub[n] is the set of the nodes at or below n
Subtrees(t, N, sub) ==
    /\ sub[NIL] = {} /\ sub[t.root] = N
    /\ \A n \in N :
          /\ n \in sub[n]
          /\ sub[n] = {n} \cup sub[t.kid["left"][n]] \cup sub[t.kid["right"][n]]
    /\ \A n \in N : \A m \in sub[n] :
          sub[m] \subseteq sub[n] /\ (m # n => t.parent[m] \in sub[n])

\* a node's rank lies between those of its subtrees; what is not below a node lies
\* on one side of all that is; and the keys follow the ranks
Ordered(t, N, rank, sub) ==
    /\ \A n \in N :
          /\ \A m \in sub[t.kid["left"][n]] : rank[m] < rank[n]
          /\ \A m \in sub[t.kid["right"][n]] : rank[n] < rank[m]
    /\ \A n \in N : \A m \in N \ sub[n], x \in sub[n] : rank[m] < rank[n] <=> rank[m] < rank[x]
    /\ \A m, n \in N : m # n => rank[m] # rank[n]
    /\ \A m, n \in N : rank[m] < rank[n] => t.key[m] <= t.key[n]

Shape(t, N, rank, sub) ==
    /\ rank \in [N -> Int]
    /\ sub \in [N \cup {NIL} -> SUBSET N]
    /\ Linked(t, N)
    /\ Subtrees(t, N, sub)
    /\ Ordered(t, N, rank, sub)

\* max_high is the greatest right end below n, as far as it is above 0
Spanned(t, n, sub) ==
    /\ \A m \in sub[n] : t.high[m] <= t.maxHigh[n]
    /\ t.maxHigh[n] <= 0 \/ \E m \in sub[n] : t.high[m] = t.maxHigh[n]

\* sizes and spans are right, except from `stale' up: there sizes are `off' by one
Booked(t, N, sub, stale, off) ==
    /\ kind = "os" => \A n \in N :
          t.size[n] = Cardinality(sub[n]) + (IF stale \in sub[n] THEN off ELSE 0)
    /\ kind = "int" => \A n \in N : stale \notin sub[n] => Spanned(t, n, sub)

Sentinel(t) == t.color[NIL] = "BLACK" /\ t.size[NIL] = 0 /\ t.maxHigh[NIL] = 0

\* a tree between two passes of a loop
Good(t, N, rank, sub, stale, off) ==
    /\ t \in Trees /\ ~t.dead
    /\ Sentinel(t)
    /\ Shape(t, N, rank, sub)
    /\ Booked(t, N, sub, stale, off)
    /\ \A n \in N : t.key[n] \in Int /\ t.key[n] <= t.high[n]

\* where the way up has come to, and by how much the sizes from there on are off
Stale == IF call.pc \in {"insert_fixup", "remove_fixup"} THEN call.at ELSE NIL
Off   == IF call.pc = "insert_fixup" THEN -1 ELSE 1

\* the new node of insert, not linked yet
Fresh == /\ call.node \in Nodes \ nodes
         /\ \A s \in Sides : Kid(s, call.node) = NIL
         /\ tree.key[call.node] \in Int /\ tree.key[call.node] <= tree.high[call.node]
         /\ kind # "int" => tree.key[call.node] = Datum(call.node)
         /\ tree.size[call.node] = 1
         /\ tree.maxHigh[call.node] = tree.high[call.node]

\* the new key belongs where insert's way down has come to
Descending(rank, sub) ==
    LET d == tree.key[call.node]
    IN  /\ call.temp = NIL => call.at = tree.root
        /\ call.temp # NIL =>
              /\ call.temp \in nodes
              /\ call.at = Kid(SideOf(d, tree.key[call.temp]), call.temp)
              /\ \A m \in nodes \ sub[call.temp] :
                    rank[m] < rank[call.temp] <=> tree.key[m] <= d

\* search_node leaves no match aside, if keys and data have one order
Searching(sub) ==
    /\ call.arg \in Data
    /\ SameOrder => \A n \in nodes : Datum(n) = call.arg => n \in sub[call.at]

\* min_node leaves no smaller node aside
Minimal(rank, sub) ==
    /\ call.node \in nodes /\ Datum(call.node) = call.arg
    /\ \A s \in Sides : Kid(s, call.node) # NIL
    /\ call.at \in sub[Kid("right", call.node)]
    /\ \A n \in sub[Kid("right", call.node)] :
          n = call.at \/ n \in sub[Kid("left", call.at)] \/ rank[call.at] < rank[n]

\* the nodes on the left of all that is below n
Before(N, n, rank, sub) == {m \in N \ sub[n] : rank[m] < rank[n]}

\* search_k: the nodes it has left on its left make up for what it took from k
Counting(rank, sub) ==
    /\ kind = "os"
    /\ call.at # NIL => call.arg = call.k + Cardinality(Before(nodes, call.at, rank, sub))
    /\ call.arg \in 1 .. Cardinality(nodes) => call.k \in 1 .. Cardinality(sub[call.at])

\* the sentinel's max_high of 0 is no end that interval_search could mistake
NoShadow == call.arg > 0 \/ \A n \in nodes : tree.high[n] >= 0
\* interval_search stays where an interval meets the one asked for, if any does
Overlapping(sub) ==
    /\ kind = "int" /\ call.arg <= call.high
    /\ NoShadow /\ (\E n \in nodes : Meets(n)) => \E n \in sub[call.at] : Meets(n)

\* what is still to be printed on account of the i-th entry of the stack
Pending(i, sub) ==
    LET n == call.stack[i]
    IN  IF i = 1 /\ ~call.up THEN sub[n] ELSE {n} \cup sub[Kid("right", n)]

\* in_order: what is printed, then what the stack stands for, is all nodes in order
Printing(rank, sub) ==
    /\ call.stack \in Seq(nodes) /\ call.out \in Seq(nodes)
    /\ \A i, j \in 1..Len(call.stack) : i < j =>
          \A m \in Pending(i, sub), n \in Pending(j, sub) : rank[m] < rank[n]
    /\ \A i \in 1..Len(call.out), j \in 1..Len(call.stack) :
          \A n \in Pending(j, sub) : rank[call.out[i]] < rank[n]
    /\ \A i, j \in 1..Len(call.out) : i < j => rank[call.out[i]] < rank[call.out[j]]
    /\ \A n \in nodes : \/ \E i \in 1..Len(call.out) : call.out[i] = n
                        \/ \E j \in 1..Len(call.stack) : n \in Pending(j, sub)

\* what the call under way relies on
Underway(rank, sub) ==
    /\ In("descend") => Fresh /\ Descending(rank, sub)
    /\ In("insert_fixup") => call.node \in nodes
    /\ In("search") => Searching(sub)
    /\ In("min") => Minimal(rank, sub)
    /\ In("remove_fixup") => \/ call.node \in nodes
                             \/ call.node = NIL /\ (tree.root # NIL => tree.parent[NIL] \in nodes)
    /\ In("search_k") => Counting(rank, sub)
    /\ In("int_search") => Overlapping(sub)
    /\ In("in_order") => Printing(rank, sub)

\* the nodes hold what the user of the tree put in
HeldCounts ==
    /\ held = [d \in Data |-> Cardinality({n \in nodes : Datum(n) = d})]
    /\ kind # "int" => \A n \in nodes : tree.key[n] = Datum(n)

-----------------------------------------------------------------------------
(* What the shape of a tree implies.                                       *)

LEMMA KidsBelow ==
    ASSUME NEW t, NEW N, NEW rank, NEW sub, Shape(t, N, rank, sub), NEW n \in N
    PROVE  /\ n \in sub[n] /\ sub[n] \subseteq N
           /\ \A s \in Sides :
                 /\ t.kid[s][n] \in N \cup {NIL}
                 /\ sub[t.kid[s][n]] \subseteq sub[n] \ {n}
                 /\ t.kid[s][n] # n
           /\ \A m \in sub[n] : m = n \/ \E s \in Sides : m \in sub[t.kid[s][n]]
           /\ sub[t.kid["left"][n]] \cap sub[t.kid["right"][n]] = {}
<1>1. n \in sub[n] /\ sub[n] \subseteq N
  BY DEF Shape, Subtrees
<1>2. \A s \in Sides : t.kid[s][n] \in N \cup {NIL}
  BY DEF Shape, Linked
<1>3. sub[n] = {n} \cup sub[t.kid["left"][n]] \cup sub[t.kid["right"][n]]
  BY DEF Shape, Subtrees
<1>4. /\ \A m \in sub[t.kid["left"][n]] : rank[m] < rank[n]
      /\ \A m \in sub[t.kid["right"][n]] : rank[n] < rank[m]
  BY DEF Shape, Ordered
<1>5. \A m \in sub[n] : rank[m] \in Int
  BY <1>1 DEF Shape
<1>6. n \notin sub[t.kid["left"][n]] /\ n \notin sub[t.kid["right"][n]]
  BY <1>1, <1>4, <1>5
<1>7. sub[t.kid["left"][n]] \cap sub[t.kid["right"][n]] = {}
  BY <1>3, <1>4, <1>5, <1>1
<1>8. \A m \in N : m \in sub[m]
  BY DEF Shape, Subtrees
<1>9. \A s \in Sides : t.kid[s][n] # n
  <2>1. t.kid["left"][n] # n /\ t.kid["right"][n] # n
    BY <1>6, <1>1
  <2> QED
    BY <2>1 DEF Sides
<1> QED
  BY <1>1, <1>2, <1>3, <1>6, <1>7, <1>9 DEF Sides

\* a node below another is not above it
LEMMA BelowOnce ==
    ASSUME NEW t, NEW N, NEW rank, NEW sub, Shape(t, N, rank, sub), NEW n \in N,
           NEW m \in sub[n], n \in sub[m]
    PROVE  m = n
<1> SUFFICES ASSUME m # n PROVE FALSE
  OBVIOUS
<1>1. PICK s \in Sides : m \in sub[t.kid[s][n]]
  BY KidsBelow
<1>2. sub[NIL] = {}
  BY DEF Shape, Subtrees
<1>3. t.kid[s][n] \in N
  BY <1>1, <1>2, KidsBelow
<1>4. sub[m] \subseteq sub[t.kid[s][n]]
  BY <1>1, <1>3 DEF Shape, Subtrees
<1> QED
  BY <1>4, KidsBelow

\* a parent is above its child
LEMMA ParentAbove ==
    ASSUME NEW t, NEW N, NEW rank, NEW sub, Shape(t, N, rank, sub), NEW n \in N, n # t.root
    PROVE  /\ t.parent[n] \in N /\ n \in sub[t.parent[n]] /\ t.parent[n] \notin sub[n]
           /\ t.parent[n] # n
           /\ t.kid["left"][t.parent[n]] = n \/ t.kid["right"][t.parent[n]] = n
<1> DEFINE p == t.parent[n]
<1>1. p \in N /\ \E s \in Sides : t.kid[s][p] = n
  BY DEF Shape, Linked
<1>2. n \in sub[n]
  BY KidsBelow
<1> HIDE DEF p
<1>3. n \in sub[p] /\ n # p
  BY <1>1, <1>2, KidsBelow
<1>4. p \notin sub[n]
  BY <1>1, <1>3, BelowOnce
<1>5. t.kid["left"][p] = n \/ t.kid["right"][p] = n
  BY <1>1 DEF Sides
<1> QED
  BY <1>1, <1>3, <1>4, <1>5 DEF p

-----------------------------------------------------------------------------
(* What the helpers do to the fields of a tree.                            *)

LEMMA NilIsNoNode == NIL \notin Nodes /\ NIL \in Links /\ Nodes \subseteq Links
<1>1. NIL \notin Nodes
  BY DEF NIL, Nodes
<1> QED
  BY <1>1 DEF Links

LEMMA OppSides ==
    \A s \in Sides : Opp(s) \in Sides /\ Opp(s) # s /\ Opp(Opp(s)) = s
                     /\ \A x \in Sides : x = s \/ x = Opp(s)
  BY DEF Opp, Sides

\* one field of one node is written
WithSize(t, n, z) == [t EXCEPT !.size[n] = z]

LEMMA SizeWritten ==
    ASSUME NEW t \in Trees, NEW n \in Links, NEW z \in Int, NEW r, r = [t EXCEPT !.size[n] = z]
    PROVE  /\ r \in Trees
           /\ \A m \in Links : r.size[m] = IF m = n THEN z ELSE t.size[m]
           /\ r.root = t.root /\ r.dead = t.dead /\ r.color = t.color /\ r.key = t.key
           /\ r.high = t.high /\ r.kid = t.kid /\ r.parent = t.parent /\ r.maxHigh = t.maxHigh
  BY DEF Trees

LEMMA WithSizeFields ==
    ASSUME NEW t \in Trees, NEW n \in Links, NEW z \in Int, NEW r, r = WithSize(t, n, z)
    PROVE  /\ r \in Trees
           /\ \A m \in Links : r.size[m] = IF m = n THEN z ELSE t.size[m]
           /\ r.root = t.root /\ r.dead = t.dead /\ r.color = t.color /\ r.key = t.key
           /\ r.high = t.high /\ r.kid = t.kid /\ r.parent = t.parent /\ r.maxHigh = t.maxHigh
  BY SizeWritten DEF WithSize

LEMMA MaxHighWritten ==
    ASSUME NEW t \in Trees, NEW n \in Links, NEW z \in Int,
           NEW r, r = [t EXCEPT !.maxHigh[n] = z]
    PROVE  /\ r \in Trees
           /\ \A m \in Links : r.maxHigh[m] = IF m = n THEN z ELSE t.maxHigh[m]
           /\ r.root = t.root /\ r.dead = t.dead /\ r.color = t.color /\ r.key = t.key
           /\ r.high = t.high /\ r.kid = t.kid /\ r.parent = t.parent /\ r.size = t.size
  BY DEF Trees

LEMMA Painted ==
    ASSUME NEW t \in Trees, NEW n \in Links, NEW c \in Colors, NEW r, r = Paint(t, n, c)
    PROVE  /\ r \in Trees
           /\ \A m \in Links : r.color[m] = IF m = n THEN c ELSE t.color[m]
           /\ r.root = t.root /\ r.dead = t.dead /\ r.key = t.key /\ r.high = t.high
           /\ r.kid = t.kid /\ r.parent = t.parent /\ r.size = t.size /\ r.maxHigh = t.maxHigh
  BY DEF Paint, Trees

\* the links of a node that is being moved, in order of the code
LEMMA ReplaceFields ==
    ASSUME NEW t \in Trees, NEW old \in Nodes, NEW new \in Links,
           NEW r, r = Replace(t, old, new), NEW p, p = t.parent[old]
    PROVE  
               /\ r \in Trees
               /\ r.root = IF p = NIL THEN new ELSE t.root
               /\ r.dead = t.dead /\ r.parent = t.parent /\ r.color = t.color
               /\ r.key = t.key /\ r.high = t.high /\ r.size = t.size /\ r.maxHigh = t.maxHigh
               /\ \A s \in Sides, m \in Nodes :
                     r.kid[s][m] = IF p # NIL /\ m = p
                                      /\ s = (IF old = t.kid["left"][p] THEN "left" ELSE "right")
                                   THEN new ELSE t.kid[s][m]
<1>1. "left" \in Sides /\ "right" \in Sides /\ "left" # "right"
  BY DEF Sides
<1>2. t.root \in Links /\ t.kid \in [Sides -> [Nodes -> Links]]
  BY DEF Trees
<1>3. CASE p = NIL
  BY <1>1, <1>2, <1>3 DEF Replace, Trees
<1>4. CASE p # NIL /\ old = t.kid["left"][p]
  BY <1>1, <1>2, <1>4 DEF Replace, Trees
<1>5. CASE p # NIL /\ old # t.kid["left"][p]
  BY <1>1, <1>2, <1>5 DEF Replace, Trees
<1> QED
  BY <1>3, <1>4, <1>5

LEMMA AdoptFields ==
    ASSUME NEW t \in Trees, NEW c \in Links, NEW n \in Nodes, NEW r, r = Adopt(t, c, n)
    PROVE  
               /\ r \in Trees
               /\ r.root = t.root
               /\ r.dead = t.dead /\ r.kid = t.kid /\ r.color = t.color
               /\ r.key = t.key /\ r.high = t.high /\ r.size = t.size /\ r.maxHigh = t.maxHigh
               /\ \A m \in Links : r.parent[m] = IF m = c /\ c # NIL THEN n ELSE t.parent[m]
  BY NilIsNoNode DEF Adopt, Trees

\* the rotation without its bookkeeping
Lifted(t, n, side) ==
    LET temp  == t.kid[Opp(side)][n]
        inner == t.kid[side][temp]
        t1 == [t EXCEPT !.kid[Opp(side)][n] = inner]
        t2 == Adopt(t1, inner, n)
        t3 == [t2 EXCEPT !.parent[temp] = t.parent[n]]
        t4 == Replace(t3, n, temp)
    IN  [t4 EXCEPT !.kid[side][temp] = n, !.parent[n] = temp]

\* the fields but sizes and greatest ends: x is lifted over n, below p
Rotated(t, r, n, side, x, inner, p) ==
    /\ r \in Trees
    /\ r.root = IF p = NIL THEN x ELSE t.root
    /\ r.dead = t.dead /\ r.color = t.color /\ r.key = t.key /\ r.high = t.high
    /\ \A s \in Sides, m \in Nodes :
          r.kid[s][m] = IF m = x /\ s = side THEN n
                        ELSE IF m = n /\ s = Opp(side) THEN inner
                        ELSE IF p # NIL /\ m = p
                           /\ s = (IF n = t.kid["left"][p] THEN "left" ELSE "right")
                        THEN x ELSE t.kid[s][m]
    /\ \A m \in Links :
          r.parent[m] = IF m = n THEN x ELSE IF m = x THEN p
                        ELSE IF m = inner /\ inner # NIL THEN n
                        ELSE t.parent[m]

LEMMA LiftedFields ==
    ASSUME NEW t \in Trees, NEW n \in Nodes, NEW side \in Sides,
           NEW x, x = t.kid[Opp(side)][n], x \in Nodes, x # n,
           NEW inner, inner = t.kid[side][x], inner # x, inner # n,
           NEW p, p = t.parent[n], p # n, p # x
    PROVE  /\ Rotated(t, Lifted(t, n, side), n, side, x, inner, p)
           /\ Lifted(t, n, side).size = t.size /\ Lifted(t, n, side).maxHigh = t.maxHigh
<1>a. Opp(side) \in Sides /\ Opp(side) # side /\ inner \in Links /\ x \in Links /\ n \in Links
      /\ p \in Links \cup {Null}
  BY OppSides, NilIsNoNode DEF Trees
<1>t. PICK t1 : t1 = [t EXCEPT !.kid[Opp(side)][n] = inner]
  OBVIOUS
<1>1. /\ t1 \in Trees /\ t1.root = t.root /\ t1.dead = t.dead /\ t1.color = t.color
      /\ t1.key = t.key /\ t1.high = t.high /\ t1.size = t.size /\ t1.maxHigh = t.maxHigh
      /\ t1.parent = t.parent
      /\ \A s \in Sides, m \in Nodes :
            t1.kid[s][m] = IF m = n /\ s = Opp(side) THEN inner ELSE t.kid[s][m]
  BY <1>a, <1>t DEF Trees
<1>u. PICK t2 : /\ t2 = Adopt(t1, inner, n)
                /\ t2 \in Trees /\ t2.root = t1.root /\ t2.dead = t1.dead /\ t2.color = t1.color
                /\ t2.key = t1.key /\ t2.high = t1.high /\ t2.size = t1.size
                /\ t2.maxHigh = t1.maxHigh /\ t2.kid = t1.kid
                /\ \A m \in Links :
                      t2.parent[m] = IF m = inner /\ inner # NIL THEN n ELSE t1.parent[m]
  <2>1. \A c \in Links : \A r : r = Adopt(t1, c, n) =>
                /\ r \in Trees /\ r.root = t1.root /\ r.dead = t1.dead /\ r.color = t1.color
                /\ r.key = t1.key /\ r.high = t1.high /\ r.size = t1.size
                /\ r.maxHigh = t1.maxHigh /\ r.kid = t1.kid
                /\ \A m \in Links :
                      r.parent[m] = IF m = c /\ c # NIL THEN n ELSE t1.parent[m]
    <3>1. t1 \in Trees
      BY <1>1
    <3> QED
      BY <3>1, AdoptFields
  <2> QED
    BY <1>a, <2>1
<1>2. /\ t2 \in Trees /\ t2.root = t.root /\ t2.dead = t.dead /\ t2.color = t.color
      /\ t2.key = t.key /\ t2.high = t.high /\ t2.size = t.size /\ t2.maxHigh = t.maxHigh
      /\ t2.kid = t1.kid
      /\ \A m \in Links : t2.parent[m] = IF m = inner /\ inner # NIL THEN n ELSE t.parent[m]
  BY <1>1, <1>u
<1>v. PICK t3 : t3 = [t2 EXCEPT !.parent[x] = p]
  OBVIOUS
<1>3. /\ t3 \in Trees /\ t3.root = t.root /\ t3.dead = t.dead /\ t3.color = t.color
      /\ t3.key = t.key /\ t3.high = t.high /\ t3.size = t.size /\ t3.maxHigh = t.maxHigh
      /\ t3.kid = t1.kid
      /\ \A m \in Links : t3.parent[m] = IF m = x THEN p
                          ELSE IF m = inner /\ inner # NIL THEN n ELSE t.parent[m]
  BY <1>2, <1>a, <1>v DEF Trees
<1>b. t3.parent[n] = p
  BY <1>3, <1>a
<1>w. PICK t4 : t4 = Replace(t3, n, x)
  OBVIOUS
<1>4. /\ t4 \in Trees /\ t4.root = IF p = NIL THEN x ELSE t.root
      /\ t4.dead = t.dead /\ t4.color = t.color
      /\ t4.key = t.key /\ t4.high = t.high /\ t4.size = t.size /\ t4.maxHigh = t.maxHigh
      /\ t4.parent = t3.parent
      /\ \A s \in Sides, m \in Nodes :
            t4.kid[s][m] = IF p # NIL /\ m = p
                              /\ s = (IF n = t3.kid["left"][p] THEN "left" ELSE "right")
                           THEN x ELSE t3.kid[s][m]
  BY <1>3, <1>a, <1>b, <1>w, ReplaceFields
<1>c. p \in Nodes => t3.kid["left"][p] = t.kid["left"][p]
  BY <1>3, <1>1 DEF Sides
<1>z. PICK r : r = [t4 EXCEPT !.kid[side][x] = n, !.parent[n] = x]
  OBVIOUS
<1>0. Lifted(t, n, side) = r
  BY <1>t, <1>u, <1>v, <1>w, <1>z DEF Lifted
<1>5. /\ r \in Trees /\ r.root = t4.root
      /\ r.dead = t.dead /\ r.color = t.color
      /\ r.key = t.key /\ r.high = t.high /\ r.size = t.size /\ r.maxHigh = t.maxHigh
      /\ \A m \in Links : r.parent[m] = IF m = n THEN x ELSE t4.parent[m]
      /\ \A s \in Sides, m \in Nodes :
            r.kid[s][m] = IF s = side /\ m = x THEN n ELSE t4.kid[s][m]
  BY <1>4, <1>a, <1>z DEF Trees
<1>6. \A s \in Sides, m \in Nodes :
                     r.kid[s][m] = IF m = x /\ s = side THEN n
                                   ELSE IF m = n /\ s = Opp(side) THEN inner
                                   ELSE IF p # NIL /\ m = p
                                      /\ s = (IF n = t.kid["left"][p] THEN "left" ELSE "right")
                                   THEN x ELSE t.kid[s][m]
  <2> SUFFICES ASSUME NEW s \in Sides, NEW m \in Nodes
               PROVE  r.kid[s][m] = IF m = x /\ s = side THEN n
                                   ELSE IF m = n /\ s = Opp(side) THEN inner
                                   ELSE IF p # NIL /\ m = p
                                      /\ s = (IF n = t.kid["left"][p] THEN "left" ELSE "right")
                                   THEN x ELSE t.kid[s][m]
    OBVIOUS
  <2>1. t3.kid[s][m] = IF m = n /\ s = Opp(side) THEN inner ELSE t.kid[s][m]
    BY <1>1, <1>3
  <2>2. m = p => t3.kid["left"][p] = t.kid["left"][p]
    BY <1>c
  <2> QED
    BY <1>4, <1>5, <2>1, <2>2
<1>7. \A m \in Links :
                     r.parent[m] = IF m = n THEN x ELSE IF m = x THEN p
                                   ELSE IF m = inner /\ inner # NIL THEN n
                                   ELSE t.parent[m]
  BY <1>3, <1>4, <1>5
<1> QED
  BY <1>0, <1>4, <1>5, <1>6, <1>7 DEF Rotated

\* GET_MAX_HIGH answers the greatest of three
LEMMA MaxOfThree ==
    ASSUME NEW a \in Int, NEW b \in Int, NEW c \in Int
    PROVE  /\ Max({a, b, c}) \in {a, b, c}
           /\ a <= Max({a, b, c}) /\ b <= Max({a, b, c}) /\ c <= Max({a, b, c})
<1>1. \E m \in {a, b, c} : \A y \in {a, b, c} : m >= y
  <2>1. CASE a >= b /\ a >= c
    BY <2>1
  <2>2. CASE b >= a /\ b >= c
    BY <2>2
  <2>3. CASE c >= a /\ c >= b
    BY <2>3
  <2> QED
    BY <2>1, <2>2, <2>3
<1>2. Max({a, b, c}) \in {a, b, c} /\ \A y \in {a, b, c} : Max({a, b, c}) >= y
  BY <1>1 DEF Max
<1> QED
  BY <1>2

\* the sizes and the greatest ends after the rotation
Bookkept(t, r, n, x, outer, inner) ==
    /\ kind = "os" =>
          /\ r.maxHigh = t.maxHigh
          /\ \A m \in Links :
                r.size[m] = IF m = x THEN t.size[n]
                            ELSE IF m = n THEN t.size[outer] + t.size[inner] + 1
                            ELSE t.size[m]
    /\ kind = "int" =>
          /\ r.size = t.size
          /\ \A m \in Links \ {n} :
                r.maxHigh[m] = IF m = x THEN t.maxHigh[n] ELSE t.maxHigh[m]
          /\ r.maxHigh[n] \in {t.maxHigh[outer], t.maxHigh[inner], t.high[n]}
          /\ t.maxHigh[outer] <= r.maxHigh[n] /\ t.maxHigh[inner] <= r.maxHigh[n]
          /\ t.high[n] <= r.maxHigh[n]
    /\ kind \notin {"os", "int"} => r.size = t.size /\ r.maxHigh = t.maxHigh

\* a rotation with its bookkeeping
LEMMA RotateFields ==
    ASSUME NEW t \in Trees, NEW n \in Nodes, NEW side \in Sides,
           NEW x, x = t.kid[Opp(side)][n], x \in Nodes, x # n,
           NEW outer, outer = t.kid[side][n], outer # n, outer # x,
           NEW inner, inner = t.kid[side][x], inner # x, inner # n,
           NEW p, p = t.parent[n], p # n, p # x,
           NEW r, r = Rotate(t, n, side)
    PROVE  /\ Rotated(t, r, n, side, x, inner, p)
           /\ Bookkept(t, r, n, x, outer, inner)
<1>1. PICK l : l = Lifted(t, n, side)
  OBVIOUS
<1>2. Rotated(t, l, n, side, x, inner, p) /\ l.size = t.size /\ l.maxHigh = t.maxHigh
  BY <1>1, LiftedFields
<1>3. r = CASE kind = "os"  -> Resize(l, n, x)
            [] kind = "int" -> Rehigh(l, n, x)
            [] OTHER        -> l
  <2>1. x # NIL
    BY NilIsNoNode
  <2> QED
    BY <1>1, <2>1 DEF Rotate, Lifted
<1>4. /\ l \in Trees /\ l.high = t.high /\ x \in Links /\ n \in Links
      /\ l.kid["left"][n] \in Links /\ l.kid["right"][n] \in Links
  BY <1>2, NilIsNoNode DEF Rotated, Trees, Sides
<1>5. l.kid[side][n] = outer /\ l.kid[Opp(side)][n] = inner
  BY <1>2, OppSides DEF Rotated
<1>6. {l.kid["left"][n], l.kid["right"][n]} = {outer, inner}
      /\ \A f \in [Links -> Int] : f[l.kid["left"][n]] + f[l.kid["right"][n]] = f[outer] + f[inner]
  <2>1. CASE side = "left"
    BY <1>5, <2>1 DEF Opp
  <2>2. CASE side = "right"
    <3>1. outer = l.kid["right"][n] /\ inner = l.kid["left"][n]
      BY <1>5, <2>2 DEF Opp
    <3>2. \A f \in [Links -> Int] : f[outer] \in Int /\ f[inner] \in Int
      BY <1>4, <3>1
    <3> QED
      BY <3>1, <3>2
  <2> QED
    BY <2>1, <2>2 DEF Sides
<1>7. l.kid["left"][n] # x /\ l.kid["right"][n] # x /\ l.kid["left"][n] # n /\ l.kid["right"][n] # n
  BY <1>6
<1>8. CASE kind = "os"
  <2>1. PICK s : s = [l EXCEPT !.size[x] = l.size[n]]
    OBVIOUS
  <2>2. /\ s \in Trees
        /\ \A m \in Links : s.size[m] = IF m = x THEN t.size[n] ELSE t.size[m]
        /\ s.root = l.root /\ s.dead = l.dead /\ s.color = l.color /\ s.key = l.key
        /\ s.high = l.high /\ s.kid = l.kid /\ s.parent = l.parent /\ s.maxHigh = t.maxHigh
    BY <1>2, <1>4, <2>1 DEF Trees
  <2>3. SizeOf(s, n) = t.size[outer] + t.size[inner] + 1
    <3>1. SizeOf(s, n) = t.size[l.kid["left"][n]] + t.size[l.kid["right"][n]] + 1
      BY <1>4, <1>7, <2>2 DEF SizeOf
    <3>2. t.size \in [Links -> Int]
      BY DEF Trees
    <3> QED
      BY <1>6, <3>1, <3>2
  <2>4. PICK z : z = t.size[outer] + t.size[inner] + 1
    OBVIOUS
  <2>a. r = [s EXCEPT !.size[n] = z]
    BY <1>3, <1>8, <2>1, <2>3, <2>4 DEF Resize
  <2>b. s \in Trees /\ n \in Links
    BY <1>4, <2>2
  <2>5. z \in Int
    <3>1. outer \in Links /\ inner \in Links /\ t.size \in [Links -> Int]
      BY <1>4, NilIsNoNode, OppSides DEF Trees
    <3> QED
      BY <2>4, <3>1
  <2>c. /\ r \in Trees
        /\ \A m \in Links : r.size[m] = IF m = n THEN z ELSE s.size[m]
        /\ r.root = s.root /\ r.dead = s.dead /\ r.color = s.color /\ r.key = s.key
        /\ r.high = s.high /\ r.kid = s.kid /\ r.parent = s.parent /\ r.maxHigh = s.maxHigh
    <3>1. n \in Links
      BY <2>b
    <3>2. s \in Trees /\ z \in Int
      BY <2>5, <2>b
    <3>3. r = WithSize(s, n, z)
      BY <2>a DEF WithSize
    <3> QED
      BY <3>1, <3>2, <3>3, WithSizeFields
  <2>6. /\ r \in Trees
        /\ \A m \in Links : r.size[m] = IF m = n THEN t.size[outer] + t.size[inner] + 1
                                        ELSE s.size[m]
        /\ r.root = l.root /\ r.dead = l.dead /\ r.color = l.color /\ r.key = l.key
        /\ r.high = l.high /\ r.kid = l.kid /\ r.parent = l.parent /\ r.maxHigh = t.maxHigh
    BY <2>2, <2>4, <2>c
  <2>7. Rotated(t, r, n, side, x, inner, p)
    BY <1>2, <2>6 DEF Rotated
  <2> QED
    BY <1>8, <2>2, <2>6, <2>7 DEF Bookkept
<1>9. CASE kind = "int"
  <2>1. PICK s : s = [l EXCEPT !.maxHigh[x] = l.maxHigh[n]]
    OBVIOUS
  <2>2. /\ s \in Trees
        /\ \A m \in Links : s.maxHigh[m] = IF m = x THEN t.maxHigh[n] ELSE t.maxHigh[m]
        /\ s.root = l.root /\ s.dead = l.dead /\ s.color = l.color /\ s.key = l.key
        /\ s.high = l.high /\ s.kid = l.kid /\ s.parent = l.parent /\ s.size = t.size
    BY <1>2, <1>4, <2>1 DEF Trees
  <2>3. PICK g : g = GetMaxHigh(s, n)
    OBVIOUS
  <2>4. /\ g \in {t.maxHigh[outer], t.maxHigh[inner], t.high[n]} /\ g \in Int
        /\ t.maxHigh[outer] <= g /\ t.maxHigh[inner] <= g /\ t.high[n] <= g
    <3>1. g = Max({t.maxHigh[l.kid["left"][n]], t.maxHigh[l.kid["right"][n]], t.high[n]})
      BY <1>4, <1>7, <2>2, <2>3 DEF GetMaxHigh
    <3>2. /\ {t.maxHigh[l.kid["left"][n]], t.maxHigh[l.kid["right"][n]], t.high[n]}
                = {t.maxHigh[outer], t.maxHigh[inner], t.high[n]}
      BY ZenonT(40), <1>6
    <3>3. t.maxHigh[outer] \in Int /\ t.maxHigh[inner] \in Int /\ t.high[n] \in Int
      BY DEF Trees
    <3>4. g = Max({t.maxHigh[outer], t.maxHigh[inner], t.high[n]})
      BY <3>1, <3>2
    <3> QED
      BY ZenonT(40), <3>3, <3>4, MaxOfThree
  <2>5. r = [s EXCEPT !.maxHigh[n] = g]
    BY <1>3, <1>9, <2>1, <2>3 DEF Rehigh
  <2>b. s \in Trees /\ n \in Links /\ g \in Int
    BY <1>4, <2>2, <2>4
  <2>c. /\ r \in Trees
        /\ \A m \in Links : r.maxHigh[m] = IF m = n THEN g ELSE s.maxHigh[m]
        /\ r.root = s.root /\ r.dead = s.dead /\ r.color = s.color /\ r.key = s.key
        /\ r.high = s.high /\ r.kid = s.kid /\ r.parent = s.parent /\ r.size = s.size
    <3>1. \A w \in Trees, y \in Int : \A q : q = [w EXCEPT !.maxHigh[n] = y] =>
             /\ q \in Trees
             /\ \A m \in Links : q.maxHigh[m] = IF m = n THEN y ELSE w.maxHigh[m]
             /\ q.root = w.root /\ q.dead = w.dead /\ q.color = w.color /\ q.key = w.key
             /\ q.high = w.high /\ q.kid = w.kid /\ q.parent = w.parent /\ q.size = w.size
      <4>1. n \in Links
        BY <2>b
      <4> QED
        BY <4>1, MaxHighWritten
    <3>2. s \in Trees /\ g \in Int
      BY <2>b
    <3> QED
      BY <3>1, <3>2, <2>5
  <2>6. /\ r \in Trees
        /\ \A m \in Links : r.maxHigh[m] = IF m = n THEN g ELSE s.maxHigh[m]
        /\ r.root = l.root /\ r.dead = l.dead /\ r.color = l.color /\ r.key = l.key
        /\ r.high = l.high /\ r.kid = l.kid /\ r.parent = l.parent /\ r.size = t.size
    BY <2>2, <2>c
  <2>7. Rotated(t, r, n, side, x, inner, p)
    BY <1>2, <2>6 DEF Rotated
  <2> QED
    BY <1>4, <1>9, <2>2, <2>4, <2>6, <2>7 DEF Bookkept
<1>10. CASE kind \notin {"os", "int"}
  BY <1>2, <1>3, <1>10 DEF Bookkept
<1> QED
  BY <1>8, <1>9, <1>10 DEF Bookkept

-----------------------------------------------------------------------------
(* A rotation keeps the shape: the lifted node takes over what was below the  *)
(* node that goes down, in the same order.                                    *)

\* a is before b, as seen from the given side
Beside(side, a, b) == IF side = "left" THEN a < b ELSE b < a

\* what Shape says of the children, with the side as a parameter
LEMMA KidsBySide ==
    ASSUME NEW t, NEW N, NEW rank, NEW sub, Shape(t, N, rank, sub), NEW n \in N, NEW s \in Sides
    PROVE  /\ sub[n] = {n} \cup sub[t.kid[s][n]] \cup sub[t.kid[Opp(s)][n]]
           /\ sub[t.kid[s][n]] \cap sub[t.kid[Opp(s)][n]] = {}
           /\ n \notin sub[t.kid[s][n]]
           /\ \A m \in sub[t.kid[s][n]] : Beside(s, rank[m], rank[n])
<1>1. sub[n] = {n} \cup sub[t.kid["left"][n]] \cup sub[t.kid["right"][n]]
  BY DEF Shape, Subtrees
<1>2. /\ sub[t.kid["left"][n]] \cap sub[t.kid["right"][n]] = {}
      /\ \A u \in Sides : n \notin sub[t.kid[u][n]]
  BY KidsBelow
<1>3. /\ \A m \in sub[t.kid["left"][n]] : rank[m] < rank[n]
      /\ \A m \in sub[t.kid["right"][n]] : rank[n] < rank[m]
  BY DEF Shape, Ordered
<1>4. CASE s = "left"
  <2>1. Opp(s) = "right"
    BY <1>4 DEF Opp
  <2> QED
    BY <1>1, <1>2, <1>3, <1>4, <2>1 DEF Beside
<1>5. CASE s = "right"
  <2>1. Opp(s) = "left"
    BY <1>5 DEF Opp
  <2> QED
    BY <1>1, <1>2, <1>3, <1>5, <2>1 DEF Beside
<1> QED
  BY <1>4, <1>5 DEF Sides

\* a node hangs in one place only
LEMMA OnePlace ==
    ASSUME NEW t, NEW N, NEW rank, NEW sub, Shape(t, N, rank, sub),
           NEW m \in N, NEW q \in N, NEW s \in Sides, NEW u \in Sides,
           t.kid[s][m] # NIL, t.kid[s][m] = t.kid[u][q]
    PROVE  m = q /\ s = u
<1>1. m = q
  BY DEF Shape, Linked
<1>2. t.kid[s][m] \in sub[t.kid[s][m]]
  <2>1. t.kid[s][m] \in N
    BY KidsBelow
  <2> QED
    BY <2>1, KidsBelow
<1>3. u # Opp(s)
  BY <1>1, <1>2, KidsBySide
<1> QED
  BY <1>1, <1>3, OppSides

LEMMA RootUp ==
    ASSUME NEW t, NEW N, NIL \notin N, NEW rank, NEW sub, Shape(t, N, rank, sub), NEW n \in N
    PROVE  /\ t.parent[n] = NIL <=> n = t.root
           /\ t.parent[n] \in N \cup {NIL}
<1>1. n = t.root => t.parent[n] = NIL
  BY DEF Shape, Linked
<1>2. n # t.root => t.parent[n] \in N
  BY ParentAbove
<1> QED
  BY <1>1, <1>2

\* the nodes around a rotation
LEMMA Around ==
    ASSUME NEW t, NEW N, NIL \notin N, NEW rank, NEW sub, Shape(t, N, rank, sub), NEW n \in N,
           NEW side \in Sides,
           NEW x, x = t.kid[Opp(side)][n], x \in N,
           NEW outer, outer = t.kid[side][n],
           NEW inner, inner = t.kid[side][x],
           NEW far, far = t.kid[Opp(side)][x],
           NEW p, p = t.parent[n]
    PROVE  /\ x # n /\ outer # n /\ outer # x /\ inner # n /\ inner # x /\ far # n /\ far # x
           /\ p # n /\ p # x
           /\ outer \in N \cup {NIL} /\ inner \in N \cup {NIL} /\ far \in N \cup {NIL}
           /\ p \in N \cup {NIL}
           /\ sub[n] = {n} \cup sub[outer] \cup sub[x]
           /\ sub[x] = {x} \cup sub[inner] \cup sub[far]
           /\ n \notin sub[outer] /\ n \notin sub[x] /\ x \notin sub[outer]
           /\ x \notin sub[inner] /\ x \notin sub[far]
           /\ sub[outer] \cap sub[x] = {} /\ sub[inner] \cap sub[far] = {}
           /\ t.parent[x] = n
           /\ inner # NIL => t.parent[inner] = x /\ inner \in sub[inner]
           /\ outer # NIL => t.parent[outer] = n /\ outer \in sub[outer]
<1>s. Opp(side) \in Sides /\ Opp(side) # side /\ Opp(Opp(side)) = side
  BY OppSides
<1>1. /\ outer \in N \cup {NIL} /\ inner \in N \cup {NIL} /\ far \in N \cup {NIL}
      /\ outer # n /\ x # n /\ inner # x /\ far # x
      /\ n \notin sub[outer] /\ n \notin sub[x] /\ x \notin sub[inner] /\ x \notin sub[far]
      /\ sub[inner] \subseteq sub[x] /\ sub[far] \subseteq sub[x]
  BY <1>s, KidsBelow
<1>2. /\ sub[n] = {n} \cup sub[outer] \cup sub[x] /\ sub[x] = {x} \cup sub[inner] \cup sub[far]
      /\ sub[outer] \cap sub[x] = {} /\ sub[inner] \cap sub[far] = {}
  BY <1>s, KidsBySide
<1>3. \A m \in N : m \in sub[m]
  BY KidsBelow
<1>4. /\ inner # n /\ far # n /\ outer # x /\ x \notin sub[outer]
  BY <1>1, <1>2, <1>3
<1>5. p # n /\ p # x /\ p \in N \cup {NIL}
  <2>1. CASE n = t.root
    BY <2>1, RootUp
  <2>2. CASE n # t.root
    <3>1. p \in N /\ p \notin sub[n]
      BY <2>2, ParentAbove
    <3> QED
      BY <1>2, <1>3, <3>1
  <2> QED
    BY <2>1, <2>2
<1>6. /\ t.parent[x] = n
      /\ inner # NIL => t.parent[inner] = x /\ inner \in sub[inner]
      /\ outer # NIL => t.parent[outer] = n /\ outer \in sub[outer]
  BY <1>1, <1>3, <1>s DEF Shape, Linked
<1> QED
  BY <1>1, <1>2, <1>4, <1>5, <1>6

\* the nodes that a rotation of n touches
Turned(t, n, side, x, outer, inner, far, p) ==
    /\ x = t.kid[Opp(side)][n] /\ outer = t.kid[side][n]
    /\ inner = t.kid[side][x] /\ far = t.kid[Opp(side)][x]
    /\ p = t.parent[n]

\* how they lie to each other
Neighbours(t, N, sub, n, x, outer, inner, far, p) ==
    /\ x # n /\ outer # n /\ outer # x /\ inner # n /\ inner # x /\ far # n /\ far # x
    /\ p # n /\ p # x
    /\ outer \in N \cup {NIL} /\ inner \in N \cup {NIL} /\ far \in N \cup {NIL}
    /\ p \in N \cup {NIL}
    /\ sub[n] = {n} \cup sub[outer] \cup sub[x]
    /\ sub[x] = {x} \cup sub[inner] \cup sub[far]
    /\ n \notin sub[outer] /\ n \notin sub[x] /\ x \notin sub[outer]
    /\ x \notin sub[inner] /\ x \notin sub[far]
    /\ sub[outer] \cap sub[x] = {} /\ sub[inner] \cap sub[far] = {}
    /\ t.parent[x] = n
    /\ inner # NIL => t.parent[inner] = x /\ inner \in sub[inner]
    /\ outer # NIL => t.parent[outer] = n /\ outer \in sub[outer]

LEMMA TurnedAround ==
    ASSUME NEW t, NEW N, NIL \notin N, NEW rank, NEW sub, Shape(t, N, rank, sub), NEW n \in N,
           NEW side \in Sides, NEW x \in N, NEW outer, NEW inner, NEW far, NEW p,
           Turned(t, n, side, x, outer, inner, far, p)
    PROVE  Neighbours(t, N, sub, n, x, outer, inner, far, p)
<1>1. /\ x = t.kid[Opp(side)][n] /\ outer = t.kid[side][n]
      /\ inner = t.kid[side][x] /\ far = t.kid[Opp(side)][x]
      /\ p = t.parent[n]
  BY DEF Turned
<1> QED
  BY <1>1, Around DEF Neighbours

\* the subtrees after the rotation
LiftedSubs(N, sub, subs, n, x, outer, inner) ==
    \A m \in N \cup {NIL} :
       subs[m] = IF m = x THEN sub[n]
                 ELSE IF m = n THEN {n} \cup sub[outer] \cup sub[inner] ELSE sub[m]

\* the children after the rotation, and what is below the other nodes' children
Rehung(t, r, N, sub, subs, n, side, x, outer, inner, far) ==
    /\ r.kid[side][n] = outer /\ r.kid[Opp(side)][n] = inner
    /\ r.kid[side][x] = n /\ r.kid[Opp(side)][x] = far
    /\ \A m \in N \ {n, x}, s \in Sides : subs[r.kid[s][m]] = sub[t.kid[s][m]]

LEMMA RotateLinks ==
    ASSUME NEW t, NEW N, N \subseteq Nodes, NEW rank, NEW sub, Shape(t, N, rank, sub),
           NEW n \in N, NEW side \in Sides,
           NEW x, x = t.kid[Opp(side)][n], x \in N,
           NEW inner, inner = t.kid[side][x],
           NEW p, p = t.parent[n],
           NEW r, Rotated(t, r, n, side, x, inner, p)
    PROVE  Linked(r, N)
<1>n. NIL \notin N /\ NIL \in Links /\ \A m \in N : m \in Nodes /\ m \in Links
  BY NilIsNoNode
<1>s. Opp(side) \in Sides /\ Opp(side) # side /\ "left" \in Sides /\ "right" \in Sides
  BY OppSides DEF Sides
<1>a. /\ x # n /\ inner # n /\ inner # x /\ p # n /\ p # x /\ inner \in N \cup {NIL}
      /\ p \in N \cup {NIL} /\ t.parent[x] = n /\ (inner # NIL => t.parent[inner] = x)
  BY <1>n, Around
<1>k. \A s \in Sides, m \in N :
          r.kid[s][m] = IF m = x /\ s = side THEN n
                        ELSE IF m = n /\ s = Opp(side) THEN inner
                        ELSE IF p # NIL /\ m = p
                           /\ s = (IF n = t.kid["left"][p] THEN "left" ELSE "right")
                        THEN x ELSE t.kid[s][m]
  BY <1>n DEF Rotated
<1>p. \A m \in N :
          r.parent[m] = IF m = n THEN x ELSE IF m = x THEN p
                        ELSE IF m = inner /\ inner # NIL THEN n ELSE t.parent[m]
  BY <1>n DEF Rotated
<1>r. r.root = IF p = NIL THEN x ELSE t.root
  BY DEF Rotated
<1>o. \A m, q \in N, s, u \in Sides :
          t.kid[s][m] # NIL /\ t.kid[s][m] = t.kid[u][q] => m = q /\ s = u
  BY OnePlace
<1>l. /\ t.root \in N \cup {NIL} /\ (t.root # NIL => t.parent[t.root] = NIL)
      /\ \A m \in N, s \in Sides :
            /\ t.kid[s][m] \in N \cup {NIL}
            /\ t.kid[s][m] # NIL => t.parent[t.kid[s][m]] = m
      /\ \A m \in N \ {t.root} : t.parent[m] \in N /\ \E s \in Sides : t.kid[s][t.parent[m]] = m
  BY DEF Shape, Linked
<1>e. p = NIL <=> n = t.root
  BY <1>n, RootUp
\* where n hung
<1>h. p # NIL => t.kid[IF n = t.kid["left"][p] THEN "left" ELSE "right"][p] = n
  <2>1. p # NIL => t.kid["left"][p] = n \/ t.kid["right"][p] = n
    BY <1>e, ParentAbove
  <2> QED
    BY <2>1
<1>1. r.root \in N \cup {NIL} /\ (r.root # NIL => r.parent[r.root] = NIL)
  <2>1. CASE p = NIL
    BY <2>1, <1>r, <1>p, <1>a
  <2>2. CASE p # NIL
    <3>1. r.root = t.root /\ t.root # n /\ t.root # x /\ (inner # NIL => t.root # inner)
      BY <2>2, <1>r, <1>e, <1>a, <1>l, <1>n
    <3> QED
      BY <3>1, <1>p, <1>l
  <2> QED
    BY <2>1, <2>2
<1>2. ASSUME NEW m \in N, NEW s \in Sides
      PROVE  r.kid[s][m] \in N \cup {NIL} /\ (r.kid[s][m] # NIL => r.parent[r.kid[s][m]] = m)
  <2>1. CASE m = x /\ s = side
    BY <2>1, <1>k, <1>p
  <2>2. CASE m = n /\ s = Opp(side)
    <3>1. r.kid[s][m] = inner
      BY <2>2, <1>k, <1>a
    <3> QED
      BY <3>1, <2>2, <1>p, <1>a
  <2>3. CASE ~(m = x /\ s = side) /\ ~(m = n /\ s = Opp(side))
             /\ p # NIL /\ m = p /\ s = (IF n = t.kid["left"][p] THEN "left" ELSE "right")
    <3>1. r.kid[s][m] = x
      BY <2>3, <1>k
    <3> QED
      BY <3>1, <2>3, <1>p, <1>a
  <2>4. CASE ~(m = x /\ s = side) /\ ~(m = n /\ s = Opp(side))
             /\ ~(p # NIL /\ m = p /\ s = (IF n = t.kid["left"][p] THEN "left" ELSE "right"))
    <3>1. r.kid[s][m] = t.kid[s][m] /\ t.kid[s][m] \in N \cup {NIL}
      BY <2>4, <1>k, <1>l
    <3>2. ASSUME t.kid[s][m] # NIL
          PROVE  t.kid[s][m] # n /\ t.kid[s][m] # x /\ t.kid[s][m] # inner
                 /\ t.parent[t.kid[s][m]] = m
      <4>1. t.kid[s][m] # x
        BY <3>2, <2>4, <1>o, <1>s
      <4>2. t.kid[s][m] # inner
        BY <3>2, <2>4, <1>o, <1>s
      <4>3. t.kid[s][m] # n
        <5>1. SUFFICES ASSUME t.kid[s][m] = n PROVE FALSE
          OBVIOUS
        <5>2. m = p
          BY <5>1, <1>l, <3>2
        <5>3. p # NIL /\ p \in N
          BY <5>2, <1>n
        <5>4. t.kid[IF n = t.kid["left"][p] THEN "left" ELSE "right"][p] = t.kid[s][m]
          BY <5>1, <5>3, <1>h
        <5>5. (IF n = t.kid["left"][p] THEN "left" ELSE "right") \in Sides
          BY <1>s
        <5>6. (IF n = t.kid["left"][p] THEN "left" ELSE "right") = s
          BY <5>3, <5>4, <5>5, <3>2, <1>o
        <5> QED
          BY <5>2, <5>3, <5>6, <2>4
      <4> QED
        BY <4>1, <4>2, <4>3, <3>2, <1>l
    <3> QED
      BY <3>1, <3>2, <1>p
  <2> QED
    BY <2>1, <2>2, <2>3, <2>4
<1>3. ASSUME NEW m \in N \ {r.root}
      PROVE  r.parent[m] \in N /\ \E s \in Sides : r.kid[s][r.parent[m]] = m
  <2>1. CASE m = n
    BY <2>1, <1>p, <1>k
  <2>2. CASE m = x
    <3>1. p # NIL /\ r.parent[m] = p
      BY <2>2, <1>p, <1>r, <1>a
    <3>2. r.kid[IF n = t.kid["left"][p] THEN "left" ELSE "right"][p] = x
      <4>1. PICK u : u = IF n = t.kid["left"][p] THEN "left" ELSE "right"
        OBVIOUS
      <4>2. u \in Sides
        BY <4>1, <1>s
      <4> QED
        BY <4>1, <4>2, <3>1, <1>k, <1>a
    <3> QED
      BY <3>1, <3>2, <2>2, <1>a, <1>s
  <2>3. CASE m = inner /\ inner # NIL
    <3>1. r.parent[m] = n /\ r.kid[Opp(side)][n] = inner
      BY <2>3, <1>p, <1>k, <1>a, <1>s
    <3> QED
      BY <3>1, <2>3, <1>s
  <2>4. CASE m # n /\ m # x /\ ~(m = inner /\ inner # NIL)
    <3>1. m # t.root /\ r.parent[m] = t.parent[m] /\ m # NIL
      BY <2>4, <1>p, <1>r, <1>e, <1>n
    <3>2. PICK s \in Sides : t.parent[m] \in N /\ t.kid[s][t.parent[m]] = m
      BY <3>1, <1>l
    <3>3. r.kid[s][t.parent[m]] = m
      <4>1. ~(t.parent[m] = x /\ s = side) /\ ~(t.parent[m] = n /\ s = Opp(side))
        BY <3>1, <3>2, <2>4
      <4>2. ~(p # NIL /\ t.parent[m] = p
               /\ s = (IF n = t.kid["left"][p] THEN "left" ELSE "right"))
        BY <3>2, <2>4, <1>h
      <4> QED
        BY <3>2, <4>1, <4>2, <1>k
    <3> QED
      BY <3>1, <3>2, <3>3
  <2> QED
    BY <2>1, <2>2, <2>3, <2>4
<1> QED
  BY <1>1, <1>2, <1>3 DEF Linked

LEMMA RotateSubtrees ==
    ASSUME NEW t, NEW N, N \subseteq Nodes, NEW rank, NEW sub, Shape(t, N, rank, sub),
           NEW n \in N, NEW side \in Sides,
           NEW x \in N, NEW outer, NEW inner, NEW far, NEW p,
           Turned(t, n, side, x, outer, inner, far, p),
           NEW r, Rotated(t, r, n, side, x, inner, p),
           NEW subs, LiftedSubs(N, sub, subs, n, x, outer, inner)
    PROVE  Subtrees(r, N, subs) /\ Rehung(t, r, N, sub, subs, n, side, x, outer, inner, far)
<1>n. NIL \notin N /\ NIL \in Links /\ \A m \in N : m \in Nodes /\ m \in Links
  BY NilIsNoNode
<1>s. /\ Opp(side) \in Sides /\ Opp(side) # side /\ "left" \in Sides /\ "right" \in Sides
      /\ \A s \in Sides : s = side \/ s = Opp(side)
      /\ Opp(Opp(side)) = side
  BY OppSides DEF Sides
<1>a. /\ x # n /\ outer # n /\ outer # x /\ inner # n /\ inner # x /\ far # n /\ far # x
      /\ p # n /\ p # x
      /\ outer \in N \cup {NIL} /\ inner \in N \cup {NIL} /\ far \in N \cup {NIL}
      /\ p \in N \cup {NIL}
      /\ sub[n] = {n} \cup sub[outer] \cup sub[x]
      /\ sub[x] = {x} \cup sub[inner] \cup sub[far]
      /\ n \notin sub[outer] /\ n \notin sub[x] /\ x \notin sub[outer]
      /\ x \notin sub[inner] /\ x \notin sub[far]
      /\ sub[outer] \cap sub[x] = {} /\ sub[inner] \cap sub[far] = {}
      /\ t.parent[x] = n
      /\ inner # NIL => t.parent[inner] = x /\ inner \in sub[inner]
      /\ outer # NIL => t.parent[outer] = n /\ outer \in sub[outer]
  <2>w. Neighbours(t, N, sub, n, x, outer, inner, far, p)
    BY <1>n, TurnedAround
  <2> QED
    BY <2>w DEF Neighbours
<1>k. \A s \in Sides, m \in N :
          r.kid[s][m] = IF m = x /\ s = side THEN n
                        ELSE IF m = n /\ s = Opp(side) THEN inner
                        ELSE IF p # NIL /\ m = p
                           /\ s = (IF n = t.kid["left"][p] THEN "left" ELSE "right")
                        THEN x ELSE t.kid[s][m]
  BY <1>n DEF Rotated
<1>p. \A m \in N :
          r.parent[m] = IF m = n THEN x ELSE IF m = x THEN p
                        ELSE IF m = inner /\ inner # NIL THEN n ELSE t.parent[m]
  BY <1>n DEF Rotated
<1>r. r.root = IF p = NIL THEN x ELSE t.root
  BY DEF Rotated
<1>e. p = NIL <=> n = t.root
  BY <1>n, RootUp DEF Turned
<1>u. /\ sub[NIL] = {} /\ sub[t.root] = N
      /\ \A m \in N : \A y \in sub[m] : sub[y] \subseteq sub[m] /\ (y # m => t.parent[y] \in sub[m])
      /\ \A m \in N : m \in sub[m] /\ sub[m] \subseteq N
      /\ t.root \in N \cup {NIL}
  BY KidsBelow DEF Shape, Subtrees, Linked
<1>v. /\ subs[NIL] = {} /\ subs[x] = sub[n] /\ subs[n] = {n} \cup sub[outer] \cup sub[inner]
      /\ \A m \in (N \cup {NIL}) \ {x, n} : subs[m] = sub[m]
  BY <1>n, <1>a, <1>u DEF LiftedSubs
<1>w. r.kid[side][n] = outer /\ r.kid[Opp(side)][n] = inner
      /\ r.kid[side][x] = n /\ r.kid[Opp(side)][x] = far
  <2>1. r.kid[side][n] = t.kid[side][n] /\ r.kid[Opp(side)][n] = inner
    BY <1>k, <1>a, <1>s
  <2>2. r.kid[side][x] = n /\ r.kid[Opp(side)][x] = t.kid[Opp(side)][x]
    BY <1>k, <1>a, <1>s
  <2> QED
    BY <2>1, <2>2 DEF Turned
\* elsewhere the subtrees of the children are what they were
<1>x. ASSUME NEW m \in N \ {n, x}, NEW s \in Sides
      PROVE  subs[r.kid[s][m]] = sub[t.kid[s][m]]
  <2>h. p # NIL => t.kid[IF n = t.kid["left"][p] THEN "left" ELSE "right"][p] = n
    <3>1. p # NIL => t.kid["left"][p] = n \/ t.kid["right"][p] = n
      BY <1>e, ParentAbove DEF Turned
    <3> QED
      BY <3>1
  <2>1. CASE p # NIL /\ m = p /\ s = (IF n = t.kid["left"][p] THEN "left" ELSE "right")
    <3>1. r.kid[s][m] = x
      BY <2>1, <1>k
    <3>2. t.kid[s][m] = n
      BY <2>1, <2>h
    <3> QED
      BY <3>1, <3>2, <1>v
  <2>2. CASE ~(p # NIL /\ m = p /\ s = (IF n = t.kid["left"][p] THEN "left" ELSE "right"))
    <3>1. r.kid[s][m] = t.kid[s][m]
      BY <2>2, <1>k
    <3>2. t.kid[s][m] \in N \cup {NIL} /\ t.kid[s][m] # x
      <4>1. t.kid[s][m] \in N \cup {NIL} /\ (t.kid[s][m] # NIL => t.parent[t.kid[s][m]] = m)
        BY DEF Shape, Linked
      <4> QED
        BY <4>1, <1>a, <1>n
    <3>3. t.kid[s][m] # n
      <4>1. SUFFICES ASSUME t.kid[s][m] = n PROVE FALSE
        OBVIOUS
      <4>2. m = p /\ p # NIL
        BY <4>1, <1>n DEF Shape, Linked, Turned
      <4>3. PICK u : u = IF n = t.kid["left"][p] THEN "left" ELSE "right"
        OBVIOUS
      <4>4. u \in Sides /\ t.kid[u][p] = t.kid[s][m] /\ t.kid[s][m] # NIL
        BY <4>1, <4>2, <4>3, <2>h, <1>s, <1>n
      <4>5. u = s
        BY <4>2, <4>4, OnePlace
      <4> QED
        BY <4>2, <4>3, <4>5, <2>2
    <3> QED
      BY <3>1, <3>2, <3>3, <1>v
  <2> QED
    BY <2>1, <2>2
<1>1. ASSUME NEW m \in N, NEW s \in Sides
      PROVE  subs[m] = {m} \cup subs[r.kid[s][m]] \cup subs[r.kid[Opp(s)][m]]
  <2>1. CASE m = x
    <3>1. subs[x] = {x} \cup subs[n] \cup subs[far]
      BY <1>a, <1>v
    <3> QED
      BY <2>1, <3>1, <1>w, <1>s
  <2>2. CASE m = n
    <3>1. subs[n] = {n} \cup subs[outer] \cup subs[inner]
      BY <1>a, <1>v
    <3> QED
      BY <2>2, <3>1, <1>w, <1>s
  <2>3. CASE m \notin {n, x}
    <3>1. sub[m] = {m} \cup sub[t.kid[s][m]] \cup sub[t.kid[Opp(s)][m]]
      BY KidsBySide
    <3>2. Opp(s) \in Sides /\ subs[m] = sub[m]
      BY <2>3, OppSides, <1>v
    <3>3. subs[r.kid[s][m]] = sub[t.kid[s][m]]
      BY <2>3, <1>x
    <3>4. subs[r.kid[Opp(s)][m]] = sub[t.kid[Opp(s)][m]]
      BY <2>3, <3>2, <1>x
    <3> QED
      BY <3>1, <3>2, <3>3, <3>4
  <2> QED
    BY <2>1, <2>2, <2>3
<1>2. subs[r.root] = N
  <2>1. CASE p = NIL
    BY <2>1, <1>r, <1>e, <1>u, <1>v
  <2>2. CASE p # NIL
    <3>1. t.root # x
      BY <1>a, <1>n DEF Shape, Linked
    <3> QED
      BY <2>2, <3>1, <1>r, <1>e, <1>u, <1>v
  <2> QED
    BY <2>1, <2>2
<1>3. ASSUME NEW a \in N, NEW b \in subs[a]
      PROVE  subs[b] \subseteq subs[a] /\ (b # a => r.parent[b] \in subs[a])
  <2>0. b \in N
    BY <1>a, <1>u, <1>v
  <2>p. r.parent[b] = IF b = n THEN x ELSE IF b = x THEN p
                        ELSE IF b = inner /\ inner # NIL THEN n ELSE t.parent[b]
    BY <2>0, <1>p
  <2>1. CASE a = x
    <3>1. subs[a] = sub[n] /\ b \in sub[n] /\ x \in sub[n] /\ n \in sub[n]
      BY <2>1, <1>u, <1>v, <1>a
    <3>2. subs[b] \subseteq sub[n]
      <4>1. CASE b = x
        BY <4>1, <1>v
      <4>2. CASE b = n
        BY <4>2, <1>v, <1>a
      <4>3. CASE b \notin {x, n}
        BY <4>3, <3>1, <1>u, <1>v, <2>0
      <4> QED
        BY <4>1, <4>2, <4>3
    <3>3. b # x => r.parent[b] \in sub[n]
      <4>1. b # n => t.parent[b] \in sub[n]
        BY <3>1, <1>u
      <4> QED
        BY <4>1, <2>p, <3>1
    <3> QED
      BY <2>1, <3>1, <3>2, <3>3
  <2>2. CASE a = n
    <3>1. subs[a] = {n} \cup sub[outer] \cup sub[inner]
      BY <2>2, <1>v
    <3>2. ASSUME NEW c \in {outer, inner}, b \in sub[c]
          PROVE  /\ c \in N /\ sub[b] \subseteq sub[c]
                 /\ b # c => t.parent[b] \in sub[c] /\ b # inner
                 /\ b \notin {n, x}
      <4>1. c \in N
        BY <3>2, <1>u, <1>a
      <4>2. sub[b] \subseteq sub[c] /\ (b # c => t.parent[b] \in sub[c])
        BY <3>2, <4>1, <1>u
      <4>3. b \notin {n, x}
        BY <3>2, <1>a
      <4>4. b # c => b # inner
        BY <3>2, <1>a, <1>u, <4>1
      <4> QED
        BY <4>1, <4>2, <4>3, <4>4
    <3>3. CASE b = n
      BY <2>2, <3>3
    <3>4. CASE b \in sub[outer]
      <4>1. outer \in N /\ sub[b] \subseteq sub[outer] /\ b \notin {n, x}
            /\ (b # outer => t.parent[b] \in sub[outer] /\ b # inner)
        BY <3>2, <3>4
      <4>2. subs[b] = sub[b]
        BY <4>1, <2>0, <1>v
      <4>3. r.parent[b] \in {n} \cup sub[outer]
        <5>1. CASE b = outer
          BY <5>1, <4>1, <2>p, <1>a, <1>n
        <5>2. CASE b # outer
          BY <5>2, <4>1, <2>p
        <5> QED
          BY <5>1, <5>2
      <4> QED
        BY <2>2, <3>1, <4>1, <4>2, <4>3
    <3>5. CASE b \in sub[inner]
      <4>1. inner \in N /\ sub[b] \subseteq sub[inner] /\ b \notin {n, x}
            /\ (b # inner => t.parent[b] \in sub[inner] /\ b # inner)
        BY <3>2, <3>5
      <4>2. subs[b] = sub[b]
        BY <4>1, <2>0, <1>v
      <4>3. r.parent[b] \in {n} \cup sub[inner]
        BY <4>1, <2>p, <1>n
      <4> QED
        BY <2>2, <3>1, <4>1, <4>2, <4>3
    <3> QED
      BY <3>1, <3>3, <3>4, <3>5
  <2>3. CASE a \notin {n, x}
    <3>1. subs[a] = sub[a] /\ b \in sub[a]
      BY <2>3, <1>v
    <3>2. sub[b] \subseteq sub[a] /\ (b # a => t.parent[b] \in sub[a])
      BY <3>1, <1>u
    <3>3. n \in sub[a] => sub[n] \subseteq sub[a] /\ p \in sub[a]
      BY <2>3, <1>u DEF Turned
    <3>4. x \in sub[a] => n \in sub[a]
      BY <2>3, <1>u, <1>a
    <3>5. b # a /\ b = inner /\ inner # NIL => n \in sub[a]
      BY <3>2, <3>4, <1>a
    <3>6. subs[b] \subseteq sub[a]
      <4>1. CASE b = x
        BY <4>1, <3>1, <3>3, <3>4, <1>v
      <4>2. CASE b = n
        BY <4>2, <3>1, <3>3, <1>v, <1>a
      <4>3. CASE b \notin {x, n}
        BY <4>3, <3>2, <1>v, <2>0
      <4> QED
        BY <4>1, <4>2, <4>3
    <3>7. b # a => r.parent[b] \in sub[a]
      <4>1. CASE b = x
        BY <4>1, <3>1, <3>3, <3>4, <2>p, <1>a
      <4>2. CASE b = n
        <5>1. x \in sub[n]
          BY <1>a
        <5> QED
          BY <4>2, <3>1, <3>3, <2>p, <5>1
      <4>3. CASE b = inner /\ inner # NIL /\ b \notin {x, n}
        BY <4>3, <3>5, <2>p
      <4>4. CASE ~(b = inner /\ inner # NIL) /\ b \notin {x, n}
        BY <4>4, <3>2, <2>p
      <4> QED
        BY <4>1, <4>2, <4>3, <4>4
    <3> QED
      BY <3>1, <3>6, <3>7
  <2> QED
    BY <2>1, <2>2, <2>3
<1>4. \A m \in N : /\ m \in subs[m]
                  /\ subs[m] = {m} \cup subs[r.kid["left"][m]] \cup subs[r.kid["right"][m]]
  <2>1. Opp("left") = "right"
    BY DEF Opp
  <2> QED
    BY <1>1, <1>s, <2>1
<1> QED
  BY <1>1, <1>2, <1>3, <1>4, <1>v, <1>w, <1>x DEF Subtrees, Rehung

LEMMA RotateOrdered ==
    ASSUME NEW t, NEW N, N \subseteq Nodes, NEW rank, NEW sub, Shape(t, N, rank, sub),
           NEW n \in N, NEW side \in Sides,
           NEW x \in N, NEW outer, NEW inner, NEW far, NEW p,
           Turned(t, n, side, x, outer, inner, far, p),
           NEW r, Rotated(t, r, n, side, x, inner, p),
           NEW subs, LiftedSubs(N, sub, subs, n, x, outer, inner)
    PROVE  Ordered(r, N, rank, subs)
<1>n. NIL \notin N /\ NIL \in Links /\ \A m \in N : m \in Nodes /\ m \in Links
  BY NilIsNoNode
<1>s. /\ Opp(side) \in Sides /\ Opp(side) # side /\ "left" \in Sides /\ "right" \in Sides
      /\ \A s \in Sides : s = side \/ s = Opp(side)
      /\ Opp(Opp(side)) = side
  BY OppSides DEF Sides
<1>a. /\ x # n
      /\ outer \in N \cup {NIL} /\ inner \in N \cup {NIL} /\ far \in N \cup {NIL}
      /\ sub[n] = {n} \cup sub[outer] \cup sub[x]
      /\ sub[x] = {x} \cup sub[inner] \cup sub[far]
  <2>w. Neighbours(t, N, sub, n, x, outer, inner, far, p)
    BY <1>n, TurnedAround
  <2> QED
    BY <2>w DEF Neighbours
<1>r. \A m \in N : rank[m] \in Int /\ sub[m] \subseteq N /\ m \in sub[m]
  BY KidsBelow DEF Shape
<1>v. /\ subs[x] = sub[n] /\ subs[n] = {n} \cup sub[outer] \cup sub[inner]
      /\ \A m \in N \ {x, n} : subs[m] = sub[m]
  BY <1>a DEF LiftedSubs
<1>w. /\ r.kid[side][n] = outer /\ r.kid[Opp(side)][n] = inner
      /\ r.kid[side][x] = n /\ r.kid[Opp(side)][x] = far
      /\ \A m \in N \ {n, x}, s \in Sides : subs[r.kid[s][m]] = sub[t.kid[s][m]]
  <2>1. Rehung(t, r, N, sub, subs, n, side, x, outer, inner, far)
    BY RotateSubtrees
  <2> QED
    BY <2>1 DEF Rehung
<1>f. /\ outer # n /\ outer # x /\ inner # n /\ inner # x /\ far # n /\ far # x
  <2>w. Neighbours(t, N, sub, n, x, outer, inner, far, p)
    BY <1>n, TurnedAround
  <2> QED
    BY <2>w DEF Neighbours
<1>y. subs[outer] = sub[outer] /\ subs[inner] = sub[inner] /\ subs[far] = sub[far]
  BY <1>a, <1>f DEF LiftedSubs
\* the order around the two nodes
<1>b. /\ \A m \in sub[outer] : Beside(side, rank[m], rank[n])
      /\ \A m \in sub[x] : Beside(Opp(side), rank[m], rank[n])
  BY <1>s, KidsBySide DEF Turned
<1>c. /\ \A m \in sub[inner] : Beside(side, rank[m], rank[x])
      /\ \A m \in sub[far] : Beside(Opp(side), rank[m], rank[x])
  BY <1>s, KidsBySide DEF Turned
<1>d. /\ sub[outer] \subseteq N /\ sub[inner] \subseteq N /\ sub[far] \subseteq N
  BY <1>r, <1>a
<1>g. \A m \in subs[n] : Beside(side, rank[m], rank[x])
  <2>1. Beside(side, rank[n], rank[x])
    BY <1>b, <1>r, <1>s DEF Beside, Opp, Sides
  <2>2. \A m \in sub[outer] : Beside(side, rank[m], rank[x])
    BY <1>b, <1>d, <1>r, <2>1 DEF Beside
  <2> QED
    BY <2>1, <2>2, <1>c, <1>v
<1>1. ASSUME NEW m \in N, NEW s \in Sides
      PROVE  \A c \in subs[r.kid[s][m]] : Beside(s, rank[c], rank[m])
  <2>1. CASE m = x /\ s = side
    BY <2>1, <1>g, <1>w
  <2>2. CASE m = x /\ s = Opp(side)
    BY <2>2, <1>c, <1>w, <1>y
  <2>3. CASE m = n /\ s = side
    BY <2>3, <1>b, <1>w, <1>y
  <2>4. CASE m = n /\ s = Opp(side)
    BY <2>4, <1>b, <1>w, <1>y, <1>a
  <2>5. CASE m \notin {n, x}
    <3>1. \A c \in sub[t.kid[s][m]] : Beside(s, rank[c], rank[m])
      BY KidsBySide
    <3> QED
      BY <3>1, <2>5, <1>w
  <2> QED
    BY <2>1, <2>2, <2>3, <2>4, <2>5, <1>s
<1>2. \A m \in N : /\ \A c \in subs[r.kid["left"][m]] : rank[c] < rank[m]
                   /\ \A c \in subs[r.kid["right"][m]] : rank[m] < rank[c]
  BY <1>1, <1>s DEF Beside
<1>o. \A a \in N : \A m \in N \ sub[a], y \in sub[a] : rank[m] < rank[a] <=> rank[m] < rank[y]
  BY DEF Shape, Ordered
<1>3. ASSUME NEW a \in N, NEW m \in N \ subs[a], NEW y \in subs[a]
      PROVE  rank[m] < rank[a] <=> rank[m] < rank[y]
  <2>1. CASE a = x
    <3>1. m \in N \ sub[n] /\ y \in sub[n] /\ x \in sub[n]
      BY <2>1, <1>v, <1>a
    <3>2. rank[m] < rank[n] <=> rank[m] < rank[x]
      BY <3>1, <1>o
    <3>3. rank[m] < rank[n] <=> rank[m] < rank[y]
      BY <3>1, <1>o
    <3> QED
      BY <2>1, <3>2, <3>3
  <2>2. CASE a = n
    <3>1. y \in N
      BY <2>2, <1>v, <1>d
    <3>2. CASE m \notin sub[n]
      <4>1. y \in sub[n]
        BY <2>2, <1>v, <1>a
      <4> QED
        BY <2>2, <3>2, <4>1, <1>o
    <3>3. CASE m \in sub[n]
      <4>1. m = x \/ m \in sub[far]
        BY <2>2, <3>3, <1>v, <1>a
      <4>2. Beside(side, rank[y], rank[x]) /\ Beside(side, rank[n], rank[x])
        BY <2>2, <1>g, <1>v
      <4>3. m = x \/ Beside(Opp(side), rank[m], rank[x])
        BY <4>1, <1>c
      <4>4. rank[y] \in Int /\ rank[m] \in Int /\ rank[n] \in Int /\ rank[x] \in Int
        BY <1>r, <3>1
      <4>5. CASE side = "left"
        <5>1. Opp(side) = "right" /\ "left" # "right"
          BY <4>5 DEF Opp
        <5> QED
          BY <2>2, <4>5, <4>2, <4>3, <4>4, <5>1 DEF Beside
      <4>6. CASE side = "right"
        <5>1. Opp(side) = "left" /\ "left" # "right"
          BY <4>6 DEF Opp
        <5> QED
          BY <2>2, <4>6, <4>2, <4>3, <4>4, <5>1 DEF Beside
      <4> QED
        BY <4>5, <4>6 DEF Sides
    <3> QED
      BY <3>2, <3>3
  <2>3. CASE a \notin {n, x}
    BY <2>3, <1>v, <1>o
  <2> QED
    BY <2>1, <2>2, <2>3
<1>4. r.key = t.key
  BY DEF Rotated
<1>5. /\ \A m, q \in N : m # q => rank[m] # rank[q]
      /\ \A m, q \in N : rank[m] < rank[q] => r.key[m] <= r.key[q]
  BY <1>4 DEF Shape, Ordered
<1> QED
  BY <1>2, <1>3, <1>5 DEF Ordered

LEMMA RotateShape ==
    ASSUME NEW t, NEW N, N \subseteq Nodes, NEW rank, NEW sub, Shape(t, N, rank, sub),
           NEW n \in N, NEW side \in Sides,
           NEW x \in N, NEW outer, NEW inner, NEW far, NEW p,
           Turned(t, n, side, x, outer, inner, far, p),
           NEW r, Rotated(t, r, n, side, x, inner, p),
           NEW subs, subs \in [N \cup {NIL} -> SUBSET N],
           LiftedSubs(N, sub, subs, n, x, outer, inner)
    PROVE  Shape(r, N, rank, subs)
<1>1. Linked(r, N)
  BY RotateLinks DEF Turned
<1>2. Subtrees(r, N, subs)
  BY RotateSubtrees
<1>3. Ordered(r, N, rank, subs)
  BY RotateOrdered
<1> QED
  BY <1>1, <1>2, <1>3 DEF Shape

-----------------------------------------------------------------------------
(* A rotation keeps the bookkeeping, and with it all of Good.              *)

LEMMA ThreeParts ==
    ASSUME NEW n, NEW A, NEW B, IsFiniteSet(A), IsFiniteSet(B),
           A \cap B = {}, n \notin A, n \notin B
    PROVE  /\ IsFiniteSet({n} \cup A \cup B)
           /\ Cardinality({n} \cup A \cup B) = Cardinality(A) + Cardinality(B) + 1
           /\ Cardinality(A) \in Nat /\ Cardinality(B) \in Nat
<1>1. Cardinality(A) \in Nat /\ Cardinality(B) \in Nat
  BY FS_CardinalityType
<1>2. IsFiniteSet(A \cup B) /\ Cardinality(A \cup B) = Cardinality(A) + Cardinality(B)
  <2>1. IsFiniteSet(A \cup B)
        /\ Cardinality(A \cup B) = Cardinality(A) + Cardinality(B) - Cardinality(A \cap B)
    BY FS_Union
  <2>2. Cardinality(A \cap B) = 0
    BY FS_EmptySet
  <2> QED
    BY <1>1, <2>1, <2>2
<1>3. n \notin A \cup B
  OBVIOUS
<1>4. /\ IsFiniteSet((A \cup B) \cup {n})
      /\ Cardinality((A \cup B) \cup {n}) = Cardinality(A \cup B) + 1
  BY <1>2, <1>3, FS_AddElement
<1>5. (A \cup B) \cup {n} = {n} \cup A \cup B
  OBVIOUS
<1> QED
  BY <1>1, <1>2, <1>4, <1>5

LEMMA SubsFinite ==
    ASSUME NEW t, NEW N, IsFiniteSet(N), NEW rank, NEW sub, Shape(t, N, rank, sub)
    PROVE  /\ \A m \in N \cup {NIL} : IsFiniteSet(sub[m]) /\ Cardinality(sub[m]) \in Nat
           /\ Cardinality(sub[NIL]) = 0
<1>1. \A m \in N \cup {NIL} : sub[m] \in SUBSET N
  BY DEF Shape
<1>2. \A m \in N \cup {NIL} : IsFiniteSet(sub[m]) /\ Cardinality(sub[m]) \in Nat
  BY <1>1, FS_Subset, FS_CardinalityType
<1>3. Cardinality(sub[NIL]) = 0
  BY FS_EmptySet DEF Shape, Subtrees
<1> QED
  BY <1>2, <1>3

\* the size of a subtree, with the sides exchangeable
LEMMA SubtreeSize ==
    ASSUME NEW t, NEW N, IsFiniteSet(N), NEW rank, NEW sub, Shape(t, N, rank, sub),
           NEW n \in N, NEW s \in Sides
    PROVE  Cardinality(sub[n]) = Cardinality(sub[t.kid[s][n]])
                                    + Cardinality(sub[t.kid[Opp(s)][n]]) + 1
<1>1. \A m \in N \cup {NIL} : IsFiniteSet(sub[m])
  BY SubsFinite
<1>2. PICK A, B : A = sub[t.kid[s][n]] /\ B = sub[t.kid[Opp(s)][n]]
  OBVIOUS
<1>3. /\ IsFiniteSet(A) /\ IsFiniteSet(B) /\ n \notin A /\ n \notin B /\ A \cap B = {}
      /\ sub[n] = {n} \cup A \cup B
  <2>1. t.kid[s][n] \in N \cup {NIL} /\ t.kid[Opp(s)][n] \in N \cup {NIL}
    BY KidsBelow, OppSides
  <2>2. n \notin A /\ n \notin B
    BY <1>2, KidsBelow, OppSides
  <2>3. A \cap B = {} /\ sub[n] = {n} \cup A \cup B
    BY <1>2, KidsBySide
  <2> QED
    BY <1>1, <1>2, <2>1, <2>2, <2>3
<1>4. Cardinality({n} \cup A \cup B) = Cardinality(A) + Cardinality(B) + 1
  BY <1>3, ThreeParts
<1> QED
  BY <1>2, <1>3, <1>4

LEMMA RotateBooked ==
    ASSUME NEW t \in Trees, NEW N, N \subseteq Nodes, IsFiniteSet(N), NEW rank, NEW sub,
           Shape(t, N, rank, sub), Sentinel(t), NEW off, Booked(t, N, sub, NIL, off),
           NEW n \in N, NEW side \in Sides,
           NEW x \in N, NEW outer, NEW inner, NEW far, NEW p,
           Turned(t, n, side, x, outer, inner, far, p),
           NEW r, r = Rotate(t, n, side),
           NEW subs, subs \in [N \cup {NIL} -> SUBSET N],
           LiftedSubs(N, sub, subs, n, x, outer, inner)
    PROVE  Rotated(t, r, n, side, x, inner, p) /\ Sentinel(r) /\ Booked(r, N, subs, NIL, off)
<1>n. NIL \notin N /\ NIL \in Links /\ \A m \in N : m \in Nodes /\ m \in Links
  BY NilIsNoNode
<1>a. /\ x # n /\ outer # n /\ outer # x /\ inner # n /\ inner # x /\ p # n /\ p # x
      /\ outer \in N \cup {NIL} /\ inner \in N \cup {NIL}
  <2>w. Neighbours(t, N, sub, n, x, outer, inner, far, p)
    BY <1>n, TurnedAround
  <2> QED
    BY <2>w DEF Neighbours
<1>c. /\ sub[outer] \cap sub[x] = {} /\ sub[inner] \subseteq sub[x]
      /\ n \notin sub[outer] /\ n \notin sub[x]
      /\ sub[n] = {n} \cup sub[outer] \cup sub[x]
  <2>1. sub[x] = {x} \cup sub[inner] \cup sub[far]
    <3>w. Neighbours(t, N, sub, n, x, outer, inner, far, p)
      BY <1>n, TurnedAround
    <3> QED
      BY <3>w DEF Neighbours
  <2>2. sub[outer] \cap sub[x] = {} /\ n \notin sub[outer] /\ n \notin sub[x]
        /\ sub[n] = {n} \cup sub[outer] \cup sub[x]
    <3>w. Neighbours(t, N, sub, n, x, outer, inner, far, p)
      BY <1>n, TurnedAround
    <3> QED
      BY <3>w DEF Neighbours
  <2> QED
    BY <2>1, <2>2
<1>e. Rotated(t, r, n, side, x, inner, p) /\ Bookkept(t, r, n, x, outer, inner)
  <2>1. n \in Nodes /\ x \in Nodes
    BY <1>n
  <2> QED
    BY <2>1, <1>a, RotateFields DEF Turned
<1>f. /\ Rotated(t, r, n, side, x, inner, p)
      /\ kind = "os" =>
            /\ r.maxHigh = t.maxHigh
            /\ \A m \in Links : r.size[m] = IF m = x THEN t.size[n]
                                            ELSE IF m = n THEN t.size[outer] + t.size[inner] + 1
                                            ELSE t.size[m]
      /\ kind = "int" =>
            /\ r.size = t.size
            /\ \A m \in Links \ {n} :
                  r.maxHigh[m] = IF m = x THEN t.maxHigh[n] ELSE t.maxHigh[m]
            /\ r.maxHigh[n] \in {t.maxHigh[outer], t.maxHigh[inner], t.high[n]}
            /\ t.maxHigh[outer] <= r.maxHigh[n] /\ t.maxHigh[inner] <= r.maxHigh[n]
            /\ t.high[n] <= r.maxHigh[n]
      /\ kind \notin {"os", "int"} => r.size = t.size /\ r.maxHigh = t.maxHigh
  BY <1>e DEF Bookkept
<1>g. r.color = t.color /\ r.high = t.high
  BY <1>f DEF Rotated
<1>v. /\ subs[x] = sub[n] /\ subs[n] = {n} \cup sub[outer] \cup sub[inner]
      /\ \A m \in (N \cup {NIL}) \ {x, n} : subs[m] = sub[m]
      /\ \A m \in N \cup {NIL} : NIL \notin sub[m] /\ NIL \notin subs[m]
  <2>1. /\ subs[x] = sub[n] /\ subs[n] = {n} \cup sub[outer] \cup sub[inner]
        /\ \A m \in (N \cup {NIL}) \ {x, n} : subs[m] = sub[m]
    BY <1>n, <1>a DEF LiftedSubs
  <2>2. \A m \in N \cup {NIL} : sub[m] \subseteq N /\ subs[m] \subseteq N
    BY DEF Shape
  <2> QED
    BY <2>1, <2>2, <1>n
<1>z. Sentinel(r)
  <2>1. CASE kind = "os"
    BY <2>1, <1>f, <1>g, <1>n DEF Sentinel
  <2>2. CASE kind = "int"
    BY <2>2, <1>f, <1>g, <1>n DEF Sentinel
  <2>3. CASE kind \notin {"os", "int"}
    BY <2>3, <1>f, <1>g, <1>n DEF Sentinel
  <2> QED
    BY <2>1, <2>2, <2>3
<1>1. ASSUME kind = "os", NEW m \in N PROVE r.size[m] = Cardinality(subs[m])
  <2>0. /\ \A q \in N \cup {NIL} : IsFiniteSet(sub[q]) /\ Cardinality(sub[q]) \in Nat
        /\ Cardinality(sub[NIL]) = 0
    BY SubsFinite
  <2>1. \A q \in N : t.size[q] = Cardinality(sub[q])
    BY <2>0, <1>1, <1>v DEF Booked
  <2>2. \A q \in N \cup {NIL} : IsFiniteSet(sub[q]) /\ Cardinality(sub[q]) \in Nat
        /\ t.size[q] = Cardinality(sub[q])
    BY <2>0, <2>1 DEF Sentinel
  <2>3. CASE m = x
    BY <2>1, <2>3, <1>1, <1>f, <1>v, <1>n
  <2>4. CASE m = n
    <3>1. r.size[m] = t.size[outer] + t.size[inner] + 1
      BY <2>4, <1>1, <1>f, <1>n, <1>a
    <3>2. r.size[m] = Cardinality(sub[outer]) + Cardinality(sub[inner]) + 1
      BY <3>1, <2>2, <1>a
    <3>3. Shape(r, N, rank, subs)
      BY <1>e, RotateShape
    <3>4. Cardinality(subs[n]) = Cardinality(subs[r.kid[side][n]])
                                   + Cardinality(subs[r.kid[Opp(side)][n]]) + 1
      BY <3>3, SubtreeSize
    <3>5. r.kid[side][n] = outer /\ r.kid[Opp(side)][n] = inner
      <4>1. Rehung(t, r, N, sub, subs, n, side, x, outer, inner, far)
        BY <1>e, RotateSubtrees
      <4> QED
        BY <4>1 DEF Rehung
    <3>6. subs[outer] = sub[outer] /\ subs[inner] = sub[inner]
      BY <1>v, <1>a
    <3> QED
      BY <2>4, <3>2, <3>4, <3>5, <3>6
  <2>5. CASE m \notin {x, n}
    BY <2>1, <2>5, <1>1, <1>f, <1>v, <1>n
  <2> QED
    BY <2>3, <2>4, <2>5
<1>2. ASSUME kind = "int", NEW m \in N PROVE Spanned(r, m, subs)
  <2>1. \A q \in N : Spanned(t, q, sub)
    BY <1>2, <1>v DEF Booked
  <2>2. CASE m = x
    <3>1. r.maxHigh[m] = t.maxHigh[n] /\ subs[m] = sub[n]
      BY <2>2, <1>2, <1>f, <1>v, <1>n, <1>a
    <3> QED
      BY <3>1, <2>1, <1>g DEF Spanned
  <2>3. CASE m = n
    <3>1. ASSUME NEW c \in {outer, inner}
          PROVE  /\ \A q \in sub[c] : t.high[q] <= r.maxHigh[n]
                 /\ r.maxHigh[n] = t.maxHigh[c] =>
                       r.maxHigh[n] <= 0 \/ \E q \in sub[c] : t.high[q] = r.maxHigh[n]
      <4>1. t.maxHigh[c] <= r.maxHigh[n] /\ t.maxHigh[c] \in Int /\ r.maxHigh[n] \in Int
        <5>1. c \in Links /\ n \in Links
          BY <1>a, <1>n
        <5>2. t.maxHigh[c] \in Int
          BY <5>1 DEF Trees
        <5>3. r \in Trees
          BY <1>f DEF Rotated
        <5>4. r.maxHigh[n] \in Int
          BY <5>1, <5>3 DEF Trees
        <5> QED
          BY <5>2, <5>4, <1>f, <1>2
      <4>2. CASE c = NIL
        <5>1. sub[c] = {}
          BY <4>2 DEF Shape, Subtrees
        <5>2. t.maxHigh[c] = 0
          BY <4>2 DEF Sentinel
        <5> QED
          BY <5>1, <5>2
      <4>3. CASE c \in N
        <5>1. Spanned(t, c, sub)
          BY <4>3, <2>1
        <5>2. \A q \in sub[c] : t.high[q] \in Int
          <6>1. sub[c] \subseteq N
            BY <4>3 DEF Shape
          <6>2. \A q \in Nodes : t.high[q] \in Int
            BY DEF Trees
          <6> QED
            BY <6>1, <6>2
        <5> QED
          BY <4>1, <5>1, <5>2 DEF Spanned
      <4> QED
        BY <4>2, <4>3, <1>a
    <3>2. subs[m] = {n} \cup sub[outer] \cup sub[inner]
      BY <2>3, <1>v
    <3>3. r.maxHigh[n] \in {t.maxHigh[outer], t.maxHigh[inner], t.high[n]}
          /\ t.high[n] <= r.maxHigh[n]
      BY <1>2, <1>f
    <3>4. \A q \in subs[m] : t.high[q] <= r.maxHigh[n]
      BY <3>1, <3>2, <3>3
    <3>5. r.maxHigh[n] <= 0 \/ \E q \in subs[m] : t.high[q] = r.maxHigh[n]
      BY <3>1, <3>2, <3>3
    <3> QED
      BY <2>3, <3>4, <3>5, <1>g DEF Spanned
  <2>4. CASE m \notin {x, n}
    <3>1. r.maxHigh[m] = t.maxHigh[m] /\ subs[m] = sub[m]
      BY <2>4, <1>2, <1>f, <1>v, <1>n
    <3> QED
      BY <3>1, <2>1, <1>g DEF Spanned
  <2> QED
    BY <2>2, <2>3, <2>4
<1>3. Booked(r, N, subs, NIL, off)
  <2>1. \A m \in N : Cardinality(subs[m]) \in Nat
    <3>1. \A m \in N : subs[m] \in SUBSET N
      OBVIOUS
    <3> QED
      BY <3>1, FS_Subset, FS_CardinalityType
  <2>2. kind = "os" => \A m \in N :
           r.size[m] = Cardinality(subs[m]) + (IF NIL \in subs[m] THEN off ELSE 0)
    BY <2>1, <1>1, <1>v
  <2>3. kind = "int" => \A m \in N : NIL \notin subs[m] => Spanned(r, m, subs)
    BY <1>2
  <2> QED
    BY <2>2, <2>3 DEF Booked
<1> QED
  BY <1>f, <1>z, <1>3

\* a tree between two calls: no bookkeeping is owed
Whole(t, N) == \E rank, sub : Good(t, N, rank, sub, NIL, 0)

\* a step of a fixup: it ends the process, or keeps everything but the links and colours
Safe(t, r, N) ==
    r.dead \/ (Whole(r, N) /\ r.key = t.key /\ r.high = t.high /\ r.parent[NIL] = t.parent[NIL])

LEMMA SafeSteps ==
    ASSUME NEW t, NEW s, NEW r, NEW N, Safe(t, s, N), s.dead \/ Safe(s, r, N), s.dead => r.dead
    PROVE  Safe(t, r, N)
  BY DEF Safe

LEMMA WholeFacts ==
    ASSUME NEW t, NEW N, N \subseteq Nodes, Whole(t, N)
    PROVE  /\ t \in Trees /\ ~t.dead /\ t.color[NIL] = "BLACK"
           /\ t.root \in N \cup {NIL} /\ (t.root = NIL => N = {})
           /\ \A n \in N : /\ t.parent[n] \in N \cup {NIL}
                           /\ t.parent[n] = NIL <=> n = t.root
                           /\ \A s \in Sides : t.kid[s][n] \in N \cup {NIL}
                           /\ t.color[n] \in Colors
<1>1. PICK rank, sub : Good(t, N, rank, sub, NIL, 0)
  BY DEF Whole
<1>2. t \in Trees /\ ~t.dead /\ t.color[NIL] = "BLACK" /\ Shape(t, N, rank, sub)
  BY <1>1 DEF Good, Sentinel
<1>3. NIL \notin N /\ \A n \in N : n \in Links
  BY NilIsNoNode
<1>4. t.root \in N \cup {NIL} /\ (t.root = NIL => N = {})
  BY <1>2 DEF Shape, Linked, Subtrees
<1>5. \A n \in N : t.parent[n] \in N \cup {NIL} /\ (t.parent[n] = NIL <=> n = t.root)
  BY <1>2, <1>3, RootUp
<1>6. \A n \in N : \A s \in Sides : t.kid[s][n] \in N \cup {NIL}
  BY <1>2 DEF Shape, Linked
<1>7. \A n \in N : t.color[n] \in Colors
  BY <1>2, <1>3 DEF Trees
<1> QED
  BY <1>2, <1>4, <1>5, <1>6, <1>7

LEMMA PaintSafe ==
    ASSUME NEW t, NEW N, N \subseteq Nodes, Whole(t, N), NEW n \in N, NEW c \in Colors,
           NEW r, r = Paint(t, n, c)
    PROVE  /\ Safe(t, r, N) /\ ~r.dead
           /\ r.kid = t.kid /\ r.parent = t.parent /\ r.root = t.root
           /\ \A m \in Links : r.color[m] = IF m = n THEN c ELSE t.color[m]
<1>1. PICK rank, sub : Good(t, N, rank, sub, NIL, 0)
  BY DEF Whole
<1>2. n \in Links /\ NIL \notin N /\ NIL \in Links
  BY NilIsNoNode
<1>3. t \in Trees /\ ~t.dead
  BY <1>1 DEF Good
<1>4. /\ r \in Trees
      /\ \A m \in Links : r.color[m] = IF m = n THEN c ELSE t.color[m]
      /\ r.root = t.root /\ r.dead = t.dead /\ r.key = t.key /\ r.high = t.high
      /\ r.kid = t.kid /\ r.parent = t.parent /\ r.size = t.size /\ r.maxHigh = t.maxHigh
  BY <1>2, <1>3, Painted
<1>5. Shape(r, N, rank, sub)
  <2>1. Shape(t, N, rank, sub)
    BY <1>1 DEF Good
  <2> QED
    BY <2>1, <1>4 DEF Shape, Linked, Subtrees, Ordered
<1>6. Booked(r, N, sub, NIL, 0)
  <2>1. Booked(t, N, sub, NIL, 0)
    BY <1>1 DEF Good
  <2> QED
    BY <2>1, <1>4 DEF Booked, Spanned
<1>7. Sentinel(r)
  BY <1>1, <1>2, <1>4 DEF Good, Sentinel
<1>8. \A m \in N : r.key[m] \in Int /\ r.key[m] <= r.high[m]
  BY <1>1, <1>4 DEF Good
<1>9. Good(r, N, rank, sub, NIL, 0)
  BY <1>3, <1>4, <1>5, <1>6, <1>7, <1>8 DEF Good
<1> QED
  BY <1>3, <1>4, <1>9 DEF Safe, Whole

LEMMA RotateSafe ==
    ASSUME NEW t, NEW N, N \subseteq Nodes, IsFiniteSet(N), Whole(t, N), NEW n \in N,
           NEW side \in Sides, NEW r, r = Rotate(t, n, side)
    PROVE  Safe(t, r, N)
<1>1. PICK rank, sub : Good(t, N, rank, sub, NIL, 0)
  BY DEF Whole
<1>2. PICK x, outer, inner, far, p :
         /\ Turned(t, n, side, x, outer, inner, far, p)
         /\ x = t.kid[Opp(side)][n] /\ inner = t.kid[side][x]
  BY DEF Turned
<1>3. /\ t \in Trees /\ ~t.dead /\ Shape(t, N, rank, sub) /\ Sentinel(t)
      /\ Booked(t, N, sub, NIL, 0)
      /\ \A m \in N : t.key[m] \in Int /\ t.key[m] <= t.high[m]
  BY <1>1 DEF Good
<1>4. CASE x = NIL
  <2>1. r = DeadTree
    BY <1>2, <1>4 DEF Rotate
  <2>2. DeadTree.dead
    BY DEF DeadTree, EmptyTree
  <2> QED
    BY <2>1, <2>2 DEF Safe
<1>5. CASE x # NIL
  <2>1. x \in N
    BY <1>2, <1>3, <1>5, OppSides DEF Shape, Linked
  <2>2. PICK subs : /\ subs \in [N \cup {NIL} -> SUBSET N]
                    /\ LiftedSubs(N, sub, subs, n, x, outer, inner)
    <3>1. PICK f : f = [m \in N \cup {NIL} |->
                          IF m = x THEN sub[n]
                          ELSE IF m = n THEN {n} \cup sub[outer] \cup sub[inner] ELSE sub[m]]
      OBVIOUS
    <3>2. \A m \in N \cup {NIL} :
             f[m] = IF m = x THEN sub[n]
                    ELSE IF m = n THEN {n} \cup sub[outer] \cup sub[inner] ELSE sub[m]
      BY <3>1
    <3>3. sub \in [N \cup {NIL} -> SUBSET N] /\ outer \in N \cup {NIL} /\ inner \in N \cup {NIL}
      <4>1. NIL \notin N
        BY NilIsNoNode
      <4>2. outer \in N \cup {NIL} /\ inner \in N \cup {NIL}
        <5>w. Neighbours(t, N, sub, n, x, outer, inner, far, p)
          BY <4>1, <1>2, <1>3, <2>1, TurnedAround
        <5> QED
          BY <5>w DEF Neighbours
      <4> QED
        BY <4>2, <1>3 DEF Shape
    <3>4. f \in [N \cup {NIL} -> SUBSET N]
      BY <3>1, <3>3
    <3> QED
      BY <3>2, <3>4 DEF LiftedSubs
  <2>3. Rotated(t, r, n, side, x, inner, p) /\ Sentinel(r) /\ Booked(r, N, subs, NIL, 0)
    BY <1>2, <1>3, <2>1, <2>2, RotateBooked
  <2>4. Shape(r, N, rank, subs)
    BY <1>2, <1>3, <2>1, <2>2, <2>3, RotateShape
  <2>5. /\ r \in Trees /\ ~r.dead /\ r.key = t.key /\ r.high = t.high
        /\ \A m \in Links :
              r.parent[m] = IF m = n THEN x ELSE IF m = x THEN p
                            ELSE IF m = inner /\ inner # NIL THEN n ELSE t.parent[m]
    BY <1>3, <2>3 DEF Rotated
  <2>6. r.parent[NIL] = t.parent[NIL]
    BY <2>1, <2>5, NilIsNoNode
  <2>7. Good(r, N, rank, subs, NIL, 0)
    BY <1>3, <2>3, <2>4, <2>5 DEF Good
  <2> QED
    BY <2>5, <2>6, <2>7 DEF Safe, Whole
<1> QED
  BY <1>4, <1>5

-----------------------------------------------------------------------------
(* One pass of a fixup.                                                    *)

LEMMA DeadIsDead == DeadTree.dead
  BY DEF DeadTree, EmptyTree

LEMMA InsertPassSafe ==
    ASSUME NEW t, NEW N, N \subseteq Nodes, IsFiniteSet(N), Whole(t, N), NEW n \in N,
           t.color[t.parent[n]] = "RED",
           NEW r, r = InsertPass(t, n),
           NEW side, side = IF t.parent[n] = t.kid["left"][t.parent[t.parent[n]]]
                            THEN "left" ELSE "right"
    PROVE  Safe(t, r, N) /\ (~r.dead => Upper(t, n, side) \in N)
<1>1. /\ t \in Trees /\ ~t.dead /\ t.color[NIL] = "BLACK" /\ "RED" # "BLACK"
      /\ \A m \in N : /\ t.parent[m] \in N \cup {NIL}
                      /\ \A s \in Sides : t.kid[s][m] \in N \cup {NIL}
  BY WholeFacts
<1>2. side \in Sides /\ Opp(side) \in Sides /\ "RED" \in Colors /\ "BLACK" \in Colors
      /\ "left" \in Sides /\ "right" \in Sides
  BY OppSides DEF Sides, Colors
<1>n. NIL \notin N /\ \A m \in N : m \in Links
  BY NilIsNoNode
<1>p. PICK p, g : p = t.parent[n] /\ g = t.parent[p]
  OBVIOUS
<1>3. p \in N /\ g \in N \cup {NIL}
  BY <1>1, <1>p
<1>4. CASE g = NIL
  BY <1>4, <1>p, DeadIsDead DEF InsertPass, Safe
<1>5. CASE g # NIL
  <2>1. g \in N
    BY <1>3, <1>5
  <2>u. PICK u : u = Uncle(t, n)
    OBVIOUS
  <2>2. u \in N \cup {NIL}
    BY <2>1, <2>u, <1>1, <1>2, <1>p DEF Uncle
  <2>m. PICK m : m = Upper(t, n, side)
    OBVIOUS
  <2>3. m \in N
    BY <2>m, <2>1, <1>3, <1>p DEF Upper
  <2>f. PICK f : f = FirstHalf(t, n, side)
    OBVIOUS
  <2>4. Safe(t, f, N)
    <3>1. CASE t.color[u] = "RED"
      <4>1. u \in N
        BY <3>1, <2>2, <1>1
      <4>2. PICK t1 : t1 = Paint(t, p, "BLACK")
        OBVIOUS
      <4>3. Safe(t, t1, N) /\ ~t1.dead
        BY <4>2, <1>2, <1>3, PaintSafe
      <4>4. PICK t2 : t2 = Paint(t1, u, "BLACK")
        OBVIOUS
      <4>5. Safe(t1, t2, N) /\ ~t2.dead
        <5>1. Whole(t1, N)
          BY <4>3 DEF Safe
        <5> QED
          BY <5>1, <4>1, <4>4, <1>2, PaintSafe
      <4>6. PICK t3 : t3 = Paint(t2, g, "RED")
        OBVIOUS
      <4>7. Safe(t2, t3, N) /\ ~t3.dead
        <5>1. Whole(t2, N)
          BY <4>5 DEF Safe
        <5> QED
          BY <5>1, <4>6, <1>2, <2>1, PaintSafe
      <4>8. f = t3
        BY <2>f, <2>u, <3>1, <1>p, <4>2, <4>4, <4>6 DEF FirstHalf
      <4> QED
        BY <4>3, <4>5, <4>7, <4>8 DEF Safe
    <3>2. CASE t.color[u] # "RED" /\ n = t.kid[Opp(side)][p]
      <4>1. f = Rotate(t, p, side)
        BY <2>f, <2>u, <3>2, <1>p DEF FirstHalf
      <4> QED
        BY <4>1, <1>2, <1>3, RotateSafe
    <3>3. CASE t.color[u] # "RED" /\ n # t.kid[Opp(side)][p]
      <4>1. f = t
        BY <2>f, <2>u, <3>3, <1>p DEF FirstHalf
      <4> QED
        BY <4>1 DEF Safe
    <3> QED
      BY <3>1, <3>2, <3>3
  <2>5. r = SecondHalf(f, m, side)
    BY <1>5, <1>p, <2>f, <2>m DEF InsertPass
  <2>6. Safe(f, r, N) /\ (f.dead => r.dead)
    <3>q. PICK q, h : q = f.parent[m] /\ h = f.parent[q]
      OBVIOUS
    <3>1. CASE f.dead \/ q = NIL
      <4>1. r = f
        BY <3>q, <3>1, <2>5 DEF SecondHalf
      <4> QED
        BY <4>1, <2>4 DEF Safe
    <3>2. CASE ~(f.dead \/ q = NIL)
      <4>w. Whole(f, N)
        BY <3>2, <2>4 DEF Safe
      <4>1. \A z \in N : f.parent[z] \in N \cup {NIL}
        BY <4>w, WholeFacts
      <4>2. q \in N /\ h \in N \cup {NIL}
        BY <3>q, <3>2, <4>1, <2>3
      <4>3. PICK t1 : t1 = Paint(f, q, "BLACK")
        OBVIOUS
      <4>4. Safe(f, t1, N) /\ ~t1.dead
        BY <4>w, <4>2, <4>3, <1>2, PaintSafe
      <4>5. CASE h = NIL
        <5>1. r = t1
          BY <3>q, <3>2, <2>5, <4>3, <4>5 DEF SecondHalf
        <5> QED
          BY <5>1, <4>4, <3>2
      <4>6. CASE h # NIL
        <5>1. PICK t2 : t2 = Paint(t1, h, "RED")
          OBVIOUS
        <5>2. Safe(t1, t2, N) /\ ~t2.dead
          <6>1. Whole(t1, N)
            BY <4>4 DEF Safe
          <6> QED
            BY <6>1, <5>1, <4>2, <4>6, <1>2, PaintSafe
        <5>3. r = Rotate(t2, h, Opp(side))
          BY <3>q, <3>2, <2>5, <4>3, <4>6, <5>1 DEF SecondHalf
        <5>4. Safe(t2, r, N)
          <6>1. Whole(t2, N) /\ h \in N
            BY <5>2, <4>2, <4>6 DEF Safe
          <6> QED
            BY <6>1, <5>3, <1>2, RotateSafe
        <5> QED
          BY <4>4, <5>2, <5>4, <3>2 DEF Safe
      <4> QED
        BY <4>5, <4>6
    <3> QED
      BY <3>1, <3>2
  <2> QED
    BY <2>3, <2>4, <2>6, <2>m, SafeSteps
<1> QED
  BY <1>4, <1>5, <1>p, DeadIsDead DEF InsertPass

LEMMA RedBrotherSafe ==
    ASSUME NEW t, NEW N, N \subseteq Nodes, IsFiniteSet(N), Whole(t, N), NEW p \in N,
           NEW side \in Sides, NEW r, r = RedBrother(t, p, side)
    PROVE  Safe(t, r, N)
<1>1. Opp(side) \in Sides /\ "RED" \in Colors /\ "BLACK" \in Colors /\ "RED" # "BLACK"
  BY OppSides DEF Colors
<1>2. PICK b : b = t.kid[Opp(side)][p]
  OBVIOUS
<1>3. CASE t.color[b] = "RED"
  <2>1. b \in N
    BY <1>1, <1>2, <1>3, WholeFacts
  <2>2. PICK t1 : t1 = Paint(t, b, "BLACK")
    OBVIOUS
  <2>3. Safe(t, t1, N) /\ ~t1.dead
    BY <2>1, <2>2, <1>1, PaintSafe
  <2>4. PICK t2 : t2 = Paint(t1, p, "RED")
    OBVIOUS
  <2>5. Safe(t1, t2, N) /\ ~t2.dead
    <3>1. Whole(t1, N)
      BY <2>3 DEF Safe
    <3> QED
      BY <3>1, <2>4, <1>1, PaintSafe
  <2>6. r = Rotate(t2, p, side)
    BY <1>2, <1>3, <2>2, <2>4 DEF RedBrother
  <2>7. Safe(t2, r, N)
    <3>1. Whole(t2, N)
      BY <2>5 DEF Safe
    <3> QED
      BY <3>1, <2>6, RotateSafe
  <2> QED
    BY <2>3, <2>5, <2>7 DEF Safe
<1>4. CASE t.color[b] # "RED"
  <2>1. r = t
    BY <1>2, <1>4 DEF RedBrother
  <2> QED
    BY <2>1 DEF Safe
<1> QED
  BY <1>3, <1>4

LEMMA BlackBrotherSafe ==
    ASSUME NEW t, NEW N, N \subseteq Nodes, IsFiniteSet(N), t.dead \/ Whole(t, N), NEW p \in N,
           NEW side \in Sides, NEW r, r = BlackBrother(t, p, side)
    PROVE  (t.dead => r.dead) /\ Safe(t, r, N)
<1>1. Opp(side) \in Sides /\ "RED" \in Colors /\ "BLACK" \in Colors /\ "RED" # "BLACK"
      /\ \A s \in Sides : s = side \/ s = Opp(side)
  BY OppSides DEF Colors
<1>2. PICK b, near, far : /\ b = t.kid[Opp(side)][p]
                          /\ near = t.kid[side][b] /\ far = t.kid[Opp(side)][b]
  OBVIOUS
<1>3. CASE t.dead \/ b = NIL
  <2>1. r = DeadTree
    BY <1>2, <1>3 DEF BlackBrother
  <2> QED
    BY <2>1, DeadIsDead DEF Safe
<1>4. CASE ~(t.dead \/ b = NIL)
  <2>w. Whole(t, N) /\ ~t.dead
    BY <1>4
  <2>1. /\ t.color[NIL] = "BLACK" /\ b \in N
        /\ near \in N \cup {NIL} /\ far \in N \cup {NIL} /\ t.color[p] \in Colors
    <3>1. /\ t.color[NIL] = "BLACK"
          /\ \A n \in N : t.color[n] \in Colors /\ \A s \in Sides : t.kid[s][n] \in N \cup {NIL}
      BY <2>w, WholeFacts
    <3>2. b \in N
      BY <3>1, <1>1, <1>2, <1>4
    <3> QED
      BY <3>1, <3>2, <1>1, <1>2
  <2>2. CASE BlackNephews(t, b)
    <3>1. r = Paint(t, b, "RED")
      BY <1>2, <1>4, <2>2 DEF BlackBrother
    <3> QED
      BY <3>1, <2>w, <2>1, <1>1, PaintSafe
  <2>3. CASE ~BlackNephews(t, b) /\ t.color[far] = "BLACK"
    <3>1. near \in N
      <4>1. t.color[near] # "BLACK"
        BY <1>1, <1>2, <2>3 DEF BlackNephews
      <4> QED
        BY <4>1, <2>1
    <3>2. PICK t1 : t1 = Paint(t, near, "BLACK")
      OBVIOUS
    <3>3. Safe(t, t1, N) /\ ~t1.dead
      BY <3>1, <3>2, <2>w, <1>1, PaintSafe
    <3>4. PICK t2 : t2 = Paint(t1, b, "RED")
      OBVIOUS
    <3>5. Safe(t1, t2, N) /\ ~t2.dead
      <4>1. Whole(t1, N)
        BY <3>3 DEF Safe
      <4> QED
        BY <4>1, <3>4, <2>1, <1>1, PaintSafe
    <3>6. r = Rotate(t2, b, Opp(side))
      BY <1>2, <1>4, <2>3, <3>2, <3>4 DEF BlackBrother
    <3>7. Safe(t2, r, N)
      <4>1. Whole(t2, N)
        BY <3>5 DEF Safe
      <4> QED
        BY <4>1, <3>6, <2>1, <1>1, RotateSafe
    <3> QED
      BY <3>3, <3>5, <3>7, <2>w DEF Safe
  <2>4. CASE ~BlackNephews(t, b) /\ t.color[far] # "BLACK"
    <3>1. far \in N
      BY <2>4, <2>1
    <3>2. PICK t1 : t1 = Paint(t, b, t.color[p])
      OBVIOUS
    <3>3. Safe(t, t1, N) /\ ~t1.dead
      BY <3>2, <2>w, <2>1, PaintSafe
    <3>4. PICK t2 : t2 = Paint(t1, p, "BLACK")
      OBVIOUS
    <3>5. Safe(t1, t2, N) /\ ~t2.dead
      <4>1. Whole(t1, N)
        BY <3>3 DEF Safe
      <4> QED
        BY <4>1, <3>4, <1>1, PaintSafe
    <3>6. PICK t3 : t3 = Paint(t2, far, "BLACK")
      OBVIOUS
    <3>7. Safe(t2, t3, N) /\ ~t3.dead
      <4>1. Whole(t2, N)
        BY <3>5 DEF Safe
      <4> QED
        BY <4>1, <3>6, <3>1, <1>1, PaintSafe
    <3>8. r = Rotate(t3, p, side)
      BY <1>2, <1>4, <2>4, <3>2, <3>4, <3>6 DEF BlackBrother
    <3>9. Safe(t3, r, N)
      <4>1. Whole(t3, N)
        BY <3>7 DEF Safe
      <4> QED
        BY <4>1, <3>8, RotateSafe
    <3> QED
      BY <3>3, <3>5, <3>7, <3>9, <2>w DEF Safe
  <2> QED
    BY <2>2, <2>3, <2>4
<1> QED
  BY <1>3, <1>4

-----------------------------------------------------------------------------
(* A node is linked below a node that has no child on that side.           *)

\* what the code does to the links, and the witnesses for the longer tree
Hung(t, r, N, n, temp, side) ==
    /\ r.root = t.root
    /\ \A s \in Sides, m \in N : r.kid[s][m] = IF m = temp /\ s = side THEN n ELSE t.kid[s][m]
    /\ \A s \in Sides : r.kid[s][n] = NIL
    /\ \A m \in N : r.parent[m] = t.parent[m] /\ r.key[m] = t.key[m]
    /\ r.parent[n] = temp
HungRank(N, rank, ranks, n, temp, side) ==
    /\ \A m \in N : ranks[m] = 2 * rank[m]
    /\ ranks[n] = IF side = "left" THEN 2 * rank[temp] - 1 ELSE 2 * rank[temp] + 1
HungSubs(N, sub, subs, n, temp) ==
    /\ \A m \in N : subs[m] = IF temp \in sub[m] THEN sub[m] \cup {n} ELSE sub[m]
    /\ subs[n] = {n} /\ subs[NIL] = {}

LEMMA HangSubtrees ==
    ASSUME NEW t, NEW N, NIL \notin N, NEW rank, NEW sub, Shape(t, N, rank, sub),
           NEW n, n \notin N, n # NIL, NEW temp \in N, NEW side \in Sides, t.kid[side][temp] = NIL,
           NEW r, Hung(t, r, N, n, temp, side),
           NEW subs, HungSubs(N, sub, subs, n, temp)
    PROVE  Linked(r, N \cup {n}) /\ Subtrees(r, N \cup {n}, subs)
<1>h. /\ r.root = t.root
      /\ \A s \in Sides, m \in N : r.kid[s][m] = IF m = temp /\ s = side THEN n ELSE t.kid[s][m]
      /\ \A s \in Sides : r.kid[s][n] = NIL
      /\ \A m \in N : r.parent[m] = t.parent[m]
      /\ r.parent[n] = temp
  BY DEF Hung
<1>u. /\ \A m \in N : subs[m] = IF temp \in sub[m] THEN sub[m] \cup {n} ELSE sub[m]
      /\ subs[n] = {n} /\ subs[NIL] = {}
  BY DEF HungSubs
<1>l. /\ t.root \in N \cup {NIL} /\ (t.root # NIL => t.parent[t.root] = NIL)
      /\ \A m \in N, s \in Sides :
            /\ t.kid[s][m] \in N \cup {NIL}
            /\ t.kid[s][m] # NIL => t.parent[t.kid[s][m]] = m
      /\ \A m \in N \ {t.root} : t.parent[m] \in N /\ \E s \in Sides : t.kid[s][t.parent[m]] = m
  BY DEF Shape, Linked
<1>s. /\ sub[NIL] = {} /\ sub[t.root] = N
      /\ \A m \in N : m \in sub[m] /\ sub[m] \subseteq N
      /\ \A m \in N : \A y \in sub[m] : sub[y] \subseteq sub[m] /\ (y # m => t.parent[y] \in sub[m])
  BY KidsBelow DEF Shape, Subtrees
<1>r. t.root \in N
  BY <1>l, <1>s
<1>1. Linked(r, N \cup {n})
  <2>1. r.root \in N /\ r.parent[r.root] = NIL
    BY <1>h, <1>l, <1>r
  <2>2. ASSUME NEW m \in N \cup {n}, NEW s \in Sides
        PROVE  /\ r.kid[s][m] \in N \cup {n, NIL}
               /\ r.kid[s][m] # NIL => r.parent[r.kid[s][m]] = m
    <3>1. CASE m = n
      BY <3>1, <1>h
    <3>2. CASE m = temp /\ s = side
      BY <3>2, <1>h
    <3>3. CASE m \in N /\ ~(m = temp /\ s = side)
      <4>1. r.kid[s][m] = t.kid[s][m]
        BY <3>3, <1>h
      <4> QED
        BY <3>3, <4>1, <1>h, <1>l
    <3> QED
      BY <3>1, <3>2, <3>3
  <2>3. ASSUME NEW m \in (N \cup {n}) \ {r.root}
        PROVE  r.parent[m] \in N /\ \E s \in Sides : r.kid[s][r.parent[m]] = m
    <3>1. CASE m = n
      BY <3>1, <1>h
    <3>2. CASE m \in N
      <4>1. PICK s \in Sides : t.parent[m] \in N /\ t.kid[s][t.parent[m]] = m
        BY <3>2, <1>h, <1>l
      <4>2. ~(t.parent[m] = temp /\ s = side)
        BY <3>2, <4>1
      <4> QED
        BY <3>2, <4>1, <4>2, <1>h
    <3> QED
      BY <3>1, <3>2
  <2> QED
    BY <2>1, <2>2, <2>3 DEF Linked
<1>2. ASSUME NEW m \in N, NEW s \in Sides
      PROVE  subs[r.kid[s][m]] = IF temp \in sub[t.kid[s][m]] \/ (m = temp /\ s = side)
                                 THEN sub[t.kid[s][m]] \cup {n} ELSE sub[t.kid[s][m]]
  <2>1. CASE m = temp /\ s = side
    BY <2>1, <1>h, <1>u, <1>s
  <2>2. CASE ~(m = temp /\ s = side)
    <3>1. r.kid[s][m] = t.kid[s][m] /\ t.kid[s][m] \in N \cup {NIL}
      BY <2>2, <1>h, <1>l
    <3> QED
      BY ZenonT(40), <2>2, <3>1, <1>u, <1>s
  <2> QED
    BY <2>1, <2>2
<1>3. ASSUME NEW m \in N \cup {n}
      PROVE  /\ m \in subs[m]
             /\ subs[m] = {m} \cup subs[r.kid["left"][m]] \cup subs[r.kid["right"][m]]
  <2>1. CASE m = n
    <3>1. r.kid["left"][m] = NIL /\ r.kid["right"][m] = NIL
      BY <2>1, <1>h DEF Sides
    <3> QED
      BY <2>1, <3>1, <1>u
  <2>2. CASE m \in N
    <3>1. sub[m] = {m} \cup sub[t.kid["left"][m]] \cup sub[t.kid["right"][m]]
      BY <2>2 DEF Shape, Subtrees
    <3>2. temp \in sub[m] <=> \/ m = temp \/ temp \in sub[t.kid["left"][m]]
                              \/ temp \in sub[t.kid["right"][m]]
      BY <3>1
    <3>3. "left" \in Sides /\ "right" \in Sides /\ (side = "left" \/ side = "right")
      BY DEF Sides
    <3>4. m = temp => temp \notin sub[t.kid["left"][m]] /\ temp \notin sub[t.kid["right"][m]]
      BY <2>2, <3>3, KidsBelow
    <3>5. subs[m] = IF temp \in sub[m] THEN sub[m] \cup {n} ELSE sub[m]
      BY <2>2, <1>u
    <3>6. /\ subs[r.kid["left"][m]] =
               IF temp \in sub[t.kid["left"][m]] \/ (m = temp /\ "left" = side)
               THEN sub[t.kid["left"][m]] \cup {n} ELSE sub[t.kid["left"][m]]
          /\ subs[r.kid["right"][m]] =
               IF temp \in sub[t.kid["right"][m]] \/ (m = temp /\ "right" = side)
               THEN sub[t.kid["right"][m]] \cup {n} ELSE sub[t.kid["right"][m]]
      BY <2>2, <1>2, <3>3
    <3>7. CASE temp \in sub[m]
      BY <3>1, <3>2, <3>3, <3>5, <3>6, <3>7
    <3>8. CASE temp \notin sub[m]
      BY <3>1, <3>2, <3>5, <3>6, <3>8
    <3> QED
      BY <3>7, <3>8, <2>2, <1>s, <3>5
  <2> QED
    BY <2>1, <2>2
<1>4. ASSUME NEW a \in N \cup {n}, NEW b \in subs[a]
      PROVE  subs[b] \subseteq subs[a] /\ (b # a => r.parent[b] \in subs[a])
  <2>1. CASE a = n
    BY <2>1, <1>u
  <2>2. CASE a \in N /\ b = n
    <3>1. temp \in sub[a]
      BY <2>2, <1>u, <1>s
    <3> QED
      BY <2>2, <3>1, <1>u, <1>h
  <2>3. CASE a \in N /\ b # n
    <3>1. b \in sub[a] /\ b \in N
      BY ZenonT(40), <2>3, <1>u, <1>s
    <3>2. sub[b] \subseteq sub[a] /\ (b # a => t.parent[b] \in sub[a])
      BY <2>3, <3>1, <1>s
    <3> QED
      BY <2>3, <3>1, <3>2, <1>u, <1>h
  <2> QED
    BY <2>1, <2>2, <2>3
<1>5. subs[r.root] = N \cup {n}
  BY ZenonT(40), <1>h, <1>r, <1>s, <1>u
<1> QED
  BY <1>1, <1>3, <1>4, <1>5, <1>u DEF Subtrees

\* where insert's way down has come to: a new datum d belongs below temp
Belongs(t, N, rank, sub, temp, d) ==
    \A m \in N \ sub[temp] : rank[m] < rank[temp] <=> t.key[m] <= d

LEMMA HangOrdered ==
    ASSUME NEW t, NEW N, N \subseteq Nodes, NEW rank, NEW sub, Shape(t, N, rank, sub),
           NEW n, n \notin N, n # NIL, NEW temp \in N, NEW side \in Sides, t.kid[side][temp] = NIL,
           \A m \in N : t.key[m] \in Int,
           NEW d \in Int, side = (IF d < t.key[temp] THEN "left" ELSE "right"),
           Belongs(t, N, rank, sub, temp, d),
           NEW r, Hung(t, r, N, n, temp, side), r.key[n] = d,
           NEW ranks, HungRank(N, rank, ranks, n, temp, side),
           NEW subs, HungSubs(N, sub, subs, n, temp)
    PROVE  Ordered(r, N \cup {n}, ranks, subs)
<1>n. NIL \notin N
  BY NilIsNoNode
<1>h. /\ \A s \in Sides, m \in N : r.kid[s][m] = IF m = temp /\ s = side THEN n ELSE t.kid[s][m]
      /\ \A s \in Sides : r.kid[s][n] = NIL
      /\ \A m \in N : r.key[m] = t.key[m]
  BY DEF Hung
<1>k. /\ \A m \in N : ranks[m] = 2 * rank[m]
      /\ ranks[n] = IF side = "left" THEN 2 * rank[temp] - 1 ELSE 2 * rank[temp] + 1
  BY DEF HungRank
<1>u. /\ \A m \in N : subs[m] = IF temp \in sub[m] THEN sub[m] \cup {n} ELSE sub[m]
      /\ subs[n] = {n} /\ subs[NIL] = {}
  BY DEF HungSubs
<1>s. /\ sub[NIL] = {}
      /\ \A m \in N : m \in sub[m] /\ sub[m] \subseteq N
      /\ \A m \in N, s \in Sides : t.kid[s][m] \in N \cup {NIL}
  BY KidsBelow DEF Shape, Subtrees
<1>o. /\ \A m \in N : rank[m] \in Int
      /\ \A a \in N : \A m \in N \ sub[a], y \in sub[a] : rank[m] < rank[a] <=> rank[m] < rank[y]
      /\ \A m, q \in N : m # q => rank[m] # rank[q]
      /\ \A m, q \in N : rank[m] < rank[q] => t.key[m] <= t.key[q]
  BY DEF Shape, Ordered
<1>e. /\ "left" \in Sides /\ "right" \in Sides /\ "left" # "right"
      /\ (side = "left" \/ side = "right")
  BY DEF Sides
<1>t. rank[temp] \in Int
  BY <1>o
\* the new node is next to temp
<1>1. \A m \in N \ {temp} : /\ ranks[m] < ranks[n] <=> rank[m] < rank[temp]
                            /\ ranks[n] < ranks[m] <=> rank[temp] < rank[m]
                            /\ ranks[m] # ranks[n]
  <2> SUFFICES ASSUME NEW m \in N \ {temp}
               PROVE  /\ ranks[m] < ranks[n] <=> rank[m] < rank[temp]
                      /\ ranks[n] < ranks[m] <=> rank[temp] < rank[m]
                      /\ ranks[m] # ranks[n]
    OBVIOUS
  <2>1. rank[m] \in Int /\ rank[m] # rank[temp] /\ ranks[m] = 2 * rank[m]
    BY <1>o, <1>k
  <2>2. CASE side = "left"
    BY <2>1, <2>2, <1>t, <1>k
  <2>3. CASE side = "right"
    BY <2>1, <2>3, <1>t, <1>k, <1>e
  <2> QED
    BY <2>2, <2>3, <1>e
<1>2. Beside(side, ranks[n], ranks[temp])
  <2>1. ranks[temp] = 2 * rank[temp]
    BY <1>k
  <2> QED
    BY <2>1, <1>k, <1>t, <1>e DEF Beside
<1>3. ASSUME NEW m \in N, NEW q \in N
      PROVE  ranks[m] < ranks[q] <=> rank[m] < rank[q]
  BY <1>k, <1>o
<1>4. ASSUME NEW m \in N \cup {n}, NEW s \in Sides, NEW c \in subs[r.kid[s][m]]
      PROVE  Beside(s, ranks[c], ranks[m])
  <2>1. CASE m = n
    BY <2>1, <1>h, <1>u
  <2>2. CASE m = temp /\ s = side
    <3>1. c = n
      BY <2>2, <1>h, <1>u
    <3> QED
      BY <3>1, <2>2, <1>2
  <2>3. CASE m \in N /\ ~(m = temp /\ s = side)
    <3>1. r.kid[s][m] = t.kid[s][m] /\ t.kid[s][m] \in N
      BY <2>3, <1>h, <1>s, <1>u
    <3>2. \A y \in sub[t.kid[s][m]] : Beside(s, rank[y], rank[m]) /\ y \in N
      BY <2>3, <3>1, <1>s, KidsBySide
    <3>3. CASE c \in N
      <4>1. c \in sub[t.kid[s][m]]
        BY <3>1, <3>3, <1>u
      <4>2. Beside(s, rank[c], rank[m])
        BY <4>1, <3>2
      <4> QED
        BY <2>3, <3>3, <4>2, <1>3 DEF Beside
    <3>4. CASE c \notin N
      <4>1. c = n /\ temp \in sub[t.kid[s][m]]
        <5>1. /\ c \in subs[t.kid[s][m]] /\ sub[t.kid[s][m]] \subseteq N
              /\ subs[t.kid[s][m]] = IF temp \in sub[t.kid[s][m]]
                                     THEN sub[t.kid[s][m]] \cup {n} ELSE sub[t.kid[s][m]]
          BY <3>1, <1>u, <1>s
        <5> QED
          BY <3>4, <5>1
      <4>2. Beside(s, rank[temp], rank[m]) /\ m # temp
        BY <4>1, <3>2, <2>3, KidsBelow
      <4> QED
        BY <2>3, <4>1, <4>2, <1>1 DEF Beside
    <3> QED
      BY <3>3, <3>4
  <2> QED
    BY <2>1, <2>2, <2>3
<1>5. \A m \in N \cup {n} : /\ \A c \in subs[r.kid["left"][m]] : ranks[c] < ranks[m]
                            /\ \A c \in subs[r.kid["right"][m]] : ranks[m] < ranks[c]
  BY <1>4, <1>e DEF Beside
<1>6. ASSUME NEW a \in N \cup {n}, NEW m \in (N \cup {n}) \ subs[a], NEW y \in subs[a]
      PROVE  ranks[m] < ranks[a] <=> ranks[m] < ranks[y]
  <2>0. a \in N => /\ subs[a] = IF temp \in sub[a] THEN sub[a] \cup {n} ELSE sub[a]
                   /\ a \in sub[a] /\ sub[a] \subseteq N
    BY <1>u, <1>s
  <2>1. CASE a = n
    BY <2>1, <1>u
  <2>2. CASE a \in N /\ m = n
    <3>1. temp \notin sub[a] /\ y \in sub[a] /\ a # temp /\ y # temp /\ y \in N
      BY <2>0, <2>2, <1>6
    <3>2. rank[temp] < rank[a] <=> rank[temp] < rank[y]
      BY <2>2, <3>1, <1>o
    <3> QED
      BY <2>2, <3>1, <3>2, <1>1
  <2>3. CASE a \in N /\ m # n /\ y = n
    <3>1. temp \in sub[a] /\ m \in N /\ m \notin sub[a] /\ m # temp
      BY <2>0, <2>3, <1>6
    <3>2. rank[m] < rank[a] <=> rank[m] < rank[temp]
      BY <2>3, <3>1, <1>o
    <3> QED
      BY <2>3, <3>1, <3>2, <1>1, <1>3
  <2>4. CASE a \in N /\ m # n /\ y # n
    <3>1. y \in sub[a] /\ m \in N /\ m \notin sub[a] /\ y \in N
      BY <2>0, <2>4, <1>6
    <3>2. rank[m] < rank[a] <=> rank[m] < rank[y]
      BY <2>4, <3>1, <1>o
    <3> QED
      BY <2>4, <3>1, <3>2, <1>3
  <2> QED
    BY <2>1, <2>2, <2>3, <2>4
<1>7. ASSUME NEW m \in N \cup {n}, NEW q \in N \cup {n}, m # q
      PROVE  ranks[m] # ranks[q]
  <2>0. ranks[temp] # ranks[n]
    <3>1. ranks[temp] \in Int /\ ranks[n] \in Int
      BY <1>k, <1>t
    <3> QED
      BY <3>1, <1>2 DEF Beside
  <2>1. CASE m \in N /\ q \in N
    BY <2>1, <1>7, <1>k, <1>o
  <2>2. CASE m \in N /\ q = n
    BY <2>0, <2>2, <1>1
  <2>3. CASE q \in N /\ m = n
    BY <2>0, <2>3, <1>1
  <2> QED
    BY <2>1, <2>2, <2>3, <1>7
\* the nodes next to temp on the side where nothing hung
<1>f. ASSUME NEW q \in N \ {temp}, Beside(side, rank[q], rank[temp])
      PROVE  q \notin sub[temp]
  <2>1. SUFFICES ASSUME q \in sub[temp] PROVE FALSE
    OBVIOUS
  <2>2. q \in sub[t.kid[Opp(side)][temp]]
    <3>1. sub[temp] = {temp} \cup sub[t.kid[side][temp]] \cup sub[t.kid[Opp(side)][temp]]
      BY KidsBySide
    <3> QED
      BY <2>1, <3>1, <1>s
  <2>3. Beside(Opp(side), rank[q], rank[temp])
    BY <2>2, OppSides, KidsBySide
  <2> QED
    BY <2>3, <1>f, <1>o, <1>t, <1>e DEF Beside, Opp
<1>8. ASSUME NEW m \in N \cup {n}, NEW q \in N \cup {n}, ranks[m] < ranks[q]
      PROVE  r.key[m] <= r.key[q]
  <2>1. CASE m \in N /\ q \in N
    BY <2>1, <1>8, <1>3, <1>o, <1>h
  <2>2. CASE m \in N /\ q = n
    <3>1. CASE m = temp
      <4>1. side = "right"
        <5>1. ranks[temp] \in Int /\ ranks[n] \in Int
          BY <1>k, <1>t
        <5> QED
          BY <2>2, <3>1, <5>1, <1>8, <1>2, <1>e DEF Beside
      <4> QED
        BY <2>2, <3>1, <4>1, <1>h, <1>e
    <3>2. CASE m # temp
      <4>1. rank[m] < rank[temp]
        BY <2>2, <3>2, <1>8, <1>1
      <4>2. CASE side = "left"
        <5>1. m \notin sub[temp]
          BY <2>2, <3>2, <4>1, <4>2, <1>f DEF Beside
        <5> QED
          BY <2>2, <4>1, <5>1, <1>h DEF Belongs
      <4>3. CASE side = "right"
        <5>1. t.key[m] <= t.key[temp] /\ t.key[temp] <= d
          BY <2>2, <4>1, <4>3, <1>o, <1>e
        <5> QED
          BY <2>2, <5>1, <1>h
      <4> QED
        BY <4>2, <4>3, <1>e
    <3> QED
      BY <3>1, <3>2
  <2>3. CASE q \in N /\ m = n
    <3>1. CASE q = temp
      <4>1. side = "left"
        <5>1. ranks[temp] \in Int /\ ranks[n] \in Int
          BY <1>k, <1>t
        <5> QED
          BY <2>3, <3>1, <5>1, <1>8, <1>2, <1>e DEF Beside
      <4> QED
        BY <2>3, <3>1, <4>1, <1>h, <1>e
    <3>2. CASE q # temp
      <4>1. rank[temp] < rank[q]
        BY <2>3, <3>2, <1>8, <1>1
      <4>2. CASE side = "right"
        <5>1. q \notin sub[temp]
          BY <2>3, <3>2, <4>1, <4>2, <1>e, <1>f DEF Beside
        <5>2. ~(rank[q] < rank[temp])
          BY <2>3, <4>1, <1>o, <1>t
        <5> QED
          BY <2>3, <5>1, <5>2, <1>h DEF Belongs
      <4>3. CASE side = "left"
        <5>1. t.key[temp] <= t.key[q] /\ d < t.key[temp]
          BY <2>3, <4>1, <4>3, <1>o, <1>e
        <5> QED
          BY <2>3, <5>1, <1>h
      <4> QED
        BY <4>2, <4>3, <1>e
    <3> QED
      BY <3>1, <3>2
  <2>4. CASE m = n /\ q = n
    BY <2>4
  <2> QED
    BY <2>1, <2>2, <2>3, <2>4
<1> QED
  BY <1>5, <1>6, <1>7, <1>8 DEF Ordered

LEMMA HangFields ==
    ASSUME NEW t \in Trees, NEW n \in Nodes, NEW temp \in Nodes, NEW side,
           side = (IF t.key[n] < t.key[temp] THEN "left" ELSE "right"),
           NEW r, r = Hang(t, n, temp)
    PROVE  /\ r \in Trees
           /\ r.root = t.root /\ r.dead = t.dead /\ r.color = t.color /\ r.key = t.key
           /\ r.high = t.high /\ r.size = t.size /\ r.maxHigh = t.maxHigh
           /\ \A s \in Sides, m \in Nodes :
                 r.kid[s][m] = IF m = temp /\ s = side THEN n ELSE t.kid[s][m]
           /\ \A m \in Links : r.parent[m] = IF m = n THEN temp ELSE t.parent[m]
<1>1. n \in Links /\ temp \in Links /\ temp # NIL /\ "left" \in Sides /\ "right" \in Sides
      /\ "left" # "right"
  BY NilIsNoNode DEF Sides
<1>2. PICK t1 : t1 = [t EXCEPT !.parent[n] = temp]
  OBVIOUS
<1>3. /\ t1 \in Trees
      /\ t1.root = t.root /\ t1.dead = t.dead /\ t1.color = t.color /\ t1.key = t.key
      /\ t1.high = t.high /\ t1.size = t.size /\ t1.maxHigh = t.maxHigh /\ t1.kid = t.kid
      /\ \A m \in Links : t1.parent[m] = IF m = n THEN temp ELSE t.parent[m]
  BY <1>1, <1>2 DEF Trees
<1>4. side \in Sides
  BY <1>1
<1>5. r = [t1 EXCEPT !.kid[side][temp] = n]
  BY <1>1, <1>2 DEF Hang
<1>6. /\ r \in Trees
      /\ r.root = t1.root /\ r.dead = t1.dead /\ r.color = t1.color /\ r.key = t1.key
      /\ r.high = t1.high /\ r.size = t1.size /\ r.maxHigh = t1.maxHigh /\ r.parent = t1.parent
      /\ \A s \in Sides, m \in Nodes :
            r.kid[s][m] = IF m = temp /\ s = side THEN n ELSE t1.kid[s][m]
  <2>1. \A w \in Trees : LET v == [w EXCEPT !.kid[side][temp] = n] IN
          /\ v \in Trees
          /\ v.root = w.root /\ v.dead = w.dead /\ v.color = w.color /\ v.key = w.key
          /\ v.high = w.high /\ v.size = w.size /\ v.maxHigh = w.maxHigh /\ v.parent = w.parent
          /\ \A s \in Sides, m \in Nodes :
                v.kid[s][m] = IF m = temp /\ s = side THEN n ELSE w.kid[s][m]
    BY <1>1, <1>4 DEF Trees
  <2>2. t1 \in Trees
    BY <1>3
  <2> QED
    BY <2>1, <2>2, <1>5
<1> QED
  BY <1>3, <1>6

LEMMA HangShape ==
    ASSUME NEW t, NEW N, N \subseteq Nodes, NEW rank, NEW sub, Shape(t, N, rank, sub),
           NEW n, n \notin N, n # NIL, NEW temp \in N, NEW side \in Sides, t.kid[side][temp] = NIL,
           \A m \in N : t.key[m] \in Int,
           NEW d \in Int, side = (IF d < t.key[temp] THEN "left" ELSE "right"),
           Belongs(t, N, rank, sub, temp, d),
           NEW r, Hung(t, r, N, n, temp, side), r.key[n] = d
    PROVE  \E ranks, subs : /\ Shape(r, N \cup {n}, ranks, subs)
                            /\ HungSubs(N, sub, subs, n, temp)
<1>n. NIL \notin N
  BY NilIsNoNode
<1>1. /\ rank \in [N -> Int] /\ sub \in [N \cup {NIL} -> SUBSET N]
  BY DEF Shape
<1>2. PICK ranks : /\ ranks \in [N \cup {n} -> Int]
                   /\ HungRank(N, rank, ranks, n, temp, side)
  <2>1. PICK f : f = [m \in N \cup {n} |-> IF m \in N THEN 2 * rank[m]
                                           ELSE IF side = "left" THEN 2 * rank[temp] - 1
                                           ELSE 2 * rank[temp] + 1]
    OBVIOUS
  <2>2. HungRank(N, rank, f, n, temp, side)
    BY <2>1 DEF HungRank
  <2>3. f \in [N \cup {n} -> Int]
    BY <2>1, <1>1
  <2> QED
    BY <2>2, <2>3
<1>3. PICK subs : /\ subs \in [(N \cup {n}) \cup {NIL} -> SUBSET (N \cup {n})]
                  /\ HungSubs(N, sub, subs, n, temp)
  <2>1. PICK f : f = [m \in (N \cup {n}) \cup {NIL} |->
                        IF m = NIL THEN {} ELSE IF m = n THEN {n}
                        ELSE IF temp \in sub[m] THEN sub[m] \cup {n} ELSE sub[m]]
    OBVIOUS
  <2>2. HungSubs(N, sub, f, n, temp)
    BY <2>1, <1>n DEF HungSubs
  <2>3. f \in [(N \cup {n}) \cup {NIL} -> SUBSET (N \cup {n})]
    BY <2>1, <1>1
  <2> QED
    BY <2>2, <2>3
<1>4. Linked(r, N \cup {n}) /\ Subtrees(r, N \cup {n}, subs)
  BY <1>n, <1>3, HangSubtrees
<1>5. Ordered(r, N \cup {n}, ranks, subs)
  BY <1>2, <1>3, HangOrdered
<1>6. Shape(r, N \cup {n}, ranks, subs)
  BY <1>2, <1>3, <1>4, <1>5 DEF Shape
<1> QED
  BY <1>3, <1>6

\* the first node of a tree
LEMMA FirstShape ==
    ASSUME NEW t, NEW n, n # NIL, t.root = n, t.parent[n] = NIL,
           \A s \in Sides : t.kid[s][n] = NIL, t.key[n] \in Int
    PROVE  \E ranks, subs : Shape(t, {n}, ranks, subs) /\ subs[n] = {n}
<1>1. PICK ranks : ranks = [m \in {n} |-> 0]
  OBVIOUS
<1>2. PICK subs : subs = [m \in {n} \cup {NIL} |-> IF m = n THEN {n} ELSE {}]
  OBVIOUS
<1>3. subs[n] = {n} /\ subs[NIL] = {} /\ ranks[n] = 0
  BY <1>1, <1>2
<1>4. Linked(t, {n})
  BY DEF Linked
<1>5. Subtrees(t, {n}, subs)
  <2>1. t.kid["left"][n] = NIL /\ t.kid["right"][n] = NIL
    BY DEF Sides
  <2> QED
    BY <2>1, <1>3 DEF Subtrees
<1>6. Ordered(t, {n}, ranks, subs)
  <2>1. t.kid["left"][n] = NIL /\ t.kid["right"][n] = NIL
    BY DEF Sides
  <2> QED
    BY <2>1, <1>3 DEF Ordered
<1>7. ranks \in [{n} -> Int] /\ subs \in [{n} \cup {NIL} -> SUBSET {n}]
  BY <1>1, <1>2
<1> QED
  BY <1>3, <1>4, <1>5, <1>6, <1>7 DEF Shape

LEMMA BookedNil ==
    ASSUME NEW t, NEW N, N \subseteq Nodes, IsFiniteSet(N), NEW rank, NEW sub,
           Shape(t, N, rank, sub),
           NEW off
    PROVE  Booked(t, N, sub, NIL, off) <=>
             /\ kind = "os" => \A n \in N : t.size[n] = Cardinality(sub[n])
             /\ kind = "int" => \A n \in N : Spanned(t, n, sub)
<1>1. \A n \in N : NIL \notin sub[n] /\ Cardinality(sub[n]) \in Nat
  <2>1. \A n \in N : sub[n] \subseteq N
    BY DEF Shape
  <2>2. \A n \in N : Cardinality(sub[n]) \in Nat
    BY SubsFinite
  <2> QED
    BY <2>1, <2>2, NilIsNoNode
<1> QED
  BY <1>1 DEF Booked

\* a node as make_shared leaves it
NewAt(t, n) == /\ \A s \in Sides : t.kid[s][n] = NIL
               /\ t.key[n] \in Int /\ t.key[n] <= t.high[n]
               /\ t.size[n] = 1 /\ t.maxHigh[n] = t.high[n]

LEMMA HangGood ==
    ASSUME NEW t, NEW N, N \subseteq Nodes, IsFiniteSet(N), NEW rank, NEW sub,
           Good(t, N, rank, sub, NIL, 0),
           NEW n \in Nodes \ N, NewAt(t, n),
           NEW temp \in N \cup {NIL}, temp = NIL => t.root = NIL,
           temp # NIL => /\ t.kid[IF t.key[n] < t.key[temp] THEN "left" ELSE "right"][temp] = NIL
                         /\ Belongs(t, N, rank, sub, temp, t.key[n]),
           NEW r, r = Hang(t, n, temp)
    PROVE  /\ \E ranks, subs : Good(r, N \cup {n}, ranks, subs, temp, -1)
           /\ r.key = t.key
<1>n. /\ NIL \notin N /\ n # NIL /\ n \in Links /\ NIL \in Links
      /\ \A m \in N : m \in Nodes /\ m \in Links
  BY NilIsNoNode
<1>g. /\ t \in Trees /\ ~t.dead /\ Sentinel(t) /\ Shape(t, N, rank, sub)
      /\ Booked(t, N, sub, NIL, 0)
      /\ \A m \in N : t.key[m] \in Int /\ t.key[m] <= t.high[m]
  BY DEF Good
<1>b. /\ kind = "os" => \A m \in N : t.size[m] = Cardinality(sub[m])
      /\ kind = "int" => \A m \in N : Spanned(t, m, sub)
  BY <1>g, BookedNil
<1>d. /\ \A m \in N : t.key[m] \in Int
      /\ t.key[n] \in Int
  BY <1>g, TreeAssumption DEF NewAt
<1>1. CASE temp = NIL
  <2>1. N = {}
    BY <1>1, <1>g DEF Shape, Subtrees
  <2>2. r = [[t EXCEPT !.parent[n] = NIL] EXCEPT !.root = n]
    BY <1>1 DEF Hang
  <2>3. /\ r \in Trees /\ r.root = n /\ r.dead = t.dead /\ r.color = t.color /\ r.key = t.key
        /\ r.high = t.high /\ r.size = t.size /\ r.maxHigh = t.maxHigh /\ r.kid = t.kid
        /\ r.parent[n] = NIL
    <3>1. PICK t1 : t1 = [t EXCEPT !.parent[n] = NIL]
      OBVIOUS
    <3>2. /\ t1 \in Trees /\ t1.dead = t.dead /\ t1.color = t.color /\ t1.key = t.key
          /\ t1.high = t.high /\ t1.size = t.size /\ t1.maxHigh = t.maxHigh /\ t1.kid = t.kid
          /\ t1.parent[n] = NIL
      BY <1>g, <1>n, <3>1 DEF Trees
    <3>3. r = [t1 EXCEPT !.root = n]
      BY <2>2, <3>1
    <3>4. /\ r \in Trees /\ r.root = n /\ r.dead = t1.dead /\ r.color = t1.color
          /\ r.key = t1.key /\ r.high = t1.high /\ r.size = t1.size
          /\ r.maxHigh = t1.maxHigh /\ r.kid = t1.kid /\ r.parent = t1.parent
      <4>1. t1 \in Trees /\ n \in Links
        BY <3>2, <1>n
      <4> QED
        BY <4>1, <3>3 DEF Trees
    <3> QED
      BY <3>2, <3>4
  <2>4. PICK ranks, subs : Shape(r, {n}, ranks, subs) /\ subs[n] = {n}
    <3>1. \A s \in Sides : r.kid[s][n] = NIL
      BY <2>3 DEF NewAt
    <3>2. r.key[n] \in Int
      BY <2>3, <1>d
    <3>3. r.root = n /\ r.parent[n] = NIL /\ n # NIL
      BY <2>3, <1>n
    <3>4. \A w : w.root = n /\ w.parent[n] = NIL /\ (\A s \in Sides : w.kid[s][n] = NIL)
                 /\ w.key[n] \in Int =>
              \E ranks, subs : Shape(w, {n}, ranks, subs) /\ subs[n] = {n}
      BY <3>3, FirstShape
    <3> QED
      BY <3>1, <3>2, <3>3, <3>4
  <2>5. Booked(r, {n}, subs, temp, -1)
    <3>1. {n} \subseteq Nodes /\ IsFiniteSet({n}) /\ Cardinality({n}) = 1
      BY FS_Singleton
    <3>2. r.size[n] = Cardinality(subs[n])
      BY <2>3, <2>4, <3>1 DEF NewAt
    <3>3. Spanned(r, n, subs)
      <4>1. r.high[n] = r.maxHigh[n] /\ subs[n] = {n} /\ r.high[n] \in Int
        BY <2>3, <2>4 DEF NewAt, Trees
      <4> QED
        BY <4>1 DEF Spanned
    <3>4. \A m \in {n} : r.size[m] = Cardinality(subs[m]) /\ Spanned(r, m, subs)
      BY <3>2, <3>3
    <3> QED
      BY <1>1, <2>4, <3>1, <3>4, BookedNil
  <2>6. Sentinel(r)
    BY <1>g, <2>3 DEF Sentinel
  <2>7. \A m \in {n} : r.key[m] \in Int /\ r.key[m] <= r.high[m]
    BY <2>3 DEF NewAt
  <2>8. Good(r, {n}, ranks, subs, temp, -1)
    BY <1>g, <2>3, <2>4, <2>5, <2>6, <2>7 DEF Good
  <2>9. N \cup {n} = {n}
    BY <2>1
  <2> QED
    BY <2>3, <2>8, <2>9
<1>2. CASE temp # NIL
  <2>1. PICK side : side = IF t.key[n] < t.key[temp] THEN "left" ELSE "right"
    OBVIOUS
  <2>2. /\ side \in Sides /\ temp \in N /\ t.kid[side][temp] = NIL
        /\ Belongs(t, N, rank, sub, temp, t.key[n])
    BY <1>2, <2>1 DEF Sides
  <2>3. /\ r \in Trees
        /\ r.root = t.root /\ r.dead = t.dead /\ r.color = t.color /\ r.key = t.key
        /\ r.high = t.high /\ r.size = t.size /\ r.maxHigh = t.maxHigh
        /\ \A s \in Sides, m \in Nodes :
              r.kid[s][m] = IF m = temp /\ s = side THEN n ELSE t.kid[s][m]
        /\ \A m \in Links : r.parent[m] = IF m = n THEN temp ELSE t.parent[m]
    <3>1. t \in Trees /\ n \in Nodes /\ temp \in Nodes
      BY <1>g, <2>2
    <3> QED
      BY <2>1, <3>1, HangFields
  <2>4. Hung(t, r, N, n, temp, side)
    <3>1. \A s \in Sides : r.kid[s][n] = NIL
      BY <2>2, <2>3 DEF NewAt
    <3> QED
      BY <2>3, <3>1, <1>n DEF Hung
  <2>5. PICK ranks, subs : Shape(r, N \cup {n}, ranks, subs) /\ HungSubs(N, sub, subs, n, temp)
    <3>1. r.key[n] = t.key[n]
      BY <2>3
    <3> QED
      BY <1>d, <1>g, <1>n, <2>1, <2>2, <2>4, <3>1, HangShape
  <2>6. /\ \A m \in N : subs[m] = IF temp \in sub[m] THEN sub[m] \cup {n} ELSE sub[m]
        /\ subs[n] = {n}
    BY <2>5 DEF HungSubs
  <2>7. \A m \in N : sub[m] \subseteq N /\ IsFiniteSet(sub[m]) /\ Cardinality(sub[m]) \in Nat
    <3>1. \A m \in N : sub[m] \subseteq N
      BY <1>g DEF Shape
    <3> QED
      BY <3>1, <1>g, SubsFinite
  <2>8. ASSUME kind = "os", NEW m \in N \cup {n}
        PROVE  r.size[m] = Cardinality(subs[m]) + (IF temp \in subs[m] THEN -1 ELSE 0)
    <3>1. CASE m = n
      <4>1. subs[m] = {n} /\ temp \notin subs[m] /\ Cardinality({n}) = 1
        BY <3>1, <2>6, <2>2, FS_Singleton
      <4> QED
        BY <3>1, <4>1, <2>3 DEF NewAt
    <3>2. CASE m \in N /\ temp \in sub[m]
      <4>1. subs[m] = sub[m] \cup {n} /\ n \notin sub[m] /\ temp \in subs[m]
        BY <3>2, <2>6, <2>7
      <4>2. Cardinality(subs[m]) = Cardinality(sub[m]) + 1
        <5>1. PICK S : S = sub[m]
          OBVIOUS
        <5>2. IsFiniteSet(S) /\ n \notin S
          BY <3>2, <4>1, <2>7, <5>1
        <5>3. Cardinality(S \cup {n}) = Cardinality(S) + 1
          BY <5>2, FS_AddElement
        <5> QED
          BY <4>1, <5>1, <5>3
      <4>3. r.size[m] = Cardinality(sub[m])
        BY <3>2, <2>8, <2>3, <1>b
      <4> QED
        BY <3>2, <4>1, <4>2, <4>3, <2>7
    <3>3. CASE m \in N /\ temp \notin sub[m]
      <4>1. subs[m] = sub[m] /\ temp \notin subs[m]
        BY <3>3, <2>6
      <4>2. r.size[m] = Cardinality(sub[m])
        BY <3>3, <2>8, <2>3, <1>b
      <4> QED
        BY <3>3, <4>1, <4>2, <2>7
    <3> QED
      BY <3>1, <3>2, <3>3
  <2>9. ASSUME kind = "int", NEW m \in N \cup {n}, temp \notin subs[m]
        PROVE  Spanned(r, m, subs)
    <3>1. CASE m = n
      <4>1. r.high[n] = r.maxHigh[n] /\ subs[n] = {n} /\ r.high[n] \in Int
        BY <2>3, <2>6 DEF NewAt, Trees
      <4> QED
        BY <3>1, <4>1 DEF Spanned
    <3>2. CASE m \in N
      <4>1. subs[m] = sub[m]
        BY <3>2, <2>6, <2>9
      <4>2. Spanned(t, m, sub)
        BY <3>2, <2>9, <1>b
      <4> QED
        BY <4>1, <4>2, <2>3 DEF Spanned
    <3> QED
      BY <3>1, <3>2
  <2>10. Booked(r, N \cup {n}, subs, temp, -1)
    BY <2>8, <2>9 DEF Booked
  <2>11. Sentinel(r)
    BY <1>g, <2>3 DEF Sentinel
  <2>12. \A m \in N \cup {n} : r.key[m] \in Int /\ r.key[m] <= r.high[m]
    BY <1>g, <2>3 DEF NewAt
  <2>13. Good(r, N \cup {n}, ranks, subs, temp, -1)
    BY <1>g, <2>3, <2>5, <2>10, <2>11, <2>12 DEF Good
  <2> QED
    BY <2>3, <2>13
<1> QED
  BY <1>1, <1>2

-----------------------------------------------------------------------------
(* One step of the way up: what is owed moves on to the parent.            *)

LEMMA StaleMovesUp ==
    ASSUME NEW t, NEW N, N \subseteq Nodes, NEW rank, NEW sub, Shape(t, N, rank, sub),
           NEW st \in N, NEW m \in N
    PROVE  t.parent[st] \in sub[m] <=> st \in sub[m] /\ m # st
<1>n. NIL \notin N
  BY NilIsNoNode
<1>1. sub[m] \subseteq N /\ st \in sub[st]
  BY KidsBelow
<1>2. CASE st = t.root
  <2>1. t.parent[st] = NIL
    BY <1>2, <1>n, RootUp
  <2>2. st \in sub[m] => m = st
    <3>1. m \in sub[st]
      BY <1>2 DEF Shape, Subtrees
    <3> QED
      BY <3>1, BelowOnce
  <2> QED
    BY <1>1, <1>n, <2>1, <2>2
<1>3. CASE st # t.root
  <2>1. /\ t.parent[st] \in N /\ st \in sub[t.parent[st]] /\ t.parent[st] \notin sub[st]
    BY <1>3, ParentAbove
  <2>2. t.parent[st] \in sub[m] => sub[t.parent[st]] \subseteq sub[m]
    BY DEF Shape, Subtrees
  <2>3. st \in sub[m] /\ m # st => t.parent[st] \in sub[m]
    BY DEF Shape, Subtrees
  <2> QED
    BY <2>1, <2>2, <2>3
<1> QED
  BY <1>2, <1>3

\* g is the greatest end in S, or no end there is above 0
Ends(t, S, g) == (\A m \in S : t.high[m] <= g) /\ (g <= 0 \/ \E m \in S : t.high[m] = g)

KidsSpanned(t, N, n, sub) == \A s \in Sides : t.kid[s][n] \in N => Spanned(t, t.kid[s][n], sub)

\* a node's greatest end, computed from its children's, is right if theirs are
LEMMA SpannedByKids ==
    ASSUME NEW t \in Trees, NEW N, N \subseteq Nodes, NEW rank, NEW sub, Shape(t, N, rank, sub),
           Sentinel(t), NEW n \in N,
           KidsSpanned(t, N, n, sub),
           NEW g, g = GetMaxHigh(t, n)
    PROVE  /\ g \in Int
           /\ Ends(t, sub[n], g)
<1>n. NIL \in Links /\ n \in Nodes /\ \A m \in N : m \in Links /\ m \in Nodes
  BY NilIsNoNode
<1>1. PICK l, q : l = t.kid["left"][n] /\ q = t.kid["right"][n]
  OBVIOUS
<1>2. l \in N \cup {NIL} /\ q \in N \cup {NIL}
  BY <1>1 DEF Shape, Linked, Sides
<1>3. l \in Links /\ q \in Links
  BY <1>2, <1>n
<1>4. t.maxHigh[l] \in Int /\ t.maxHigh[q] \in Int /\ t.high[n] \in Int
  BY <1>3, <1>n DEF Trees
<1>5. g = Max({t.maxHigh[l], t.maxHigh[q], t.high[n]})
  BY <1>1 DEF GetMaxHigh
<1>6. /\ g \in {t.maxHigh[l], t.maxHigh[q], t.high[n]} /\ g \in Int
      /\ t.maxHigh[l] <= g /\ t.maxHigh[q] <= g /\ t.high[n] <= g
  <2>1. PICK a, b, c : a = t.maxHigh[l] /\ b = t.maxHigh[q] /\ c = t.high[n]
    OBVIOUS
  <2>2. PICK z : z = Max({a, b, c})
    OBVIOUS
  <2>3. a \in Int /\ b \in Int /\ c \in Int
    BY <1>4, <2>1
  <2>4. z \in {a, b, c} /\ a <= z /\ b <= z /\ c <= z
    BY <2>2, <2>3, MaxOfThree
  <2>5. z = g
    BY <1>5, <2>1, <2>2
  <2> QED
    BY <2>1, <2>3, <2>4, <2>5
<1>7. ASSUME NEW c \in {l, q}
      PROVE  /\ \A m \in sub[c] : t.high[m] <= g
             /\ g = t.maxHigh[c] => g <= 0 \/ \E m \in sub[c] : t.high[m] = g
  <2>1. t.maxHigh[c] <= g /\ t.maxHigh[c] \in Int
    BY <1>4, <1>6
  <2>2. CASE c = NIL
    <3>1. sub[c] = {} /\ t.maxHigh[c] = 0
      BY <2>2 DEF Shape, Subtrees, Sentinel
    <3> QED
      BY <3>1
  <2>3. CASE c \in N
    <3>1. Spanned(t, c, sub)
      <4>1. "left" \in Sides /\ "right" \in Sides
        BY DEF Sides
      <4>2. t.kid["left"][n] \in N => Spanned(t, t.kid["left"][n], sub)
        BY <4>1 DEF KidsSpanned
      <4>3. t.kid["right"][n] \in N => Spanned(t, t.kid["right"][n], sub)
        BY <4>1 DEF KidsSpanned
      <4> QED
        BY <2>3, <1>1, <4>2, <4>3
    <3>2. \A m \in sub[c] : t.high[m] \in Int
      <4>1. sub[c] \subseteq N
        BY <2>3 DEF Shape
      <4>2. \A m \in Nodes : t.high[m] \in Int
        BY DEF Trees
      <4> QED
        BY <4>1, <4>2, <1>n
    <3> QED
      BY <2>1, <3>1, <3>2, <1>6 DEF Spanned
  <2> QED
    BY <2>2, <2>3, <1>2
<1>8. sub[n] = {n} \cup sub[l] \cup sub[q]
  BY <1>1 DEF Shape, Subtrees
<1>9. \A m \in sub[n] : t.high[m] <= g
  BY <1>6, <1>7, <1>8
<1>10. g <= 0 \/ \E m \in sub[n] : t.high[m] = g
  BY <1>6, <1>7, <1>8
<1> QED
  BY <1>6, <1>9, <1>10 DEF Ends

\* Shape looks at the links and the data only
LEMMA SameShape ==
    ASSUME NEW t, NEW r, NEW N, NEW rank, NEW sub, Shape(t, N, rank, sub),
           r.root = t.root, r.parent = t.parent, r.kid = t.kid, r.key = t.key
    PROVE  Shape(r, N, rank, sub)
  BY DEF Shape, Linked, Subtrees, Ordered

Climbed(t, st, off) == IF kind = "os" THEN [t EXCEPT !.size[st] = @ - off]
                       ELSE [t EXCEPT !.maxHigh[st] = GetMaxHigh(t, st)]

LEMMA ClimbGood ==
    ASSUME NEW t, NEW N, N \subseteq Nodes, IsFiniteSet(N), NEW rank, NEW sub,
           NEW st \in N, NEW off \in Int, Good(t, N, rank, sub, st, off),
           NEW r, r = Climbed(t, st, off)
    PROVE  /\ Good(r, N, rank, sub, t.parent[st], off)
           /\ r.key = t.key /\ r.kid = t.kid /\ r.parent = t.parent /\ r.root = t.root
           /\ r.high = t.high
<1>n. st \in Links /\ NIL \in Links /\ NIL \notin N /\ \A m \in N : m \in Links
  BY NilIsNoNode
<1>g. /\ t \in Trees /\ ~t.dead /\ Sentinel(t) /\ Shape(t, N, rank, sub)
      /\ Booked(t, N, sub, st, off)
      /\ \A m \in N : t.key[m] \in Int /\ t.key[m] <= t.high[m]
  BY DEF Good
<1>u. \A m \in N : t.parent[st] \in sub[m] <=> st \in sub[m] /\ m # st
  BY <1>g, StaleMovesUp
<1>s. st \in sub[st]
  BY <1>g, KidsBelow
<1>1. CASE kind = "os"
  <2>1. PICK z : z = t.size[st] - off
    OBVIOUS
  <2>2. z \in Int
    BY <1>g, <1>n, <2>1 DEF Trees
  <2>3. r = [t EXCEPT !.size[st] = z]
    BY <1>1, <2>1, <1>g DEF Trees, Climbed
  <2>4. /\ r \in Trees
        /\ \A m \in Links : r.size[m] = IF m = st THEN z ELSE t.size[m]
        /\ r.root = t.root /\ r.dead = t.dead /\ r.color = t.color /\ r.key = t.key
        /\ r.high = t.high /\ r.kid = t.kid /\ r.parent = t.parent /\ r.maxHigh = t.maxHigh
    <3>1. t \in Trees /\ st \in Links /\ z \in Int
      BY <1>g, <1>n, <2>2
    <3>2. \A w \in Trees, y \in Int : \A q : q = [w EXCEPT !.size[st] = y] =>
             /\ q \in Trees
             /\ \A m \in Links : q.size[m] = IF m = st THEN y ELSE w.size[m]
             /\ q.root = w.root /\ q.dead = w.dead /\ q.color = w.color /\ q.key = w.key
             /\ q.high = w.high /\ q.kid = w.kid /\ q.parent = w.parent /\ q.maxHigh = w.maxHigh
      <4>1. st \in Links
        BY <3>1
      <4> QED
        BY <4>1, SizeWritten
    <3> QED
      BY <3>1, <3>2, <2>3
  <2>5. Shape(r, N, rank, sub)
    BY <1>g, <2>4, SameShape
  <2>6. Booked(r, N, sub, t.parent[st], off)
    <3>1. \A m \in N : t.size[m] = Cardinality(sub[m]) + (IF st \in sub[m] THEN off ELSE 0)
      BY <1>1, <1>g DEF Booked
    <3>2. \A m \in N : Cardinality(sub[m]) \in Nat
      BY <1>g, SubsFinite
    <3>3. \A m \in N :
             r.size[m] = Cardinality(sub[m]) + (IF t.parent[st] \in sub[m] THEN off ELSE 0)
      BY <3>1, <3>2, <2>1, <2>4, <1>n, <1>u, <1>s
    <3> QED
      BY <1>1, <3>3 DEF Booked
  <2>7. Sentinel(r)
    BY <1>g, <1>n, <2>4 DEF Sentinel
  <2> QED
    BY <1>g, <2>4, <2>5, <2>6, <2>7 DEF Good
<1>2. CASE kind # "os"
  <2>1. PICK z : z = GetMaxHigh(t, st)
    OBVIOUS
  <2>2. z \in Int
    <3>1. t.kid["left"][st] \in Links /\ t.kid["right"][st] \in Links
      BY <1>g, <1>n DEF Trees, Sides
    <3>2. t.maxHigh[t.kid["left"][st]] \in Int /\ t.maxHigh[t.kid["right"][st]] \in Int
          /\ t.high[st] \in Int
      BY <1>g, <3>1 DEF Trees
    <3>3. PICK a, b, c : a = t.maxHigh[t.kid["left"][st]] /\ b = t.maxHigh[t.kid["right"][st]]
                         /\ c = t.high[st]
      OBVIOUS
    <3>4. a \in Int /\ b \in Int /\ c \in Int
      BY <3>2, <3>3
    <3>5. Max({a, b, c}) \in {a, b, c}
      BY <3>4, MaxOfThree
    <3>6. z = Max({a, b, c})
      BY <2>1, <3>3 DEF GetMaxHigh
    <3> QED
      BY <3>4, <3>5, <3>6
  <2>3. r = [t EXCEPT !.maxHigh[st] = z]
    BY <1>2, <2>1 DEF Climbed
  <2>4. /\ r \in Trees
        /\ \A m \in Links : r.maxHigh[m] = IF m = st THEN z ELSE t.maxHigh[m]
        /\ r.root = t.root /\ r.dead = t.dead /\ r.color = t.color /\ r.key = t.key
        /\ r.high = t.high /\ r.kid = t.kid /\ r.parent = t.parent /\ r.size = t.size
    <3>1. t \in Trees /\ st \in Links /\ z \in Int
      BY <1>g, <1>n, <2>2
    <3>2. \A w \in Trees, y \in Int : \A q : q = [w EXCEPT !.maxHigh[st] = y] =>
             /\ q \in Trees
             /\ \A m \in Links : q.maxHigh[m] = IF m = st THEN y ELSE w.maxHigh[m]
             /\ q.root = w.root /\ q.dead = w.dead /\ q.color = w.color /\ q.key = w.key
             /\ q.high = w.high /\ q.kid = w.kid /\ q.parent = w.parent /\ q.size = w.size
      <4>1. st \in Links
        BY <3>1
      <4> QED
        BY <4>1, MaxHighWritten
    <3> QED
      BY <3>1, <3>2, <2>3
  <2>5. Shape(r, N, rank, sub)
    BY <1>g, <2>4, SameShape
  <2>6. ASSUME kind = "int", NEW m \in N, t.parent[st] \notin sub[m]
        PROVE  Spanned(r, m, sub)
    <3>1. CASE m = st
      <4>1. \A s \in Sides : t.kid[s][st] \in N => Spanned(t, t.kid[s][st], sub)
        <5> SUFFICES ASSUME NEW s \in Sides, t.kid[s][st] \in N
                     PROVE  Spanned(t, t.kid[s][st], sub)
          OBVIOUS
        <5>1. st \notin sub[t.kid[s][st]]
          BY <1>g, KidsBelow
        <5> QED
          BY <5>1, <2>6, <1>g DEF Booked
      <4>2. Ends(t, sub[st], z)
        <5>1. t \in Trees /\ Shape(t, N, rank, sub) /\ Sentinel(t)
          BY <1>g
        <5>2. KidsSpanned(t, N, st, sub)
          BY <4>1 DEF KidsSpanned
        <5> QED
          BY <5>1, <5>2, <2>1, SpannedByKids
      <4>3. r.maxHigh[m] = z
        BY <3>1, <2>4, <1>n
      <4> QED
        BY <3>1, <4>2, <4>3, <2>4 DEF Spanned, Ends
    <3>2. CASE m # st
      <4>1. st \notin sub[m]
        BY <3>2, <2>6, <1>u
      <4>2. Spanned(t, m, sub)
        BY <4>1, <2>6, <1>g DEF Booked
      <4>3. r.maxHigh[m] = t.maxHigh[m]
        BY <3>2, <2>4, <1>n
      <4> QED
        BY <4>2, <4>3, <2>4 DEF Spanned
    <3> QED
      BY <3>1, <3>2
  <2>7. Booked(r, N, sub, t.parent[st], off)
    BY <1>2, <2>6 DEF Booked
  <2>8. Sentinel(r)
    BY <1>g, <1>n, <2>4 DEF Sentinel
  <2> QED
    BY <1>g, <2>4, <2>5, <2>7, <2>8 DEF Good
<1> QED
  BY <1>1, <1>2

-----------------------------------------------------------------------------
(* A node with at most one child leaves its place to that child.           *)

Vacated(t, r, N, v, x) ==
    /\ r.root = IF v = t.root THEN x ELSE t.root
    /\ \A m \in N \ {v} :
          /\ \A s \in Sides : r.kid[s][m] = IF t.kid[s][m] = v THEN x ELSE t.kid[s][m]
          /\ r.parent[m] = IF m = x THEN t.parent[v] ELSE t.parent[m]
          /\ r.key[m] = t.key[m]

\* the witnesses for the shorter tree
Without(N, v, rank, ranks, sub, subs) ==
    /\ ranks \in [N \ {v} -> Int] /\ \A m \in N \ {v} : ranks[m] = rank[m]
    /\ subs \in [(N \ {v}) \cup {NIL} -> SUBSET (N \ {v})]
    /\ \A m \in (N \ {v}) \cup {NIL} : subs[m] = sub[m] \ {v}

LEMMA VacateShape ==
    ASSUME NEW t, NEW N, NIL \notin N, NEW rank, NEW sub, Shape(t, N, rank, sub),
           NEW v \in N, NEW side \in Sides, t.kid[Opp(side)][v] = NIL, NEW x, x = t.kid[side][v],
           NEW r, Vacated(t, r, N, v, x),
           NEW ranks, NEW subs, Without(N, v, rank, ranks, sub, subs)
    PROVE  Shape(r, N \ {v}, ranks, subs)
<1>w. /\ ranks \in [N \ {v} -> Int] /\ \A m \in N \ {v} : ranks[m] = rank[m]
      /\ subs \in [(N \ {v}) \cup {NIL} -> SUBSET (N \ {v})]
      /\ \A m \in (N \ {v}) \cup {NIL} : subs[m] = sub[m] \ {v}
  BY DEF Without
<1> USE <1>w
<1>v. /\ r.root = IF v = t.root THEN x ELSE t.root
      /\ \A m \in N \ {v} :
            /\ \A s \in Sides : r.kid[s][m] = IF t.kid[s][m] = v THEN x ELSE t.kid[s][m]
            /\ r.parent[m] = IF m = x THEN t.parent[v] ELSE t.parent[m]
            /\ r.key[m] = t.key[m]
  BY DEF Vacated
<1>l. /\ t.root \in N \cup {NIL} /\ (t.root # NIL => t.parent[t.root] = NIL)
      /\ \A m \in N, s \in Sides :
            /\ t.kid[s][m] \in N \cup {NIL}
            /\ t.kid[s][m] # NIL => t.parent[t.kid[s][m]] = m
      /\ \A m \in N \ {t.root} : t.parent[m] \in N /\ \E s \in Sides : t.kid[s][t.parent[m]] = m
  BY DEF Shape, Linked
<1>s. /\ sub[NIL] = {} /\ sub[t.root] = N
      /\ \A m \in N : m \in sub[m] /\ sub[m] \subseteq N
      /\ \A m \in N : \A y \in sub[m] : sub[y] \subseteq sub[m] /\ (y # m => t.parent[y] \in sub[m])
  BY KidsBelow DEF Shape, Subtrees
<1>x. /\ x \in (N \ {v}) \cup {NIL} /\ sub[x] = sub[v] \ {v}
      /\ x # NIL => t.parent[x] = v
      /\ t.parent[v] # v
  <2>1. sub[v] = {v} \cup sub[t.kid[side][v]] \cup sub[t.kid[Opp(side)][v]] /\ v \notin sub[x]
    BY KidsBySide
  <2>2. x \in N \cup {NIL} /\ x # v
    BY KidsBelow
  <2>3. t.parent[v] # v
    <3>1. CASE v = t.root
      BY <3>1, <1>l
    <3>2. CASE v # t.root
      BY <3>2, ParentAbove
    <3> QED
      BY <3>1, <3>2
  <2> QED
    BY <2>1, <2>2, <2>3, <1>s, <1>l
<1>y. \A s \in Sides : t.kid[s][v] = x \/ t.kid[s][v] = NIL
  BY OppSides
<1>z. subs[x] = sub[v] \ {v} /\ subs[NIL] = {}
  BY <1>x, <1>s
<1>1. Linked(r, N \ {v})
  <2>1. r.root \in (N \ {v}) \cup {NIL} /\ (r.root # NIL => r.parent[r.root] = NIL)
    <3>1. CASE v = t.root
      <4>1. r.root = x
        BY <3>1, <1>v
      <4>2. x # NIL => r.parent[x] = t.parent[v]
        BY <1>v, <1>x
      <4>3. t.parent[v] = NIL
        BY <3>1, <1>l
      <4> QED
        BY <4>1, <4>2, <4>3, <1>x
    <3>2. CASE v # t.root
      <4>1. r.root = t.root
        BY <3>2, <1>v
      <4>2. t.root # NIL => t.root # x
        BY <1>l, <1>x
      <4> QED
        BY <3>2, <4>1, <4>2, <1>l, <1>v
    <3> QED
      BY <3>1, <3>2
  <2>2. ASSUME NEW m \in N \ {v}, NEW s \in Sides
        PROVE  /\ r.kid[s][m] \in (N \ {v}) \cup {NIL}
               /\ r.kid[s][m] # NIL => r.parent[r.kid[s][m]] = m
    <3>1. CASE t.kid[s][m] = v
      <4>1. r.kid[s][m] = x /\ t.parent[v] = m
        BY <3>1, <1>v, <1>l
      <4>2. x # NIL => r.parent[x] = t.parent[v]
        BY <1>v, <1>x
      <4> QED
        BY <4>1, <4>2, <1>x
    <3>2. CASE t.kid[s][m] # v
      <4>1. r.kid[s][m] = t.kid[s][m] /\ t.kid[s][m] \in (N \ {v}) \cup {NIL}
        BY <3>2, <1>v, <1>l
      <4>2. t.kid[s][m] # NIL => t.parent[t.kid[s][m]] = m /\ t.kid[s][m] # x
        BY <1>l, <1>x
      <4> QED
        BY <4>1, <4>2, <1>v
    <3> QED
      BY <3>1, <3>2
  <2>3. ASSUME NEW m \in (N \ {v}) \ {r.root}
        PROVE  r.parent[m] \in N \ {v} /\ \E s \in Sides : r.kid[s][r.parent[m]] = m
    <3>1. CASE m = x
      <4>1. v # t.root
        BY <3>1, <2>3, <1>v
      <4>2. PICK s \in Sides : t.parent[v] \in N /\ t.kid[s][t.parent[v]] = v
        BY <4>1, <1>l
      <4>3. r.parent[m] = t.parent[v] /\ t.parent[v] \in N \ {v}
        BY <3>1, <2>3, <4>2, <1>v, <1>x
      <4>4. r.kid[s][t.parent[v]] = x
        BY <4>2, <4>3, <1>v
      <4> QED
        BY <3>1, <4>2, <4>3, <4>4
    <3>2. CASE m # x
      <4>1. m # t.root
        BY <2>3, <1>v
      <4>2. PICK s \in Sides : t.parent[m] \in N /\ t.kid[s][t.parent[m]] = m
        BY <2>3, <4>1, <1>l
      <4>3. t.parent[m] # v
        BY <2>3, <3>2, <4>2, <1>y
      <4>4. r.parent[m] = t.parent[m]
        BY <2>3, <3>2, <1>v
      <4>5. r.kid[s][t.parent[m]] = m
        BY <2>3, <4>2, <4>3, <1>v
      <4> QED
        BY <4>2, <4>3, <4>4, <4>5
    <3> QED
      BY <3>1, <3>2
  <2> QED
    BY <2>1, <2>2, <2>3 DEF Linked
<1>k. ASSUME NEW m \in N \ {v}, NEW s \in Sides
      PROVE  subs[r.kid[s][m]] = sub[t.kid[s][m]] \ {v}
  <2>1. CASE t.kid[s][m] = v
    BY <2>1, <1>v, <1>z
  <2>2. CASE t.kid[s][m] # v
    <3>1. r.kid[s][m] = t.kid[s][m] /\ t.kid[s][m] \in (N \ {v}) \cup {NIL}
      BY <2>2, <1>v, <1>l
    <3> QED
      BY <3>1
  <2> QED
    BY <2>1, <2>2
<1>2. Subtrees(r, N \ {v}, subs)
  <2>1. subs[r.root] = N \ {v}
    <3>1. CASE v = t.root
      BY <3>1, <1>v, <1>z, <1>s
    <3>2. CASE v # t.root
      BY <3>2, <1>v, <1>s, <1>l
    <3> QED
      BY <3>1, <3>2
  <2>2. ASSUME NEW m \in N \ {v}
        PROVE  /\ m \in subs[m]
               /\ subs[m] = {m} \cup subs[r.kid["left"][m]] \cup subs[r.kid["right"][m]]
    <3>1. sub[m] = {m} \cup sub[t.kid["left"][m]] \cup sub[t.kid["right"][m]]
      BY DEF Shape, Subtrees
    <3>2. subs[m] = sub[m] \ {v}
      OBVIOUS
    <3>3. /\ subs[r.kid["left"][m]] = sub[t.kid["left"][m]] \ {v}
          /\ subs[r.kid["right"][m]] = sub[t.kid["right"][m]] \ {v}
      BY <1>k DEF Sides
    <3> QED
      BY <3>1, <3>2, <3>3
  <2>3. ASSUME NEW a \in N \ {v}, NEW b \in subs[a]
        PROVE  subs[b] \subseteq subs[a] /\ (b # a => r.parent[b] \in subs[a])
    <3>1. subs[a] = sub[a] \ {v} /\ b \in sub[a] /\ b # v /\ b \in N
      BY <1>s
    <3>2. subs[b] = sub[b] \ {v} /\ sub[b] \subseteq sub[a]
      BY <3>1, <1>s
    <3>3. ASSUME b # a PROVE r.parent[b] \in subs[a]
      <4>1. t.parent[b] \in sub[a]
        BY <3>1, <3>3, <1>s
      <4>2. CASE b = x
        <5>1. v \in sub[a]
          BY <4>1, <4>2, <1>x, <3>1, NIL \notin N
        <5>2. t.parent[v] \in sub[a]
          BY <5>1, <1>s
        <5>3. r.parent[b] = t.parent[v]
          BY <4>2, <3>1, <1>v
        <5> QED
          BY <5>2, <5>3, <3>1, <1>x
      <4>3. CASE b # x
        <5>1. r.parent[b] = t.parent[b]
          BY <4>3, <3>1, <1>v
        <5>2. t.parent[b] # v
          <6>1. SUFFICES ASSUME t.parent[b] = v PROVE FALSE
            OBVIOUS
          <6>2. b # t.root
            BY <6>1, <3>1, <1>l, NIL \notin N
          <6>3. \E s \in Sides : t.kid[s][v] = b
            BY <6>1, <6>2, <3>1, <1>l
          <6> QED
            BY <6>3, <4>3, <3>1, <1>y, NIL \notin N
        <5> QED
          BY <5>1, <5>2, <4>1, <3>1
      <4> QED
        BY <4>2, <4>3
    <3> QED
      BY <3>1, <3>2, <3>3
  <2> QED
    BY <2>1, <2>2, <2>3, <1>z DEF Subtrees
<1>3. Ordered(r, N \ {v}, ranks, subs)
  <2>1. ASSUME NEW m \in N \ {v}
        PROVE  /\ \A c \in subs[r.kid["left"][m]] : ranks[c] < ranks[m]
               /\ \A c \in subs[r.kid["right"][m]] : ranks[m] < ranks[c]
    <3>1. /\ subs[r.kid["left"][m]] = sub[t.kid["left"][m]] \ {v}
          /\ subs[r.kid["right"][m]] = sub[t.kid["right"][m]] \ {v}
      BY <1>k DEF Sides
    <3>2. /\ \A c \in sub[t.kid["left"][m]] : rank[c] < rank[m]
          /\ \A c \in sub[t.kid["right"][m]] : rank[m] < rank[c]
      BY DEF Shape, Ordered
    <3>3. sub[t.kid["left"][m]] \subseteq N /\ sub[t.kid["right"][m]] \subseteq N
      BY KidsBelow, <1>s DEF Sides
    <3> QED
      BY <3>1, <3>2, <3>3
  <2>2. ASSUME NEW a \in N \ {v}, NEW m \in (N \ {v}) \ subs[a], NEW y \in subs[a]
        PROVE  ranks[m] < ranks[a] <=> ranks[m] < ranks[y]
    <3>1. m \in N \ sub[a] /\ y \in sub[a] /\ y \in N \ {v}
      BY <1>s
    <3>2. rank[m] < rank[a] <=> rank[m] < rank[y]
      BY <3>1 DEF Shape, Ordered
    <3> QED
      BY <3>1, <3>2
  <2>3. \A m, q \in N \ {v} : m # q => ranks[m] # ranks[q]
    BY DEF Shape, Ordered
  <2>4. \A m, q \in N \ {v} : ranks[m] < ranks[q] => r.key[m] <= r.key[q]
    BY <1>v DEF Shape, Ordered
  <2> QED
    BY <2>1, <2>2, <2>3, <2>4 DEF Ordered
<1> QED
  BY <1>1, <1>2, <1>3 DEF Shape

-----------------------------------------------------------------------------
(* A node that is not in the tree takes the place of one that is.          *)

Swapped(S, d, v) == IF d \in S THEN (S \ {d}) \cup {v} ELSE S

Renamed(t, r, N, d, v) ==
    /\ r.root = IF t.root = d THEN v ELSE t.root
    /\ \A s \in Sides : r.kid[s][v] = t.kid[s][d]
    /\ r.parent[v] = t.parent[d]
    /\ \A m \in N \ {d} :
          /\ \A s \in Sides : r.kid[s][m] = IF t.kid[s][m] = d THEN v ELSE t.kid[s][m]
          /\ r.parent[m] = IF t.parent[m] = d THEN v ELSE t.parent[m]
          /\ r.key[m] = t.key[m]

\* the new rank is where the old one was, among the others
SameRank(t, r, N, rank, ranks, d, v) ==
    \A m \in N \ {d} :
       /\ ranks[m] = rank[m] /\ rank[m] # ranks[v]
       /\ rank[m] < rank[d] <=> rank[m] < ranks[v]
       /\ rank[m] < ranks[v] => t.key[m] <= r.key[v]
       /\ ranks[v] < rank[m] => r.key[v] <= t.key[m]

LEMMA RenameLinks ==
    ASSUME NEW t, NEW N, NIL \notin N, NEW rank, NEW sub, Shape(t, N, rank, sub),
           NEW d \in N, NEW v, v \notin N, v # NIL,
           NEW r, Renamed(t, r, N, d, v), NEW M, M = (N \ {d}) \cup {v}
    PROVE  Linked(r, M)
<1>v. /\ r.root = IF t.root = d THEN v ELSE t.root
      /\ \A s \in Sides : r.kid[s][v] = t.kid[s][d]
      /\ r.parent[v] = t.parent[d]
      /\ \A m \in N \ {d} :
            /\ \A s \in Sides : r.kid[s][m] = IF t.kid[s][m] = d THEN v ELSE t.kid[s][m]
            /\ r.parent[m] = IF t.parent[m] = d THEN v ELSE t.parent[m]
  BY DEF Renamed
<1>l. /\ t.root \in N \cup {NIL} /\ (t.root # NIL => t.parent[t.root] = NIL)
      /\ \A m \in N, s \in Sides :
            /\ t.kid[s][m] \in N \cup {NIL}
            /\ t.kid[s][m] # NIL => t.parent[t.kid[s][m]] = m
      /\ \A m \in N \ {t.root} : t.parent[m] \in N /\ \E s \in Sides : t.kid[s][t.parent[m]] = m
  BY DEF Shape, Linked
<1>d. \A s \in Sides : t.kid[s][d] # d
  BY KidsBelow
<1>1. r.root \in M \cup {NIL} /\ (r.root # NIL => r.parent[r.root] = NIL)
  <2>1. CASE t.root = d
    BY <2>1, <1>v, <1>l
  <2>2. CASE t.root # d
    BY <2>2, <1>v, <1>l
  <2> QED
    BY <2>1, <2>2
<1>2. ASSUME NEW m \in M, NEW s \in Sides
      PROVE  r.kid[s][m] \in M \cup {NIL} /\ (r.kid[s][m] # NIL => r.parent[r.kid[s][m]] = m)
  <2>1. CASE m = v
    <3>1. r.kid[s][m] = t.kid[s][d] /\ t.kid[s][d] \in (N \ {d}) \cup {NIL}
      BY <2>1, <1>v, <1>l, <1>d
    <3>2. t.kid[s][d] # NIL => r.parent[t.kid[s][d]] = v
      BY <3>1, <1>v, <1>l
    <3> QED
      BY <2>1, <3>1, <3>2
  <2>2. CASE m # v /\ t.kid[s][m] = d
    <3>1. m \in N \ {d}
      BY <2>2
    <3>2. r.kid[s][m] = v
      BY <2>2, <3>1, <1>v
    <3>3. r.parent[v] = m
      BY <2>2, <3>1, <1>v, <1>l
    <3> QED
      BY <3>2, <3>3
  <2>3. CASE m # v /\ t.kid[s][m] # d
    <3>1. m \in N \ {d}
      BY <2>3
    <3>2. r.kid[s][m] = t.kid[s][m] /\ t.kid[s][m] \in (N \ {d}) \cup {NIL}
      BY <2>3, <3>1, <1>v, <1>l
    <3>3. t.kid[s][m] # NIL => r.parent[t.kid[s][m]] = m
      BY <3>1, <3>2, <1>v, <1>l
    <3> QED
      BY <3>2, <3>3
  <2> QED
    BY <2>1, <2>2, <2>3
<1>3. ASSUME NEW m \in M \ {r.root}
      PROVE  r.parent[m] \in M /\ \E s \in Sides : r.kid[s][r.parent[m]] = m
  <2>1. CASE m = v
    <3>1. d # t.root
      BY <2>1, <1>3, <1>v
    <3>2. PICK s \in Sides : t.parent[d] \in N /\ t.kid[s][t.parent[d]] = d
      BY <3>1, <1>l
    <3>3. t.parent[d] \in N \ {d}
      BY <3>2, <1>d
    <3>4. r.kid[s][t.parent[d]] = v
      BY <3>2, <3>3, <1>v
    <3> QED
      BY <2>1, <3>3, <3>4, <1>v
  <2>2. CASE m # v
    <3>1. m \in N \ {d} /\ m # t.root
      BY <2>2, <1>3, <1>v
    <3>2. PICK s \in Sides : t.parent[m] \in N /\ t.kid[s][t.parent[m]] = m
      BY <3>1, <1>l
    <3>3. CASE t.parent[m] = d
      BY <3>1, <3>2, <3>3, <1>v
    <3>4. CASE t.parent[m] # d
      <4>1. r.parent[m] = t.parent[m] /\ t.parent[m] \in N \ {d}
        BY <3>1, <3>2, <3>4, <1>v
      <4>2. r.kid[s][t.parent[m]] = m
        BY <3>1, <3>2, <4>1, <1>v
      <4> QED
        BY <4>1, <4>2
    <3> QED
      BY <3>3, <3>4
  <2> QED
    BY <2>1, <2>2
<1> QED
  BY <1>1, <1>2, <1>3 DEF Linked

\* the witnesses for the renamed tree
Renaming(N, M, ranks, sub, subs, d, v) ==
    /\ M = (N \ {d}) \cup {v}
    /\ ranks \in [M -> Int]
    /\ subs \in [M \cup {NIL} -> SUBSET M] /\ subs[NIL] = {}
    /\ subs[v] = Swapped(sub[d], d, v)
    /\ \A m \in N \ {d} : subs[m] = Swapped(sub[m], d, v)

LEMMA RenameShape ==
    ASSUME NEW t, NEW N, NIL \notin N, NEW rank, NEW sub, Shape(t, N, rank, sub),
           NEW d \in N, NEW v, v \notin N, v # NIL,
           NEW r, Renamed(t, r, N, d, v), NEW M, NEW ranks, SameRank(t, r, N, rank, ranks, d, v),
           NEW subs, Renaming(N, M, ranks, sub, subs, d, v)
    PROVE  Shape(r, M, ranks, subs)
<1>F. /\ M = (N \ {d}) \cup {v}
      /\ ranks \in [M -> Int]
      /\ subs \in [M \cup {NIL} -> SUBSET M] /\ subs[NIL] = {}
      /\ subs[v] = Swapped(sub[d], d, v)
      /\ \A m \in N \ {d} : subs[m] = Swapped(sub[m], d, v)
  BY DEF Renaming
<1> USE <1>F
<1>v. /\ r.root = IF t.root = d THEN v ELSE t.root
      /\ \A s \in Sides : r.kid[s][v] = t.kid[s][d]
      /\ r.parent[v] = t.parent[d]
      /\ \A m \in N \ {d} :
            /\ \A s \in Sides : r.kid[s][m] = IF t.kid[s][m] = d THEN v ELSE t.kid[s][m]
            /\ r.parent[m] = IF t.parent[m] = d THEN v ELSE t.parent[m]
            /\ r.key[m] = t.key[m]
  BY DEF Renamed
<1>l. /\ t.root \in N \cup {NIL} /\ (t.root # NIL => t.parent[t.root] = NIL)
      /\ \A m \in N, s \in Sides : t.kid[s][m] \in N \cup {NIL}
      /\ \A s \in Sides : t.kid[s][d] # d
  <2>1. \A s \in Sides : t.kid[s][d] # d
    BY KidsBelow
  <2> QED
    BY <2>1 DEF Shape, Linked
<1>s. /\ sub[NIL] = {} /\ sub[t.root] = N
      /\ \A m \in N : m \in sub[m] /\ sub[m] \subseteq N
      /\ \A m \in N : \A y \in sub[m] : sub[y] \subseteq sub[m] /\ (y # m => t.parent[y] \in sub[m])
  BY KidsBelow DEF Shape, Subtrees
\* membership in the new subtrees
<1>w. ASSUME NEW S \in SUBSET N, NEW y
      PROVE  y \in Swapped(S, d, v) <=> (y = v /\ d \in S) \/ (y # d /\ y \in S)
  BY DEF Swapped
<1>k. ASSUME NEW m \in M, NEW s \in Sides, NEW q, q = (IF m = v THEN d ELSE m)
      PROVE  subs[r.kid[s][m]] = Swapped(sub[t.kid[s][q]], d, v)
             /\ sub[t.kid[s][q]] \in SUBSET N
  <2>0. q \in N
    BY <1>k
  <2>1. CASE t.kid[s][q] = d
    <3>1. m # v /\ m \in N \ {d} /\ q = m
      BY <2>1, <1>k, <1>l
    <3>2. r.kid[s][m] = v
      BY <2>1, <3>1, <1>v
    <3> QED
      BY <2>1, <3>2, <1>s
  <2>2. CASE t.kid[s][q] # d
    <3>1. r.kid[s][m] = t.kid[s][q] /\ t.kid[s][q] \in (N \ {d}) \cup {NIL}
      BY <2>2, <2>0, <1>k, <1>v, <1>l
    <3>2. CASE t.kid[s][q] = NIL
      <4>1. Swapped({}, d, v) = {}
        BY DEF Swapped
      <4> QED
        BY <3>1, <3>2, <4>1, <1>s
    <3>3. CASE t.kid[s][q] # NIL
      BY <3>1, <3>3, <1>s
    <3> QED
      BY <3>2, <3>3
  <2> QED
    BY <2>1, <2>2
<1>q. ASSUME NEW m \in M, NEW q, q = (IF m = v THEN d ELSE m)
      PROVE  /\ q \in N /\ subs[m] = Swapped(sub[q], d, v) /\ sub[q] \in SUBSET N
             /\ subs[m] \subseteq M
  BY <1>q, <1>s
<1>1. Linked(r, M)
  BY RenameLinks
<1>2. Subtrees(r, M, subs)
  <2>1. subs[r.root] = M
    <3>1. t.root \in N
      BY <1>l, <1>s
    <3>2. subs[r.root] = Swapped(N, d, v)
      BY <3>1, <1>v, <1>s
    <3> QED
      BY <3>2 DEF Swapped
  <2>2. ASSUME NEW m \in M
        PROVE  /\ m \in subs[m]
               /\ subs[m] = {m} \cup subs[r.kid["left"][m]] \cup subs[r.kid["right"][m]]
    <3>0. PICK q : q = IF m = v THEN d ELSE m
      OBVIOUS
    <3>1. q \in N /\ subs[m] = Swapped(sub[q], d, v)
      BY <3>0, <1>q
    <3>2. PICK L, R : L = sub[t.kid["left"][q]] /\ R = sub[t.kid["right"][q]]
      OBVIOUS
    <3>3. /\ subs[r.kid["left"][m]] = Swapped(L, d, v) /\ L \in SUBSET N
          /\ subs[r.kid["right"][m]] = Swapped(R, d, v) /\ R \in SUBSET N
      <4>1. "left" \in Sides /\ "right" \in Sides
        BY DEF Sides
      <4> QED
        BY <3>0, <3>2, <4>1, <1>k
    <3>4. sub[q] = {q} \cup L \cup R
      BY <3>1, <3>2 DEF Shape, Subtrees
    <3>5. d \notin L /\ d \notin R => (d \in sub[q] <=> q = d)
      BY <3>4
    <3>6. q = d => d \notin L /\ d \notin R
      BY <3>2, KidsBelow DEF Sides
    <3>7. ASSUME NEW y
          PROVE  y \in subs[m] <=> y = m \/ y \in Swapped(L, d, v) \/ y \in Swapped(R, d, v)
      <4>1. y \in subs[m] <=> (y = v /\ d \in sub[q]) \/ (y # d /\ y \in sub[q])
        BY <3>1, <1>s, <1>w
      <4>2. y \in Swapped(L, d, v) <=> (y = v /\ d \in L) \/ (y # d /\ y \in L)
        BY <3>3, <1>w
      <4>3. y \in Swapped(R, d, v) <=> (y = v /\ d \in R) \/ (y # d /\ y \in R)
        BY <3>3, <1>w
      <4>4. CASE m = v
        BY <3>0, <3>3, <3>4, <3>6, <4>1, <4>2, <4>3, <4>4
      <4>5. CASE m # v
        BY <3>0, <3>1, <3>3, <3>4, <4>1, <4>2, <4>3, <4>5
      <4> QED
        BY <4>4, <4>5
    <3>8. subs[m] = {m} \cup Swapped(L, d, v) \cup Swapped(R, d, v)
      BY <3>7
    <3> QED
      BY <3>3, <3>8
  <2>3. ASSUME NEW a \in M, NEW b \in subs[a]
        PROVE  subs[b] \subseteq subs[a] /\ (b # a => r.parent[b] \in subs[a])
    <3>0. PICK a0, b0 : a0 = (IF a = v THEN d ELSE a) /\ b0 = (IF b = v THEN d ELSE b)
      OBVIOUS
    <3>1. /\ a0 \in N /\ subs[a] = Swapped(sub[a0], d, v) /\ sub[a0] \in SUBSET N
          /\ b \in M
      BY <3>0, <1>q
    <3>2. b0 \in N /\ subs[b] = Swapped(sub[b0], d, v) /\ sub[b0] \in SUBSET N
      BY <3>0, <3>1, <1>q
    <3>3. b0 \in sub[a0]
      <4>1. (b = v /\ d \in sub[a0]) \/ (b # d /\ b \in sub[a0])
        BY <3>1, <1>w
      <4> QED
        BY <4>1, <3>0, <3>1
    <3>4. sub[b0] \subseteq sub[a0] /\ (b0 # a0 => t.parent[b0] \in sub[a0])
      BY <3>1, <3>3, <1>s
    <3>5. subs[b] \subseteq subs[a]
      <4> SUFFICES ASSUME NEW y \in subs[b] PROVE y \in subs[a]
        OBVIOUS
      <4>1. (y = v /\ d \in sub[b0]) \/ (y # d /\ y \in sub[b0])
        BY <3>2, <1>w
      <4>2. (y = v /\ d \in sub[a0]) \/ (y # d /\ y \in sub[a0])
        BY <4>1, <3>4
      <4> QED
        BY <4>2, <3>1, <1>w
    <3>6. ASSUME b # a PROVE r.parent[b] \in subs[a]
      <4>1. a0 # b0
        BY <3>0, <3>1, <3>6
      <4>2. t.parent[b0] \in sub[a0]
        BY <4>1, <3>4
      <4>3. r.parent[b] = IF t.parent[b0] = d THEN v ELSE t.parent[b0]
        <5>1. CASE b = v
          <6>1. r.parent[b] = t.parent[d] /\ b0 = d
            BY <5>1, <3>0, <1>v
          <6>2. t.parent[d] # d
            <7>1. CASE d = t.root
              BY <7>1 DEF Shape, Linked
            <7>2. CASE d # t.root
              BY <7>2, ParentAbove
            <7> QED
              BY <7>1, <7>2
          <6> QED
            BY <6>1, <6>2
        <5>2. CASE b # v
          BY <5>2, <3>0, <3>1, <1>v
        <5> QED
          BY <5>1, <5>2
      <4>4. (r.parent[b] = v /\ d \in sub[a0]) \/ (r.parent[b] # d /\ r.parent[b] \in sub[a0])
        BY <4>2, <4>3
      <4> QED
        BY <4>4, <3>1, <1>w
    <3> QED
      BY <3>5, <3>6
  <2> QED
    BY <2>1, <2>2, <2>3 DEF Subtrees
<1> DEFINE Old(m) == IF m = v THEN d ELSE m
<1>r. ASSUME NEW m \in M, NEW q \in M
      PROVE  /\ Old(m) \in N /\ Old(q) \in N /\ rank[Old(m)] \in Int /\ rank[Old(q)] \in Int
             /\ ranks[m] \in Int /\ ranks[q] \in Int
             /\ ranks[m] < ranks[q] <=> rank[Old(m)] < rank[Old(q)]
             /\ m # q => Old(m) # Old(q)
  <2>1. Old(m) \in N /\ Old(q) \in N /\ (m # q => Old(m) # Old(q))
    OBVIOUS
  <2>2. rank[Old(m)] \in Int /\ rank[Old(q)] \in Int
    BY <2>1 DEF Shape
  <2>3. ranks[m] \in Int /\ ranks[q] \in Int
    OBVIOUS
  <2>4. \A x \in N \ {d} : /\ ranks[x] = rank[x] /\ rank[x] # ranks[v]
                           /\ rank[x] < rank[d] <=> rank[x] < ranks[v]
                           /\ rank[x] # rank[d] /\ rank[x] \in Int
    BY DEF SameRank, Shape, Ordered
  <2>5. rank[d] \in Int /\ ranks[v] \in Int
    BY DEF Shape
  <2>6. ranks[m] < ranks[q] <=> rank[Old(m)] < rank[Old(q)]
    <3>1. CASE m = v /\ q = v
      BY <3>1, <2>5
    <3>2. CASE m = v /\ q # v
      <4>1. q \in N \ {d} /\ Old(m) = d /\ Old(q) = q
        BY <3>2
      <4> QED
        BY <3>2, <4>1, <2>4, <2>5
    <3>3. CASE m # v /\ q = v
      <4>1. m \in N \ {d} /\ Old(q) = d /\ Old(m) = m
        BY <3>3
      <4> QED
        BY <3>3, <4>1, <2>4, <2>5
    <3>4. CASE m # v /\ q # v
      <4>1. m \in N \ {d} /\ q \in N \ {d} /\ Old(q) = q /\ Old(m) = m
        BY <3>4
      <4> QED
        BY <4>1, <2>4
    <3> QED
      BY <3>1, <3>2, <3>3, <3>4
  <2> QED
    BY <2>1, <2>2, <2>3, <2>6
<1> HIDE DEF Old
<1>o. ASSUME NEW m, NEW S \in SUBSET N, m \in M
      PROVE  m \in Swapped(S, d, v) <=> Old(m) \in S
  <2>1. m \in Swapped(S, d, v) <=> (m = v /\ d \in S) \/ (m # d /\ m \in S)
    BY <1>w
  <2> QED
    BY <2>1, <1>o DEF Old
<1>3. Ordered(r, M, ranks, subs)
  <2>1. ASSUME NEW m \in M, NEW s \in Sides, NEW c \in subs[r.kid[s][m]]
        PROVE  c \in M /\ Old(c) \in sub[t.kid[s][Old(m)]]
    <3>1. subs[r.kid[s][m]] = Swapped(sub[t.kid[s][Old(m)]], d, v)
          /\ sub[t.kid[s][Old(m)]] \in SUBSET N
      BY <1>k DEF Old
    <3>2. c \in M
      BY <3>1, <2>1 DEF Swapped
    <3> QED
      BY <3>1, <3>2, <2>1, <1>o
  <2>2. ASSUME NEW m \in M
        PROVE  /\ \A c \in subs[r.kid["left"][m]] : ranks[c] < ranks[m]
               /\ \A c \in subs[r.kid["right"][m]] : ranks[m] < ranks[c]
    <3>1. /\ \A c \in sub[t.kid["left"][Old(m)]] : rank[c] < rank[Old(m)]
          /\ \A c \in sub[t.kid["right"][Old(m)]] : rank[Old(m)] < rank[c]
      <4>1. Old(m) \in N
        BY <1>r
      <4> QED
        BY <4>1 DEF Shape, Ordered
    <3>2. "left" \in Sides /\ "right" \in Sides
      BY DEF Sides
    <3>3. \A c \in subs[r.kid["left"][m]] : c \in M /\ rank[Old(c)] < rank[Old(m)]
      BY <2>1, <3>1, <3>2
    <3>4. \A c \in subs[r.kid["right"][m]] : c \in M /\ rank[Old(m)] < rank[Old(c)]
      BY <2>1, <3>1, <3>2
    <3> QED
      BY <3>3, <3>4, <1>r
  <2>3. ASSUME NEW a \in M, NEW m \in M \ subs[a], NEW y \in subs[a]
        PROVE  ranks[m] < ranks[a] <=> ranks[m] < ranks[y]
    <3>1. /\ subs[a] = Swapped(sub[Old(a)], d, v) /\ sub[Old(a)] \in SUBSET N /\ Old(a) \in N
          /\ y \in M
      BY <1>q DEF Old
    <3>2. Old(m) \in N \ sub[Old(a)] /\ Old(y) \in sub[Old(a)]
      BY <3>1, <1>o, <1>r
    <3>3. rank[Old(m)] < rank[Old(a)] <=> rank[Old(m)] < rank[Old(y)]
      BY <3>1, <3>2 DEF Shape, Ordered
    <3> QED
      BY <3>1, <3>3, <1>r
  <2>4. \A m, q \in M : m # q => ranks[m] # ranks[q]
    <3> SUFFICES ASSUME NEW m \in M, NEW q \in M, m # q PROVE ranks[m] # ranks[q]
      OBVIOUS
    <3>1. rank[Old(m)] # rank[Old(q)] /\ rank[Old(m)] \in Int /\ rank[Old(q)] \in Int
      <4>1. Old(m) \in N /\ Old(q) \in N /\ Old(m) # Old(q)
        BY <1>r
      <4> QED
        BY <4>1 DEF Shape, Ordered
    <3>2. ranks[m] < ranks[q] \/ ranks[q] < ranks[m]
      BY <3>1, <1>r
    <3>3. ranks[m] \in Int
      OBVIOUS
    <3> QED
      BY <3>2, <3>3
  <2>5. ASSUME NEW m \in M, NEW q \in M, ranks[m] < ranks[q]
        PROVE  r.key[m] <= r.key[q]
    <3>1. CASE m # v /\ q # v
      <4>1. m \in N \ {d} /\ q \in N \ {d}
        BY <3>1
      <4>2. rank[m] < rank[q]
        BY <4>1, <2>5 DEF SameRank
      <4> QED
        BY <4>1, <4>2, <1>v DEF Shape, Ordered
    <3>2. CASE m = v /\ q # v
      <4>1. q \in N \ {d}
        BY <3>2
      <4> QED
        BY <3>2, <4>1, <2>5, <1>v DEF SameRank
    <3>3. CASE m # v /\ q = v
      <4>1. m \in N \ {d}
        BY <3>3
      <4> QED
        BY <3>3, <4>1, <2>5, <1>v DEF SameRank
    <3>4. CASE m = v /\ q = v
      <4>1. ranks[v] \in Int
        OBVIOUS
      <4> QED
        BY <3>4, <4>1, <2>5
    <3> QED
      BY <3>1, <3>2, <3>3, <3>4
  <2> QED
    BY <2>2, <2>3, <2>4, <2>5 DEF Ordered
<1> QED
  BY <1>1, <1>2, <1>3 DEF Shape

-----------------------------------------------------------------------------
(* What remove_node does to the fields.                                    *)

\* one field of one node is written
Pointers == Links \cup {Null}

WithParent(t, n, z)  == [t EXCEPT !.parent[n] = z]
WithKid(t, s, n, z)  == [t EXCEPT !.kid[s][n] = z]
WithData(t, n, z)    == [t EXCEPT !.key[n] = z]
WithHigh(t, n, z)    == [t EXCEPT !.high[n] = z]
WithMaxHigh(t, n, z) == [t EXCEPT !.maxHigh[n] = z]

LEMMA ParentWritten ==
    ASSUME NEW t \in Trees, NEW n \in Links, NEW z \in Pointers,
           NEW r, r = WithParent(t, n, z)
    PROVE  /\ r \in Trees
           /\ r.parent[n] = z /\ \A m \in Links : m # n => r.parent[m] = t.parent[m]
           /\ r.root = t.root /\ r.dead = t.dead /\ r.color = t.color /\ r.key = t.key
           /\ r.high = t.high /\ r.kid = t.kid /\ r.size = t.size /\ r.maxHigh = t.maxHigh
  BY DEF Trees, Pointers, WithParent

LEMMA KidWritten ==
    ASSUME NEW t \in Trees, NEW n \in Nodes, NEW side \in Sides, NEW z \in Links,
           NEW r, r = WithKid(t, side, n, z)
    PROVE  /\ r \in Trees
           /\ r.kid[side][n] = z
           /\ \A s \in Sides, m \in Nodes : ~(s = side /\ m = n) => r.kid[s][m] = t.kid[s][m]
           /\ r.root = t.root /\ r.dead = t.dead /\ r.color = t.color /\ r.key = t.key
           /\ r.high = t.high /\ r.parent = t.parent /\ r.size = t.size
           /\ r.maxHigh = t.maxHigh
  BY DEF Trees, WithKid

LEMMA DataWritten ==
    ASSUME NEW t \in Trees, NEW n \in Nodes, NEW z \in Int, NEW r, r = WithData(t, n, z)
    PROVE  /\ r \in Trees
           /\ \A m \in Nodes : r.key[m] = IF m = n THEN z ELSE t.key[m]
           /\ r.root = t.root /\ r.dead = t.dead /\ r.color = t.color /\ r.high = t.high
           /\ r.kid = t.kid /\ r.parent = t.parent /\ r.size = t.size /\ r.maxHigh = t.maxHigh
  BY DEF Trees, WithData

LEMMA HighWritten ==
    ASSUME NEW t \in Trees, NEW n \in Nodes, NEW z \in Int, NEW r, r = WithHigh(t, n, z)
    PROVE  /\ r \in Trees
           /\ \A m \in Nodes : r.high[m] = IF m = n THEN z ELSE t.high[m]
           /\ r.root = t.root /\ r.dead = t.dead /\ r.color = t.color /\ r.key = t.key
           /\ r.kid = t.kid /\ r.parent = t.parent /\ r.size = t.size /\ r.maxHigh = t.maxHigh
  BY DEF Trees, WithHigh

\* two trees that differ in the children of n only
SameButKid(t, r, n) ==
    /\ r \in Trees /\ r.root = t.root /\ r.dead = t.dead /\ r.color = t.color
    /\ r.key = t.key /\ r.high = t.high /\ r.parent = t.parent /\ r.size = t.size
    /\ r.maxHigh = t.maxHigh
    /\ \A s \in Sides, m \in Nodes \ {n} : r.kid[s][m] = t.kid[s][m]

LEMMA TransplantFields ==
    ASSUME NEW t \in Trees, NEW u \in Nodes, NEW v \in Links,
           NEW p, p = t.parent[u], NEW r, r = Transplant(t, u, v)
    PROVE  /\ r \in Trees
           /\ r.root = IF p = NIL THEN v ELSE t.root
           /\ r.dead = t.dead /\ r.color = t.color /\ r.key = t.key /\ r.high = t.high
           /\ r.size = t.size /\ r.maxHigh = t.maxHigh
           /\ \A s \in Sides, m \in Nodes :
                 r.kid[s][m] = IF p # NIL /\ m = p
                                  /\ s = (IF u = t.kid["left"][p] THEN "left" ELSE "right")
                               THEN v ELSE t.kid[s][m]
           /\ \A m \in Links : r.parent[m] = IF m = v THEN p ELSE t.parent[m]
<1>1. PICK r1 : r1 = Replace(t, u, v)
  OBVIOUS
<1>2. /\ r1 \in Trees
      /\ r1.root = IF p = NIL THEN v ELSE t.root
      /\ r1.dead = t.dead /\ r1.parent = t.parent /\ r1.color = t.color
      /\ r1.key = t.key /\ r1.high = t.high /\ r1.size = t.size /\ r1.maxHigh = t.maxHigh
      /\ \A s \in Sides, m \in Nodes :
            r1.kid[s][m] = IF p # NIL /\ m = p
                              /\ s = (IF u = t.kid["left"][p] THEN "left" ELSE "right")
                           THEN v ELSE t.kid[s][m]
  BY <1>1, ReplaceFields
<1>3. p \in Pointers
  BY NilIsNoNode DEF Trees, Pointers
<1>4. \A w \in Trees, z \in Pointers : \A y : y = WithParent(w, v, z) =>
         /\ y \in Trees
         /\ y.root = w.root /\ y.dead = w.dead /\ y.color = w.color /\ y.key = w.key
         /\ y.high = w.high /\ y.size = w.size /\ y.maxHigh = w.maxHigh /\ y.kid = w.kid
         /\ y.parent[v] = z /\ \A m \in Links : m # v => y.parent[m] = w.parent[m]
  BY ParentWritten
<1>5. r = WithParent(r1, v, p)
  BY <1>1 DEF Transplant, WithParent
<1>6. r1 \in Trees
  BY <1>2
<1>7. /\ r \in Trees
      /\ r.root = r1.root /\ r.dead = r1.dead /\ r.color = r1.color /\ r.key = r1.key
      /\ r.high = r1.high /\ r.size = r1.size /\ r.maxHigh = r1.maxHigh /\ r.kid = r1.kid
      /\ r.parent[v] = p /\ \A m \in Links : m # v => r.parent[m] = r1.parent[m]
  <2>1. PICK z : z = p
    OBVIOUS
  <2>2. z \in Pointers /\ r = WithParent(r1, v, z)
    BY <1>3, <1>5, <2>1
  <2>3. /\ r \in Trees
        /\ r.root = r1.root /\ r.dead = r1.dead /\ r.color = r1.color /\ r.key = r1.key
        /\ r.high = r1.high /\ r.size = r1.size /\ r.maxHigh = r1.maxHigh /\ r.kid = r1.kid
        /\ r.parent[v] = z /\ \A m \in Links : m # v => r.parent[m] = r1.parent[m]
    BY <1>4, <1>6, <2>2
  <2> QED
    BY <2>1, <2>3
<1> QED
  BY <1>2, <1>7

\* only the fields of n are written
ElsewhereSame(t, r, n) ==
    /\ r \in Trees /\ r.root = t.root /\ r.dead = t.dead
    /\ \A s \in Sides, m \in Nodes \ {n} : r.kid[s][m] = t.kid[s][m]
    /\ \A m \in Links \ {n} : r.parent[m] = t.parent[m] /\ r.color[m] = t.color[m]
                              /\ r.size[m] = t.size[m] /\ r.maxHigh[m] = t.maxHigh[m]
    /\ \A m \in Nodes \ {n} : r.key[m] = t.key[m] /\ r.high[m] = t.high[m]

LEMMA FreeFields ==
    ASSUME NEW t \in Trees, NEW n \in Nodes, NEW r, r = Free(t, n)
    PROVE  ElsewhereSame(t, r, n)
<1>1. n \in Links /\ NIL \in Links /\ "left" \in Sides /\ "right" \in Sides
      /\ "BLACK" \in Colors /\ 0 \in Int /\ Null \in Pointers
      /\ \A m \in Nodes : m \in Links
  BY NilIsNoNode DEF Sides, Colors, Pointers
<1>0. PICK le, ri, nil, null, zero :
         le = "left" /\ ri = "right" /\ nil = NIL /\ null = Null /\ zero = 0
  OBVIOUS
<1>i. le \in Sides /\ ri \in Sides /\ nil \in Links /\ null \in Pointers /\ zero \in Int
  BY <1>0, <1>1
<1>k. n \in Links
  BY <1>1
<1>l. t \in Trees /\ le \in Sides /\ nil \in Links
  BY <1>i
<1>a. PICK t1 : t1 = WithKid(t, le, n, nil)
  OBVIOUS
<1>b. PICK t2 : t2 = WithKid(t1, ri, n, nil)
  OBVIOUS
<1>c. PICK t3 : t3 = WithParent(t2, n, null)
  OBVIOUS
<1>d. PICK t4 : t4 = Paint(t3, n, "BLACK")
  OBVIOUS
<1>e. PICK t5 : t5 = WithData(t4, n, 0)
  OBVIOUS
<1>f. PICK t6 : t6 = WithHigh(t5, n, 0)
  OBVIOUS
<1>g. PICK t7 : t7 = WithSize(t6, n, zero)
  OBVIOUS
<1>j. PICK t8 : t8 = WithMaxHigh(t7, n, zero)
  OBVIOUS
<1>h. r = t8
  BY <1>0, <1>a, <1>b, <1>c, <1>d, <1>e, <1>f, <1>g, <1>j
     DEF Free, Paint, WithKid, WithParent, WithData, WithHigh, WithSize, WithMaxHigh
<1>2. SameButKid(t, t1, n) /\ SameButKid(t1, t2, n)
  <2>1. SameButKid(t, t1, n)
    BY <1>l, <1>a, KidWritten DEF SameButKid
  <2>2. t1 \in Trees
    BY <2>1 DEF SameButKid
  <2>3. SameButKid(t1, t2, n)
    BY <1>i, <1>b, <2>2, KidWritten DEF SameButKid
  <2> QED
    BY <2>1, <2>3
<1>3. /\ t3 \in Trees /\ t3.root = t2.root /\ t3.dead = t2.dead /\ t3.kid = t2.kid
      /\ t3.size = t2.size /\ t3.maxHigh = t2.maxHigh /\ t3.color = t2.color
      /\ t3.key = t2.key /\ t3.high = t2.high
      /\ \A m \in Links \ {n} : t3.parent[m] = t2.parent[m]
  <2>1. t2 \in Trees
    BY <1>2 DEF SameButKid
  <2> QED
    BY <1>i, <1>k, <1>c, <2>1, ParentWritten
<1>4. /\ t4 \in Trees /\ t4.root = t3.root /\ t4.dead = t3.dead /\ t4.kid = t3.kid
      /\ t4.size = t3.size /\ t4.maxHigh = t3.maxHigh /\ t4.parent = t3.parent
      /\ t4.key = t3.key /\ t4.high = t3.high
      /\ \A m \in Links \ {n} : t4.color[m] = t3.color[m]
  <2>1. t3 \in Trees
    BY <1>3
  <2> QED
    BY <1>1, <1>d, <2>1, Painted
<1>5. /\ t5 \in Trees /\ t5.root = t4.root /\ t5.dead = t4.dead /\ t5.kid = t4.kid
      /\ t5.size = t4.size /\ t5.maxHigh = t4.maxHigh /\ t5.parent = t4.parent
      /\ t5.color = t4.color /\ t5.high = t4.high
      /\ \A m \in Nodes \ {n} : t5.key[m] = t4.key[m]
  <2>1. t4 \in Trees
    BY <1>4
  <2> QED
    BY <1>1, <1>e, <2>1, DataWritten
<1>6. /\ t6 \in Trees /\ t6.root = t5.root /\ t6.dead = t5.dead /\ t6.kid = t5.kid
      /\ t6.size = t5.size /\ t6.maxHigh = t5.maxHigh /\ t6.parent = t5.parent
      /\ t6.color = t5.color /\ t6.key = t5.key
      /\ \A m \in Nodes \ {n} : t6.high[m] = t5.high[m]
  <2>1. t5 \in Trees
    BY <1>5
  <2> QED
    BY <1>1, <1>f, <2>1, HighWritten
<1>7. /\ t7 \in Trees /\ t7.root = t6.root /\ t7.dead = t6.dead /\ t7.kid = t6.kid
      /\ t7.maxHigh = t6.maxHigh /\ t7.parent = t6.parent
      /\ t7.color = t6.color /\ t7.key = t6.key /\ t7.high = t6.high
      /\ \A m \in Links \ {n} : t7.size[m] = t6.size[m]
  <2>1. t6 \in Trees
    BY <1>6
  <2> QED
    BY <1>1, <1>i, <1>g, <2>1, SizeWritten DEF WithSize
<1>8. /\ t8 \in Trees /\ t8.root = t7.root /\ t8.dead = t7.dead /\ t8.kid = t7.kid
      /\ t8.parent = t7.parent
      /\ t8.color = t7.color /\ t8.key = t7.key /\ t8.high = t7.high /\ t8.size = t7.size
      /\ \A m \in Links \ {n} : t8.maxHigh[m] = t7.maxHigh[m]
  <2>1. t7 \in Trees
    BY <1>7
  <2> QED
    BY <1>1, <1>i, <1>j, <2>1, MaxHighWritten DEF WithMaxHigh
<1> QED
  BY <1>1, <1>2, <1>3, <1>4, <1>5, <1>6, <1>7, <1>8, <1>h DEF SameButKid, ElsewhereSame

\* del has two children, temp is the least below the right one
Moving(t, del, temp, x, l, q, up, p) ==
    /\ l = t.kid["left"][del] /\ q = t.kid["right"][del] /\ p = t.parent[del]
    /\ up = t.parent[temp] /\ t.kid["left"][temp] = NIL /\ x = t.kid["right"][temp]

Distinct(del, temp, x, l, q, up, p) ==
    /\ temp # del /\ x # del /\ x # temp /\ up # temp /\ p # del /\ p # temp /\ p # up
    /\ l # temp /\ l # x /\ l # q /\ l # del /\ q # del /\ q # x
    /\ up # NIL /\ (up = del <=> q = temp) /\ up \in Nodes

\* the fields when temp has taken del's place and x temp's
Unlinked(t, r, del, temp, x, l, q, up, p) ==
    /\ r \in Trees
    /\ r.root = IF p = NIL THEN temp ELSE t.root
    /\ r.dead = t.dead /\ r.key = t.key /\ r.high = t.high /\ r.maxHigh = t.maxHigh
    /\ \A m \in Links : r.color[m] = IF m = temp THEN t.color[del] ELSE t.color[m]
    /\ \A m \in Links : r.size[m] = IF m = temp THEN t.size[del] ELSE t.size[m]
    /\ \A s \in Sides, m \in Nodes :
          r.kid[s][m] =
             IF m = temp THEN (IF s = "left" THEN l ELSE IF up = del THEN x ELSE q)
             ELSE IF p # NIL /\ m = p
                     /\ s = (IF del = t.kid["left"][p] THEN "left" ELSE "right") THEN temp
             ELSE IF up # del /\ m = up
                     /\ s = (IF temp = t.kid["left"][up] THEN "left" ELSE "right") THEN x
             ELSE t.kid[s][m]
    /\ \A m \in Links :
          r.parent[m] = IF m = l THEN temp ELSE IF m = temp THEN p
                        ELSE IF m = x THEN (IF up = del THEN temp ELSE up)
                        ELSE IF m = q THEN temp ELSE t.parent[m]

LEMMA UnlinkFields ==
    ASSUME NEW t \in Trees, NEW del \in Nodes, NEW temp \in Nodes, NEW x \in Links,
           NEW l \in Nodes, NEW q \in Nodes, NEW up, NEW p,
           Moving(t, del, temp, x, l, q, up, p), Distinct(del, temp, x, l, q, up, p),
           NEW r, r = Unlink(t, del, temp)
    PROVE  Unlinked(t, r, del, temp, x, l, q, up, p)
<1>n. /\ del \in Links /\ temp \in Links /\ l \in Links /\ q \in Links /\ NIL \in Links
      /\ "left" \in Sides /\ "right" \in Sides /\ "left" # "right"
      /\ temp # NIL /\ del # NIL /\ l # NIL /\ q # NIL
  BY NilIsNoNode DEF Sides
<1>m. /\ l = t.kid["left"][del] /\ q = t.kid["right"][del] /\ p = t.parent[del]
      /\ up = t.parent[temp] /\ t.kid["left"][temp] = NIL /\ x = t.kid["right"][temp]
  BY DEF Moving
<1>d. /\ temp # del /\ x # del /\ x # temp /\ up # temp /\ p # del /\ p # temp /\ p # up
      /\ l # temp /\ l # x /\ l # q /\ l # del /\ q # del /\ q # x
      /\ up # NIL /\ (up = del <=> q = temp) /\ up \in Nodes
  BY DEF Distinct
<1>x. OnlyKid(t, temp) = x
  BY <1>m DEF OnlyKid
<1>t. PICK moved : moved = IF t.parent[temp] = del THEN [t EXCEPT !.parent[x] = temp]
                           ELSE [Transplant(t, temp, x) EXCEPT !.kid["right"][temp] = q,
                                                               !.parent[q] = temp]
  OBVIOUS
<1>1. /\ moved \in Trees /\ moved.root = t.root
      /\ moved.dead = t.dead /\ moved.key = t.key /\ moved.high = t.high
      /\ moved.maxHigh = t.maxHigh /\ moved.color = t.color /\ moved.size = t.size
      /\ \A s \in Sides, m \in Nodes :
            moved.kid[s][m] =
               IF m = temp /\ s = "right" THEN (IF up = del THEN x ELSE q)
               ELSE IF up # del /\ m = up
                       /\ s = (IF temp = t.kid["left"][up] THEN "left" ELSE "right") THEN x
               ELSE t.kid[s][m]
      /\ \A m \in Links :
            moved.parent[m] = IF m = x THEN (IF up = del THEN temp ELSE up)
                              ELSE IF m = q /\ up # del THEN temp ELSE t.parent[m]
  <2>1. CASE up = del
    <3>1. moved = [t EXCEPT !.parent[x] = temp]
      BY <2>1, <1>m, <1>t
    <3>2. /\ moved \in Trees /\ moved.root = t.root /\ moved.kid = t.kid
          /\ moved.dead = t.dead /\ moved.key = t.key /\ moved.high = t.high
          /\ moved.maxHigh = t.maxHigh /\ moved.color = t.color /\ moved.size = t.size
          /\ \A m \in Links : moved.parent[m] = IF m = x THEN temp ELSE t.parent[m]
      BY <3>1, <1>n DEF Trees
    <3> QED
      BY <3>2, <2>1, <1>m
  <2>2. CASE up # del
    <3>1. PICK t1 : t1 = Transplant(t, temp, x)
      OBVIOUS
    <3>2. /\ t1 \in Trees
          /\ t1.root = t.root
          /\ t1.dead = t.dead /\ t1.color = t.color /\ t1.key = t.key /\ t1.high = t.high
          /\ t1.size = t.size /\ t1.maxHigh = t.maxHigh
          /\ \A s \in Sides, m \in Nodes :
                t1.kid[s][m] = IF up # NIL /\ m = up
                                  /\ s = (IF temp = t.kid["left"][up] THEN "left" ELSE "right")
                               THEN x ELSE t.kid[s][m]
          /\ \A m \in Links : t1.parent[m] = IF m = x THEN up ELSE t.parent[m]
      BY <3>1, <1>m, <1>d, TransplantFields
    <3>3. moved = [t1 EXCEPT !.kid["right"][temp] = q, !.parent[q] = temp]
      BY <2>2, <1>m, <1>t, <3>1
    <3>4. t1 \in Trees
      BY <3>2
    <3>5. /\ moved \in Trees /\ moved.root = t1.root
          /\ moved.dead = t1.dead /\ moved.key = t1.key /\ moved.high = t1.high
          /\ moved.maxHigh = t1.maxHigh /\ moved.color = t1.color /\ moved.size = t1.size
          /\ \A s \in Sides, m \in Nodes :
                moved.kid[s][m] = IF m = temp /\ s = "right" THEN q ELSE t1.kid[s][m]
          /\ \A m \in Links : moved.parent[m] = IF m = q THEN temp ELSE t1.parent[m]
      BY <3>3, <3>4, <1>n DEF Trees
    <3> QED
      BY <2>2, <3>2, <3>5, <1>d
  <2> QED
    BY <2>1, <2>2
<1>2. moved.parent[del] = p
  BY <1>1, <1>n, <1>m, <1>d
<1>3. p \in Nodes => moved.kid["left"][p] = t.kid["left"][p]
  BY <1>1, <1>n, <1>d
<1>u. PICK t4 : t4 = Transplant(moved, del, temp)
  OBVIOUS
<1>4. /\ t4 \in Trees
      /\ t4.root = IF p = NIL THEN temp ELSE moved.root
      /\ t4.dead = moved.dead /\ t4.color = moved.color /\ t4.key = moved.key
      /\ t4.high = moved.high /\ t4.size = moved.size /\ t4.maxHigh = moved.maxHigh
      /\ \A s \in Sides, m \in Nodes :
            t4.kid[s][m] = IF p # NIL /\ m = p
                              /\ s = (IF del = moved.kid["left"][p] THEN "left" ELSE "right")
                           THEN temp ELSE moved.kid[s][m]
      /\ \A m \in Links : t4.parent[m] = IF m = temp THEN p ELSE moved.parent[m]
  <2>1. moved \in Trees
    BY <1>1
  <2> QED
    BY SMTT(30), <2>1, <1>2, <1>n, <1>u, TransplantFields
<1>5. r = [t4 EXCEPT !.kid["left"][temp] = l, !.parent[l] = temp,
                     !.color[temp] = t.color[del], !.size[temp] = t.size[del]]
  BY <1>t, <1>u, <1>x, <1>m, <1>d DEF Unlink
<1>6. /\ r \in Trees /\ r.root = t4.root
      /\ r.dead = t4.dead /\ r.key = t4.key /\ r.high = t4.high /\ r.maxHigh = t4.maxHigh
      /\ \A m \in Links : r.color[m] = IF m = temp THEN t.color[del] ELSE t4.color[m]
      /\ \A m \in Links : r.size[m] = IF m = temp THEN t.size[del] ELSE t4.size[m]
      /\ \A s \in Sides, m \in Nodes :
            r.kid[s][m] = IF m = temp /\ s = "left" THEN l ELSE t4.kid[s][m]
      /\ \A m \in Links : r.parent[m] = IF m = l THEN temp ELSE t4.parent[m]
  <2>1. PICK c, z : c = t.color[del] /\ z = t.size[del]
    OBVIOUS
  <2>2. c \in Colors /\ z \in Int
    BY <2>1, <1>n DEF Trees
  <2>3. PICK t5 : t5 = [t4 EXCEPT !.kid["left"][temp] = l, !.parent[l] = temp]
    OBVIOUS
  <2>4. t4 \in Trees
    BY <1>4
  <2>5. /\ t5 \in Trees /\ t5.root = t4.root
        /\ t5.dead = t4.dead /\ t5.key = t4.key /\ t5.high = t4.high /\ t5.maxHigh = t4.maxHigh
        /\ t5.color = t4.color /\ t5.size = t4.size
        /\ \A s \in Sides, m \in Nodes :
              t5.kid[s][m] = IF m = temp /\ s = "left" THEN l ELSE t4.kid[s][m]
        /\ \A m \in Links : t5.parent[m] = IF m = l THEN temp ELSE t4.parent[m]
    BY <2>3, <2>4, <1>n DEF Trees
  <2>6. r = [t5 EXCEPT !.color[temp] = c, !.size[temp] = z]
    BY <1>5, <2>1, <2>3
  <2>8. t5 \in Trees
    BY <2>5
  <2>t. PICK t6 : t6 = Paint(t5, temp, c)
    OBVIOUS
  <2>a. /\ t6 \in Trees /\ t6.root = t5.root
        /\ t6.dead = t5.dead /\ t6.key = t5.key /\ t6.high = t5.high /\ t6.maxHigh = t5.maxHigh
        /\ t6.kid = t5.kid /\ t6.parent = t5.parent /\ t6.size = t5.size
        /\ \A m \in Links : t6.color[m] = IF m = temp THEN c ELSE t5.color[m]
    <3>1. temp \in Links /\ c \in Colors /\ t5 \in Trees
      BY <2>2, <2>8, <1>n
    <3> QED
      BY <3>1, <2>t, Painted
  <2>b. r = [t6 EXCEPT !.size[temp] = z]
    BY <2>6, <2>t DEF Paint
  <2>c. t6 \in Trees
    BY <2>a
  <2>d. /\ r \in Trees /\ r.root = t6.root
        /\ r.dead = t6.dead /\ r.key = t6.key /\ r.high = t6.high /\ r.maxHigh = t6.maxHigh
        /\ r.kid = t6.kid /\ r.parent = t6.parent /\ r.color = t6.color
        /\ \A m \in Links : r.size[m] = IF m = temp THEN z ELSE t6.size[m]
    <3>1. r = WithSize(t6, temp, z)
      BY <2>b DEF WithSize
    <3>2. temp \in Links /\ z \in Int
      BY <2>2, <1>n
    <3> QED
      BY <2>c, <3>1, <3>2, WithSizeFields
  <2>9. /\ r \in Trees /\ r.root = t5.root
        /\ r.dead = t5.dead /\ r.key = t5.key /\ r.high = t5.high /\ r.maxHigh = t5.maxHigh
        /\ \A m \in Links : r.color[m] = IF m = temp THEN c ELSE t5.color[m]
        /\ \A m \in Links : r.size[m] = IF m = temp THEN z ELSE t5.size[m]
        /\ r.kid = t5.kid /\ r.parent = t5.parent
    BY <2>a, <2>d, <2>5
  <2> QED
    BY <2>1, <2>5, <2>9
<1>7. \A s \in Sides, m \in Nodes :
         r.kid[s][m] =
            IF m = temp THEN (IF s = "left" THEN l ELSE IF up = del THEN x ELSE q)
            ELSE IF p # NIL /\ m = p
                    /\ s = (IF del = t.kid["left"][p] THEN "left" ELSE "right") THEN temp
            ELSE IF up # del /\ m = up
                    /\ s = (IF temp = t.kid["left"][up] THEN "left" ELSE "right") THEN x
            ELSE t.kid[s][m]
  <2> SUFFICES ASSUME NEW s \in Sides, NEW m \in Nodes
               PROVE  r.kid[s][m] =
                 IF m = temp THEN (IF s = "left" THEN l ELSE IF up = del THEN x ELSE q)
                 ELSE IF p # NIL /\ m = p
                         /\ s = (IF del = t.kid["left"][p] THEN "left" ELSE "right") THEN temp
                 ELSE IF up # del /\ m = up
                         /\ s = (IF temp = t.kid["left"][up] THEN "left" ELSE "right") THEN x
                 ELSE t.kid[s][m]
    OBVIOUS
  <2>1. r.kid[s][m] = IF m = temp /\ s = "left" THEN l ELSE t4.kid[s][m]
    BY <1>6
  <2>2. t4.kid[s][m] = IF p # NIL /\ m = p
                          /\ s = (IF del = moved.kid["left"][p] THEN "left" ELSE "right")
                       THEN temp ELSE moved.kid[s][m]
    BY <1>4
  <2>3. moved.kid[s][m] =
               IF m = temp /\ s = "right" THEN (IF up = del THEN x ELSE q)
               ELSE IF up # del /\ m = up
                       /\ s = (IF temp = t.kid["left"][up] THEN "left" ELSE "right") THEN x
               ELSE t.kid[s][m]
    BY <1>1
  <2>4. m = p => moved.kid["left"][p] = t.kid["left"][p]
    BY <1>1, <1>n, <1>d
  <2>5. s = "left" \/ s = "right"
    BY DEF Sides
  <2> QED
    BY <2>1, <2>2, <2>3, <2>4, <2>5, <1>d
<1>8. \A m \in Links :
         r.parent[m] = IF m = l THEN temp ELSE IF m = temp THEN p
                       ELSE IF m = x THEN (IF up = del THEN temp ELSE up)
                       ELSE IF m = q THEN temp ELSE t.parent[m]
  <2> SUFFICES ASSUME NEW m \in Links
               PROVE  r.parent[m] = IF m = l THEN temp ELSE IF m = temp THEN p
                                    ELSE IF m = x THEN (IF up = del THEN temp ELSE up)
                                    ELSE IF m = q THEN temp ELSE t.parent[m]
    OBVIOUS
  <2>1. r.parent[m] = IF m = l THEN temp ELSE t4.parent[m]
    BY <1>6
  <2>2. t4.parent[m] = IF m = temp THEN p ELSE moved.parent[m]
    BY <1>4
  <2>3. moved.parent[m] = IF m = x THEN (IF up = del THEN temp ELSE up)
                          ELSE IF m = q /\ up # del THEN temp ELSE t.parent[m]
    BY <1>1
  <2> QED
    BY <2>1, <2>2, <2>3, <1>d
<1> QED
  BY <1>1, <1>4, <1>6, <1>7, <1>8 DEF Unlinked

-----------------------------------------------------------------------------
(* A node without two children is taken out.                               *)

LEMMA WhereHung ==
    ASSUME NEW t, NEW N, NIL \notin N, NEW rank, NEW sub, Shape(t, N, rank, sub), NEW n \in N,
           NEW m \in N, NEW s \in Sides, NEW p, p = t.parent[n]
    PROVE  t.kid[s][m] = n <=>
             p # NIL /\ m = p /\ s = (IF n = t.kid["left"][p] THEN "left" ELSE "right")
<1>1. ASSUME t.kid[s][m] = n
      PROVE  p # NIL /\ m = p /\ s = (IF n = t.kid["left"][p] THEN "left" ELSE "right")
  <2>1. m = p /\ p # NIL
    BY <1>1 DEF Shape, Linked
  <2>2. s = "left" \/ s = "right"
    BY DEF Sides
  <2>3. t.kid["left"][p] = n /\ s = "right" => FALSE
    <3>1. "left" \in Sides /\ "right" \in Sides /\ "left" # "right" /\ n # NIL
      BY DEF Sides
    <3> QED
      BY <1>1, <2>1, <3>1, OnePlace
  <2> QED
    BY <1>1, <2>1, <2>2, <2>3
<1>2. ASSUME p # NIL, m = p, s = (IF n = t.kid["left"][p] THEN "left" ELSE "right")
      PROVE  t.kid[s][m] = n
  <2>1. n # t.root
    BY <1>2, RootUp
  <2>2. t.kid["left"][p] = n \/ t.kid["right"][p] = n
    BY <2>1, ParentAbove
  <2> QED
    BY <1>2, <2>2
<1> QED
  BY <1>1, <1>2

LEMMA OneLess ==
    ASSUME NEW S, IsFiniteSet(S), NEW d \in S
    PROVE  Cardinality(S) = Cardinality(S \ {d}) + 1 /\ Cardinality(S \ {d}) \in Nat
<1>1. IsFiniteSet(S \ {d}) /\ Cardinality(S \ {d}) = Cardinality(S) - 1
  BY FS_RemoveElement
<1>2. Cardinality(S) \in Nat /\ Cardinality(S \ {d}) \in Nat
  BY <1>1, FS_CardinalityType
<1> QED
  BY <1>1, <1>2

LEMMA WholeBooked ==
    ASSUME NEW t, NEW N, N \subseteq Nodes, IsFiniteSet(N), NEW rank, NEW sub,
           Good(t, N, rank, sub, NIL, 0)
    PROVE  /\ kind = "os" => \A n \in N : t.size[n] = Cardinality(sub[n])
           /\ kind = "int" => \A n \in N : Spanned(t, n, sub)
<1>1. PICK z : z = 0
  OBVIOUS
<1>2. Shape(t, N, rank, sub) /\ Booked(t, N, sub, NIL, z)
  BY <1>1 DEF Good
<1> QED
  BY <1>2, BookedNil

\* what is left of the tree, x in the place that was given up
Taken(t, r, N, del, x) ==
    /\ \E ranks, subs : Good(r, N \ {del}, ranks, subs, r.parent[x], 1)
    /\ \A m \in N \ {del} : r.key[m] = t.key[m]
    /\ x \in (N \ {del}) \cup {NIL}
    /\ r.parent[x] \in (N \ {del}) \cup {NIL}
    /\ x = NIL /\ r.root # NIL => r.parent[NIL] \in N \ {del}

\* the fields of the nodes that stay
Kept(t, r, M) ==
    /\ r \in Trees /\ r.dead = t.dead
    /\ \A m \in M : r.key[m] = t.key[m] /\ r.high[m] = t.high[m] /\ r.maxHigh[m] = t.maxHigh[m]
    /\ r.color[NIL] = t.color[NIL] /\ r.size[NIL] = t.size[NIL] /\ r.maxHigh[NIL] = t.maxHigh[NIL]

\* x is in the place of del, and everything else is where it was
Freed(t, r, N, del, x) ==
    /\ Kept(t, r, N \ {del})
    /\ Vacated(t, r, N, del, x)
    /\ \A m \in N \ {del} : r.size[m] = t.size[m]
    /\ r.parent[x] = t.parent[del]

LEMMA FreedFields ==
    ASSUME NEW t \in Trees, NEW N, N \subseteq Nodes, NEW rank, NEW sub, Shape(t, N, rank, sub),
           NEW del \in N, NEW x \in Links, x # del,
           NEW r, r = Free(Transplant(t, del, x), del)
    PROVE  Freed(t, r, N, del, x)
<1>n. NIL \notin N /\ del \in Nodes /\ NIL \in Links /\ \A m \in N : m \in Links /\ m \in Nodes
  BY NilIsNoNode
<1>1. PICK w : w = Transplant(t, del, x)
  OBVIOUS
<1>2. PICK p : p = t.parent[del]
  OBVIOUS
<1>3. /\ w \in Trees
      /\ w.root = IF p = NIL THEN x ELSE t.root
      /\ w.dead = t.dead /\ w.color = t.color /\ w.key = t.key /\ w.high = t.high
      /\ w.size = t.size /\ w.maxHigh = t.maxHigh
      /\ \A s \in Sides, m \in Nodes :
            w.kid[s][m] = IF p # NIL /\ m = p
                             /\ s = (IF del = t.kid["left"][p] THEN "left" ELSE "right")
                          THEN x ELSE t.kid[s][m]
      /\ \A m \in Links : w.parent[m] = IF m = x THEN p ELSE t.parent[m]
  BY <1>1, <1>2, <1>n, TransplantFields
<1>4. /\ r \in Trees /\ r.root = w.root /\ r.dead = w.dead
      /\ \A s \in Sides, m \in Nodes \ {del} : r.kid[s][m] = w.kid[s][m]
      /\ \A m \in Links \ {del} : r.parent[m] = w.parent[m] /\ r.color[m] = w.color[m]
                                  /\ r.size[m] = w.size[m] /\ r.maxHigh[m] = w.maxHigh[m]
      /\ \A m \in Nodes \ {del} : r.key[m] = w.key[m] /\ r.high[m] = w.high[m]
  <2>1. w \in Trees
    BY <1>3
  <2>2. PICK f : f = Free(w, del)
    OBVIOUS
  <2>3. ElsewhereSame(w, f, del)
    BY <2>1, <2>2, <1>n, FreeFields
  <2>4. r = f
    BY <1>1, <2>2
  <2> QED
    BY <2>3, <2>4 DEF ElsewhereSame
<1>5. Kept(t, r, N \ {del})
  BY <1>3, <1>4, <1>n DEF Kept
<1>6. Vacated(t, r, N, del, x)
  <2>1. r.root = IF del = t.root THEN x ELSE t.root
    <3>1. t.parent[del] = NIL <=> del = t.root
      BY <1>n, RootUp
    <3> QED
      BY <3>1, <1>2, <1>3, <1>4
  <2>2. ASSUME NEW m \in N \ {del}
        PROVE  /\ \A s \in Sides : r.kid[s][m] = IF t.kid[s][m] = del THEN x ELSE t.kid[s][m]
               /\ r.parent[m] = IF m = x THEN t.parent[del] ELSE t.parent[m]
               /\ r.key[m] = t.key[m]
    <3>1. ASSUME NEW s \in Sides
          PROVE  r.kid[s][m] = IF t.kid[s][m] = del THEN x ELSE t.kid[s][m]
      <4>1. t.kid[s][m] = del <=>
              p # NIL /\ m = p /\ s = (IF del = t.kid["left"][p] THEN "left" ELSE "right")
        BY <1>2, <1>n, WhereHung
      <4> QED
        BY <4>1, <1>3, <1>4, <1>n
    <3>2. r.parent[m] = IF m = x THEN t.parent[del] ELSE t.parent[m]
      BY <1>2, <1>3, <1>4, <1>n
    <3>3. r.key[m] = t.key[m]
      BY <1>5 DEF Kept
    <3> QED
      BY <3>1, <3>2, <3>3
  <2> QED
    BY <2>1, <2>2 DEF Vacated
<1>7. \A m \in N \ {del} : r.size[m] = t.size[m]
  BY <1>3, <1>4, <1>n
<1>8. r.parent[x] = t.parent[del]
  BY <1>2, <1>3, <1>4, <1>n
<1> QED
  BY <1>5, <1>6, <1>7, <1>8 DEF Freed

LEMMA TakenOne ==
    ASSUME NEW t, NEW N, N \subseteq Nodes, IsFiniteSet(N), NEW rank, NEW sub,
           Good(t, N, rank, sub, NIL, 0),
           NEW del \in N, \E s \in Sides : t.kid[s][del] = NIL,
           NEW x, x = OnlyKid(t, del),
           NEW r, r = Free(Unlink(t, del, del), del)
    PROVE  Taken(t, r, N, del, x)
<1>n. NIL \notin N /\ del \in Nodes /\ NIL \in Links /\ \A m \in N : m \in Links /\ m \in Nodes
  BY NilIsNoNode
<1>g. /\ t \in Trees /\ ~t.dead /\ Sentinel(t) /\ Shape(t, N, rank, sub)
      /\ Booked(t, N, sub, NIL, 0)
      /\ \A m \in N : t.key[m] \in Int /\ t.key[m] <= t.high[m]
  BY DEF Good
<1>b. /\ kind = "os" => \A y \in N : t.size[y] = Cardinality(sub[y])
      /\ kind = "int" => \A y \in N : Spanned(t, y, sub)
  <2>1. PICK z : z = 0
    OBVIOUS
  <2>2. Shape(t, N, rank, sub) /\ Booked(t, N, sub, NIL, z)
    BY <1>g, <2>1
  <2> QED
    BY <2>2, BookedNil
<1>1. PICK side \in Sides : x = t.kid[side][del] /\ t.kid[Opp(side)][del] = NIL
  <2>1. "left" \in Sides /\ "right" \in Sides /\ Opp("left") = "right" /\ Opp("right") = "left"
    BY DEF Sides, Opp
  <2>2. t.kid["left"][del] = NIL \/ t.kid["right"][del] = NIL
    BY DEF Sides
  <2>3. CASE t.kid["left"][del] = NIL
    BY <2>1, <2>3 DEF OnlyKid
  <2>4. CASE t.kid["left"][del] # NIL
    BY <2>1, <2>2, <2>4 DEF OnlyKid
  <2> QED
    BY <2>3, <2>4
<1>x. x \in N \cup {NIL} /\ x # del /\ x \in Links
  BY <1>1, <1>n, <1>g, KidsBelow
<1>p. PICK p : p = t.parent[del]
  OBVIOUS
<1>2. /\ Kept(t, r, N \ {del})
      /\ Vacated(t, r, N, del, x)
      /\ \A m \in N \ {del} : r.size[m] = t.size[m]
      /\ r.parent[x] = p
  <2>1. PICK f : f = Free(Transplant(t, del, x), del)
    OBVIOUS
  <2>2. r = f
    BY <2>1 DEF Unlink
  <2>3. Freed(t, f, N, del, x)
    <3>1. t \in Trees /\ Shape(t, N, rank, sub)
      BY <1>g
    <3>2. x \in Links /\ x # del
      BY <1>x
    <3> QED
      BY <3>1, <3>2, <2>1, FreedFields
  <2> QED
    BY <1>p, <2>2, <2>3 DEF Freed
<1>3. p \in (N \ {del}) \cup {NIL} /\ p # del
  <2>1. CASE del = t.root
    BY <2>1, <1>p, <1>n, <1>g, RootUp
  <2>2. CASE del # t.root
    BY <2>2, <1>p, <1>g, ParentAbove
  <2> QED
    BY <2>1, <2>2
<1>4. PICK M : M = N \ {del}
  OBVIOUS
<1>5. PICK ranks : ranks = [m \in M |-> rank[m]]
  OBVIOUS
<1>6. PICK subs : subs = [m \in M \cup {NIL} |-> sub[m] \ {del}]
  OBVIOUS
<1>7. Shape(r, M, ranks, subs)
  <2>1. rank \in [N -> Int] /\ sub \in [N \cup {NIL} -> SUBSET N]
    BY <1>g DEF Shape
  <2>2. ranks \in [N \ {del} -> Int] /\ \A m \in N \ {del} : ranks[m] = rank[m]
    BY <2>1, <1>4, <1>5
  <2>3. /\ subs \in [(N \ {del}) \cup {NIL} -> SUBSET (N \ {del})]
        /\ \A m \in (N \ {del}) \cup {NIL} : subs[m] = sub[m] \ {del}
    BY <2>1, <1>4, <1>6
  <2>4. Shape(r, N \ {del}, ranks, subs)
    <3>1. Shape(t, N, rank, sub) /\ NIL \notin N /\ Vacated(t, r, N, del, x)
      BY <1>2, <1>n, <1>g
    <3>2. Without(N, del, rank, ranks, sub, subs)
      BY <2>2, <2>3 DEF Without
    <3> QED
      BY <3>1, <3>2, <1>1, VacateShape
  <2> QED
    BY <2>4, <1>4
<1>8. ASSUME NEW m \in M
      PROVE  /\ p \in subs[m] <=> del \in sub[m]
             /\ subs[m] = sub[m] \ {del}
             /\ p \notin subs[m] => subs[m] = sub[m]
             /\ r.size[m] = t.size[m] /\ r.maxHigh[m] = t.maxHigh[m]
  <2>1. t.parent[del] \in sub[m] <=> del \in sub[m] /\ m # del
    BY <1>4, <1>g, StaleMovesUp
  <2>2. subs[m] = sub[m] \ {del}
    BY <1>6
  <2>3. p \in subs[m] <=> del \in sub[m]
    BY <2>1, <2>2, <1>3, <1>4, <1>p
  <2> QED
    BY <2>2, <2>3, <1>2, <1>4 DEF Kept
<1>9. Booked(r, M, subs, p, 1)
  <2>1. ASSUME kind = "os", NEW m \in M
        PROVE  r.size[m] = Cardinality(subs[m]) + (IF p \in subs[m] THEN 1 ELSE 0)
    <3>1. t.size[m] = Cardinality(sub[m]) /\ IsFiniteSet(sub[m])
      <4>1. m \in N
        BY <1>4
      <4>2. t.size[m] = Cardinality(sub[m])
        BY <2>1, <4>1, <1>b
      <4> QED
        BY <4>1, <4>2, <1>g, SubsFinite
    <3>2. CASE del \in sub[m]
      <4>1. Cardinality(sub[m]) = Cardinality(sub[m] \ {del}) + 1
        BY <3>1, <3>2, OneLess
      <4> QED
        BY <3>1, <3>2, <4>1, <1>8
    <3>3. CASE del \notin sub[m]
      <4>1. Cardinality(sub[m]) \in Nat
        BY <3>1, FS_CardinalityType
      <4> QED
        BY <3>1, <3>3, <4>1, <1>8
    <3> QED
      BY <3>2, <3>3
  <2>2. ASSUME kind = "int", NEW m \in M, p \notin subs[m]
        PROVE  Spanned(r, m, subs)
    <3>1. Spanned(t, m, sub)
      <4>1. m \in N
        BY <1>4
      <4> QED
        BY <2>2, <4>1, <1>b
    <3>2. subs[m] = sub[m] /\ r.maxHigh[m] = t.maxHigh[m]
      BY <2>2, <1>8
    <3>3. \A y \in sub[m] : r.high[y] = t.high[y]
      <4>1. subs[m] \subseteq M
        BY <1>7 DEF Shape
      <4> QED
        BY <3>2, <4>1, <1>2, <1>4 DEF Kept
    <3> QED
      BY <3>1, <3>2, <3>3 DEF Spanned
  <2> QED
    BY <2>1, <2>2 DEF Booked
<1>10. Good(r, M, ranks, subs, p, 1)
  <2>1. r \in Trees /\ ~r.dead /\ Sentinel(r)
    BY <1>2, <1>g DEF Kept, Sentinel
  <2>2. \A m \in M : r.key[m] \in Int /\ r.key[m] <= r.high[m]
    BY <1>2, <1>g, <1>4 DEF Kept
  <2> QED
    BY <2>1, <2>2, <1>7, <1>9 DEF Good
<1>11. x = NIL /\ r.root # NIL => p \in N \ {del}
  <2>1. r.root = IF del = t.root THEN x ELSE t.root
    BY <1>2 DEF Vacated
  <2>2. del # t.root => p # NIL
    BY <1>p, <1>n, <1>g, RootUp
  <2> QED
    BY <2>1, <2>2, <1>3
<1> QED
  <2>1. \A m \in N \ {del} : r.key[m] = t.key[m]
    BY <1>2 DEF Kept
  <2>2. \E ranks_1, subs_1 : Good(r, N \ {del}, ranks_1, subs_1, r.parent[x], 1)
    BY <1>2, <1>4, <1>10
  <2> QED
    BY <2>1, <2>2, <1>2, <1>3, <1>x, <1>11 DEF Taken

-----------------------------------------------------------------------------
(* A node with two children is taken out, its successor takes its place.   *)

\* temp is the least node below q
Least(t, rank, sub, q, temp) ==
    /\ temp \in sub[q] /\ t.kid["left"][temp] = NIL
    /\ \A n \in sub[q] : n = temp \/ rank[temp] < rank[n]

LEMMA SuccessorApart ==
    ASSUME NEW t, NEW N, N \subseteq Nodes, NEW rank, NEW sub, Shape(t, N, rank, sub),
           NEW del \in N, NEW l \in N, NEW q \in N, NEW temp, NEW x, NEW up, NEW p,
           Moving(t, del, temp, x, l, q, up, p), Least(t, rank, sub, q, temp)
    PROVE  /\ Distinct(del, temp, x, l, q, up, p)
           /\ temp \in N /\ x \in N \cup {NIL} /\ up \in N
           /\ temp \in sub[del]
<1>n. NIL \notin N /\ \A m \in N : m \in Nodes
  BY NilIsNoNode
<1>m. /\ l = t.kid["left"][del] /\ q = t.kid["right"][del] /\ p = t.parent[del]
      /\ up = t.parent[temp] /\ t.kid["left"][temp] = NIL /\ x = t.kid["right"][temp]
  BY DEF Moving
<1>s. "left" \in Sides /\ "right" \in Sides
  BY DEF Sides
<1>1. /\ sub[l] \subseteq sub[del] \ {del} /\ sub[q] \subseteq sub[del] \ {del}
      /\ l # del /\ q # del /\ sub[l] \cap sub[q] = {} /\ sub[del] \subseteq N
  BY <1>m, <1>s, KidsBelow
<1>2. \A m \in N : m \in sub[m] /\ \A y \in sub[m] : sub[y] \subseteq sub[m]
                                                    /\ (y # m => t.parent[y] \in sub[m])
  BY DEF Shape, Subtrees
<1>3. /\ temp \in sub[q] /\ temp \in N /\ temp \in sub[del] /\ temp # del
      /\ sub[temp] \subseteq sub[q]
  BY <1>1, <1>2 DEF Least
<1>4. x \in N \cup {NIL} /\ sub[x] \subseteq sub[temp] \ {temp} /\ x # temp
  BY <1>3, <1>m, <1>s, KidsBelow
<1>5. x # NIL => x \in sub[x]
  BY <1>2, <1>4
<1>6. x # del /\ l # x /\ l # temp /\ l # q
  BY <1>1, <1>2, <1>3, <1>4, <1>5, <1>n
<1>7. x # q
  <2>1. CASE x = NIL
    BY <2>1, <1>n
  <2>2. CASE x # NIL
    <3>1. x = q => q \in sub[temp]
      BY <2>2, <1>4, <1>5
    <3>2. q \in sub[temp] => q = temp
      BY <1>3, BelowOnce
    <3> QED
      BY <3>1, <3>2, <1>4
  <2> QED
    BY <2>1, <2>2
<1>8. up \in sub[del] /\ up \in N
  BY <1>m, <1>1, <1>2, <1>3
<1>9. up # temp
  <2>1. temp # t.root
    <3>1. sub[t.root] = N
      BY DEF Shape, Subtrees
    <3> QED
      BY <3>1, <1>1, <1>3
  <2> QED
    BY <2>1, <1>3, <1>m, ParentAbove
<1>10. p \notin sub[del] /\ p # del
  <2>1. CASE del = t.root
    BY <2>1, <1>m, <1>n, <1>1, RootUp
  <2>2. CASE del # t.root
    BY <2>2, <1>m, ParentAbove
  <2> QED
    BY <2>1, <2>2
<1>11. p # temp /\ p # up
  BY <1>10, <1>3, <1>8
<1>12. up = del <=> q = temp
  <2>1. q = temp => up = del
    <3>1. t.kid["right"][del] # NIL => t.parent[t.kid["right"][del]] = del
      BY <1>s DEF Shape, Linked
    <3>2. t.parent[q] = del
      BY <3>1, <1>m, <1>n
    <3> QED
      BY <3>2, <1>m
  <2>2. up = del => q = temp
    <3>1. temp # t.root
      <4>1. sub[t.root] = N
        BY DEF Shape, Subtrees
      <4> QED
        BY <4>1, <1>1, <1>3
    <3>2. t.kid["left"][up] = temp \/ t.kid["right"][up] = temp
      BY <3>1, <1>3, <1>m, ParentAbove
    <3> QED
      BY <3>2, <1>6, <1>m
  <2> QED
    BY <2>1, <2>2
<1> QED
  BY <1>1, <1>3, <1>4, <1>6, <1>7, <1>8, <1>9, <1>10, <1>11, <1>12, <1>n DEF Distinct

\* the successor is where the node was, among the others
LEMMA SuccessorRank ==
    ASSUME NEW t, NEW N, NEW rank, NEW sub, Shape(t, N, rank, sub),
           NEW del \in N, NEW q, q = t.kid["right"][del], NEW temp, Least(t, rank, sub, q, temp),
           NEW m \in N \ {del, temp}
    PROVE  rank[m] < rank[del] <=> rank[m] < rank[temp]
<1>s. "right" \in Sides
  BY DEF Sides
<1>1. /\ sub[q] \subseteq sub[del] \ {del} /\ sub[del] \subseteq N
      /\ \A y \in sub[del] : y = del \/ y \in sub[t.kid["left"][del]] \/ y \in sub[q]
  BY <1>s, KidsBelow DEF Sides
<1>2. temp \in sub[q] /\ temp \in N /\ rank[del] < rank[temp]
  <2>1. temp \in sub[q]
    BY DEF Least
  <2> QED
    BY <2>1, <1>1 DEF Shape, Ordered
<1>3. rank[m] \in Int /\ rank[del] \in Int /\ rank[temp] \in Int
  BY <1>2 DEF Shape
<1>4. CASE m \notin sub[del]
  <2>1. m \in N \ sub[del] /\ temp \in sub[del]
    BY <1>1, <1>2, <1>4
  <2> QED
    BY <2>1 DEF Shape, Ordered
<1>5. CASE m \in sub[t.kid["left"][del]]
  <2>1. rank[m] < rank[del]
    BY <1>5 DEF Shape, Ordered
  <2> QED
    BY <2>1, <1>2, <1>3
<1>6. CASE m \in sub[q]
  <2>1. rank[temp] < rank[m]
    BY <1>6 DEF Least
  <2> QED
    BY <2>1, <1>2, <1>3
<1> QED
  BY <1>1, <1>4, <1>5, <1>6

\* the fields after the successor has moved
Moved(t, r, N, del, temp, x, l, q, up, p) ==
    /\ Kept(t, r, N \ {del})
    /\ r.root = IF p = NIL THEN temp ELSE t.root
    /\ \A m \in N \ {del} : r.size[m] = IF m = temp THEN t.size[del] ELSE t.size[m]
    /\ \A s \in Sides, m \in N \ {del} :
          r.kid[s][m] =
             IF m = temp THEN (IF s = "left" THEN l ELSE IF up = del THEN x ELSE q)
             ELSE IF t.kid[s][m] = del THEN temp
             ELSE IF t.kid[s][m] = temp THEN x
             ELSE t.kid[s][m]
    /\ \A m \in (N \ {del}) \cup {NIL} :
          r.parent[m] = IF m = l THEN temp ELSE IF m = temp THEN p
                        ELSE IF m = x THEN (IF up = del THEN temp ELSE up)
                        ELSE IF m = q THEN temp ELSE t.parent[m]

LEMMA MovedFields ==
    ASSUME NEW t \in Trees, NEW N, N \subseteq Nodes, NEW rank, NEW sub, Shape(t, N, rank, sub),
           NEW del \in N, NEW l \in N, NEW q \in N, NEW temp, NEW x, NEW up, NEW p,
           Moving(t, del, temp, x, l, q, up, p), Least(t, rank, sub, q, temp),
           NEW r, r = Free(Unlink(t, del, temp), del)
    PROVE  Moved(t, r, N, del, temp, x, l, q, up, p)
<1>n. NIL \notin N /\ del \in Nodes /\ NIL \in Links /\ \A m \in N : m \in Links /\ m \in Nodes
  BY NilIsNoNode
<1>m. p = t.parent[del] /\ up = t.parent[temp]
  BY DEF Moving
<1>a. /\ Distinct(del, temp, x, l, q, up, p)
      /\ temp \in N /\ x \in N \cup {NIL} /\ up \in N
  BY SuccessorApart
<1>d. /\ temp # del /\ x # del /\ x # temp /\ up # temp /\ p # del /\ p # temp /\ p # up
      /\ l # temp /\ l # x /\ l # q /\ l # del /\ q # del /\ q # x
      /\ up # NIL /\ (up = del <=> q = temp) /\ up \in Nodes
  BY <1>a DEF Distinct
<1>1. PICK w : w = Unlink(t, del, temp)
  OBVIOUS
<1>2. /\ w \in Trees
      /\ w.root = IF p = NIL THEN temp ELSE t.root
      /\ w.dead = t.dead /\ w.key = t.key /\ w.high = t.high /\ w.maxHigh = t.maxHigh
      /\ \A m \in Links : w.color[m] = IF m = temp THEN t.color[del] ELSE t.color[m]
      /\ \A m \in Links : w.size[m] = IF m = temp THEN t.size[del] ELSE t.size[m]
      /\ \A s \in Sides, m \in Nodes :
            w.kid[s][m] =
               IF m = temp THEN (IF s = "left" THEN l ELSE IF up = del THEN x ELSE q)
               ELSE IF p # NIL /\ m = p
                       /\ s = (IF del = t.kid["left"][p] THEN "left" ELSE "right") THEN temp
               ELSE IF up # del /\ m = up
                       /\ s = (IF temp = t.kid["left"][up] THEN "left" ELSE "right") THEN x
               ELSE t.kid[s][m]
      /\ \A m \in Links :
            w.parent[m] = IF m = l THEN temp ELSE IF m = temp THEN p
                          ELSE IF m = x THEN (IF up = del THEN temp ELSE up)
                          ELSE IF m = q THEN temp ELSE t.parent[m]
  <2>1. temp \in Nodes /\ x \in Links /\ l \in Nodes /\ q \in Nodes /\ del \in Nodes
    BY <1>a, <1>n
  <2> QED
    <3>1. Unlinked(t, w, del, temp, x, l, q, up, p)
      <4>1. Distinct(del, temp, x, l, q, up, p)
        BY <1>a
      <4> QED
        BY <2>1, <4>1, <1>1, UnlinkFields
    <3> QED
      BY <3>1 DEF Unlinked
<1>3. /\ r \in Trees /\ r.root = w.root /\ r.dead = w.dead
      /\ \A s \in Sides, m \in Nodes \ {del} : r.kid[s][m] = w.kid[s][m]
      /\ \A m \in Links \ {del} : r.parent[m] = w.parent[m] /\ r.color[m] = w.color[m]
                                  /\ r.size[m] = w.size[m] /\ r.maxHigh[m] = w.maxHigh[m]
      /\ \A m \in Nodes \ {del} : r.key[m] = w.key[m] /\ r.high[m] = w.high[m]
  <2>1. w \in Trees
    BY <1>2
  <2>2. PICK f : f = Free(w, del)
    OBVIOUS
  <2>3. ElsewhereSame(w, f, del)
    BY <2>1, <2>2, <1>n, FreeFields
  <2>4. r = f
    BY <1>1, <2>2
  <2> QED
    BY <2>3, <2>4 DEF ElsewhereSame
<1>4. Kept(t, r, N \ {del})
  <2>1. r.color[NIL] = t.color[NIL] /\ r.size[NIL] = t.size[NIL] /\ r.maxHigh[NIL] = t.maxHigh[NIL]
    <3>1. NIL \in Links \ {del} /\ NIL # temp
      BY <1>n, <1>a
    <3> QED
      BY <3>1, <1>2, <1>3
  <2>2. r \in Trees /\ r.dead = t.dead
    BY <1>2, <1>3
  <2>3. \A m \in N \ {del} :
           r.key[m] = t.key[m] /\ r.high[m] = t.high[m] /\ r.maxHigh[m] = t.maxHigh[m]
    BY <1>2, <1>3, <1>n
  <2> QED
    BY <2>1, <2>2, <2>3 DEF Kept
<1>5. \A m \in N \ {del} : r.size[m] = IF m = temp THEN t.size[del] ELSE t.size[m]
  <2> SUFFICES ASSUME NEW m \in N \ {del}
               PROVE  r.size[m] = IF m = temp THEN t.size[del] ELSE t.size[m]
    OBVIOUS
  <2>1. m \in Links /\ m # del
    BY <1>n
  <2>2. r.size[m] = w.size[m]
    BY <2>1, <1>3
  <2>3. w.size[m] = IF m = temp THEN t.size[del] ELSE t.size[m]
    BY <2>1, <1>2
  <2> QED
    BY <2>2, <2>3
<1>6. ASSUME NEW s \in Sides, NEW m \in N \ {del}
      PROVE  r.kid[s][m] =
               IF m = temp THEN (IF s = "left" THEN l ELSE IF up = del THEN x ELSE q)
               ELSE IF t.kid[s][m] = del THEN temp
               ELSE IF t.kid[s][m] = temp THEN x
               ELSE t.kid[s][m]
  <2>1. t.kid[s][m] = del <=>
          p # NIL /\ m = p /\ s = (IF del = t.kid["left"][p] THEN "left" ELSE "right")
    BY <1>n, <1>m, WhereHung
  <2>2. t.kid[s][m] = temp <=>
          up # NIL /\ m = up /\ s = (IF temp = t.kid["left"][up] THEN "left" ELSE "right")
    BY <1>n, <1>m, <1>a, WhereHung
  <2>3. r.kid[s][m] = w.kid[s][m]
    BY <1>3, <1>n
  <2>4. w.kid[s][m] =
               IF m = temp THEN (IF s = "left" THEN l ELSE IF up = del THEN x ELSE q)
               ELSE IF p # NIL /\ m = p
                       /\ s = (IF del = t.kid["left"][p] THEN "left" ELSE "right") THEN temp
               ELSE IF up # del /\ m = up
                       /\ s = (IF temp = t.kid["left"][up] THEN "left" ELSE "right") THEN x
               ELSE t.kid[s][m]
    BY <1>2, <1>n
  <2> QED
    BY <2>1, <2>2, <2>3, <2>4, <1>d
<1>7. ASSUME NEW m \in (N \ {del}) \cup {NIL}
      PROVE  r.parent[m] = IF m = l THEN temp ELSE IF m = temp THEN p
                           ELSE IF m = x THEN (IF up = del THEN temp ELSE up)
                           ELSE IF m = q THEN temp ELSE t.parent[m]
  <2>1. m \in Links /\ m # del
    BY <1>n
  <2>2. r.parent[m] = w.parent[m]
    BY <2>1, <1>3
  <2>3. w.parent[m] = IF m = l THEN temp ELSE IF m = temp THEN p
                      ELSE IF m = x THEN (IF up = del THEN temp ELSE up)
                      ELSE IF m = q THEN temp ELSE t.parent[m]
    BY <2>1, <1>2
  <2> QED
    BY <2>2, <2>3
<1>8. r.root = IF p = NIL THEN temp ELSE t.root
  BY <1>2, <1>3
<1> QED
  BY <1>4, <1>5, <1>6, <1>7, <1>8 DEF Moved

\* the shape then, and what is below each node
Reshaped(r, N, del, temp, sub) ==
    \E ranks, subs :
       /\ Shape(r, N \ {del}, ranks, subs)
       /\ subs[temp] = sub[del] \ {del}
       /\ \A m \in N \ {del, temp} :
             subs[m] = IF del \in sub[m] THEN sub[m] \ {del} ELSE sub[m] \ {temp}

LEMMA MovedShape ==
    ASSUME NEW t \in Trees, NEW N, N \subseteq Nodes, NEW rank, NEW sub, Shape(t, N, rank, sub),
           NEW del \in N, NEW l \in N, NEW q \in N, NEW temp, NEW x, NEW up, NEW p,
           Moving(t, del, temp, x, l, q, up, p), Least(t, rank, sub, q, temp),
           NEW r, Moved(t, r, N, del, temp, x, l, q, up, p)
    PROVE  Reshaped(r, N, del, temp, sub)
<1>n. NIL \notin N /\ \A m \in N : m \in Links /\ m \in Nodes
  BY NilIsNoNode
<1>m. /\ l = t.kid["left"][del] /\ q = t.kid["right"][del] /\ p = t.parent[del]
      /\ up = t.parent[temp] /\ t.kid["left"][temp] = NIL /\ x = t.kid["right"][temp]
  BY DEF Moving
<1>a. /\ Distinct(del, temp, x, l, q, up, p)
      /\ temp \in N /\ x \in N \cup {NIL} /\ up \in N /\ temp \in sub[del]
  BY SuccessorApart
<1>d. /\ temp # del /\ x # del /\ x # temp /\ up # temp /\ p # del /\ p # temp /\ p # up
      /\ l # temp /\ l # x /\ l # q /\ l # del /\ q # del /\ q # x
      /\ up # NIL /\ (up = del <=> q = temp) /\ up \in Nodes
  BY <1>a DEF Distinct
<1>v. /\ Kept(t, r, N \ {del})
      /\ r.root = IF p = NIL THEN temp ELSE t.root
      /\ \A s \in Sides, m \in N \ {del} :
            r.kid[s][m] =
               IF m = temp THEN (IF s = "left" THEN l ELSE IF up = del THEN x ELSE q)
               ELSE IF t.kid[s][m] = del THEN temp
               ELSE IF t.kid[s][m] = temp THEN x
               ELSE t.kid[s][m]
      /\ \A m \in (N \ {del}) \cup {NIL} :
            r.parent[m] = IF m = l THEN temp ELSE IF m = temp THEN p
                          ELSE IF m = x THEN (IF up = del THEN temp ELSE up)
                          ELSE IF m = q THEN temp ELSE t.parent[m]
  BY DEF Moved
<1>s. rank \in [N -> Int] /\ sub \in [N \cup {NIL} -> SUBSET N] /\ sub[NIL] = {}
  BY DEF Shape, Subtrees
\* the tree with temp taken out of its place
<1>1. PICK K : K = N \ {temp}
  OBVIOUS
<1>2. PICK u : u = [root |-> t.root, key |-> t.key,
                    kid |-> [s \in Sides |->
                               [m \in Nodes |-> IF t.kid[s][m] = temp THEN x ELSE t.kid[s][m]]],
                    parent |-> [m \in Nodes |-> IF m = x THEN up ELSE t.parent[m]]]
  OBVIOUS
<1>3. /\ u.root = t.root /\ u.key = t.key
      /\ \A s \in Sides, m \in N : u.kid[s][m] = IF t.kid[s][m] = temp THEN x ELSE t.kid[s][m]
      /\ \A m \in N : u.parent[m] = IF m = x THEN up ELSE t.parent[m]
  BY <1>2, <1>n
<1>4. temp # t.root
  <2>1. t.parent[temp] # NIL
    BY <1>m, <1>d
  <2> QED
    BY <2>1, <1>a, <1>n, RootUp
<1>5. Vacated(t, u, N, temp, x)
  BY <1>3, <1>4, <1>m DEF Vacated
<1>6. PICK rank1 : rank1 = [m \in K |-> rank[m]]
  OBVIOUS
<1>7. PICK sub1 : sub1 = [m \in K \cup {NIL} |-> sub[m] \ {temp}]
  OBVIOUS
<1>8. Shape(u, K, rank1, sub1)
  <2>1. PICK side, other : side = "right" /\ other = "left"
    OBVIOUS
  <2>2. side \in Sides /\ Opp(side) = other
    BY <2>1 DEF Sides, Opp
  <2>3. x = t.kid[side][temp] /\ t.kid[Opp(side)][temp] = NIL
    BY <2>1, <2>2, <1>m
  <2>4. Without(N, temp, rank, rank1, sub, sub1)
    BY <1>1, <1>6, <1>7, <1>s DEF Without
  <2>5. Shape(u, N \ {temp}, rank1, sub1)
    BY <2>2, <2>3, <2>4, <1>5, <1>n, <1>a, VacateShape
  <2> QED
    BY <2>5, <1>1
\* it takes the name of del
<1>9. PICK M : M = N \ {del}
  OBVIOUS
<1>10. del \in K /\ temp \notin K /\ temp # NIL /\ NIL \notin K
       /\ M = (K \ {del}) \cup {temp} /\ K \ {del} = N \ {del, temp}
  BY <1>1, <1>9, <1>a, <1>d, <1>n
<1>11. Renamed(u, r, K, del, temp)
  <2>1. r.root = IF u.root = del THEN temp ELSE u.root
    <3>1. t.parent[del] = NIL <=> del = t.root
      BY <1>n, RootUp
    <3> QED
      BY <3>1, <1>3, <1>m, <1>v
  <2>2. ASSUME NEW s \in Sides
        PROVE  r.kid[s][temp] = u.kid[s][del]
    <3>1. r.kid[s][temp] = IF s = "left" THEN l ELSE IF up = del THEN x ELSE q
      BY <1>v, <1>a, <1>d
    <3>2. u.kid[s][del] = IF t.kid[s][del] = temp THEN x ELSE t.kid[s][del]
      BY <1>3
    <3>3. s = "left" \/ s = "right"
      BY DEF Sides
    <3> QED
      BY <3>1, <3>2, <3>3, <1>m, <1>d
  <2>3. r.parent[temp] = u.parent[del]
    <3>1. r.parent[temp] = p
      BY <1>v, <1>a, <1>d
    <3>2. u.parent[del] = t.parent[del]
      BY <1>3, <1>d
    <3> QED
      BY <3>1, <3>2, <1>m
  <2>4. ASSUME NEW m \in K \ {del}
        PROVE  /\ \A s \in Sides : r.kid[s][m] = IF u.kid[s][m] = del THEN temp ELSE u.kid[s][m]
               /\ r.parent[m] = IF u.parent[m] = del THEN temp ELSE u.parent[m]
               /\ r.key[m] = u.key[m]
    <3>0. m \in N \ {del} /\ m # temp /\ m \in N
      BY <1>10
    <3>1. ASSUME NEW s \in Sides
          PROVE  r.kid[s][m] = IF u.kid[s][m] = del THEN temp ELSE u.kid[s][m]
      <4>1. r.kid[s][m] = IF t.kid[s][m] = del THEN temp
                          ELSE IF t.kid[s][m] = temp THEN x ELSE t.kid[s][m]
        BY <3>0, <1>v
      <4>2. u.kid[s][m] = IF t.kid[s][m] = temp THEN x ELSE t.kid[s][m]
        BY <3>0, <1>3
      <4> QED
        BY <4>1, <4>2, <1>d
    <3>2. r.parent[m] = IF u.parent[m] = del THEN temp ELSE u.parent[m]
      <4>1. r.parent[m] = IF m = l THEN temp
                          ELSE IF m = x THEN (IF up = del THEN temp ELSE up)
                          ELSE IF m = q THEN temp ELSE t.parent[m]
        BY <3>0, <1>v
      <4>2. u.parent[m] = IF m = x THEN up ELSE t.parent[m]
        BY <3>0, <1>3
      <4>3. m # x => (t.parent[m] = del <=> m = l \/ m = q)
        <5>1. t.parent[m] = del => m = l \/ m = q
          <6>1. m = t.root => t.parent[m] = NIL
            BY <3>0, <1>n DEF Shape, Linked
          <6>2. m # t.root => t.kid["left"][t.parent[m]] = m \/ t.kid["right"][t.parent[m]] = m
            BY <3>0, ParentAbove
          <6> QED
            BY <6>1, <6>2, <1>m, <1>n
        <5>2. t.parent[l] = del /\ t.parent[q] = del
          <6>1. "left" \in Sides /\ "right" \in Sides
            BY DEF Sides
          <6>2. /\ t.kid["left"][del] # NIL => t.parent[t.kid["left"][del]] = del
                /\ t.kid["right"][del] # NIL => t.parent[t.kid["right"][del]] = del
            BY <6>1 DEF Shape, Linked
          <6> QED
            BY <6>2, <1>m, <1>n
        <5> QED
          BY <5>1, <5>2
      <4> QED
        BY <4>1, <4>2, <4>3, <1>d
    <3>3. r.key[m] = u.key[m]
      BY <3>0, <1>3, <1>v DEF Kept
    <3> QED
      BY <3>1, <3>2, <3>3
  <2> QED
    BY <2>1, <2>2, <2>3, <2>4 DEF Renamed
<1>12. PICK ranks : ranks = [m \in M |-> rank[m]]
  OBVIOUS
<1>13. SameRank(u, r, K, rank1, ranks, del, temp)
  <2> SUFFICES ASSUME NEW m \in K \ {del}
               PROVE  /\ ranks[m] = rank1[m] /\ rank1[m] # ranks[temp]
                      /\ rank1[m] < rank1[del] <=> rank1[m] < ranks[temp]
                      /\ rank1[m] < ranks[temp] => u.key[m] <= r.key[temp]
                      /\ ranks[temp] < rank1[m] => r.key[temp] <= u.key[m]
    BY DEF SameRank
  <2>1. /\ m \in N /\ m # temp /\ m \in M /\ m \in K
        /\ temp \in M /\ temp \in N /\ m \in N \ {del, temp}
    BY <1>10, <1>9, <1>a
  <2>2. /\ ranks[m] = rank[m] /\ rank1[m] = rank[m]
        /\ ranks[temp] = rank[temp] /\ rank1[del] = rank[del]
    BY <2>1, <1>6, <1>12, <1>10
  <2>3. rank[m] # rank[temp]
    BY <2>1 DEF Shape, Ordered
  <2>4. rank[m] < rank[del] <=> rank[m] < rank[temp]
    BY <2>1, <1>m, SuccessorRank
  <2>5. /\ rank[m] < rank[temp] => t.key[m] <= t.key[temp]
        /\ rank[temp] < rank[m] => t.key[temp] <= t.key[m]
    BY <2>1 DEF Shape, Ordered
  <2>6. r.key[temp] = t.key[temp] /\ u.key[m] = t.key[m]
    BY <2>1, <1>3, <1>9, <1>v DEF Kept
  <2> QED
    BY <2>2, <2>3, <2>4, <2>5, <2>6
<1>14. PICK subs : subs = [m \in M \cup {NIL} |->
                             IF m = NIL THEN {}
                             ELSE Swapped(sub1[IF m = temp THEN del ELSE m], del, temp)]
  OBVIOUS
<1>15. Renaming(K, M, ranks, sub1, subs, del, temp)
  <2>1. ranks \in [M -> Int]
    BY <1>9, <1>12, <1>s
  <2>2. subs[NIL] = {}
    BY <1>14
  <2>3. subs[temp] = Swapped(sub1[del], del, temp)
    BY <1>14, <1>10
  <2>4. \A m \in K \ {del} : subs[m] = Swapped(sub1[m], del, temp)
    BY <1>14, <1>10
  <2>5. \A m \in M : subs[m] \subseteq M
    <3> SUFFICES ASSUME NEW m \in M PROVE subs[m] \subseteq M
      OBVIOUS
    <3>1. PICK y \in K : subs[m] = Swapped(sub1[y], del, temp)
      BY <1>10, <2>3, <2>4
    <3>2. sub1[y] \subseteq K
      BY <3>1, <1>8 DEF Shape
    <3> QED
      BY <3>1, <3>2, <1>10 DEF Swapped
  <2>6. subs \in [M \cup {NIL} -> SUBSET M]
    <3>1. \A m \in M \cup {NIL} : subs[m] \in SUBSET M
      BY <2>2, <2>5
    <3> QED
      BY <3>1, <1>14
  <2> QED
    BY <2>1, <2>2, <2>3, <2>4, <2>6, <1>10 DEF Renaming
<1>16. Shape(r, M, ranks, subs)
  BY <1>8, <1>10, <1>11, <1>13, <1>15, RenameShape
<1>17. \A m \in N : m \in sub[m] /\ \A y \in sub[m] : sub[y] \subseteq sub[m]
  BY DEF Shape, Subtrees
<1>18. subs[temp] = sub[del] \ {del}
  <2>1. subs[temp] = Swapped(sub[del] \ {temp}, del, temp)
    BY <1>7, <1>10, <1>14
  <2> QED
    BY <2>1, <1>17, <1>a, <1>d DEF Swapped
<1>19. ASSUME NEW m \in N \ {del, temp}
       PROVE  subs[m] = IF del \in sub[m] THEN sub[m] \ {del} ELSE sub[m] \ {temp}
  <2>1. subs[m] = Swapped(sub[m] \ {temp}, del, temp)
    BY <1>7, <1>10, <1>14, <1>n
  <2>2. del \in sub[m] => temp \in sub[m]
    BY <1>17, <1>a
  <2> QED
    BY <2>1, <2>2, <1>d DEF Swapped
<1> QED
  BY <1>9, <1>16, <1>18, <1>19 DEF Reshaped

LEMMA TakenTwo ==
    ASSUME NEW t, NEW N, N \subseteq Nodes, IsFiniteSet(N), NEW rank, NEW sub,
           Good(t, N, rank, sub, NIL, 0),
           NEW del \in N, NEW l \in N, NEW q \in N, NEW temp, NEW x, NEW up, NEW p,
           Moving(t, del, temp, x, l, q, up, p), Least(t, rank, sub, q, temp),
           NEW r, r = Free(Unlink(t, del, temp), del)
    PROVE  Taken(t, r, N, del, x)
<1>n. NIL \notin N /\ \A m \in N : m \in Links /\ m \in Nodes
  BY NilIsNoNode
<1>g. /\ t \in Trees /\ ~t.dead /\ Sentinel(t) /\ Shape(t, N, rank, sub)
      /\ Booked(t, N, sub, NIL, 0)
      /\ \A m \in N : t.key[m] \in Int /\ t.key[m] <= t.high[m]
  BY DEF Good
<1>a. /\ Distinct(del, temp, x, l, q, up, p)
      /\ temp \in N /\ x \in N \cup {NIL} /\ up \in N /\ temp \in sub[del]
  BY <1>g, SuccessorApart
<1>d. /\ temp # del /\ x # del /\ x # temp /\ up # temp /\ x # l
      /\ up = t.parent[temp]
  BY <1>a DEF Distinct, Moving
<1>1. Moved(t, r, N, del, temp, x, l, q, up, p)
  <2>1. t \in Trees /\ Shape(t, N, rank, sub)
    BY <1>g
  <2>2. PICK f : f = Free(Unlink(t, del, temp), del)
    OBVIOUS
  <2>3. Moved(t, f, N, del, temp, x, l, q, up, p)
    BY <2>1, <2>2, MovedFields
  <2> QED
    BY <2>2, <2>3
<1>2. /\ Kept(t, r, N \ {del})
      /\ \A m \in N \ {del} : r.size[m] = IF m = temp THEN t.size[del] ELSE t.size[m]
      /\ r.parent[x] = IF up = del THEN temp ELSE up
  <2>1. Kept(t, r, N \ {del})
    BY <1>1 DEF Moved
  <2>2. \A m \in N \ {del} : r.size[m] = IF m = temp THEN t.size[del] ELSE t.size[m]
    BY <1>1 DEF Moved
  <2>3. \A m \in (N \ {del}) \cup {NIL} :
           r.parent[m] = IF m = l THEN temp ELSE IF m = temp THEN p
                         ELSE IF m = x THEN (IF up = del THEN temp ELSE up)
                         ELSE IF m = q THEN temp ELSE t.parent[m]
    BY <1>1 DEF Moved
  <2>4. x \in (N \ {del}) \cup {NIL}
    BY <1>a, <1>d
  <2> QED
    BY <2>1, <2>2, <2>3, <2>4, <1>d
<1>3. PICK st : st = r.parent[x]
  OBVIOUS
<1>4. st \in N \ {del} /\ (up = del => st = temp) /\ (up # del => st = up)
  BY <1>2, <1>3, <1>a, <1>d
<1>5. PICK ranks, subs :
              /\ Shape(r, N \ {del}, ranks, subs)
              /\ subs[temp] = sub[del] \ {del}
              /\ \A m \in N \ {del, temp} :
                    subs[m] = IF del \in sub[m] THEN sub[m] \ {del} ELSE sub[m] \ {temp}
  <2>1. t \in Trees /\ Shape(t, N, rank, sub)
    BY <1>g
  <2> QED
    <3>1. Reshaped(r, N, del, temp, sub)
      BY <2>1, <1>1, MovedShape
    <3> QED
      BY <3>1 DEF Reshaped
<1>6. PICK M : M = N \ {del}
  OBVIOUS
<1>7. \A m \in N : m \in sub[m] /\ \A y \in sub[m] : sub[y] \subseteq sub[m]
                                                   /\ (y # m => t.parent[y] \in sub[m])
  BY <1>g DEF Shape, Subtrees
\* the nodes above the place that was given up count one too many
<1>8. ASSUME NEW m \in M
      PROVE  \/ /\ st \in subs[m]
                /\ \E S : /\ IsFiniteSet(S)
                          /\ kind = "os" => r.size[m] = Cardinality(S)
                          /\ \E y \in S : subs[m] = S \ {y}
             \/ /\ st \notin subs[m] /\ subs[m] = sub[m] /\ m # temp
  <2>0. m \in N /\ m # del
    BY <1>6
  <2>f. \A y \in N : IsFiniteSet(sub[y]) /\ (kind = "os" => t.size[y] = Cardinality(sub[y]))
    <3>1. \A y \in N : IsFiniteSet(sub[y])
      BY <1>g, SubsFinite
    <3>2. kind = "os" => \A y \in N : t.size[y] = Cardinality(sub[y])
      BY WholeBooked
    <3> QED
      BY <3>1, <3>2
  <2>u. up \in sub[m] <=> temp \in sub[m] /\ m # temp
    BY <2>0, <1>a, <1>d, <1>g, StaleMovesUp
  <2>1. CASE m = temp
    <3>1. st \in subs[m]
      <4>1. up \in sub[del]
        BY <1>7, <1>a, <1>d
      <4> QED
        BY <2>1, <4>1, <1>4, <1>5, <1>a, <1>d
    <3>2. subs[m] = sub[del] \ {del} /\ del \in sub[del] /\ IsFiniteSet(sub[del])
      BY <2>1, <2>f, <1>5, <1>7
    <3>3. kind = "os" => r.size[m] = Cardinality(sub[del])
      BY <2>0, <2>1, <2>f, <1>2
    <3> QED
      BY <3>1, <3>2, <3>3
  <2>2. CASE m # temp /\ temp \in sub[m]
    <3>1. subs[m] = IF del \in sub[m] THEN sub[m] \ {del} ELSE sub[m] \ {temp}
      BY <2>0, <2>2, <1>5
    <3>2. up \in sub[m]
      BY <2>2, <2>u
    <3>3. st \in subs[m]
      BY <2>2, <3>1, <3>2, <1>4, <1>d
    <3>4. \E y \in sub[m] : subs[m] = sub[m] \ {y}
      BY <2>2, <3>1
    <3>5. IsFiniteSet(sub[m]) /\ (kind = "os" => r.size[m] = Cardinality(sub[m]))
      BY <2>0, <2>2, <2>f, <1>2
    <3> QED
      BY <3>3, <3>4, <3>5
  <2>3. CASE m # temp /\ temp \notin sub[m]
    <3>1. del \notin sub[m]
      BY <2>0, <2>3, <1>7, <1>a
    <3>2. subs[m] = sub[m]
      BY <2>0, <2>3, <3>1, <1>5
    <3>3. st \notin subs[m]
      BY <2>3, <2>u, <3>2, <1>4
    <3> QED
      BY <2>3, <3>2, <3>3
  <2> QED
    BY <2>1, <2>2, <2>3
<1>9. Booked(r, M, subs, st, 1)
  <2>1. ASSUME kind = "os", NEW m \in M
        PROVE  r.size[m] = Cardinality(subs[m]) + (IF st \in subs[m] THEN 1 ELSE 0)
    <3>1. CASE st \in subs[m]
      <4>1. PICK S : /\ IsFiniteSet(S) /\ r.size[m] = Cardinality(S)
                     /\ \E y \in S : subs[m] = S \ {y}
        BY <2>1, <3>1, <1>8
      <4>2. Cardinality(S) = Cardinality(subs[m]) + 1
        BY <4>1, OneLess
      <4> QED
        BY <3>1, <4>1, <4>2
    <3>2. CASE st \notin subs[m]
      <4>1. subs[m] = sub[m] /\ m # temp
        BY <3>2, <1>8
      <4>2. m \in N /\ m # del
        BY <1>6
      <4>3. t.size[m] = Cardinality(sub[m])
        <5>1. \A y \in N : t.size[y] = Cardinality(sub[y])
          BY <2>1, WholeBooked
        <5> QED
          BY <4>2, <5>1
      <4>4. r.size[m] = t.size[m]
        BY <4>1, <4>2, <1>2
      <4>5. Cardinality(sub[m]) \in Nat
        BY <4>2, <1>g, SubsFinite
      <4> QED
        BY <3>2, <4>1, <4>3, <4>4, <4>5
    <3> QED
      BY <3>1, <3>2
  <2>2. ASSUME kind = "int", NEW m \in M, st \notin subs[m]
        PROVE  Spanned(r, m, subs)
    <3>1. subs[m] = sub[m]
      BY <2>2, <1>8
    <3>2. Spanned(t, m, sub)
      <4>1. m \in N
        BY <1>6
      <4> QED
        BY <2>2, <4>1, WholeBooked
    <3>3. r.maxHigh[m] = t.maxHigh[m] /\ \A y \in sub[m] : r.high[y] = t.high[y]
      <4>1. subs[m] \subseteq M
        BY <1>5, <1>6 DEF Shape
      <4> QED
        BY <3>1, <4>1, <1>2, <1>6 DEF Kept
    <3> QED
      BY <3>1, <3>2, <3>3 DEF Spanned
  <2> QED
    BY <2>1, <2>2 DEF Booked
<1>10. Good(r, M, ranks, subs, st, 1)
  <2>1. r \in Trees /\ ~r.dead /\ Sentinel(r)
    BY <1>2, <1>g DEF Kept, Sentinel
  <2>2. \A m \in M : r.key[m] \in Int /\ r.key[m] <= r.high[m]
    BY <1>2, <1>g, <1>6 DEF Kept
  <2>3. Shape(r, M, ranks, subs)
    BY <1>5, <1>6
  <2> QED
    BY <2>1, <2>2, <2>3, <1>9 DEF Good
<1> QED
  <2>1. \A m \in N \ {del} : r.key[m] = t.key[m]
    BY <1>2 DEF Kept
  <2>2. \E ranks_1, subs_1 : Good(r, N \ {del}, ranks_1, subs_1, r.parent[x], 1)
    BY <1>3, <1>6, <1>10
  <2>3. x \in (N \ {del}) \cup {NIL} /\ r.parent[x] \in N \ {del}
    BY <1>a, <1>d, <1>3, <1>4
  <2> QED
    BY <2>1, <2>2, <2>3 DEF Taken

-----------------------------------------------------------------------------
(* The inductive invariant.                                                *)

Fixups == {"insert_fixup", "remove_fixup"}

Loops == {"idle", "descend", "insert_fixup", "search", "min", "remove_fixup", "search_k",
          "int_search", "in_order"}

Calls == [pc : Loops, node : Links, at : Links, temp : Links, arg : Int, high : Int, k : Int,
          black : BOOLEAN, stack : Seq(Nodes), out : Seq(Nodes), up : BOOLEAN]

\* what holds between two passes of a loop, whatever the call
IInv ==
    /\ kind \in Kinds
    /\ nodes \subseteq Nodes /\ IsFiniteSet(nodes)
    /\ call \in Calls /\ call.at \in nodes \cup {NIL}
    /\ tree.dead => call = Idle
    /\ ~tree.dead => /\ HeldCounts
                     /\ \E rank, sub : /\ Good(tree, nodes, rank, sub, Stale, Off)
                                       /\ Underway(rank, sub)

LEMMA IdleCall == Idle \in Calls /\ Idle.pc = "idle" /\ Idle.at = NIL
<1>1. NIL \in Links
  BY NilIsNoNode
<1>2. PICK e, s, n, z, f : e = << >> /\ s = "idle" /\ n = NIL /\ z = 0 /\ f = FALSE
  OBVIOUS
<1>3. e \in Seq(Nodes)
  BY <1>2
<1>6. s \in Loops
  BY <1>2 DEF Loops
<1>7. n \in Links /\ z \in Int
  BY <1>1, <1>2
<1>8. f \in BOOLEAN
  BY <1>2
<1>4. Idle = [pc |-> s, node |-> n, at |-> n, temp |-> n, arg |-> z, high |-> z,
              k |-> z, black |-> f, stack |-> e, out |-> e, up |-> f]
  BY <1>2 DEF Idle
<1>5. Idle \in Calls
  BY <1>3, <1>4, <1>6, <1>7, <1>8 DEF Calls
<1> QED
  BY <1>5 DEF Idle

LEMMA NotDead == ASSUME IInv, call.pc # "idle" PROVE ~tree.dead
  BY IdleCall DEF IInv

\* Good speaks of kind, which no step changes
LEMMA GoodNext ==
    ASSUME kind' = kind, NEW rank, NEW sub,
           Good(tree', nodes', rank, sub, Stale', Off')
    PROVE  Good(tree, nodes, rank, sub, Stale, Off)'
  BY DEF Good, Booked, Spanned

\* a step that reads the tree
LEMMA Reading ==
    ASSUME IInv, ReadOnly, ~tree.dead, call.pc \notin Fixups, call'.pc \notin Fixups,
           call' \in Calls, call'.at \in nodes \cup {NIL},
           NEW rank, NEW sub, Good(tree, nodes, rank, sub, NIL, 1), Underway(rank, sub)'
    PROVE  IInv'
<1>0. kind' = kind /\ tree' = tree /\ nodes' = nodes /\ held' = held
  BY DEF ReadOnly
<1>1. Stale' = NIL /\ Off' = 1
  BY DEF Stale, Off, Fixups
<1>2. Good(tree', nodes', rank, sub, Stale', Off')
  <2>1. Good(tree', nodes', rank, sub, NIL, 1)
    BY <1>0
  <2> QED
    BY <2>1, <1>1
<1>3. Good(tree, nodes, rank, sub, Stale, Off)'
  BY <1>0, <1>2, GoodNext
<1>4. HeldCounts'
  BY <1>0 DEF IInv, HeldCounts
<1>5. /\ kind' \in Kinds /\ nodes' \subseteq Nodes /\ IsFiniteSet(nodes')
      /\ call'.at \in nodes' \cup {NIL} /\ ~tree'.dead
  BY <1>0 DEF IInv
<1> QED
  BY <1>3, <1>4, <1>5 DEF IInv

LEMMA OffFree ==
    ASSUME NEW t, NEW N, N \subseteq Nodes, IsFiniteSet(N), NEW rank, NEW sub,
           NEW off, Good(t, N, rank, sub, NIL, off), NEW o
    PROVE  Good(t, N, rank, sub, NIL, o)
<1>1. Shape(t, N, rank, sub) /\ Booked(t, N, sub, NIL, off)
  BY DEF Good
<1>2. Booked(t, N, sub, NIL, o)
  <2>1. /\ kind = "os" => \A n \in N : t.size[n] = Cardinality(sub[n])
        /\ kind = "int" => \A n \in N : Spanned(t, n, sub)
    BY <1>1, BookedNil
  <2> QED
    BY <1>1, <2>1, BookedNil
<1> QED
  BY <1>2 DEF Good

\* between two calls, and once the way up is done, the tree is whole
LEMMA WholeOf ==
    ASSUME NEW t, NEW N, N \subseteq Nodes, IsFiniteSet(N), NEW rank, NEW sub,
           NEW off, Good(t, N, rank, sub, NIL, off)
    PROVE  Whole(t, N)
<1>1. PICK z : z = 0
  OBVIOUS
<1>2. Good(t, N, rank, sub, NIL, z)
  BY OffFree
<1> QED
  BY <1>1, <1>2 DEF Whole

LEMMA OfWhole ==
    ASSUME NEW t, NEW N, N \subseteq Nodes, IsFiniteSet(N), Whole(t, N), NEW o
    PROVE  \E rank, sub : Good(t, N, rank, sub, NIL, o)
<1>1. PICK rank, sub : Good(t, N, rank, sub, NIL, 0)
  BY DEF Whole
<1>2. PICK z : z = 0
  OBVIOUS
<1>3. Good(t, N, rank, sub, NIL, z)
  BY <1>1, <1>2
<1>4. Good(t, N, rank, sub, NIL, o)
  BY <1>3, OffFree
<1> QED
  BY <1>4

\* the plain red-black tree has nothing to keep up
LEMMA NothingBooked ==
    ASSUME kind = "rb", NEW t, NEW N, NEW rank, NEW sub, NEW st, NEW off,
           Good(t, N, rank, sub, st, off), NEW s, NEW o
    PROVE  Good(t, N, rank, sub, s, o)
  BY DEF Good, Booked

\* a node that is not linked in does not matter
LEMMA GoodElsewhere ==
    ASSUME NEW t, NEW N, N \subseteq Nodes, NEW rank, NEW sub, NEW st, NEW off,
           Good(t, N, rank, sub, st, off),
           NEW n \in Nodes \ N, NEW r, ElsewhereSame(t, r, n)
    PROVE  Good(r, N, rank, sub, st, off)
<1>n. NIL # n /\ NIL \in Links /\ \A m \in N : m \in Nodes /\ m # n /\ m \in Links
  BY NilIsNoNode
<1>g. /\ t \in Trees /\ ~t.dead /\ Sentinel(t) /\ Shape(t, N, rank, sub)
      /\ Booked(t, N, sub, st, off)
      /\ \A m \in N : t.key[m] \in Int /\ t.key[m] <= t.high[m]
  BY DEF Good
<1>1. /\ r \in Trees /\ r.root = t.root /\ r.dead = t.dead
      /\ \A s \in Sides, m \in N : r.kid[s][m] = t.kid[s][m]
      /\ \A m \in N \cup {NIL} : r.parent[m] = t.parent[m] /\ r.color[m] = t.color[m]
                                 /\ r.size[m] = t.size[m] /\ r.maxHigh[m] = t.maxHigh[m]
      /\ \A m \in N : r.key[m] = t.key[m] /\ r.high[m] = t.high[m]
  BY <1>n DEF ElsewhereSame
<1>s. "left" \in Sides /\ "right" \in Sides
  BY DEF Sides
<1>2. Linked(r, N)
  <2>1. Linked(t, N)
    BY <1>g DEF Shape
  <2>2. r.root \in N \cup {NIL} /\ (r.root # NIL => r.parent[r.root] = NIL)
    BY <1>1, <2>1 DEF Linked
  <2>3. \A m \in N, s \in Sides :
           /\ r.kid[s][m] \in N \cup {NIL}
           /\ r.kid[s][m] # NIL => r.parent[r.kid[s][m]] = m
    BY <1>1, <2>1 DEF Linked
  <2>4. \A m \in N \ {r.root} : r.parent[m] \in N /\ \E s \in Sides : r.kid[s][r.parent[m]] = m
    BY <1>1, <2>1 DEF Linked
  <2> QED
    BY <2>2, <2>3, <2>4 DEF Linked
<1>3. Subtrees(r, N, sub)
  <2>1. Subtrees(t, N, sub) /\ \A m \in N : sub[m] \subseteq N
    BY <1>g, KidsBelow DEF Shape
  <2>2. \A m \in N : /\ m \in sub[m]
                     /\ sub[m] = {m} \cup sub[r.kid["left"][m]] \cup sub[r.kid["right"][m]]
    BY <1>1, <1>s, <2>1 DEF Subtrees
  <2>3. \A m \in N : \A y \in sub[m] :
           sub[y] \subseteq sub[m] /\ (y # m => r.parent[y] \in sub[m])
    BY <1>1, <2>1 DEF Subtrees
  <2> QED
    BY <1>1, <2>1, <2>2, <2>3 DEF Subtrees
<1>4. Ordered(r, N, rank, sub)
  <2>1. Ordered(t, N, rank, sub)
    BY <1>g DEF Shape
  <2>2. \A m \in N : /\ \A y \in sub[r.kid["left"][m]] : rank[y] < rank[m]
                     /\ \A y \in sub[r.kid["right"][m]] : rank[m] < rank[y]
    BY <1>1, <1>s, <2>1 DEF Ordered
  <2>3. \A m, y \in N : rank[m] < rank[y] => r.key[m] <= r.key[y]
    BY <1>1, <2>1 DEF Ordered
  <2> QED
    BY <2>1, <2>2, <2>3 DEF Ordered
<1>5. Shape(r, N, rank, sub)
  BY <1>2, <1>3, <1>4, <1>g DEF Shape
<1>6. Booked(r, N, sub, st, off)
  <2>1. ASSUME kind = "int", NEW m \in N, st \notin sub[m] PROVE Spanned(r, m, sub)
    <3>1. Spanned(t, m, sub)
      BY <2>1, <1>g DEF Booked
    <3>2. sub[m] \subseteq N
      BY <1>g DEF Shape
    <3> QED
      BY <3>1, <3>2, <1>1 DEF Spanned
  <2>2. ASSUME kind = "os", NEW m \in N
        PROVE  r.size[m] = Cardinality(sub[m]) + (IF st \in sub[m] THEN off ELSE 0)
    BY <2>2, <1>1, <1>g DEF Booked
  <2> QED
    BY <2>1, <2>2 DEF Booked
<1>7. Sentinel(r)
  BY <1>1, <1>g DEF Sentinel
<1>8. \A m \in N : r.key[m] \in Int /\ r.key[m] <= r.high[m]
  BY <1>1, <1>g
<1> QED
  BY <1>1, <1>5, <1>6, <1>7, <1>8, <1>g DEF Good

LEMMA NewNodeFields ==
    ASSUME NEW t \in Trees, NEW n \in Nodes, NEW d \in Int, NEW h \in Int,
           NEW r, r = NewNode(t, n, d, h)
    PROVE  /\ ElsewhereSame(t, r, n)
           /\ r.key[n] = d /\ r.high[n] = h /\ r.size[n] = 1 /\ r.maxHigh[n] = h
           /\ \A s \in Sides : r.kid[s][n] = NIL
<1>0. PICK le, ri, nil, one, red :
         le = "left" /\ ri = "right" /\ nil = NIL /\ one = 1 /\ red = "RED"
  OBVIOUS
<1>1. n \in Links /\ nil \in Links /\ one \in Int /\ \A m \in Nodes : m \in Links
  BY <1>0, NilIsNoNode
<1>i. le \in Sides /\ ri \in Sides /\ le # ri /\ \A s \in Sides : s = le \/ s = ri
  BY <1>0 DEF Sides
<1>c. red \in Colors
  BY <1>0 DEF Colors
<1>a. PICK t1 : t1 = WithData(t, n, d)
  OBVIOUS
<1>b. PICK t2 : t2 = WithHigh(t1, n, h)
  OBVIOUS
<1>d. PICK t3 : t3 = Paint(t2, n, red)
  OBVIOUS
<1>e. PICK t4 : t4 = WithSize(t3, n, one)
  OBVIOUS
<1>f. PICK t5 : t5 = WithMaxHigh(t4, n, h)
  OBVIOUS
<1>g. PICK t6 : t6 = WithKid(t5, le, n, nil)
  OBVIOUS
<1>h. PICK t7 : t7 = WithKid(t6, ri, n, nil)
  OBVIOUS
<1>r. r = t7
  BY <1>0, <1>a, <1>b, <1>d, <1>e, <1>f, <1>g, <1>h
     DEF NewNode, WithData, WithHigh, Paint, WithSize, WithMaxHigh, WithKid
<1>2. /\ t1 \in Trees /\ \A m \in Nodes : t1.key[m] = IF m = n THEN d ELSE t.key[m]
      /\ t1.root = t.root /\ t1.dead = t.dead /\ t1.color = t.color /\ t1.high = t.high
      /\ t1.kid = t.kid /\ t1.parent = t.parent /\ t1.size = t.size /\ t1.maxHigh = t.maxHigh
  BY <1>a, DataWritten
<1>3. /\ t2 \in Trees /\ \A m \in Nodes : t2.high[m] = IF m = n THEN h ELSE t1.high[m]
      /\ t2.root = t1.root /\ t2.dead = t1.dead /\ t2.color = t1.color /\ t2.key = t1.key
      /\ t2.kid = t1.kid /\ t2.parent = t1.parent /\ t2.size = t1.size /\ t2.maxHigh = t1.maxHigh
  <2>1. t1 \in Trees
    BY <1>2
  <2> QED
    BY <2>1, <1>b, HighWritten
<1>4. /\ t3 \in Trees /\ \A m \in Links : t3.color[m] = IF m = n THEN red ELSE t2.color[m]
      /\ t3.root = t2.root /\ t3.dead = t2.dead /\ t3.key = t2.key /\ t3.high = t2.high
      /\ t3.kid = t2.kid /\ t3.parent = t2.parent /\ t3.size = t2.size /\ t3.maxHigh = t2.maxHigh
  <2>1. t2 \in Trees /\ n \in Links
    BY <1>1, <1>3
  <2> QED
    BY <2>1, <1>c, <1>d, Painted
<1>5. /\ t4 \in Trees /\ \A m \in Links : t4.size[m] = IF m = n THEN one ELSE t3.size[m]
      /\ t4.root = t3.root /\ t4.dead = t3.dead /\ t4.color = t3.color /\ t4.key = t3.key
      /\ t4.high = t3.high /\ t4.kid = t3.kid /\ t4.parent = t3.parent /\ t4.maxHigh = t3.maxHigh
  <2>1. t3 \in Trees /\ n \in Links /\ one \in Int
    BY <1>1, <1>4
  <2> QED
    BY <2>1, <1>e, SizeWritten DEF WithSize
<1>6. /\ t5 \in Trees /\ \A m \in Links : t5.maxHigh[m] = IF m = n THEN h ELSE t4.maxHigh[m]
      /\ t5.root = t4.root /\ t5.dead = t4.dead /\ t5.color = t4.color /\ t5.key = t4.key
      /\ t5.high = t4.high /\ t5.kid = t4.kid /\ t5.parent = t4.parent /\ t5.size = t4.size
  <2>1. t4 \in Trees /\ n \in Links
    BY <1>1, <1>5
  <2> QED
    BY <2>1, <1>f, MaxHighWritten DEF WithMaxHigh
<1>7. SameButKid(t5, t6, n) /\ t6.kid[le][n] = nil
  <2>1. t5 \in Trees /\ le \in Sides /\ nil \in Links
    BY <1>1, <1>6, <1>i
  <2> QED
    BY <2>1, <1>g, KidWritten DEF SameButKid
<1>8. SameButKid(t6, t7, n) /\ t7.kid[ri][n] = nil /\ t7.kid[le][n] = t6.kid[le][n]
  <2>1. t6 \in Trees /\ ri \in Sides /\ nil \in Links /\ le \in Sides /\ le # ri
    BY <1>1, <1>7, <1>i DEF SameButKid
  <2> QED
    BY <2>1, <1>h, KidWritten DEF SameButKid
<1>9. ElsewhereSame(t, t7, n)
  BY <1>1, <1>2, <1>3, <1>4, <1>5, <1>6, <1>7, <1>8 DEF SameButKid, ElsewhereSame
<1>10. /\ t7.key[n] = d /\ t7.high[n] = h /\ t7.size[n] = one /\ t7.maxHigh[n] = h
  BY <1>1, <1>2, <1>3, <1>4, <1>5, <1>6, <1>7, <1>8 DEF SameButKid
<1>11. \A s \in Sides : t7.kid[s][n] = nil
  BY <1>i, <1>7, <1>8
<1> QED
  BY <1>0, <1>r, <1>9, <1>10, <1>11

-----------------------------------------------------------------------------
(* One step down the tree.                                                 *)

\* data are in the order of the ranks, and only there
LEMMA DataOrder ==
    ASSUME NEW t, NEW N, NEW rank, NEW sub, Shape(t, N, rank, sub),
           \A n \in N : t.key[n] \in Int, NEW m \in N, NEW n \in N
    PROVE  /\ rank[m] < rank[n] => t.key[m] <= t.key[n]
           /\ t.key[m] < t.key[n] => rank[m] < rank[n]
           /\ rank[m] \in Int /\ rank[n] \in Int
           /\ m # n => rank[m] < rank[n] \/ rank[n] < rank[m]
<1>1. rank[m] \in Int /\ rank[n] \in Int /\ (m # n => rank[m] # rank[n])
  BY DEF Shape, Ordered
<1>2. /\ rank[m] < rank[n] => t.key[m] <= t.key[n]
      /\ rank[n] < rank[m] => t.key[n] <= t.key[m]
  BY DEF Shape, Ordered
<1>3. t.key[m] \in Int /\ t.key[n] \in Int
  OBVIOUS
<1> QED
  BY <1>1, <1>2, <1>3

\* insert's way down: at is the child below temp the new datum goes to
LEMMA BelongsBelow ==
    ASSUME NEW t, NEW N, NIL \notin N, NEW rank, NEW sub, Shape(t, N, rank, sub),
           \A n \in N : t.key[n] \in Int, NEW d \in Int,
           NEW temp \in N, Belongs(t, N, rank, sub, temp, d),
           NEW side, side = (IF d < t.key[temp] THEN "left" ELSE "right"),
           NEW at \in N, at = t.kid[side][temp]
    PROVE  Belongs(t, N, rank, sub, at, d)
<1>1. SUFFICES ASSUME NEW m \in N \ sub[at]
               PROVE  rank[m] < rank[at] <=> t.key[m] <= d
  BY DEF Belongs
<1>2. side \in Sides /\ "left" \in Sides /\ "right" \in Sides
  BY DEF Sides
<1>3. at \in sub[temp] /\ at # temp
  <2>1. at \in sub[at]
    BY KidsBelow
  <2>2. sub[t.kid[side][temp]] \subseteq sub[temp] \ {temp}
    BY <1>2, KidsBelow
  <2> QED
    BY <2>1, <2>2
<1>4. /\ rank[m] < rank[temp] => t.key[m] <= t.key[temp]
      /\ rank[temp] < rank[m] => t.key[temp] <= t.key[m]
      /\ rank[m] \in Int /\ rank[at] \in Int /\ rank[temp] \in Int
      /\ t.key[m] \in Int /\ t.key[temp] \in Int
  BY DataOrder
<1>5. CASE m \notin sub[temp]
  <2>1. rank[m] < rank[temp] <=> rank[m] < rank[at]
    BY <1>3, <1>5 DEF Shape, Ordered
  <2>2. rank[m] < rank[temp] <=> t.key[m] <= d
    BY <1>5 DEF Belongs
  <2> QED
    BY <2>1, <2>2
<1>6. CASE d < t.key[temp] /\ m \in sub[temp]
  <2>1. rank[at] < rank[temp]
    <3>1. at \in sub[at] /\ at = t.kid["left"][temp]
      BY <1>6, KidsBelow
    <3>2. at \in sub[t.kid["left"][temp]]
      BY <3>1
    <3> QED
      BY <3>2 DEF Shape, Ordered
  <2>2. m = temp \/ rank[temp] < rank[m]
    <3>1. m = temp \/ m \in sub[t.kid["left"][temp]] \/ m \in sub[t.kid["right"][temp]]
      BY <1>6, KidsBelow DEF Sides
    <3>2. m \notin sub[t.kid["left"][temp]]
      BY <1>6
    <3> QED
      BY <3>1, <3>2 DEF Shape, Ordered
  <2> QED
    BY <2>1, <2>2, <1>4, <1>6
<1>7. CASE ~(d < t.key[temp]) /\ m \in sub[temp]
  <2>1. rank[temp] < rank[at]
    <3>1. at \in sub[at] /\ at = t.kid["right"][temp]
      BY <1>7, KidsBelow
    <3>2. at \in sub[t.kid["right"][temp]]
      BY <3>1
    <3> QED
      BY <3>2 DEF Shape, Ordered
  <2>2. m = temp \/ rank[m] < rank[temp]
    <3>1. m = temp \/ m \in sub[t.kid["left"][temp]] \/ m \in sub[t.kid["right"][temp]]
      BY <1>7, KidsBelow DEF Sides
    <3>2. m \notin sub[t.kid["right"][temp]]
      BY <1>7
    <3> QED
      BY <3>1, <3>2 DEF Shape, Ordered
  <2> QED
    BY <2>1, <2>2, <1>4, <1>7
<1> QED
  BY <1>5, <1>6, <1>7

LEMMA DatumType ==
    ASSUME NEW n \in Nodes
    PROVE  Datum(n) \in Data /\ Datum(n) \in Int
  BY TreeAssumption DEF Nodes, Datum

\* search_node: the datum is not on the other side
LEMMA SearchBelow ==
    ASSUME NEW t, NEW N, N \subseteq Nodes, NEW rank, NEW sub, Shape(t, N, rank, sub),
           \A n \in N : t.key[n] \in Int,
           \A m, n \in N : t.key[m] <= t.key[n] => Datum(m) <= Datum(n),
           NEW at \in N, NEW n \in sub[at], Datum(n) # Datum(at),
           NEW side, side = (IF Datum(n) < Datum(at) THEN "left" ELSE "right")
    PROVE  n \in sub[t.kid[side][at]]
<1>1. sub[at] \subseteq N /\ n \in N
  BY KidsBelow
<1>2. n \in sub[t.kid["left"][at]] \/ n \in sub[t.kid["right"][at]]
  BY KidsBelow DEF Sides
<1>3. /\ n \in sub[t.kid["left"][at]] => rank[n] < rank[at]
      /\ n \in sub[t.kid["right"][at]] => rank[at] < rank[n]
  BY DEF Shape, Ordered
<1>4. /\ rank[n] < rank[at] => t.key[n] <= t.key[at]
      /\ rank[at] < rank[n] => t.key[at] <= t.key[n]
  BY <1>1, DataOrder
<1>5. /\ t.key[n] <= t.key[at] => Datum(n) <= Datum(at)
      /\ t.key[at] <= t.key[n] => Datum(at) <= Datum(n)
  BY <1>1
<1>6. Datum(n) \in Int /\ Datum(at) \in Int
  BY <1>1, DatumType
<1> QED
  BY <1>2, <1>3, <1>4, <1>5, <1>6

\* min_node: what is below q and not below at is behind at
LeastSoFar(t, rank, sub, q, at) ==
    /\ at \in sub[q]
    /\ \A n \in sub[q] : n = at \/ n \in sub[t.kid["left"][at]] \/ rank[at] < rank[n]

LEMMA LeastFirst ==
    ASSUME NEW t, NEW N, NEW rank, NEW sub, Shape(t, N, rank, sub), NEW q \in N
    PROVE  LeastSoFar(t, rank, sub, q, q)
<1>1. q \in sub[q]
      /\ \A n \in sub[q] : n = q \/ n \in sub[t.kid["left"][q]] \/ n \in sub[t.kid["right"][q]]
  BY KidsBelow DEF Sides
<1>2. \A n \in sub[t.kid["right"][q]] : rank[q] < rank[n]
  BY DEF Shape, Ordered
<1> QED
  BY <1>1, <1>2 DEF LeastSoFar

LEMMA LeastBelow ==
    ASSUME NEW t, NEW N, NEW rank, NEW sub, Shape(t, N, rank, sub), NEW q \in N, NEW at \in N,
           LeastSoFar(t, rank, sub, q, at), NEW l \in N, l = t.kid["left"][at]
    PROVE  LeastSoFar(t, rank, sub, q, l)
<1>1. "left" \in Sides /\ "right" \in Sides
  BY DEF Sides
<1>2. l \in sub[l] /\ sub[l] \subseteq sub[at] /\ sub[at] \subseteq sub[q] /\ sub[q] \subseteq N
  <2>1. l \in sub[l] /\ sub[l] \subseteq sub[at] /\ sub[q] \subseteq N
    BY <1>1, KidsBelow
  <2>2. sub[at] \subseteq sub[q]
    BY DEF LeastSoFar, Shape, Subtrees
  <2> QED
    BY <2>1, <2>2
<1>3. rank[l] < rank[at]
  BY <1>2 DEF Shape, Ordered
<1>4. LeastSoFar(t, rank, sub, l, l)
  BY LeastFirst
<1>5. \A n \in N : rank[n] \in Int
  BY DEF Shape
<1>6. ASSUME NEW n \in sub[q]
      PROVE  n = l \/ n \in sub[t.kid["left"][l]] \/ rank[l] < rank[n]
  <2>1. n = at \/ n \in sub[l] \/ rank[at] < rank[n]
    BY DEF LeastSoFar
  <2>2. n \in sub[l] => n = l \/ n \in sub[t.kid["left"][l]] \/ rank[l] < rank[n]
    BY <1>4 DEF LeastSoFar
  <2>3. rank[n] \in Int /\ rank[l] \in Int /\ rank[at] \in Int
    BY <1>2, <1>5
  <2> QED
    BY <2>1, <2>2, <2>3, <1>3
<1> QED
  BY <1>2, <1>6 DEF LeastSoFar

\* search_k: what is ahead of the subtree the loop has come to
LEMMA AheadOfLeft ==
    ASSUME NEW t, NEW N, NEW rank, NEW sub, Shape(t, N, rank, sub), NEW at \in N,
           NEW l \in N, l = t.kid["left"][at]
    PROVE  Before(N, l, rank, sub) = Before(N, at, rank, sub)
<1>1. "left" \in Sides /\ "right" \in Sides
  BY DEF Sides
<1>2. /\ l \in sub[at] /\ sub[l] \subseteq sub[at] /\ l \in sub[l]
      /\ \A m \in sub[at] : m = at \/ m \in sub[l] \/ m \in sub[t.kid["right"][at]]
      /\ sub[at] \subseteq N
  <2>1. l \in sub[l] /\ sub[l] \subseteq sub[at] /\ sub[at] \subseteq N
    BY <1>1, KidsBelow
  <2>2. \A m \in sub[at] : m = at \/ m \in sub[l] \/ m \in sub[t.kid["right"][at]]
    BY KidsBelow DEF Sides
  <2> QED
    BY <2>1, <2>2
<1>3. rank[l] < rank[at] /\ \A m \in sub[t.kid["right"][at]] : rank[at] < rank[m]
  BY <1>2 DEF Shape, Ordered
<1>4. \A m \in N : rank[m] \in Int
  BY DEF Shape
<1>5. ASSUME NEW m \in N
      PROVE  m \notin sub[l] /\ rank[m] < rank[l] <=> m \notin sub[at] /\ rank[m] < rank[at]
  <2>1. CASE m \notin sub[at]
    <3>1. rank[m] < rank[at] <=> rank[m] < rank[l]
      BY <2>1, <1>2 DEF Shape, Ordered
    <3> QED
      BY <2>1, <3>1, <1>2
  <2>2. CASE m \in sub[at] /\ m \notin sub[l]
    <3>1. m = at \/ rank[at] < rank[m]
      BY <2>2, <1>2, <1>3
    <3>2. rank[m] \in Int /\ rank[l] \in Int /\ rank[at] \in Int
      BY <1>4
    <3>3. ~(rank[m] < rank[l])
      BY <3>1, <3>2, <1>3
    <3> QED
      BY <2>2, <3>3
  <2>3. CASE m \in sub[l]
    BY <2>3, <1>2
  <2> QED
    BY <2>1, <2>2, <2>3
<1> QED
  BY <1>5 DEF Before

LEMMA AheadOfRight ==
    ASSUME NEW t, NEW N, NEW rank, NEW sub, Shape(t, N, rank, sub), NEW at \in N,
           NEW l, l = t.kid["left"][at], NEW r \in N, r = t.kid["right"][at]
    PROVE  Before(N, r, rank, sub) = {at} \cup Before(N, at, rank, sub) \cup sub[l]
<1>1. "left" \in Sides /\ "right" \in Sides
  BY DEF Sides
<1>2. /\ r \in sub[at] /\ sub[r] \subseteq sub[at] /\ r \in sub[r]
      /\ \A m \in sub[at] : m = at \/ m \in sub[l] \/ m \in sub[r]
      /\ sub[at] \subseteq N /\ sub[l] \subseteq sub[at] /\ at \in sub[at] /\ at \notin sub[r]
      /\ sub[l] \cap sub[r] = {}
  <2>1. r \in sub[r] /\ sub[r] \subseteq sub[at] \ {at} /\ sub[at] \subseteq N
        /\ sub[l] \subseteq sub[at] /\ sub[l] \cap sub[r] = {} /\ at \in sub[at]
    BY <1>1, KidsBelow
  <2>2. \A m \in sub[at] : m = at \/ m \in sub[l] \/ m \in sub[r]
    BY KidsBelow DEF Sides
  <2> QED
    BY <2>1, <2>2
<1>3. rank[at] < rank[r] /\ \A m \in sub[l] : rank[m] < rank[at]
  BY <1>2 DEF Shape, Ordered
<1>4. \A m \in N : rank[m] \in Int
  BY DEF Shape
<1>5. ASSUME NEW m \in N
      PROVE  m \notin sub[r] /\ rank[m] < rank[r]
               <=> m = at \/ (m \notin sub[at] /\ rank[m] < rank[at]) \/ m \in sub[l]
  <2>1. CASE m \notin sub[at]
    <3>1. rank[m] < rank[at] <=> rank[m] < rank[r]
      BY <2>1, <1>2 DEF Shape, Ordered
    <3> QED
      BY <2>1, <3>1, <1>2
  <2>2. CASE m = at
    BY <2>2, <1>2, <1>3
  <2>3. CASE m \in sub[l]
    <3>1. rank[m] \in Int /\ rank[r] \in Int /\ rank[at] \in Int
      BY <1>4
    <3>2. rank[m] < rank[r]
      BY <2>3, <3>1, <1>3
    <3> QED
      BY <2>3, <3>2, <1>2
  <2>4. CASE m \in sub[r]
    BY <2>4, <1>2
  <2> QED
    BY <2>1, <2>2, <2>3, <2>4, <1>2
<1>6. \A m \in sub[l] : m \in N
  BY <1>2
<1> QED
  BY <1>5, <1>6 DEF Before

\* a node, and two finite sets apart from it and from each other
Apart(A, at, B, N) ==
    /\ IsFiniteSet(A) /\ IsFiniteSet(B) /\ A \cap B = {}
    /\ at \notin A /\ at \notin B /\ B \subseteq N

LEMMA AheadFinite ==
    ASSUME NEW t, NEW N, IsFiniteSet(N), NEW rank, NEW sub, Shape(t, N, rank, sub), NEW at \in N,
           NEW l, l = t.kid["left"][at]
    PROVE  Apart(Before(N, at, rank, sub), at, sub[l], N)
<1>1. "left" \in Sides
  BY DEF Sides
<1>2. sub[l] \subseteq sub[at] \ {at} /\ sub[at] \subseteq N /\ at \in sub[at]
  BY <1>1, KidsBelow
<1>3. Before(N, at, rank, sub) \subseteq N \ sub[at]
  BY DEF Before
<1>4. IsFiniteSet(Before(N, at, rank, sub)) /\ IsFiniteSet(sub[l])
  <2>1. Before(N, at, rank, sub) \subseteq N /\ sub[l] \subseteq N
    BY <1>2, <1>3
  <2> QED
    BY <2>1, FS_Subset
<1> QED
  BY <1>2, <1>3, <1>4 DEF Apart

LEMMA ApartCount ==
    ASSUME NEW A, NEW B, NEW at, NEW N, Apart(A, at, B, N)
    PROVE  /\ IsFiniteSet({at} \cup A \cup B)
           /\ Cardinality({at} \cup A \cup B) = Cardinality(A) + Cardinality(B) + 1
           /\ Cardinality(A) \in Nat /\ Cardinality(B) \in Nat
<1>1. /\ IsFiniteSet(A) /\ IsFiniteSet(B) /\ A \cap B = {} /\ at \notin A /\ at \notin B
  BY DEF Apart
<1>2. Cardinality(A) \in Nat /\ Cardinality(B) \in Nat
  BY <1>1, FS_CardinalityType
<1> QED
  BY <1>1, <1>2, ThreeParts

LEMMA AheadCount ==
    ASSUME NEW t, NEW N, IsFiniteSet(N), NEW rank, NEW sub, Shape(t, N, rank, sub), NEW at \in N,
           NEW l, l = t.kid["left"][at], NEW r \in N, r = t.kid["right"][at]
    PROVE  Cardinality(Before(N, r, rank, sub))
             = Cardinality(Before(N, at, rank, sub)) + Cardinality(sub[l]) + 1
<1>1. PICK A, B : A = Before(N, at, rank, sub) /\ B = sub[l]
  OBVIOUS
<1>2. Apart(Before(N, at, rank, sub), at, sub[l], N)
  BY AheadFinite
<1>3. Cardinality({at} \cup A \cup B) = Cardinality(A) + Cardinality(B) + 1
  BY <1>1, <1>2, ApartCount
<1>4. Before(N, r, rank, sub) = {at} \cup A \cup B
  BY <1>1, AheadOfRight
<1> QED
  BY <1>1, <1>3, <1>4

\* the node whose rank is the k asked for holds the k-th datum
LEMMA KthDatum ==
    ASSUME NEW t, NEW N, IsFiniteSet(N), NEW rank, NEW sub, Shape(t, N, rank, sub),
           \A n \in N : t.key[n] \in Int, NEW at \in N,
           NEW l, l = t.kid["left"][at], NEW k,
           k = Cardinality(Before(N, at, rank, sub)) + Cardinality(sub[l]) + 1
    PROVE  /\ Cardinality({n \in N : t.key[n] < t.key[at]}) < k
           /\ k <= Cardinality({n \in N : t.key[n] <= t.key[at]})
<1>1. PICK A, B, S, T : /\ A = Before(N, at, rank, sub) /\ B = sub[l]
                        /\ S = {n \in N : t.key[n] < t.key[at]}
                        /\ T = {n \in N : t.key[n] <= t.key[at]}
  OBVIOUS
<1>a. Apart(Before(N, at, rank, sub), at, sub[l], N)
  BY AheadFinite
<1>b. Apart(A, at, B, N)
  BY <1>1, <1>a
<1>2. /\ IsFiniteSet(A) /\ IsFiniteSet(B) /\ A \cap B = {} /\ at \notin A /\ at \notin B
      /\ B \subseteq N
  BY <1>b DEF Apart
<1>3. /\ IsFiniteSet({at} \cup A \cup B)
      /\ Cardinality({at} \cup A \cup B) = Cardinality(A) + Cardinality(B) + 1
      /\ Cardinality(A) \in Nat /\ Cardinality(B) \in Nat
  BY <1>b, ApartCount
<1>4. IsFiniteSet(A \cup B) /\ Cardinality(A \cup B) = Cardinality(A) + Cardinality(B)
  <2>1. PICK C : C = A \cup B
    OBVIOUS
  <2>2. {at} \cup A \cup B = C \cup {at} /\ at \notin C
    BY <2>1, <1>2
  <2>3. IsFiniteSet(C)
    BY <2>1, <1>2, FS_Union
  <2>4. Cardinality(C \cup {at}) = Cardinality(C) + 1 /\ Cardinality(C) \in Nat
    BY <2>2, <2>3, FS_AddElement, FS_CardinalityType
  <2> QED
    BY <2>1, <2>2, <2>3, <2>4, <1>3
\* what is below or ahead, and what is not
<1>5. \A n \in N : n \in A \cup B <=> rank[n] < rank[at]
  <2> SUFFICES ASSUME NEW n \in N
               PROVE  n \in A \cup B <=> rank[n] < rank[at]
    OBVIOUS
  <2>1. rank[n] \in Int /\ rank[at] \in Int
    BY DEF Shape
  <2>2. n \in sub[at] => n = at \/ n \in B \/ n \in sub[t.kid["right"][at]]
    BY <1>1, KidsBelow DEF Sides
  <2>3. /\ n \in B => rank[n] < rank[at]
        /\ n \in sub[t.kid["right"][at]] => rank[at] < rank[n]
    BY <1>1 DEF Shape, Ordered
  <2>4. n \in A <=> n \notin sub[at] /\ rank[n] < rank[at]
    BY <1>1 DEF Before
  <2> QED
    BY <2>1, <2>2, <2>3, <2>4
<1>6. \A n \in N : /\ rank[n] < rank[at] => t.key[n] <= t.key[at]
                   /\ t.key[n] < t.key[at] => rank[n] < rank[at]
  BY DataOrder
<1>7. S \subseteq A \cup B /\ {at} \cup A \cup B \subseteq T
  <2>1. S \subseteq A \cup B
    BY <1>1, <1>5, <1>6
  <2>2. A \subseteq N
    BY <1>1 DEF Before
  <2>3. {at} \cup A \cup B \subseteq T
    BY <2>2, <1>1, <1>2, <1>5, <1>6
  <2> QED
    BY <2>1, <2>3
<1>8. Cardinality(S) <= Cardinality(A \cup B) /\ Cardinality(S) \in Nat
  <2>1. IsFiniteSet(S)
    BY <1>4, <1>7, FS_Subset
  <2> QED
    BY <2>1, <1>4, <1>7, FS_Subset, FS_CardinalityType
<1>9. Cardinality({at} \cup A \cup B) <= Cardinality(T) /\ Cardinality(T) \in Nat
  <2>1. IsFiniteSet(T)
    <3>1. T \subseteq N
      BY <1>1
    <3> QED
      BY <3>1, FS_Subset
  <2> QED
    BY <2>1, <1>7, FS_Subset, FS_CardinalityType
<1> QED
  BY <1>1, <1>3, <1>4, <1>8, <1>9

-----------------------------------------------------------------------------
(* interval_search: one step down keeps an overlapping interval below.     *)

Meet(t, a, h, n) == t.key[n] <= h /\ a <= t.high[n]
Lengths(t, N) == \A n \in N : t.key[n] \in Int /\ t.high[n] \in Int /\ t.key[n] <= t.high[n]

LEMMA OverlapLeft ==
    ASSUME NEW t, NEW N, NEW rank, NEW sub, Shape(t, N, rank, sub), Lengths(t, N),
           NEW a \in Int, NEW h \in Int, a <= h, a > 0 \/ \A n \in N : t.high[n] >= 0,
           NEW at \in N, ~Meet(t, a, h, at), NEW l \in N, l = t.kid["left"][at],
           Spanned(t, l, sub), t.maxHigh[l] \in Int, t.maxHigh[l] >= a,
           NEW n \in sub[at], Meet(t, a, h, n)
    PROVE  \E m \in sub[l] : Meet(t, a, h, m)
<1>1. "left" \in Sides /\ "right" \in Sides
  BY DEF Sides
<1>2. sub[at] \subseteq N /\ l \in sub[l] /\ sub[l] \subseteq N
  BY KidsBelow
<1>3. n = at \/ n \in sub[l] \/ n \in sub[t.kid["right"][at]]
  BY KidsBelow DEF Sides
<1>4. CASE n \in sub[t.kid["right"][at]]
  <2>1. ASSUME NEW m \in sub[l] PROVE t.key[m] <= h
    <3>1. rank[m] < rank[at] /\ rank[at] < rank[n]
      BY <1>4 DEF Shape, Ordered
    <3>2. rank[m] \in Int /\ rank[at] \in Int /\ rank[n] \in Int /\ m \in N /\ n \in N
      BY <1>2 DEF Shape
    <3>3. rank[m] < rank[n]
      BY <3>1, <3>2
    <3>4. t.key[m] <= t.key[n]
      BY <3>2, <3>3 DEF Shape, Ordered
    <3>5. t.key[m] \in Int /\ t.key[n] \in Int /\ t.key[n] <= h
      BY <3>2 DEF Lengths, Meet
    <3> QED
      BY <3>4, <3>5
  <2>2. \E m \in sub[l] : a <= t.high[m]
    <3>1. CASE t.maxHigh[l] <= 0
      <4>1. t.high[l] >= 0 /\ t.high[l] \in Int
        BY <3>1 DEF Lengths
      <4> QED
        BY <3>1, <4>1, <1>2
    <3>2. CASE \E m \in sub[l] : t.high[m] = t.maxHigh[l]
      BY <3>2
    <3> QED
      BY <3>1, <3>2 DEF Spanned
  <2> QED
    BY <2>1, <2>2 DEF Meet
<1> QED
  BY <1>3, <1>4

LEMMA OverlapRight ==
    ASSUME NEW t, NEW N, NEW rank, NEW sub, Shape(t, N, rank, sub), Lengths(t, N),
           NEW a \in Int, NEW h \in Int,
           NEW at \in N, ~Meet(t, a, h, at), NEW l, l = t.kid["left"][at],
           l \in N => Spanned(t, l, sub) /\ t.maxHigh[l] \in Int /\ ~(t.maxHigh[l] >= a),
           NEW n \in sub[at], Meet(t, a, h, n)
    PROVE  n \in sub[t.kid["right"][at]]
<1>2. sub[at] \subseteq N /\ l \in N \cup {NIL}
  BY KidsBelow DEF Sides
<1>3. n = at \/ n \in sub[l] \/ n \in sub[t.kid["right"][at]]
  BY KidsBelow DEF Sides
<1>4. ASSUME n \in sub[l] PROVE FALSE
  <2>1. l \in N
    BY <1>2, <1>4 DEF Shape, Subtrees
  <2>2. t.high[n] <= t.maxHigh[l] /\ t.high[n] \in Int
    BY <1>2, <1>4, <2>1 DEF Spanned, Lengths
  <2> QED
    BY <2>1, <2>2 DEF Meet
<1> QED
  BY <1>3, <1>4

-----------------------------------------------------------------------------
(* in_order: what is printed, and what each entry of the stack stands for. *)

Queue(N, rank, out, m, P) ==
    /\ \A i, j \in 1..m : i < j => \A x \in P[i], y \in P[j] : rank[x] < rank[y]
    /\ \A i \in 1..Len(out), j \in 1..m : \A y \in P[j] : rank[out[i]] < rank[y]
    /\ \A i, j \in 1..Len(out) : i < j => rank[out[i]] < rank[out[j]]
    /\ \A n \in N : \/ \E i \in 1..Len(out) : out[i] = n
                    \/ \E j \in 1..m : n \in P[j]

\* the first entry is taken apart into two
LEMMA QueueSplit ==
    ASSUME NEW N, NEW rank, NEW out, NEW m \in Nat \ {0}, NEW P, Queue(N, rank, out, m, P),
           NEW Q, P[1] = Q[1] \cup Q[2], \A x \in Q[1], y \in Q[2] : rank[x] < rank[y],
           \A i \in 2..m : Q[i + 1] = P[i]
    PROVE  Queue(N, rank, out, m + 1, Q)
<1>1. \A i \in 1..(m + 1) : \/ i = 1 /\ Q[i] \subseteq P[1]
                            \/ i = 2 /\ Q[i] \subseteq P[1]
                            \/ i - 1 \in 2..m /\ Q[i] = P[i - 1]
  <2> SUFFICES ASSUME NEW i \in 1..(m + 1), i # 1, i # 2
               PROVE  i - 1 \in 2..m /\ Q[i] = P[i - 1]
    OBVIOUS
  <2>1. i - 1 \in 2..m /\ (i - 1) + 1 = i
    OBVIOUS
  <2> QED
    BY <2>1
<1>2. ASSUME NEW i \in 1..(m + 1), NEW j \in 1..(m + 1), i < j, NEW x \in Q[i], NEW y \in Q[j]
      PROVE  rank[x] < rank[y]
  <2>1. CASE i = 1 /\ j = 2
    BY <2>1
  <2>2. CASE i \in {1, 2} /\ j - 1 \in 2..m
    <3>1. x \in P[1] /\ y \in P[j - 1] /\ 1 \in 1..m /\ j - 1 \in 1..m /\ 1 < j - 1
      BY <1>1, <2>2
    <3> QED
      BY <3>1 DEF Queue
  <2>3. CASE i - 1 \in 2..m /\ j - 1 \in 2..m
    <3>0. i # 1 /\ i # 2 /\ j # 1 /\ j # 2
      BY <2>3
    <3>1. x \in P[i - 1] /\ y \in P[j - 1]
      BY <1>1, <3>0
    <3>2. i - 1 \in 1..m /\ j - 1 \in 1..m /\ i - 1 < j - 1
      BY <1>2, <2>3
    <3> QED
      BY <3>1, <3>2 DEF Queue
  <2>4. (i = 1 \/ i = 2 \/ i - 1 \in 2..m) /\ (j = 1 \/ j = 2 \/ j - 1 \in 2..m)
    BY <1>1
  <2> QED
    BY <1>2, <2>1, <2>2, <2>3, <2>4
<1>3. ASSUME NEW i \in 1..Len(out), NEW j \in 1..(m + 1), NEW y \in Q[j]
      PROVE  rank[out[i]] < rank[y]
  <2>1. 1 \in 1..m
    OBVIOUS
  <2>2. y \in P[1] \/ (j - 1 \in 2..m /\ y \in P[j - 1])
    BY <1>1
  <2>3. j - 1 \in 2..m => j - 1 \in 1..m
    OBVIOUS
  <2>4. PICK k \in 1..m : y \in P[k]
    BY <2>1, <2>2, <2>3
  <2> QED
    BY <2>4 DEF Queue
<1>4. ASSUME NEW n \in N, ~\E i \in 1..Len(out) : out[i] = n
      PROVE  \E j \in 1..(m + 1) : n \in Q[j]
  <2>1. PICK j \in 1..m : n \in P[j]
    BY <1>4 DEF Queue
  <2>2. CASE j = 1
    <3>1. 1 \in 1..(m + 1) /\ 2 \in 1..(m + 1)
      OBVIOUS
    <3> QED
      BY <2>1, <2>2, <3>1
  <2>3. CASE j \in 2..m
    <3>1. j + 1 \in 1..(m + 1) /\ n \in Q[j + 1]
      BY <2>1, <2>3
    <3> QED
      BY <3>1
  <2> QED
    BY <2>2, <2>3
<1>5. \A i, j \in 1..Len(out) : i < j => rank[out[i]] < rank[out[j]]
  BY DEF Queue
<1> QED
  BY <1>2, <1>3, <1>4, <1>5 DEF Queue

\* the least of the first entry is printed
LEMMA QueuePrint ==
    ASSUME NEW S, NEW N, NEW rank, NEW out \in Seq(S), NEW m \in Nat \ {0}, NEW P,
           Queue(N, rank, out, m, P),
           NEW Q, NEW n \in S, P[1] = {n} \cup Q[1], \A y \in Q[1] : rank[n] < rank[y],
           \A i \in 2..m : Q[i] = P[i], NEW more, more = Append(out, n)
    PROVE  Queue(N, rank, more, m, Q)
<1>1. /\ Len(more) = Len(out) + 1 /\ Len(out) \in Nat
      /\ \A i \in 1..Len(out) : more[i] = out[i]
      /\ more[Len(out) + 1] = n
  OBVIOUS
<1>2. \A i \in 1..m : Q[i] \subseteq P[i] /\ (i # 1 => Q[i] = P[i])
  OBVIOUS
<1>3. \A i, j \in 1..m : i < j => \A x \in Q[i], y \in Q[j] : rank[x] < rank[y]
  BY <1>2 DEF Queue
<1>4. ASSUME NEW i \in 1..Len(more), NEW j \in 1..m, NEW y \in Q[j]
      PROVE  rank[more[i]] < rank[y]
  <2>1. CASE i \in 1..Len(out)
    <3>1. y \in P[j] /\ more[i] = out[i]
      BY <1>1, <1>2, <2>1
    <3> QED
      BY <2>1, <3>1 DEF Queue
  <2>2. CASE i = Len(out) + 1 /\ j = 1
    BY <1>1, <2>2
  <2>3. CASE i = Len(out) + 1 /\ j # 1
    <3>1. n \in P[1] /\ y \in P[j] /\ 1 \in 1..m /\ 1 < j /\ more[i] = n
      BY <1>1, <1>2, <2>3
    <3> QED
      BY <3>1 DEF Queue
  <2> QED
    BY <1>1, <2>1, <2>2, <2>3
<1>5. ASSUME NEW i \in 1..Len(more), NEW j \in 1..Len(more), i < j
      PROVE  rank[more[i]] < rank[more[j]]
  <2>1. i \in 1..Len(out) /\ more[i] = out[i]
    BY <1>1, <1>5
  <2>2. CASE j \in 1..Len(out)
    <3>1. more[j] = out[j]
      BY <1>1, <2>2
    <3> QED
      BY <2>1, <2>2, <3>1, <1>5 DEF Queue
  <2>3. CASE j = Len(out) + 1
    <3>1. n \in P[1] /\ 1 \in 1..m /\ more[j] = n
      BY <1>1, <2>3
    <3> QED
      BY <2>1, <3>1 DEF Queue
  <2> QED
    BY <1>1, <2>2, <2>3
<1>6. ASSUME NEW k \in N, ~\E j \in 1..m : k \in Q[j]
      PROVE  \E i \in 1..Len(more) : more[i] = k
  <2>1. CASE \E i \in 1..Len(out) : out[i] = k
    <3>1. PICK i \in 1..Len(out) : out[i] = k
      BY <2>1
    <3>2. i \in 1..Len(more) /\ more[i] = k
      BY <3>1, <1>1
    <3> QED
      BY <3>2
  <2>2. CASE \E j \in 1..m : k \in P[j]
    <3>1. k = n
      BY <1>6, <2>2, <1>2
    <3>2. Len(out) + 1 \in 1..Len(more)
      BY <1>1
    <3> QED
      BY <3>1, <3>2, <1>1
  <2> QED
    BY <2>1, <2>2 DEF Queue
<1> QED
  BY <1>3, <1>4, <1>5, <1>6 DEF Queue

\* an entry that stands for nothing is dropped
LEMMA QueueDrop ==
    ASSUME NEW N, NEW rank, NEW out, NEW m \in Nat \ {0}, NEW P, Queue(N, rank, out, m, P),
           P[1] = {}, NEW Q, \A i \in 1..(m - 1) : Q[i] = P[i + 1]
    PROVE  Queue(N, rank, out, m - 1, Q)
<1>1. \A i \in 1..(m - 1) : i + 1 \in 1..m /\ Q[i] = P[i + 1]
  OBVIOUS
<1>2. ASSUME NEW i \in 1..(m - 1), NEW j \in 1..(m - 1), i < j, NEW x \in Q[i], NEW y \in Q[j]
      PROVE  rank[x] < rank[y]
  <2>1. x \in P[i + 1] /\ y \in P[j + 1] /\ i + 1 \in 1..m /\ j + 1 \in 1..m /\ i + 1 < j + 1
    BY <1>1, <1>2
  <2> QED
    BY <2>1 DEF Queue
<1>3. ASSUME NEW i \in 1..Len(out), NEW j \in 1..(m - 1), NEW y \in Q[j]
      PROVE  rank[out[i]] < rank[y]
  <2>1. y \in P[j + 1] /\ j + 1 \in 1..m
    BY <1>1
  <2> QED
    BY <2>1 DEF Queue
<1>4. ASSUME NEW n \in N, ~\E i \in 1..Len(out) : out[i] = n
      PROVE  \E j \in 1..(m - 1) : n \in Q[j]
  <2>1. PICK j \in 1..m : n \in P[j]
    BY <1>4 DEF Queue
  <2>2. j # 1
    BY <2>1
  <2>3. j - 1 \in 1..(m - 1) /\ (j - 1) + 1 = j
    BY <2>2
  <2> QED
    BY <2>1, <2>3
<1>5. \A i, j \in 1..Len(out) : i < j => rank[out[i]] < rank[out[j]]
  BY DEF Queue
<1> QED
  BY <1>2, <1>3, <1>4, <1>5 DEF Queue

-----------------------------------------------------------------------------
(* Every action keeps the invariant: insert.                               *)

LEMMA HeldSame ==
    ASSUME HeldCounts, kind' = kind, held' = held, nodes' = nodes,
           \A n \in nodes : tree'.key[n] = tree.key[n]
    PROVE  HeldCounts'
  BY DEF HeldCounts

LEMMA CallMoves ==
    ASSUME call \in Calls, NEW n \in Links, call' = [call EXCEPT !.at = n]
    PROVE  /\ call' \in Calls /\ call'.at = n
           /\ call'.pc = call.pc /\ call'.node = call.node /\ call'.temp = call.temp
           /\ call'.arg = call.arg /\ call'.high = call.high /\ call'.k = call.k
           /\ call'.black = call.black
  BY DEF Calls

\* the start of a call
Begin(pc, n, at) == [Idle EXCEPT !.pc = pc, !.node = n, !.at = at]

LEMMA CallBegins ==
    ASSUME NEW pc \in Loops, NEW n \in Links, NEW at \in Links, NEW c, c = Begin(pc, n, at)
    PROVE  c \in Calls /\ c.pc = pc /\ c.node = n /\ c.at = at /\ c.temp = NIL
<1>1. Idle \in Calls
  BY IdleCall
<1>2. Idle.temp = NIL
  BY DEF Idle
<1> QED
  BY <1>1, <1>2 DEF Calls, Begin

\* outside of the two ways up every node is in order
LEMMA NotStale ==
    ASSUME IInv, ~tree.dead, call.pc \notin Fixups
    PROVE  /\ \E rank, sub : Good(tree, nodes, rank, sub, NIL, 1) /\ Underway(rank, sub)
           /\ HeldCounts
<1>1. Stale = NIL /\ Off = 1
  BY DEF Stale, Off, Fixups
<1> QED
  BY <1>1 DEF IInv

LEMMA NodeOf ==
    ASSUME NEW d \in Data, NEW n \in NodesOf(d)
    PROVE  n \in Nodes /\ Datum(n) = d
  BY DEF Nodes, NodesOf, Datum

LEMMA InsertKeeps ==
    ASSUME IInv, NEW d \in Data, NEW low \in Int, NEW high \in Int, low <= high,
           Insert(d, low, high)
    PROVE  IInv'
<1>1. call = Idle /\ ~tree.dead /\ kind' = kind /\ nodes' = nodes /\ held' = held
  BY DEF Insert, Ready
<1>2. PICK n \in NodesOf(d) \ nodes :
         /\ tree' = NewNode(tree, n, low, high)
         /\ call' = [Idle EXCEPT !.pc = "descend", !.node = n, !.at = tree.root]
  BY DEF Insert
<1>3. n \in Nodes \ nodes /\ n \in Links
  BY <1>2, NodeOf, NilIsNoNode
<1>4. call.pc \notin Fixups
  BY <1>1, IdleCall DEF Fixups
<1>5. PICK rank, sub : Good(tree, nodes, rank, sub, NIL, 1)
  BY <1>1, <1>4, NotStale
<1>6. tree \in Trees
  BY <1>5 DEF Good
<1>7. kind # "int" => low = Datum(n)
  BY <1>2, NodeOf DEF Insert
<1>9. /\ ElsewhereSame(tree, tree', n)
      /\ tree'.key[n] = low /\ tree'.high[n] = high /\ tree'.size[n] = 1
      /\ tree'.maxHigh[n] = high
      /\ \A s \in Sides : tree'.kid[s][n] = NIL
  <2>1. n \in Nodes /\ tree' = NewNode(tree, n, low, high)
    BY <1>2, <1>3
  <2> QED
    BY <2>1, <1>6, NewNodeFields
<1>10. nodes \subseteq Nodes /\ IsFiniteSet(nodes)
  BY DEF IInv
<1>11. Good(tree', nodes', rank, sub, NIL, 1)
  <2>1. ElsewhereSame(tree, tree', n)
    BY <1>9
  <2>2. PICK e, o : e = NIL /\ o = 1
    OBVIOUS
  <2>3. Good(tree, nodes, rank, sub, e, o)
    BY <2>2, <1>5
  <2>4. Good(tree', nodes, rank, sub, e, o)
    BY <1>3, <1>10, <2>1, <2>3, GoodElsewhere
  <2> QED
    BY <1>1, <2>2, <2>4
<1>12. tree.root \in nodes \cup {NIL} /\ tree'.root = tree.root /\ tree.root \in Links
  BY <1>5, <1>9, <1>10, NilIsNoNode DEF Good, Shape, Linked, ElsewhereSame
<1>13. /\ call' \in Calls /\ call'.pc = "descend" /\ call'.node = n /\ call'.at = tree.root
       /\ call'.temp = NIL
  <2>1. PICK pc : pc = "descend"
    OBVIOUS
  <2>2. pc \in Loops
    BY <2>1 DEF Loops
  <2>3. call' = Begin(pc, n, tree.root)
    BY <1>2, <2>1 DEF Begin
  <2>4. n \in Links /\ tree.root \in Links
    BY <1>3, <1>12
  <2>5. PICK c : c = call'
    OBVIOUS
  <2>7. c \in Calls /\ c.pc = pc /\ c.node = n /\ c.at = tree.root /\ c.temp = NIL
    BY <2>2, <2>3, <2>4, <2>5, CallBegins
  <2> QED
    BY <2>1, <2>5, <2>7
<1>14. Stale' = NIL /\ Off' = 1
  BY <1>13 DEF Stale, Off
<1>15. Good(tree, nodes, rank, sub, Stale, Off)'
  <2>1. Good(tree', nodes', rank, sub, Stale', Off')
    BY <1>11, <1>14
  <2> QED
    BY <2>1, <1>1, GoodNext
<1>16. HeldCounts'
  <2>1. \A m \in nodes : tree'.key[m] = tree.key[m]
    BY <1>3, <1>9, <1>10 DEF ElsewhereSame
  <2>2. HeldCounts
    BY <1>1 DEF IInv
  <2> QED
    BY <1>1, <2>1, <2>2, HeldSame
<1>17. Fresh'
  <2>1. tree'.key[n] \in Int /\ tree'.key[n] <= tree'.high[n]
    BY <1>9
  <2>2. kind' # "int" => tree'.key[n] = Datum(n)
    BY <1>1, <1>7, <1>9
  <2> QED
    BY <1>1, <1>3, <1>9, <1>13, <2>1, <2>2 DEF Fresh, Kid
<1>18. Descending(rank, sub)'
  BY <1>12, <1>13 DEF Descending
<1>19. Underway(rank, sub)'
  BY <1>13, <1>17, <1>18 DEF Underway, In
<1>20. ~tree'.dead
  BY <1>11 DEF Good
<1>21. kind' \in Kinds /\ nodes' \subseteq Nodes /\ IsFiniteSet(nodes')
       /\ call'.at \in nodes' \cup {NIL}
  BY <1>1, <1>10, <1>12, <1>13 DEF IInv
<1> QED
  BY <1>13, <1>15, <1>16, <1>19, <1>20, <1>21 DEF IInv

\* the call's loop variables, and the tree around the node it has come to
LEMMA CallTypes ==
    ASSUME IInv
    PROVE  /\ nodes \subseteq Nodes /\ IsFiniteSet(nodes) /\ kind \in Kinds
           /\ call \in Calls /\ call.at \in nodes \cup {NIL} /\ call.at \in Links
           /\ call.node \in Links /\ NIL \notin nodes
           /\ \A n \in nodes \cup {NIL} : n \in Links
  BY NilIsNoNode DEF IInv, Calls

LEMMA GoodFacts ==
    ASSUME NEW t, NEW N, N \subseteq Nodes, NEW rank, NEW sub, NEW st, NEW off,
           Good(t, N, rank, sub, st, off)
    PROVE  /\ t \in Trees /\ ~t.dead /\ Sentinel(t) /\ Shape(t, N, rank, sub)
           /\ Lengths(t, N) /\ \A n \in N : t.key[n] \in Int
           /\ t.root \in N \cup {NIL} /\ (t.root = NIL => N = {})
           /\ sub[NIL] = {} /\ sub[t.root] = N
<1>1. t \in Trees /\ ~t.dead /\ Sentinel(t) /\ Shape(t, N, rank, sub)
      /\ \A n \in N : t.key[n] \in Int /\ t.key[n] <= t.high[n]
  BY DEF Good
<1>2. \A n \in N : t.key[n] \in Int /\ t.high[n] \in Int
  BY <1>1, TreeAssumption DEF Trees
<1>3. t.root \in N \cup {NIL} /\ sub[NIL] = {} /\ sub[t.root] = N
  BY <1>1 DEF Shape, Linked, Subtrees
<1> QED
  BY <1>1, <1>2, <1>3 DEF Lengths

LEMMA SideOfKid ==
    ASSUME NEW x, NEW y
    PROVE  /\ SideOf(x, y) = (IF x < y THEN "left" ELSE "right")
           /\ SideOf(x, y) \in Sides
  BY DEF SideOf, Sides

LEMMA DescendKeeps ==
    ASSUME IInv, Descend
    PROVE  IInv'
<1>1. /\ call.pc = "descend" /\ call.at # NIL /\ ReadOnly
      /\ call' = [call EXCEPT !.temp = call.at,
                              !.at = Kid(SideOf(tree.key[call.node], tree.key[call.at]), call.at)]
  BY DEF Descend, In
<1>2. ~tree.dead
  BY <1>1, NotDead
<1>3. call.pc \notin Fixups
  BY <1>1 DEF Fixups
<1>4. PICK rank, sub : Good(tree, nodes, rank, sub, NIL, 1) /\ Underway(rank, sub)
  BY <1>2, <1>3, NotStale
<1>5. PICK d, at, to, side : d = tree.key[call.node] /\ at = call.at
                             /\ side = SideOf(d, tree.key[at]) /\ to = Kid(side, at)
  OBVIOUS
<1>6. Fresh /\ Descending(rank, sub)
  BY <1>1, <1>4 DEF Underway, In
<1>7. Shape(tree, nodes, rank, sub) /\ \A m \in nodes : tree.key[m] \in Int
  BY <1>4, CallTypes, GoodFacts
<1>8. at \in nodes
  BY <1>1, <1>5, CallTypes
<1>9. side \in Sides
  BY <1>5, SideOfKid
<1>10. to \in nodes \cup {NIL}
  BY <1>5, <1>7, <1>8, <1>9, KidsBelow DEF Kid
<1>11. /\ call' \in Calls /\ call'.pc = "descend" /\ call'.node = call.node
       /\ call'.temp = at /\ call'.at = to
  <2>1. call' = [call EXCEPT !.temp = at, !.at = to]
    BY <1>1, <1>5
  <2>2. at \in Links /\ to \in Links /\ call \in Calls
    BY <1>5, <1>10, CallTypes
  <2> QED
    BY <1>1, <2>1, <2>2 DEF Calls
<1>12. Belongs(tree, nodes, rank, sub, at, d)
  <2>1. CASE call.temp = NIL
    <3>1. sub[at] = nodes
      BY <1>5, <1>6, <2>1, <1>7 DEF Descending, Shape, Subtrees
    <3> QED
      BY <3>1 DEF Belongs
  <2>2. CASE call.temp # NIL
    <3>1. PICK temp, s : temp = call.temp /\ s = SideOf(d, tree.key[temp])
      OBVIOUS
    <3>2. temp \in nodes /\ at = tree.kid[s][temp] /\ Belongs(tree, nodes, rank, sub, temp, d)
      BY <1>5, <1>6, <2>2, <3>1 DEF Descending, Belongs, Kid
    <3>3. s = (IF d < tree.key[temp] THEN "left" ELSE "right")
      BY <3>1, SideOfKid
    <3>4. d \in Int
      BY <1>5, <1>6, TreeAssumption DEF Fresh
    <3>5. NIL \notin nodes
      BY CallTypes
    <3> QED
      BY <1>7, <1>8, <3>2, <3>3, <3>4, <3>5, BelongsBelow
  <2> QED
    BY <2>1, <2>2
<1>13. tree' = tree /\ nodes' = nodes
  BY <1>1 DEF ReadOnly
<1>14. Fresh'
  <2>1. kind' = kind
    BY <1>1 DEF ReadOnly
  <2> QED
    BY <1>6, <1>11, <1>13, <2>1 DEF Fresh, Kid
<1>15. Descending(rank, sub)'
  <2>1. at # NIL /\ tree'.key[call'.node] = d
    BY <1>1, <1>5, <1>11, <1>13
  <2>2. call'.at = tree'.kid[SideOf(d, tree'.key[at])][at]
    BY <1>5, <1>11, <1>13 DEF Kid
  <2>3. \A m \in nodes \ sub[at] : rank[m] < rank[at] <=> tree.key[m] <= d
    BY <1>12 DEF Belongs
  <2> QED
    BY <1>5, <1>8, <1>11, <1>13, <2>1, <2>2, <2>3 DEF Descending, Kid
<1>16. Underway(rank, sub)'
  BY <1>11, <1>14, <1>15 DEF Underway, In
<1>17. call'.pc \notin Fixups /\ call'.at \in nodes \cup {NIL} /\ call' \in Calls
  BY <1>10, <1>11 DEF Fixups
<1> QED
  BY <1>1, <1>2, <1>3, <1>4, <1>16, <1>17, Reading

\* one more node with its datum
LEMMA HeldMore ==
    ASSUME HeldCounts, kind' = kind, IsFiniteSet(nodes), NEW n, n \notin nodes,
           nodes' = nodes \cup {n}, tree'.key = tree.key, Datum(n) \in Data,
           kind # "int" => tree.key[n] = Datum(n),
           held' = [held EXCEPT ![Datum(n)] = @ + 1]
    PROVE  HeldCounts'
<1>1. ASSUME NEW d \in Data
      PROVE  held'[d] = Cardinality({m \in nodes' : Datum(m) = d})
  <2>1. PICK S, T : /\ S = {m \in nodes : Datum(m) = d}
                    /\ T = {m \in nodes' : Datum(m) = d}
    OBVIOUS
  <2>2. held[d] = Cardinality(S) /\ held'[d] = (IF d = Datum(n) THEN held[d] + 1 ELSE held[d])
    BY <2>1 DEF HeldCounts
  <2>3. IsFiniteSet(S) /\ n \notin S
    <3>1. S \subseteq nodes
      BY <2>1
    <3> QED
      BY <3>1, FS_Subset
  <2>4. CASE d = Datum(n)
    <3>1. T = S \cup {n}
      BY <2>1, <2>4
    <3>2. Cardinality(T) = Cardinality(S) + 1
      BY <2>3, <3>1, FS_AddElement
    <3> QED
      BY <2>1, <2>2, <2>4, <3>2
  <2>5. CASE d # Datum(n)
    <3>1. T = S
      BY <2>1, <2>5
    <3> QED
      BY <2>1, <2>2, <2>5, <3>1
  <2> QED
    BY <2>4, <2>5
<1>2. held' = [d \in Data |-> held'[d]]
  BY DEF HeldCounts
<1>3. kind' # "int" => \A m \in nodes' : tree'.key[m] = Datum(m)
  BY DEF HeldCounts
<1> QED
  BY <1>1, <1>2, <1>3 DEF HeldCounts

\* what the invariant asks of a step that changes the tree
LEMMA Kept_IInv ==
    ASSUME kind' = kind, kind \in Kinds, nodes' \subseteq Nodes, IsFiniteSet(nodes'),
           call' \in Calls, call'.at \in nodes' \cup {NIL}, HeldCounts',
           NEW rank, NEW sub, Good(tree', nodes', rank, sub, Stale', Off'), Underway(rank, sub)'
    PROVE  IInv'
<1>1. Good(tree, nodes, rank, sub, Stale, Off)'
  BY GoodNext
<1>2. ~tree'.dead
  BY DEF Good
<1> QED
  BY <1>1, <1>2 DEF IInv

LEMMA LinkKeeps ==
    ASSUME IInv, Link
    PROVE  IInv'
<1>1. PICK n, temp, at, pc : /\ n = call.node /\ temp = call.temp /\ pc = "insert_fixup"
                             /\ at = IF kind = "rb" THEN NIL ELSE temp
  OBVIOUS
<1>2. /\ call.pc = "descend" /\ call.at = NIL /\ kind' = kind
      /\ tree' = Hang(tree, n, temp)
      /\ nodes' = nodes \cup {n}
      /\ held' = [held EXCEPT ![Datum(n)] = @ + 1]
      /\ call' = Begin(pc, n, at)
  BY <1>1 DEF Link, In, Begin
<1>3. ~tree.dead
  BY <1>2, NotDead
<1>4. call.pc \notin Fixups
  BY <1>2 DEF Fixups
<1>5. PICK rank, sub : Good(tree, nodes, rank, sub, NIL, 1) /\ Underway(rank, sub)
  BY <1>3, <1>4, NotStale
<1>6. Fresh /\ Descending(rank, sub) /\ HeldCounts
  BY <1>2, <1>3, <1>4, <1>5, NotStale DEF Underway, In
<1>7. nodes \subseteq Nodes /\ IsFiniteSet(nodes) /\ NIL \notin nodes /\ kind \in Kinds
  BY CallTypes
<1>8. n \in Nodes \ nodes /\ n \in Links /\ NewAt(tree, n)
  BY <1>1, <1>6, NilIsNoNode DEF Fresh, NewAt, Kid
<1>9. temp \in nodes \cup {NIL} /\ (temp = NIL => tree.root = NIL)
  BY <1>1, <1>2, <1>6 DEF Descending
<1>10. temp # NIL =>
         /\ tree.kid[IF tree.key[n] < tree.key[temp] THEN "left" ELSE "right"][temp] = NIL
         /\ Belongs(tree, nodes, rank, sub, temp, tree.key[n])
  BY <1>1, <1>2, <1>6 DEF Descending, Belongs, Kid, SideOf
<1>11. PICK ranks, subs : Good(tree', nodes \cup {n}, ranks, subs, temp, -1)
  <2>1. PICK z, e : z = 0 /\ e = NIL
    OBVIOUS
  <2>2. Good(tree, nodes, rank, sub, NIL, z)
    <3>1. PICK o : o = 1
      OBVIOUS
    <3>2. Good(tree, nodes, rank, sub, NIL, o)
      BY <1>5, <3>1
    <3> QED
      BY <1>7, <3>2, OffFree
  <2>3. Good(tree, nodes, rank, sub, NIL, 0)
    BY <2>1, <2>2
  <2>4. \E ranks, subs : Good(tree', nodes \cup {n}, ranks, subs, temp, -1)
    BY <1>2, <1>7, <1>8, <1>9, <1>10, <2>3, HangGood
  <2> QED
    BY <2>4
<1>12. tree'.key = tree.key
  <2>1. tree \in Trees
    BY <1>5 DEF Good
  <2> QED
    BY <1>2 DEF Hang
<1>13. nodes' \subseteq Nodes /\ IsFiniteSet(nodes') /\ n \in nodes'
  BY <1>2, <1>7, <1>8, FS_AddElement
<1>14. call' \in Calls /\ call'.pc = pc /\ call'.node = n /\ call'.at = at
  <2>1. pc \in Loops
    BY <1>1 DEF Loops
  <2>2. at \in Links
    BY <1>1, <1>7, <1>9, NilIsNoNode
  <2>3. PICK c : c = call'
    OBVIOUS
  <2>4. c \in Calls /\ c.pc = pc /\ c.node = n /\ c.at = at
    BY <1>2, <1>8, <2>1, <2>2, <2>3, CallBegins
  <2> QED
    BY <2>3, <2>4
<1>15. Stale' = at /\ Off' = -1
  BY <1>1, <1>14 DEF Stale, Off
<1>16. Good(tree', nodes', ranks, subs, Stale', Off')
  <2>1. Good(tree', nodes', ranks, subs, at, -1)
    <3>1. CASE kind = "rb"
      <4>1. PICK o : o = -1
        OBVIOUS
      <4>2. Good(tree', nodes', ranks, subs, temp, o)
        BY <1>2, <1>11, <4>1
      <4>3. Good(tree', nodes', ranks, subs, at, o)
        BY <3>1, <4>2, NothingBooked
      <4> QED
        BY <4>1, <4>3
    <3>2. CASE kind # "rb"
      BY <1>1, <1>2, <1>11, <3>2
    <3> QED
      BY <3>1, <3>2
  <2> QED
    BY <1>15, <2>1
<1>17. HeldCounts'
  <2>1. Datum(n) \in Data
    BY <1>8, DatumType
  <2>2. kind # "int" => tree.key[n] = Datum(n)
    BY <1>1, <1>6 DEF Fresh
  <2> QED
    BY <1>2, <1>6, <1>7, <1>8, <1>12, <2>1, <2>2, HeldMore
<1>18. Underway(ranks, subs)'
  BY <1>1, <1>13, <1>14 DEF Underway, In
<1>19. call'.at \in nodes' \cup {NIL} /\ call' \in Calls
  BY <1>1, <1>2, <1>9, <1>14
<1> QED
  BY <1>2, <1>7, <1>13, <1>16, <1>17, <1>18, <1>19, Kept_IInv

LEMMA ClimbKeeps ==
    ASSUME IInv, Climb
    PROVE  IInv'
<1>1. PICK st, off, up : /\ st = call.at /\ off = Off /\ up = tree.parent[st]
  OBVIOUS
<1>2. /\ call.pc \in Fixups /\ st # NIL /\ nodes' = nodes /\ kind' = kind /\ held' = held
      /\ call' = [call EXCEPT !.at = up]
  BY <1>1 DEF Climb, Fixups, MoveTo
<1>3. ~tree.dead
  <2>1. call.pc # "idle"
    BY <1>2 DEF Fixups
  <2> QED
    BY <2>1, NotDead
<1>4. Stale = st
  BY <1>1, <1>2 DEF Stale, Fixups
<1>5. PICK rank, sub : Good(tree, nodes, rank, sub, st, off) /\ Underway(rank, sub)
  BY <1>1, <1>3, <1>4 DEF IInv
<1>6. HeldCounts
  BY <1>3 DEF IInv
<1>7. nodes \subseteq Nodes /\ IsFiniteSet(nodes) /\ NIL \notin nodes /\ kind \in Kinds
      /\ st \in nodes /\ call \in Calls
  BY <1>1, <1>2, CallTypes
<1>8. off \in Int /\ (In("insert_fixup") => off = -1) /\ (~In("insert_fixup") => off = 1)
  BY <1>1 DEF Off, In
<1>9. tree \in Trees /\ Shape(tree, nodes, rank, sub)
  BY <1>5 DEF Good
<1>10. tree' = Climbed(tree, st, off)
  <2>1. kind # "os" => tree' = [tree EXCEPT !.maxHigh[st] = GetMaxHigh(tree, st)]
    BY <1>1 DEF Climb
  <2>2. ASSUME kind = "os" PROVE tree' = [tree EXCEPT !.size[st] = @ - off]
    <3>1. tree.size[st] \in Int
      BY <1>7, <1>9, NilIsNoNode DEF Trees
    <3>2. CASE In("insert_fixup")
      <4>1. tree' = [tree EXCEPT !.size[st] = tree.size[st] + 1]
        BY <1>1, <2>2, <3>2 DEF Climb
      <4>2. tree.size[st] + 1 = tree.size[st] - off
        BY <1>8, <3>1, <3>2
      <4> QED
        BY <4>1, <4>2
    <3>3. CASE ~In("insert_fixup")
      <4>1. tree' = [tree EXCEPT !.size[st] = tree.size[st] - 1]
        BY <1>1, <2>2, <3>3 DEF Climb
      <4>2. tree.size[st] - 1 = tree.size[st] - off
        BY <1>8, <3>1, <3>3
      <4> QED
        BY <4>1, <4>2
    <3> QED
      BY <3>2, <3>3
  <2> QED
    BY <2>1, <2>2 DEF Climbed
<1>11. /\ Good(tree', nodes, rank, sub, up, off)
       /\ tree'.key = tree.key /\ tree'.parent = tree.parent /\ tree'.root = tree.root
  BY <1>1, <1>5, <1>7, <1>8, <1>10, ClimbGood
<1>12. up \in nodes \cup {NIL} /\ up \in Links
  <2>1. up \in nodes \cup {NIL}
    BY <1>1, <1>7, <1>9, RootUp
  <2> QED
    BY <2>1, CallTypes
<1>13. /\ call' \in Calls /\ call'.at = up /\ call'.pc = call.pc /\ call'.node = call.node
  BY <1>2, <1>7, <1>12, CallMoves
<1>14. Stale' = up /\ Off' = off
  BY <1>1, <1>2, <1>13 DEF Stale, Off, Fixups
<1>15. Good(tree', nodes', rank, sub, Stale', Off')
  BY <1>2, <1>11, <1>14
<1>16. HeldCounts'
  BY <1>2, <1>6, <1>11, HeldSame
<1>17. Underway(rank, sub)'
  BY <1>2, <1>5, <1>11, <1>13 DEF Underway, In, Fixups
<1>18. nodes' \subseteq Nodes /\ IsFiniteSet(nodes') /\ call'.at \in nodes' \cup {NIL}
  BY <1>2, <1>7, <1>12, <1>13
<1> QED
  BY <1>2, <1>7, <1>13, <1>15, <1>16, <1>17, <1>18, Kept_IInv

-----------------------------------------------------------------------------
(* The passes of the two fixups.                                           *)

\* a pass of a fixup goes on with a node, or ends the call
GoesOn == /\ ~tree'.dead /\ call.pc \in Fixups /\ call' \in Calls
          /\ call'.pc = call.pc /\ call'.at = NIL
          /\ \/ call'.node \in nodes
             \/ /\ call.pc = "remove_fixup" /\ call'.node = NIL
                /\ tree'.root # NIL => tree'.parent[NIL] \in nodes

LEMMA PassKeeps ==
    ASSUME IInv, ~tree.dead, kind' = kind, nodes' = nodes, held' = held,
           Safe(tree, tree', nodes), call' = Idle \/ GoesOn
    PROVE  IInv'
<1>1. nodes \subseteq Nodes /\ IsFiniteSet(nodes) /\ NIL \notin nodes /\ kind \in Kinds
  BY CallTypes
<1>2. call' \in Calls /\ call'.at = NIL
  BY IdleCall DEF GoesOn
<1>3. CASE tree'.dead
  <2>1. call' = Idle
    BY <1>3 DEF GoesOn
  <2> QED
    BY <1>1, <1>2, <1>3, <2>1 DEF IInv
<1>4. CASE ~tree'.dead
  <2>1. Whole(tree', nodes) /\ tree'.key = tree.key
    BY <1>4 DEF Safe
  <2>2. Stale' = NIL
    BY <1>2 DEF Stale
  <2>3. PICK o : o = Off'
    OBVIOUS
  <2>4. PICK rank, sub : Good(tree', nodes, rank, sub, NIL, o)
    BY <1>1, <2>1, OfWhole
  <2>5. Good(tree', nodes', rank, sub, Stale', Off')
    BY <2>2, <2>3, <2>4
  <2>6. HeldCounts'
    <3>1. HeldCounts
      BY DEF IInv
    <3> QED
      BY <2>1, <3>1, HeldSame
  <2>7. Underway(rank, sub)'
    <3>1. CASE call' = Idle
      BY <3>1, IdleCall DEF Underway, In
    <3>2. CASE GoesOn
      BY <3>2 DEF GoesOn, Fixups, Underway, In
    <3> QED
      BY <3>1, <3>2
  <2>8. nodes' \subseteq Nodes /\ IsFiniteSet(nodes') /\ call'.at \in nodes' \cup {NIL}
    BY <1>1, <1>2
  <2> QED
    BY <1>1, <1>2, <2>5, <2>6, <2>7, <2>8, Kept_IInv
<1> QED
  BY <1>3, <1>4

LEMMA CallGoesOn ==
    ASSUME call \in Calls, NEW n \in Links, call' = [call EXCEPT !.node = n]
    PROVE  /\ call' \in Calls /\ call'.node = n /\ call'.pc = call.pc /\ call'.at = call.at
  BY DEF Calls

\* at the start of a pass
LEMMA PassStarts ==
    ASSUME IInv, call.pc \in Fixups, call.at = NIL
    PROVE  /\ ~tree.dead /\ Whole(tree, nodes)
           /\ \/ call.node \in nodes
              \/ /\ call.pc = "remove_fixup" /\ call.node = NIL
                 /\ tree.root # NIL => tree.parent[NIL] \in nodes
<1>1. ~tree.dead
  <2>1. call.pc # "idle"
    BY DEF Fixups
  <2> QED
    BY <2>1, NotDead
<1>2. Stale = NIL
  BY DEF Stale
<1>3. PICK o : o = Off
  OBVIOUS
<1>4. PICK rank, sub : Good(tree, nodes, rank, sub, NIL, o) /\ Underway(rank, sub)
  BY <1>1, <1>2, <1>3 DEF IInv
<1>5. Whole(tree, nodes)
  BY <1>4, CallTypes, WholeOf
<1> QED
  BY <1>1, <1>4, <1>5 DEF Underway, In, Fixups

LEMMA InsertFixupKeeps ==
    ASSUME IInv, InsertFixup
    PROVE  IInv'
<1>1. PICK n, side, up :
         /\ n = call.node
         /\ side = (IF tree.parent[n] = tree.kid["left"][tree.parent[tree.parent[n]]]
                    THEN "left" ELSE "right")
         /\ up = Upper(tree, n, side)
  OBVIOUS
<1>2. /\ call.pc = "insert_fixup" /\ call.at = NIL /\ tree.color[tree.parent[n]] = "RED"
      /\ tree' = InsertPass(tree, n) /\ kind' = kind /\ nodes' = nodes /\ held' = held
      /\ IF tree'.dead THEN call' = Idle ELSE call' = [call EXCEPT !.node = up]
  BY <1>1 DEF InsertFixup, In, GoOn, Return
<1>3. call.pc \in Fixups
  BY <1>2 DEF Fixups
<1>4. ~tree.dead /\ Whole(tree, nodes) /\ n \in nodes
  BY <1>1, <1>2, <1>3, PassStarts
<1>5. nodes \subseteq Nodes /\ IsFiniteSet(nodes) /\ call \in Calls
  BY CallTypes
<1>6. Safe(tree, tree', nodes) /\ (~tree'.dead => up \in nodes)
  <2>1. PICK r : r = tree'
    OBVIOUS
  <2>2. Safe(tree, r, nodes) /\ (~r.dead => Upper(tree, n, side) \in nodes)
    BY <1>1, <1>2, <1>4, <1>5, <2>1, InsertPassSafe
  <2> QED
    BY <1>1, <2>1, <2>2
<1>7. ASSUME ~tree'.dead PROVE GoesOn
  <2>1. up \in nodes /\ up \in Links /\ call' = [call EXCEPT !.node = up]
    BY <1>2, <1>6, <1>7, CallTypes
  <2> QED
    BY <1>2, <1>3, <1>5, <1>7, <2>1, CallGoesOn DEF GoesOn
<1> QED
  BY <1>2, <1>4, <1>6, <1>7, PassKeeps

LEMMA InsertDoneKeeps ==
    ASSUME IInv, InsertDone
    PROVE  IInv'
<1>1. PICK c : c = "BLACK"
  OBVIOUS
<1>2. /\ call.pc = "insert_fixup" /\ call.at = NIL /\ call' = Idle
      /\ tree' = Paint(tree, tree.root, c) /\ kind' = kind /\ nodes' = nodes /\ held' = held
  BY <1>1 DEF InsertDone, In, Return
<1>3. call.pc \in Fixups
  BY <1>2 DEF Fixups
<1>4. ~tree.dead /\ Whole(tree, nodes) /\ call.node \in nodes
  BY <1>2, <1>3, PassStarts
<1>5. nodes \subseteq Nodes
  BY CallTypes
<1>6. tree.root \in nodes
  BY <1>4, <1>5, WholeFacts
<1>7. c \in Colors
  BY <1>1 DEF Colors
<1>8. Safe(tree, tree', nodes)
  BY <1>2, <1>4, <1>5, <1>6, <1>7, PaintSafe
<1> QED
  BY <1>2, <1>4, <1>8, PassKeeps

LEMMA RemoveFixupKeeps ==
    ASSUME IInv, RemoveFixup
    PROVE  IInv'
<1>1. PICK n, p, side, t, nx :
         /\ n = call.node /\ p = tree.parent[n]
         /\ side = (IF n = tree.kid["left"][p] THEN "left" ELSE "right")
         /\ t = RedBrother(tree, p, side)
         /\ nx = NextNode(t, n, p, side)
  OBVIOUS
<1>2. /\ call.pc = "remove_fixup" /\ call.at = NIL /\ ~FixedUp
      /\ tree' = BlackBrother(t, p, side) /\ kind' = kind /\ nodes' = nodes /\ held' = held
      /\ IF tree'.dead THEN call' = Idle ELSE call' = [call EXCEPT !.node = nx]
  BY <1>1 DEF RemoveFixup, In, GoOn, Return
<1>3. call.pc \in Fixups
  BY <1>2 DEF Fixups
<1>4. ~tree.dead /\ Whole(tree, nodes)
      /\ (n \in nodes \/ (n = NIL /\ (tree.root # NIL => tree.parent[NIL] \in nodes)))
  BY <1>1, <1>2, <1>3, PassStarts
<1>5. nodes \subseteq Nodes /\ IsFiniteSet(nodes) /\ call \in Calls
  BY CallTypes
<1>6. n # tree.root
  BY <1>1, <1>2 DEF FixedUp
<1>7. p \in nodes
  BY <1>1, <1>4, <1>5, <1>6, WholeFacts
<1>8. side \in Sides
  BY <1>1 DEF Sides
<1>9. Safe(tree, t, nodes)
  BY <1>1, <1>4, <1>5, <1>7, <1>8, RedBrotherSafe
<1>10. t.dead \/ Whole(t, nodes)
  BY <1>9 DEF Safe
<1>11. PICK r : r = tree'
  OBVIOUS
<1>12. (t.dead => r.dead) /\ Safe(t, r, nodes)
  <2>1. r = BlackBrother(t, p, side)
    BY <1>2, <1>11
  <2> QED
    BY <1>5, <1>7, <1>8, <1>10, <2>1, BlackBrotherSafe
<1>13. Safe(tree, r, nodes)
  <2>1. t.dead \/ Safe(t, r, nodes)
    BY <1>12
  <2> QED
    BY <1>9, <1>12, <2>1, SafeSteps
<1>14. ASSUME ~tree'.dead PROVE GoesOn
  <2>1. Whole(tree', nodes) /\ tree'.parent[NIL] = tree.parent[NIL]
    BY <1>11, <1>13, <1>14 DEF Safe
  <2>2. tree'.root \in nodes
    BY <1>5, <1>7, <2>1, WholeFacts
  <2>3. nx = p \/ nx = n \/ nx = tree'.root
    BY <1>1 DEF NextNode
  <2>4. nx \in nodes \/ (nx = NIL /\ tree'.parent[NIL] \in nodes)
    <3>1. n = NIL => tree'.parent[NIL] = p
      BY <1>1, <2>1
    <3> QED
      BY <1>4, <1>7, <2>2, <2>3, <3>1
  <2>5. nx \in Links
    BY <2>4, CallTypes
  <2>6. call' = [call EXCEPT !.node = nx]
    BY <1>2, <1>14
  <2> QED
    BY <1>2, <1>3, <1>5, <1>14, <2>4, <2>5, <2>6, CallGoesOn DEF GoesOn
<1>15. Safe(tree, tree', nodes)
  BY <1>11, <1>13
<1> QED
  BY <1>2, <1>4, <1>14, <1>15, PassKeeps

LEMMA RemoveDoneKeeps ==
    ASSUME IInv, RemoveDone
    PROVE  IInv'
<1>1. PICK c, n : c = "BLACK" /\ n = call.node
  OBVIOUS
<1>2. /\ call.pc = "remove_fixup" /\ call.at = NIL /\ call' = Idle
      /\ kind' = kind /\ nodes' = nodes /\ held' = held
      /\ tree' = IF call.black THEN Paint(tree, n, c) ELSE tree
  BY <1>1 DEF RemoveDone, In, Return
<1>3. call.pc \in Fixups
  BY <1>2 DEF Fixups
<1>4. ~tree.dead /\ Whole(tree, nodes) /\ (n \in nodes \/ n = NIL)
  BY <1>1, <1>2, <1>3, PassStarts
<1>5. nodes \subseteq Nodes
  BY CallTypes
<1>6. c \in Colors
  BY <1>1 DEF Colors
<1>7. Safe(tree, tree, nodes)
  BY <1>4 DEF Safe
<1>8. Safe(tree, tree', nodes)
  <2>1. CASE ~call.black
    BY <1>2, <1>7, <2>1
  <2>2. CASE call.black /\ n \in nodes
    <3>1. tree' = Paint(tree, n, c)
      BY <1>2, <2>2
    <3> QED
      BY <1>4, <1>5, <1>6, <2>2, <3>1, PaintSafe
  <2>3. CASE call.black /\ n = NIL
    <3>1. tree.color[n] = c /\ tree \in Trees
      BY <1>1, <1>4, <1>5, <2>3, WholeFacts
    <3>2. [tree.color EXCEPT ![n] = c] = tree.color
      BY <3>1 DEF Trees
    <3>3. tree' = [tree EXCEPT !.color = [tree.color EXCEPT ![n] = c]]
      BY <1>2, <2>3 DEF Paint
    <3>4. [tree EXCEPT !.color = tree.color] = tree
      BY <3>1 DEF Trees
    <3> QED
      BY <1>7, <3>2, <3>3, <3>4
  <2> QED
    BY <1>4, <2>1, <2>2, <2>3
<1> QED
  BY <1>2, <1>4, <1>8, PassKeeps

-----------------------------------------------------------------------------
(* Remove: the search, and the node taken out.                             *)

\* the start of a call with an argument
Ask(pc, at, arg)           == [Idle EXCEPT !.pc = pc, !.at = at, !.arg = arg]
AskHigh(pc, at, arg, high) == [Idle EXCEPT !.pc = pc, !.at = at, !.arg = arg, !.high = high]
AskK(pc, at, arg, k)       == [Idle EXCEPT !.pc = pc, !.at = at, !.arg = arg, !.k = k]

LEMMA AskBegins ==
    ASSUME NEW pc \in Loops, NEW at \in Links, NEW arg \in Int, NEW x \in Int,
           NEW c, c = Ask(pc, at, arg) \/ c = AskHigh(pc, at, arg, x) \/ c = AskK(pc, at, arg, x)
    PROVE  /\ c \in Calls /\ c.pc = pc /\ c.at = at /\ c.arg = arg
           /\ c = AskHigh(pc, at, arg, x) => c.high = x
           /\ c = AskK(pc, at, arg, x) => c.k = x
<1>1. Idle \in Calls
  BY IdleCall
<1>2. CASE c = Ask(pc, at, arg)
  BY <1>1, <1>2 DEF Calls, Ask, AskHigh, AskK
<1>3. CASE c = AskHigh(pc, at, arg, x)
  BY <1>1, <1>3 DEF Calls, AskHigh, AskK
<1>4. CASE c = AskK(pc, at, arg, x)
  BY <1>1, <1>4 DEF Calls, AskHigh, AskK
<1> QED
  BY <1>2, <1>3, <1>4

\* a call that asks begins
LEMMA AskKeeps ==
    ASSUME IInv, Ready, ReadOnly, call' \in Calls, call'.pc \notin Fixups, call'.at = tree.root,
           \A rank, sub : Good(tree, nodes, rank, sub, NIL, 1) => Underway(rank, sub)'
    PROVE  IInv'
<1>1. call = Idle /\ ~tree.dead
  BY DEF Ready
<1>2. call.pc \notin Fixups
  BY <1>1, IdleCall DEF Fixups
<1>3. PICK rank, sub : Good(tree, nodes, rank, sub, NIL, 1)
  BY <1>1, <1>2, NotStale
<1>4. tree.root \in nodes \cup {NIL}
  BY <1>3, CallTypes, GoodFacts
<1>5. Underway(rank, sub)'
  BY <1>3
<1>6. call'.at \in nodes \cup {NIL}
  BY <1>4
<1> QED
  BY <1>1, <1>2, <1>3, <1>5, <1>6, Reading

\* between two calls the root is a link
LEMMA RootLink ==
    ASSUME IInv, Ready
    PROVE  tree.root \in Links
<1>1. call = Idle /\ ~tree.dead
  BY DEF Ready
<1>2. call.pc \notin Fixups
  BY <1>1, IdleCall DEF Fixups
<1>3. PICK rank, sub : Good(tree, nodes, rank, sub, NIL, 1)
  BY <1>1, <1>2, NotStale
<1> QED
  BY <1>3 DEF Good, Trees

LEMMA RemoveKeeps ==
    ASSUME IInv, NEW d \in Data, Remove(d)
    PROVE  IInv'
<1>1. Ready /\ ReadOnly
  BY DEF Remove
<1>2. PICK pc, c, r : pc = "search" /\ c = call' /\ r = tree.root
  OBVIOUS
<1>3. c = Ask(pc, r, d)
  BY <1>2 DEF Remove, Ask
<1>4. pc \in Loops /\ pc \notin Fixups /\ d \in Int /\ r \in Links
  BY <1>1, <1>2, RootLink, TreeAssumption DEF Loops, Fixups
<1>5. c \in Calls /\ c.pc = pc /\ c.at = r /\ c.arg = d
  BY <1>3, <1>4, AskBegins
<1>6. ASSUME NEW rank, NEW sub, Good(tree, nodes, rank, sub, NIL, 1)
      PROVE  Underway(rank, sub)'
  <2>1. sub[tree.root] = nodes
    BY <1>6 DEF Good, Shape, Subtrees
  <2>2. Searching(sub)'
    BY <1>1, <1>2, <1>5, <2>1 DEF Searching, ReadOnly
  <2> QED
    BY <1>2, <1>5, <2>2 DEF Underway, In
<1>7. call' \in Calls /\ call'.pc \notin Fixups /\ call'.at = tree.root
  BY <1>2, <1>4, <1>5
<1> QED
  BY <1>1, <1>6, <1>7, AskKeeps

\* while a call searches
LEMMA Looking ==
    ASSUME IInv, call.pc \notin Fixups, call.pc # "idle"
    PROVE  /\ ~tree.dead /\ HeldCounts
           /\ \E rank, sub : Good(tree, nodes, rank, sub, NIL, 1) /\ Underway(rank, sub)
  BY NotDead, NotStale

\* a call that reads moves on to a node
LEMMA MoveKeeps ==
    ASSUME IInv, ReadOnly, call.pc \notin Fixups, call.pc # "idle",
           NEW rank, NEW sub, Good(tree, nodes, rank, sub, NIL, 1),
           NEW n \in nodes \cup {NIL}, call' = [call EXCEPT !.at = n],
           /\ call'.at = n
           /\ call'.pc = call.pc /\ call'.node = call.node /\ call'.temp = call.temp
           /\ call'.arg = call.arg /\ call'.high = call.high /\ call'.k = call.k
             => Underway(rank, sub)'
    PROVE  IInv'
<1>1. n \in Links /\ call \in Calls
  BY CallTypes
<1>2. /\ call' \in Calls /\ call'.at = n
      /\ call'.pc = call.pc /\ call'.node = call.node /\ call'.temp = call.temp
      /\ call'.arg = call.arg /\ call'.high = call.high /\ call'.k = call.k
  BY <1>1, CallMoves
<1>3. ~tree.dead
  BY NotDead
<1> QED
  BY <1>2, <1>3, Reading

LEMMA SearchKeeps ==
    ASSUME IInv, Search
    PROVE  IInv'
<1>1. PICK at, d, side, to : /\ at = call.at /\ d = call.arg /\ side = SideOf(d, Datum(at))
                             /\ to = Kid(side, at)
  OBVIOUS
<1>2. /\ call.pc = "search" /\ at # NIL /\ Datum(at) # d /\ ReadOnly
      /\ call' = [call EXCEPT !.at = to]
  BY <1>1 DEF Search, In, MoveTo
<1>3. call.pc \notin Fixups /\ call.pc # "idle"
  BY <1>2 DEF Fixups
<1>4. PICK rank, sub : Good(tree, nodes, rank, sub, NIL, 1) /\ Underway(rank, sub)
  BY <1>3, Looking
<1>5. at \in nodes /\ nodes \subseteq Nodes
  BY <1>1, <1>2, CallTypes
<1>6. Shape(tree, nodes, rank, sub) /\ \A m \in nodes : tree.key[m] \in Int
  BY <1>4, CallTypes, GoodFacts
<1>7. side \in Sides /\ side = (IF d < Datum(at) THEN "left" ELSE "right")
  BY <1>1, SideOfKid
<1>8. to \in nodes \cup {NIL}
  BY <1>1, <1>5, <1>6, <1>7, KidsBelow DEF Kid
<1>s. Searching(sub)
  BY <1>2, <1>4 DEF Underway, In
<1>9. SameOrder => \A n \in nodes : Datum(n) = d => n \in sub[to]
  <2> SUFFICES ASSUME SameOrder, NEW n \in nodes, Datum(n) = d
               PROVE  n \in sub[to]
    OBVIOUS
  <2>1. n \in sub[at]
    BY <1>1, <1>s DEF Searching
  <2>2. n \in sub[tree.kid[side][at]]
    <3>1. side = (IF Datum(n) < Datum(at) THEN "left" ELSE "right")
      BY <1>7
    <3>2. Datum(n) # Datum(at)
      BY <1>2
    <3>3. \A k, m \in nodes : tree.key[k] <= tree.key[m] => Datum(k) <= Datum(m)
      BY DEF SameOrder
    <3> QED
      BY <1>5, <1>6, <2>1, <3>1, <3>2, <3>3, SearchBelow
  <2> QED
    BY <2>2, <1>1 DEF Kid
<1>10. ASSUME call'.at = to, call'.pc = call.pc, call'.arg = call.arg
       PROVE  Underway(rank, sub)'
  <2>1. Searching(sub)'
    BY <1>1, <1>2, <1>s, <1>9, <1>10 DEF Searching, ReadOnly, SameOrder
  <2> QED
    BY <1>2, <1>10, <2>1 DEF Underway, In
<1>11. Good(tree, nodes, rank, sub, NIL, 1)
  BY <1>4
<1> QED
  BY <1>2, <1>3, <1>8, <1>10, <1>11, MoveKeeps

LEMMA NotFoundKeeps ==
    ASSUME IInv, NotFound
    PROVE  IInv'
<1>2. call.pc = "search" /\ call' = Idle /\ ReadOnly
  BY DEF NotFound, Missed, In, Return
<1>3. call.pc \notin Fixups /\ call.pc # "idle"
  BY <1>2 DEF Fixups
<1>4. PICK rank, sub : Good(tree, nodes, rank, sub, NIL, 1) /\ Underway(rank, sub)
  BY <1>3, Looking
<1>5. ~tree.dead
  BY <1>3, Looking
<1>9. call' \in Calls /\ call'.pc = "idle" /\ call'.at = NIL
  BY <1>2, IdleCall
<1>10. Underway(rank, sub)'
  BY <1>9 DEF Underway, In
<1>11. Good(tree, nodes, rank, sub, NIL, 1) /\ call'.pc \notin Fixups
       /\ call'.at \in nodes \cup {NIL}
  BY <1>4, <1>9 DEF Fixups
<1> QED
  BY <1>2, <1>3, <1>5, <1>9, <1>10, <1>11, Reading

\* one node less with the datum
LEMMA HeldLess ==
    ASSUME HeldCounts, kind' = kind, IsFiniteSet(nodes), NEW del \in nodes, nodes' = nodes \ {del},
           \A m \in nodes \ {del} : tree'.key[m] = tree.key[m],
           Datum(del) = call.arg, TakenOut(call.arg)
    PROVE  HeldCounts'
<1>0. PICK a : a = call.arg
  OBVIOUS
<1>1. ASSUME NEW d \in Data
      PROVE  held'[d] = Cardinality({m \in nodes' : Datum(m) = d})
  <2>1. PICK S, T : /\ S = {m \in nodes : Datum(m) = d}
                    /\ T = {m \in nodes' : Datum(m) = d}
    OBVIOUS
  <2>2. /\ held[d] = Cardinality(S)
        /\ held'[d] = IF d = a THEN held[d] - 1 ELSE held[d]
    BY <1>0, <2>1 DEF HeldCounts, TakenOut
  <2>3. IsFiniteSet(S)
    <3>1. S \subseteq nodes
      BY <2>1
    <3> QED
      BY <3>1, FS_Subset
  <2>4. CASE d = a
    <3>1. del \in S /\ T = S \ {del}
      BY <1>0, <2>1, <2>4
    <3>2. Cardinality(S) = Cardinality(T) + 1 /\ Cardinality(T) \in Nat
      BY <2>3, <3>1, OneLess
    <3> QED
      BY <2>1, <2>2, <2>4, <3>2
  <2>5. CASE d # a
    <3>1. T = S
      BY <1>0, <2>1, <2>5
    <3> QED
      BY <2>1, <2>2, <2>5, <3>1
  <2> QED
    BY <2>4, <2>5
<1>2. held' = [d \in Data |-> held'[d]]
  BY DEF HeldCounts, TakenOut
<1>3. kind' # "int" => \A m \in nodes' : tree'.key[m] = Datum(m)
  BY DEF HeldCounts
<1> QED
  BY <1>1, <1>2, <1>3 DEF HeldCounts

\* the start of remove_fixup
Fixing(n, at, black) ==
    [Idle EXCEPT !.pc = "remove_fixup", !.node = n, !.at = at, !.black = black]

LEMMA FixingBegins ==
    ASSUME NEW n \in Links, NEW at \in Links, NEW black \in BOOLEAN,
           NEW c, c = Fixing(n, at, black)
    PROVE  c \in Calls /\ c.pc = "remove_fixup" /\ c.node = n /\ c.at = at
<1>1. Idle \in Calls
  BY IdleCall
<1>2. PICK pc : pc = "remove_fixup"
  OBVIOUS
<1>3. pc \in Loops
  BY <1>2 DEF Loops
<1>4. c = [Idle EXCEPT !.pc = pc, !.node = n, !.at = at, !.black = black]
  BY <1>2 DEF Fixing
<1>5. c \in Calls /\ c.pc = pc /\ c.node = n /\ c.at = at
  BY <1>1, <1>3, <1>4 DEF Calls
<1> QED
  BY <1>2, <1>5

LEMMA TakeOutKeeps ==
    ASSUME IInv, HeldCounts, NEW del \in nodes, NEW temp, TakeOut(del, temp),
           Datum(del) = call.arg,
           NEW x, x = OnlyKid(tree, temp), Taken(tree, tree', nodes, del, x)
    PROVE  IInv'
<1>1. PICK at, b : /\ at = IF kind = "rb" THEN NIL ELSE tree'.parent[x]
                   /\ b = (tree.color[temp] = "BLACK")
  OBVIOUS
<1>2. /\ nodes' = nodes \ {del} /\ kind' = kind /\ TakenOut(call.arg)
      /\ call' = Fixing(x, at, b)
  BY <1>1 DEF TakeOut, Fixing
<1>3. nodes \subseteq Nodes /\ IsFiniteSet(nodes) /\ NIL \notin nodes /\ kind \in Kinds
  BY CallTypes
<1>4. nodes' \subseteq Nodes /\ IsFiniteSet(nodes')
  <2>1. nodes' \subseteq nodes
    BY <1>2
  <2> QED
    BY <1>3, <2>1, FS_Subset
<1>5. /\ x \in nodes' \cup {NIL} /\ tree'.parent[x] \in nodes' \cup {NIL}
      /\ \A m \in nodes \ {del} : tree'.key[m] = tree.key[m]
      /\ x = NIL /\ tree'.root # NIL => tree'.parent[NIL] \in nodes'
  BY <1>2 DEF Taken
<1>6. at \in nodes' \cup {NIL}
  BY <1>1, <1>5
<1>7. call' \in Calls /\ call'.pc = "remove_fixup" /\ call'.node = x /\ call'.at = at
  <2>1. x \in Links /\ at \in Links
    BY <1>4, <1>5, <1>6, NilIsNoNode
  <2>2. b \in BOOLEAN
    BY <1>1
  <2>3. PICK c : c = call'
    OBVIOUS
  <2>4. c \in Calls /\ c.pc = "remove_fixup" /\ c.node = x /\ c.at = at
    BY <1>2, <2>1, <2>2, <2>3, FixingBegins
  <2> QED
    BY <2>3, <2>4
<1>8. Stale' = at /\ Off' = 1
  BY <1>7 DEF Stale, Off
<1>9. PICK st, o : st = tree'.parent[x] /\ o = 1
  OBVIOUS
<1>10. PICK rank, sub : Good(tree', nodes', rank, sub, st, o)
  BY <1>2, <1>9 DEF Taken
<1>11. Good(tree', nodes', rank, sub, Stale', Off')
  <2>1. CASE kind = "rb"
    <3>1. Good(tree', nodes', rank, sub, at, o)
      BY <1>10, <2>1, NothingBooked
    <3> QED
      BY <1>8, <1>9, <3>1
  <2>2. CASE kind # "rb"
    BY <1>1, <1>8, <1>9, <1>10, <2>2
  <2> QED
    BY <2>1, <2>2
<1>12. HeldCounts'
  BY <1>2, <1>3, <1>5, HeldLess
<1>13. Underway(rank, sub)'
  BY <1>5, <1>7 DEF Underway, In
<1>14. call'.at \in nodes' \cup {NIL} /\ call' \in Calls
  BY <1>6, <1>7
<1> QED
  BY <1>2, <1>3, <1>4, <1>11, <1>12, <1>13, <1>14, Kept_IInv

LEMMA RemoveOneKidKeeps ==
    ASSUME IInv, RemoveOneKid
    PROVE  IInv'
<1>1. PICK del, x : del = call.at /\ x = OnlyKid(tree, del)
  OBVIOUS
<1>2. /\ call.pc = "search" /\ del # NIL /\ Datum(del) = call.arg
      /\ \E s \in Sides : tree.kid[s][del] = NIL
      /\ TakeOut(del, del)
  BY <1>1 DEF RemoveOneKid, Found, In, Kid
<1>3. call.pc \notin Fixups /\ call.pc # "idle"
  BY <1>2 DEF Fixups
<1>4. PICK rank, sub : Good(tree, nodes, rank, sub, NIL, 1)
  BY <1>3, Looking
<1>5. HeldCounts
  BY <1>3, Looking
<1>6. del \in nodes /\ nodes \subseteq Nodes /\ IsFiniteSet(nodes)
  BY <1>1, <1>2, CallTypes
<1>7. Good(tree, nodes, rank, sub, NIL, 0)
  <2>1. PICK z, o : z = 0 /\ o = 1
    OBVIOUS
  <2>2. Good(tree, nodes, rank, sub, NIL, o)
    BY <1>4, <2>1
  <2>3. Good(tree, nodes, rank, sub, NIL, z)
    BY <1>6, <2>2, OffFree
  <2> QED
    BY <2>1, <2>3
<1>8. tree' = Free(Unlink(tree, del, del), del)
  BY <1>2 DEF TakeOut
<1>9. Taken(tree, tree', nodes, del, x)
  BY <1>1, <1>2, <1>6, <1>7, <1>8, TakenOne
<1> QED
  BY <1>1, <1>2, <1>5, <1>6, <1>9, TakeOutKeeps

LEMMA RemoveTwoKidsKeeps ==
    ASSUME IInv, RemoveTwoKids
    PROVE  IInv'
<1>1. PICK del, q, pc : del = call.at /\ q = Kid("right", del) /\ pc = "min"
  OBVIOUS
<1>2. /\ call.pc = "search" /\ del # NIL /\ Datum(del) = call.arg /\ ReadOnly
      /\ \A s \in Sides : Kid(s, del) # NIL
      /\ call' = [call EXCEPT !.pc = pc, !.node = del, !.at = q]
  BY <1>1 DEF RemoveTwoKids, Found, In
<1>3. call.pc \notin Fixups /\ call.pc # "idle"
  BY <1>2 DEF Fixups
<1>4. PICK rank, sub : Good(tree, nodes, rank, sub, NIL, 1)
  BY <1>3, Looking
<1>5. del \in nodes /\ del \in Links
  BY <1>1, <1>2, CallTypes
<1>6. Shape(tree, nodes, rank, sub)
  BY <1>4 DEF Good
<1>7. "right" \in Sides
  BY DEF Sides
<1>8. q \in nodes /\ q \in Links
  <2>1. q \in nodes
    BY <1>1, <1>2, <1>5, <1>6, <1>7, KidsBelow DEF Kid
  <2> QED
    BY <2>1, CallTypes
<1>9. LeastSoFar(tree, rank, sub, q, q)
  BY <1>6, <1>8, LeastFirst
<1>10. call' \in Calls /\ call'.pc = pc /\ call'.node = del /\ call'.at = q
       /\ call'.arg = call.arg
  <2>1. pc \in Loops /\ call \in Calls
    BY <1>1, CallTypes DEF Loops
  <2> QED
    BY <1>2, <1>5, <1>8, <2>1 DEF Calls
<1>11. Minimal(rank, sub)'
  BY <1>1, <1>2, <1>5, <1>9, <1>10 DEF Minimal, LeastSoFar, ReadOnly, Kid
<1>12. Underway(rank, sub)'
  BY <1>1, <1>10, <1>11 DEF Underway, In
<1>13. call' \in Calls /\ call'.pc \notin Fixups /\ call'.at \in nodes \cup {NIL}
  BY <1>1, <1>8, <1>10 DEF Fixups
<1>14. ~tree.dead
  BY <1>3, Looking
<1> QED
  BY <1>2, <1>3, <1>4, <1>12, <1>13, <1>14, Reading

LEMMA GoToMinKeeps ==
    ASSUME IInv, GoToMin
    PROVE  IInv'
<1>1. PICK at, l, q : at = call.at /\ l = Kid("left", at) /\ q = Kid("right", call.node)
  OBVIOUS
<1>2. call.pc = "min" /\ l # NIL /\ ReadOnly /\ call' = [call EXCEPT !.at = l]
  BY <1>1 DEF GoToMin, In, MoveTo
<1>3. call.pc \notin Fixups /\ call.pc # "idle"
  BY <1>2 DEF Fixups
<1>4. PICK rank, sub : Good(tree, nodes, rank, sub, NIL, 1) /\ Underway(rank, sub)
  BY <1>3, Looking
<1>5. Minimal(rank, sub)
  BY <1>2, <1>4 DEF Underway, In
<1>6. Shape(tree, nodes, rank, sub)
  BY <1>4 DEF Good
<1>7. "left" \in Sides /\ "right" \in Sides
  BY DEF Sides
<1>8. q \in nodes
  BY <1>1, <1>5, <1>6, <1>7, KidsBelow DEF Minimal, Kid
<1>9. LeastSoFar(tree, rank, sub, q, at)
  BY <1>1, <1>5 DEF Minimal, LeastSoFar, Kid
<1>10. at \in nodes
  <2>1. sub[q] \subseteq nodes
    BY <1>6, <1>8, KidsBelow
  <2> QED
    BY <1>9, <2>1 DEF LeastSoFar
<1>11. l \in nodes
  BY <1>1, <1>2, <1>6, <1>7, <1>10, KidsBelow DEF Kid
<1>12. LeastSoFar(tree, rank, sub, q, l)
  <2>1. l = tree.kid["left"][at]
    BY <1>1 DEF Kid
  <2> QED
    BY <1>6, <1>8, <1>9, <1>10, <1>11, <2>1, LeastBelow
<1>13. ASSUME call'.at = l, call'.pc = call.pc, call'.node = call.node, call'.arg = call.arg
       PROVE  Underway(rank, sub)'
  <2>1. Minimal(rank, sub)'
    BY <1>1, <1>2, <1>5, <1>12, <1>13 DEF Minimal, LeastSoFar, ReadOnly, Kid
  <2> QED
    BY <1>2, <1>13, <2>1 DEF Underway, In
<1>14. l \in nodes \cup {NIL} /\ Good(tree, nodes, rank, sub, NIL, 1)
  BY <1>4, <1>11
<1> QED
  BY <1>2, <1>3, <1>13, <1>14, MoveKeeps

LEMMA RemoveMinKeeps ==
    ASSUME IInv, RemoveMin
    PROVE  IInv'
<1>1. PICK del, temp, x, l, q, up, p :
         /\ del = call.node /\ temp = call.at /\ x = tree.kid["right"][temp]
         /\ l = tree.kid["left"][del] /\ q = tree.kid["right"][del]
         /\ up = tree.parent[temp] /\ p = tree.parent[del]
  OBVIOUS
<1>2. call.pc = "min" /\ tree.kid["left"][temp] = NIL /\ TakeOut(del, temp)
  BY <1>1 DEF RemoveMin, In, Kid
<1>3. call.pc \notin Fixups /\ call.pc # "idle"
  BY <1>2 DEF Fixups
<1>4. PICK rank, sub : Good(tree, nodes, rank, sub, NIL, 1) /\ Underway(rank, sub)
  BY <1>3, Looking
<1>5. HeldCounts
  BY <1>3, Looking
<1>6. nodes \subseteq Nodes /\ IsFiniteSet(nodes)
  BY CallTypes
<1>7. Shape(tree, nodes, rank, sub)
  BY <1>4 DEF Good
<1>8. Minimal(rank, sub)
  BY <1>2, <1>4 DEF Underway, In
<1>9. "left" \in Sides /\ "right" \in Sides
  BY DEF Sides
<1>10. del \in nodes /\ Datum(del) = call.arg /\ l # NIL /\ q # NIL
  BY <1>1, <1>8, <1>9 DEF Minimal, Kid
<1>11. l \in nodes /\ q \in nodes
  BY <1>1, <1>7, <1>9, <1>10, KidsBelow
<1>12. Least(tree, rank, sub, q, temp)
  <2>1. sub[NIL] = {}
    BY <1>7 DEF Shape, Subtrees
  <2> QED
    BY <1>1, <1>2, <1>8, <2>1 DEF Minimal, Least, Kid
<1>13. Moving(tree, del, temp, x, l, q, up, p)
  BY <1>1, <1>2 DEF Moving
<1>14. x = OnlyKid(tree, temp)
  BY <1>1, <1>2 DEF OnlyKid
<1>15. Good(tree, nodes, rank, sub, NIL, 0)
  <2>1. PICK z, o : z = 0 /\ o = 1
    OBVIOUS
  <2>2. Good(tree, nodes, rank, sub, NIL, o)
    BY <1>4, <2>1
  <2>3. Good(tree, nodes, rank, sub, NIL, z)
    BY <1>6, <2>2, OffFree
  <2> QED
    BY <2>1, <2>3
<1>16. tree' = Free(Unlink(tree, del, temp), del)
  BY <1>2 DEF TakeOut
<1>17. Taken(tree, tree', nodes, del, x)
  BY <1>6, <1>10, <1>11, <1>12, <1>13, <1>15, <1>16, TakenTwo
<1> QED
  BY <1>2, <1>5, <1>10, <1>14, <1>17, TakeOutKeeps

-----------------------------------------------------------------------------
(* The searches that only read: search_k and interval_search.              *)

LEMMA SearchKKeeps ==
    ASSUME IInv, NEW k \in 0..(Cardinality(nodes) + 1), SearchK(k)
    PROVE  IInv'
<1>1. Ready /\ ReadOnly /\ kind = "os"
  BY DEF SearchK
<1>2. PICK pc, c, r : pc = "search_k" /\ c = call' /\ r = tree.root
  OBVIOUS
<1>3. c = AskK(pc, r, k, k)
  BY <1>2 DEF SearchK, AskK
<1>4. pc \in Loops /\ pc \notin Fixups /\ r \in Links
  BY <1>1, <1>2, RootLink DEF Loops, Fixups
<1>k. k \in Int
  OBVIOUS
<1>5. c \in Calls /\ c.pc = pc /\ c.at = r /\ c.arg = k /\ c.k = k
  BY <1>3, <1>4, <1>k, AskBegins
<1>6. ASSUME NEW rank, NEW sub, Good(tree, nodes, rank, sub, NIL, 1)
      PROVE  Underway(rank, sub)'
  <2>1. sub[r] = nodes
    BY <1>2, <1>6 DEF Good, Shape, Subtrees
  <2>2. Before(nodes, r, rank, sub) = {}
    BY <2>1 DEF Before
  <2>3. PICK B : B = Before(nodes, r, rank, sub)
    OBVIOUS
  <2>4. Cardinality(B) = 0
    BY <2>2, <2>3, FS_EmptySet
  <2>5. k = k + Cardinality(B)
    BY <2>4
  <2>6. nodes' = nodes /\ kind' = kind
    BY <1>1 DEF ReadOnly
  <2>7. Counting(rank, sub)'
    BY <1>1, <1>2, <1>5, <2>1, <2>3, <2>5, <2>6 DEF Counting
  <2> QED
    BY <1>2, <1>5, <2>7 DEF Underway, In
<1>7. call' \in Calls /\ call'.pc \notin Fixups /\ call'.at = tree.root
  BY <1>2, <1>4, <1>5
<1> QED
  BY <1>1, <1>6, <1>7, AskKeeps

LEMMA AllBooked ==
    ASSUME NEW N, N \subseteq Nodes, IsFiniteSet(N), NEW t, NEW rank, NEW sub,
           NEW off, Good(t, N, rank, sub, NIL, off)
    PROVE  /\ kind = "os" => \A n \in N : t.size[n] = Cardinality(sub[n])
           /\ kind = "int" => \A n \in N : Spanned(t, n, sub)
<1>1. Shape(t, N, rank, sub) /\ Booked(t, N, sub, NIL, off)
  BY DEF Good
<1> QED
  BY <1>1, BookedNil

\* a size is the number of the nodes below
LEMMA KindSizes ==
    ASSUME kind = "os", NEW N, N \subseteq Nodes, IsFiniteSet(N), NEW t, NEW rank, NEW sub,
           NEW off, Good(t, N, rank, sub, NIL, off), NEW m \in N \cup {NIL}
    PROVE  t.size[m] = Cardinality(sub[m]) /\ Cardinality(sub[m]) \in Nat
<1>1. Shape(t, N, rank, sub) /\ Sentinel(t) /\ Booked(t, N, sub, NIL, off)
  BY DEF Good
<1>2. \A n \in N : t.size[n] = Cardinality(sub[n])
  BY AllBooked
<1>3. Cardinality(sub[NIL]) = 0 /\ \A n \in N \cup {NIL} : Cardinality(sub[n]) \in Nat
  BY <1>1, SubsFinite
<1> QED
  BY <1>1, <1>2, <1>3 DEF Sentinel

\* how many nodes are below a node
LEMMA SizesAdd ==
    ASSUME NEW t, NEW N, IsFiniteSet(N), NEW rank, NEW sub, Shape(t, N, rank, sub), NEW n \in N,
           NEW l, NEW r, l = t.kid["left"][n], r = t.kid["right"][n]
    PROVE  Cardinality(sub[n]) = Cardinality(sub[l]) + Cardinality(sub[r]) + 1
<1>1. PICK le, ri : le = "left" /\ ri = "right"
  OBVIOUS
<1>2. le \in Sides
  BY <1>1 DEF Sides
<1>3. ri = Opp(le)
  BY <1>1 DEF Opp
<1>4. \A s \in Sides : Cardinality(sub[n]) = Cardinality(sub[t.kid[s][n]])
                                             + Cardinality(sub[t.kid[Opp(s)][n]]) + 1
  BY SubtreeSize
<1>5. Cardinality(sub[n]) = Cardinality(sub[t.kid[le][n]]) + Cardinality(sub[t.kid[Opp(le)][n]]) + 1
  BY <1>2, <1>4
<1> QED
  BY <1>1, <1>3, <1>5

LEMMA StepKKeeps ==
    ASSUME IInv, StepK
    PROVE  IInv'
<1>1. PICK at, l, r, k : at = call.at /\ l = tree.kid["left"][at] /\ r = tree.kid["right"][at]
                         /\ k = call.k
  OBVIOUS
<1>2. /\ call.pc = "search_k" /\ at # NIL /\ k # tree.size[l] + 1 /\ ReadOnly
      /\ IF k < tree.size[l] + 1 THEN call' = [call EXCEPT !.at = l]
         ELSE call' = [call EXCEPT !.at = r, !.k = k - (tree.size[l] + 1)]
  BY <1>1 DEF StepK, KAnswered, In, RankBelow, Kid, MoveTo
<1>3. call.pc \notin Fixups /\ call.pc # "idle"
  BY <1>2 DEF Fixups
<1>4. PICK o : o = 1
  OBVIOUS
<1>5. PICK rank, sub : Good(tree, nodes, rank, sub, NIL, o) /\ Underway(rank, sub)
  BY <1>3, <1>4, Looking
<1>6. nodes \subseteq Nodes /\ IsFiniteSet(nodes) /\ at \in nodes /\ call \in Calls
  BY <1>1, <1>2, CallTypes
<1>7. Counting(rank, sub)
  BY <1>2, <1>5 DEF Underway, In
<1>8. Shape(tree, nodes, rank, sub) /\ kind = "os"
  BY <1>5, <1>7 DEF Good, Counting
<1>9. "left" \in Sides /\ "right" \in Sides
  BY DEF Sides
<1>10. l \in nodes \cup {NIL} /\ r \in nodes \cup {NIL} /\ at \in nodes \cup {NIL}
  BY <1>1, <1>6, <1>8, <1>9, KidsBelow
<1>11. PICK a, b, c : a = Cardinality(sub[at]) /\ b = Cardinality(sub[l]) /\ c = Cardinality(sub[r])
  OBVIOUS
<1>12. tree.size[l] = b /\ a \in Nat /\ b \in Nat /\ c \in Nat /\ a = b + c + 1
  <2>1. tree.size[l] = b /\ b \in Nat
    BY <1>5, <1>6, <1>8, <1>10, <1>11, KindSizes
  <2>2. a \in Nat /\ c \in Nat
    BY <1>6, <1>8, <1>10, <1>11, SubsFinite
  <2>3. a = b + c + 1
    BY <1>1, <1>6, <1>8, <1>11, SizesAdd
  <2> QED
    BY <2>1, <2>2, <2>3
<1>13. PICK arg, n, p : arg = call.arg /\ n = Cardinality(nodes)
                        /\ p = Cardinality(Before(nodes, at, rank, sub))
  OBVIOUS
<1>14. /\ arg = k + p /\ k \in Int /\ arg \in Int /\ n \in Nat /\ p \in Nat
       /\ arg \in 1..n => k \in 1..a
  <2>1. k \in Int /\ arg \in Int
    BY <1>1, <1>6, <1>13 DEF Calls
  <2>2. n \in Nat
    BY <1>6, <1>13, FS_CardinalityType
  <2>3. Before(nodes, at, rank, sub) \subseteq nodes
    BY DEF Before
  <2>4. p \in Nat
    BY <1>6, <1>13, <2>3, FS_Subset, FS_CardinalityType
  <2> QED
    BY <1>1, <1>2, <1>7, <1>11, <1>13, <2>1, <2>2, <2>4 DEF Counting
<1>15. ~tree.dead
  BY <1>3, Looking
<1>16. Good(tree, nodes, rank, sub, NIL, 1)
  BY <1>4, <1>5
<1>17. kind' = kind /\ nodes' = nodes
  BY <1>2 DEF ReadOnly
<1>18. CASE k < b + 1
  <2>1. call' = [call EXCEPT !.at = l]
    BY <1>2, <1>12, <1>18
  <2>2. ASSUME l # NIL PROVE Before(nodes, l, rank, sub) = Before(nodes, at, rank, sub)
    BY <1>1, <1>6, <1>8, <1>10, <2>2, AheadOfLeft
  <2>3. arg \in 1..n => k \in 1..b
    BY <1>12, <1>14, <1>18
  <2>4. ASSUME call'.at = l, call'.pc = call.pc, call'.arg = call.arg, call'.k = call.k
        PROVE  Underway(rank, sub)'
    <3>1. l # NIL => arg = k + Cardinality(Before(nodes, l, rank, sub))
      BY <1>13, <1>14, <2>2
    <3>2. Counting(rank, sub)'
      BY <1>1, <1>8, <1>11, <1>13, <1>17, <2>3, <2>4, <3>1 DEF Counting
    <3> QED
      BY <1>2, <2>4, <3>2 DEF Underway, In
  <2> QED
    BY <1>2, <1>3, <1>10, <1>16, <2>1, <2>4, MoveKeeps
<1>19. CASE ~(k < b + 1)
  <2>1. PICK j : j = k - (b + 1)
    OBVIOUS
  <2>2. call' = [call EXCEPT !.at = r, !.k = j]
    BY <1>2, <1>12, <1>19, <2>1
  <2>3. j \in Int /\ (arg \in 1..n => j \in 1..c)
    BY <1>2, <1>12, <1>14, <1>19, <2>1
  <2>4. ASSUME r # NIL PROVE arg = j + Cardinality(Before(nodes, r, rank, sub))
    <3>1. Cardinality(Before(nodes, r, rank, sub)) = p + b + 1
      BY <1>1, <1>6, <1>8, <1>10, <1>11, <1>13, <2>4, AheadCount
    <3>2. j + (p + b + 1) = arg
      BY <1>12, <1>14, <2>1
    <3> QED
      BY <3>1, <3>2
  <2>5. r \in Links
    BY <1>10, CallTypes
  <2>6. call' \in Calls /\ call'.at = r /\ call'.pc = call.pc /\ call'.arg = arg /\ call'.k = j
    BY <1>6, <1>13, <2>2, <2>3, <2>5 DEF Calls
  <2>7. Counting(rank, sub)'
    BY <1>8, <1>11, <1>13, <1>17, <2>3, <2>4, <2>6 DEF Counting
  <2>8. Underway(rank, sub)'
    BY <1>2, <2>6, <2>7 DEF Underway, In
  <2>9. call'.pc \notin Fixups /\ call'.at \in nodes \cup {NIL} /\ call' \in Calls
    BY <1>3, <1>10, <2>6
  <2> QED
    BY <1>2, <1>3, <1>15, <1>16, <2>8, <2>9, Reading
<1> QED
  BY <1>18, <1>19

LEMMA IntervalSearchKeeps ==
    ASSUME IInv, NEW low \in Int, NEW h \in Int, low <= h, IntervalSearch(low, h)
    PROVE  IInv'
<1>1. Ready /\ ReadOnly /\ kind = "int"
  BY DEF IntervalSearch
<1>2. PICK pc, c, r : pc = "int_search" /\ c = call' /\ r = tree.root
  OBVIOUS
<1>3. c = AskHigh(pc, r, low, h)
  BY <1>2 DEF IntervalSearch, AskHigh
<1>4. pc \in Loops /\ pc \notin Fixups /\ r \in Links
  BY <1>1, <1>2, RootLink DEF Loops, Fixups
<1>5. c \in Calls /\ c.pc = pc /\ c.at = r /\ c.arg = low /\ c.high = h
  BY <1>3, <1>4, AskBegins
<1>6. ASSUME NEW rank, NEW sub, Good(tree, nodes, rank, sub, NIL, 1)
      PROVE  Underway(rank, sub)'
  <2>1. sub[r] = nodes
    BY <1>2, <1>6 DEF Good, Shape, Subtrees
  <2>2. nodes' = nodes /\ kind' = kind
    BY <1>1 DEF ReadOnly
  <2>3. Overlapping(sub)'
    BY <1>1, <1>2, <1>5, <2>1, <2>2 DEF Overlapping
  <2> QED
    BY <1>2, <1>5, <2>3 DEF Underway, In
<1>7. call' \in Calls /\ call'.pc \notin Fixups /\ call'.at = tree.root
  BY <1>2, <1>4, <1>5
<1> QED
  BY <1>1, <1>6, <1>7, AskKeeps

LEMMA MeetsMeet ==
    ASSUME Lengths(tree, nodes), call \in Calls, NEW n \in nodes
    PROVE  Meets(n) <=> Meet(tree, call.arg, call.high, n)
<1>1. PICK a, h, d, e : a = call.arg /\ h = call.high /\ d = tree.key[n] /\ e = tree.high[n]
  OBVIOUS
<1>2. a \in Int /\ h \in Int /\ d \in Int /\ e \in Int
  BY <1>1 DEF Calls, Lengths
<1>3. IsOverlap(a, h, d, e) <=> d <= h /\ a <= e
  BY <1>2 DEF IsOverlap
<1> QED
  BY <1>1, <1>3 DEF Meets, Meet

LEMMA StepOverlapKeeps ==
    ASSUME IInv, StepOverlap
    PROVE  IInv'
<1>1. PICK at, l, r, a, h, to :
         /\ at = call.at /\ l = tree.kid["left"][at] /\ r = tree.kid["right"][at]
         /\ a = call.arg /\ h = call.high
         /\ to = IF l # NIL /\ tree.maxHigh[l] >= a THEN l ELSE r
  OBVIOUS
<1>2. /\ call.pc = "int_search" /\ at # NIL /\ ~Meets(at) /\ ReadOnly
      /\ call' = [call EXCEPT !.at = to]
  BY <1>1 DEF StepOverlap, OverlapAnswered, In, Kid, MoveTo
<1>3. call.pc \notin Fixups /\ call.pc # "idle"
  BY <1>2 DEF Fixups
<1>4. PICK o : o = 1
  OBVIOUS
<1>5. PICK rank, sub : Good(tree, nodes, rank, sub, NIL, o) /\ Underway(rank, sub)
  BY <1>3, <1>4, Looking
<1>6. nodes \subseteq Nodes /\ IsFiniteSet(nodes) /\ at \in nodes /\ call \in Calls
  BY <1>1, <1>2, CallTypes
<1>7. Overlapping(sub)
  BY <1>2, <1>5 DEF Underway, In
<1>8. Shape(tree, nodes, rank, sub) /\ Lengths(tree, nodes) /\ tree \in Trees
  BY <1>5, <1>6, GoodFacts
<1>9. a \in Int /\ h \in Int /\ a <= h /\ kind = "int"
  BY <1>1, <1>6, <1>7 DEF Overlapping, Calls
<1>10. "left" \in Sides /\ "right" \in Sides
  BY DEF Sides
<1>11. l \in nodes \cup {NIL} /\ r \in nodes \cup {NIL} /\ to \in nodes \cup {NIL}
  BY <1>1, <1>6, <1>8, <1>10, KidsBelow
<1>12. \A n \in nodes : Meets(n) <=> Meet(tree, a, h, n)
  BY <1>1, <1>6, <1>8, MeetsMeet
<1>13. ~Meet(tree, a, h, at)
  BY <1>2, <1>6, <1>12
<1>14. l \in nodes => Spanned(tree, l, sub) /\ tree.maxHigh[l] \in Int
  <2>1. kind = "int" => \A n \in nodes : Spanned(tree, n, sub)
    BY <1>5, <1>6, AllBooked
  <2> QED
    BY <1>6, <1>8, <1>9, <2>1, NilIsNoNode DEF Trees
<1>15. sub[at] \subseteq nodes /\ sub[to] \subseteq nodes
  <2>1. sub[NIL] = {}
    BY <1>8 DEF Shape, Subtrees
  <2> QED
    BY <1>6, <1>8, <1>11, <2>1, KidsBelow
<1>16. ASSUME NoShadow, NEW n \in nodes, Meets(n)
       PROVE  \E m \in sub[to] : Meets(m)
  <2>1. PICK k \in sub[at] : Meets(k)
    BY <1>1, <1>7, <1>16 DEF Overlapping
  <2>2. Meet(tree, a, h, k)
    BY <1>12, <1>15, <2>1
  <2>3. a > 0 \/ \A m \in nodes : tree.high[m] >= 0
    BY <1>1, <1>16 DEF NoShadow
  <2>4. CASE l # NIL /\ tree.maxHigh[l] >= a
    <3>1. l \in nodes /\ to = l /\ tree.maxHigh[l] >= a
      BY <1>1, <1>11, <2>4
    <3>2. Spanned(tree, l, sub) /\ tree.maxHigh[l] \in Int
      BY <1>14, <3>1
    <3>3. \E m \in sub[l] : Meet(tree, a, h, m)
      BY <1>1, <1>6, <1>8, <1>9, <1>13, <2>2, <2>3, <3>1, <3>2, OverlapLeft
    <3> QED
      BY <1>12, <1>15, <3>1, <3>3
  <2>5. CASE ~(l # NIL /\ tree.maxHigh[l] >= a)
    <3>1. to = r
      BY <1>1, <2>5
    <3>2. l \in nodes => Spanned(tree, l, sub) /\ tree.maxHigh[l] \in Int
                         /\ ~(tree.maxHigh[l] >= a)
      BY <1>6, <1>14, <2>5, NilIsNoNode
    <3>3. k \in sub[tree.kid["right"][at]]
      BY <1>1, <1>6, <1>8, <1>9, <1>13, <2>2, <3>2, OverlapRight
    <3> QED
      BY <1>1, <2>1, <3>1, <3>3
  <2> QED
    BY <2>4, <2>5
<1>17. ASSUME call'.at = to, call'.pc = call.pc, call'.arg = call.arg, call'.high = call.high
       PROVE  Underway(rank, sub)'
  <2>1. kind' = kind /\ nodes' = nodes /\ tree' = tree
    BY <1>2 DEF ReadOnly
  <2>2. (\A n : Meets(n)' <=> Meets(n)) /\ (NoShadow' <=> NoShadow)
    BY <1>17, <2>1 DEF Meets, NoShadow
  <2>3. Overlapping(sub)'
    BY <1>1, <1>9, <1>16, <1>17, <2>1, <2>2 DEF Overlapping
  <2> QED
    BY <1>2, <1>17, <2>3 DEF Underway, In
<1>18. Good(tree, nodes, rank, sub, NIL, 1)
  BY <1>4, <1>5
<1> QED
  BY <1>2, <1>3, <1>11, <1>17, <1>18, MoveKeeps

LEMMA AnswerKeeps ==
    ASSUME IInv, Answer
    PROVE  IInv'
<1>1. call.pc \notin Fixups /\ call.pc # "idle" /\ call' = Idle /\ ReadOnly
  BY DEF Answer, KAnswered, OverlapAnswered, Listed, In, Fixups, Return
<1>2. ~tree.dead
  BY <1>1, Looking
<1>3. PICK rank, sub : Good(tree, nodes, rank, sub, NIL, 1)
  BY <1>1, Looking
<1>4. call' \in Calls /\ call'.pc = "idle" /\ call'.at = NIL
  BY <1>1, IdleCall
<1>5. Underway(rank, sub)'
  BY <1>4 DEF Underway, In
<1>6. call'.pc \notin Fixups /\ call'.at \in nodes \cup {NIL}
  BY <1>4 DEF Fixups
<1> QED
  BY <1>1, <1>2, <1>3, <1>4, <1>5, <1>6, Reading

-----------------------------------------------------------------------------
(* in_order.                                                               *)

LEMMA SeqWider ==
    ASSUME NEW S, NEW T, S \subseteq T, NEW s \in Seq(S)
    PROVE  s \in Seq(T)
<1>1. s \in [1..Len(s) -> S] /\ Len(s) \in Nat
  BY LenProperties
<1>2. s \in [1..Len(s) -> T]
  BY <1>1
<1> QED
  BY <1>1, <1>2

\* what each entry of the stack stands for
Stacked(t, sub, stack, up) ==
    [i \in 1..Len(stack) |-> IF i = 1 /\ ~up THEN sub[stack[i]]
                             ELSE {stack[i]} \cup sub[t.kid["right"][stack[i]]]]

LEMMA PrintingQueue ==
    ASSUME NEW rank, NEW sub, Printing(rank, sub)
    PROVE  Queue(nodes, rank, call.out, Len(call.stack), Stacked(tree, sub, call.stack, call.up))
<1>1. PICK P : P = Stacked(tree, sub, call.stack, call.up)
  OBVIOUS
<1>2. \A i \in 1..Len(call.stack) : P[i] = Pending(i, sub)
  BY <1>1 DEF Stacked, Pending, Kid
<1>3. Queue(nodes, rank, call.out, Len(call.stack), P)
  BY <1>2 DEF Queue, Printing
<1> QED
  BY <1>1, <1>3

LEMMA QueuePrinting ==
    ASSUME NEW rank, NEW sub, call'.stack \in Seq(nodes'), call'.out \in Seq(nodes'),
           Queue(nodes', rank, call'.out, Len(call'.stack),
                 Stacked(tree', sub, call'.stack, call'.up))
    PROVE  Printing(rank, sub)'
<1>1. PICK P : P = Stacked(tree', sub, call'.stack, call'.up)
  OBVIOUS
<1>2. \A i \in 1..Len(call'.stack) : P[i] = Pending(i, sub)'
  BY <1>1 DEF Stacked, Pending, Kid
<1>3. Queue(nodes', rank, call'.out, Len(call'.stack), P)
  BY <1>1
<1>4. \A i, j \in 1..Len(call'.stack) : i < j =>
         \A m \in Pending(i, sub)', n \in Pending(j, sub)' : rank[m] < rank[n]
  BY <1>2, <1>3 DEF Queue
<1>5. \A i \in 1..Len(call'.out), j \in 1..Len(call'.stack) :
         \A n \in Pending(j, sub)' : rank[call'.out[i]] < rank[n]
  BY <1>2, <1>3 DEF Queue
<1>6. \A i, j \in 1..Len(call'.out) : i < j => rank[call'.out[i]] < rank[call'.out[j]]
  BY <1>3 DEF Queue
<1>7. \A n \in nodes' : \/ \E i \in 1..Len(call'.out) : call'.out[i] = n
                        \/ \E j \in 1..Len(call'.stack) : n \in Pending(j, sub)'
  BY <1>2, <1>3 DEF Queue
<1> QED
  BY <1>4, <1>5, <1>6, <1>7 DEF Printing

LEMMA PushFacts ==
    ASSUME NEW S, NEW s \in Seq(S), NEW x \in S
    PROVE  /\ Push(x, s) \in Seq(S) /\ Len(Push(x, s)) = Len(s) + 1 /\ Push(x, s)[1] = x
           /\ \A i \in 1..Len(s) : Push(x, s)[i + 1] = s[i]
<1>1. <<x>> \in Seq(S) /\ Len(<<x>>) = 1 /\ <<x>>[1] = x /\ Len(s) \in Nat
  OBVIOUS
<1>2. PICK o : o = <<x>>
  OBVIOUS
<1>3. o \in Seq(S) /\ Len(o) = 1 /\ o[1] = x
  BY <1>1, <1>2
<1>4. /\ o \o s \in Seq(S) /\ Len(o \o s) = Len(o) + Len(s)
      /\ \A i \in 1..(Len(o) + Len(s)) : (o \o s)[i] = IF i <= Len(o) THEN o[i] ELSE s[i - Len(o)]
  BY <1>3, ConcatProperties
<1>5. PICK p : p = o \o s
  OBVIOUS
<1>6. p \in Seq(S) /\ Len(p) = Len(s) + 1 /\ p[1] = x
  BY <1>1, <1>3, <1>4, <1>5
<1>7. \A i \in 1..Len(s) : p[i + 1] = s[i]
  <2> SUFFICES ASSUME NEW i \in 1..Len(s) PROVE p[i + 1] = s[i]
    OBVIOUS
  <2>1. i + 1 \in 1..(Len(o) + Len(s)) /\ ~(i + 1 <= Len(o)) /\ (i + 1) - Len(o) = i
    BY <1>1, <1>3
  <2>2. p[i + 1] = s[(i + 1) - Len(o)]
    BY <1>4, <1>5, <2>1
  <2> QED
    BY <2>1, <2>2
<1>8. p = Push(x, s)
  BY <1>2, <1>5 DEF Push
<1> QED
  BY <1>6, <1>7, <1>8

LEMMA TailFacts ==
    ASSUME NEW S, NEW s \in Seq(S), s # <<>>
    PROVE  /\ Tail(s) \in Seq(S) /\ Len(Tail(s)) = Len(s) - 1 /\ Len(s) \in Nat \ {0}
           /\ Head(s) = s[1] /\ Head(s) \in S
           /\ \A i \in 1..(Len(s) - 1) : Tail(s)[i] = s[i + 1]
  BY HeadTailProperties, LenProperties

\* what the new call prints: a stack, the printed, and the place in the loop
Turn(stack, out, up) ==
    call' = [call EXCEPT !.out = out, !.up = up, !.stack = stack]

LEMMA TurnKeeps ==
    ASSUME IInv, ReadOnly, call.pc = "in_order",
           NEW rank, NEW sub, Good(tree, nodes, rank, sub, NIL, 1),
           NEW stack \in Seq(nodes), NEW out \in Seq(nodes), NEW up \in BOOLEAN,
           Turn(stack, out, up),
           Queue(nodes, rank, out, Len(stack), Stacked(tree, sub, stack, up))
    PROVE  IInv'
<1>1. call.pc \notin Fixups /\ call.pc # "idle"
  BY DEF Fixups
<1>2. nodes \subseteq Nodes /\ call \in Calls /\ call.at \in nodes \cup {NIL}
  BY CallTypes
<1>3. stack \in Seq(Nodes) /\ out \in Seq(Nodes)
  BY <1>2, SeqWider
<1>4. /\ call' \in Calls /\ call'.pc = call.pc /\ call'.at = call.at
      /\ call'.stack = stack /\ call'.out = out /\ call'.up = up
  BY <1>2, <1>3 DEF Calls, Turn
<1>5. tree' = tree /\ nodes' = nodes
  BY DEF ReadOnly
<1>6. call'.stack \in Seq(nodes') /\ call'.out \in Seq(nodes')
  BY <1>4, <1>5
<1>7. Queue(nodes', rank, call'.out, Len(call'.stack),
            Stacked(tree', sub, call'.stack, call'.up))
  BY <1>4, <1>5
<1>8. Printing(rank, sub)'
  BY <1>6, <1>7, QueuePrinting
<1>9. Underway(rank, sub)'
  BY <1>4, <1>8 DEF Underway, In
<1>10. ~tree.dead
  BY <1>1, Looking
<1>11. call'.pc \notin Fixups /\ call'.at \in nodes \cup {NIL} /\ call' \in Calls
  BY <1>1, <1>2, <1>4
<1> QED
  BY <1>1, <1>9, <1>10, <1>11, Reading

LEMMA GoLeftKeeps ==
    ASSUME IInv, GoLeft
    PROVE  IInv'
<1>1. PICK n, l, r, s, more, f :
         /\ s = call.stack /\ n = Head(s) /\ l = Kid("left", n) /\ r = tree.kid["right"][n]
         /\ more = Push(l, s) /\ f = FALSE
  OBVIOUS
<1>2. /\ call.pc = "in_order" /\ s # <<>> /\ ~call.up /\ l # NIL /\ ReadOnly
      /\ call' = [call EXCEPT !.stack = more]
  BY <1>1 DEF GoLeft, In
<1>3. call.pc \notin Fixups /\ call.pc # "idle"
  BY <1>2 DEF Fixups
<1>4. PICK rank, sub : Good(tree, nodes, rank, sub, NIL, 1) /\ Underway(rank, sub)
  BY <1>3, Looking
<1>5. Printing(rank, sub)
  BY <1>2, <1>4 DEF Underway, In
<1>6. s \in Seq(nodes) /\ call.out \in Seq(nodes) /\ call \in Calls
  BY <1>1, <1>5, CallTypes DEF Printing
<1>7. n \in nodes /\ n = s[1] /\ Len(s) \in Nat \ {0}
  BY <1>1, <1>2, <1>6, TailFacts
<1>8. Shape(tree, nodes, rank, sub)
  BY <1>4 DEF Good
<1>9. "left" \in Sides /\ "right" \in Sides
  BY DEF Sides
<1>10. l \in nodes
  BY <1>1, <1>2, <1>7, <1>8, <1>9, KidsBelow DEF Kid
<1>11. /\ more \in Seq(nodes) /\ Len(more) = Len(s) + 1 /\ more[1] = l
       /\ \A i \in 1..Len(s) : more[i + 1] = s[i]
  <2>1. s \in Seq(nodes) /\ l \in nodes
    BY <1>6, <1>10
  <2>2. /\ Push(l, s) \in Seq(nodes) /\ Len(Push(l, s)) = Len(s) + 1 /\ Push(l, s)[1] = l
        /\ \A i \in 1..Len(s) : Push(l, s)[i + 1] = s[i]
    <3>1. PICK N : N = nodes
      OBVIOUS
    <3>2. s \in Seq(N) /\ l \in N
      BY <2>1, <3>1
    <3>3. /\ Push(l, s) \in Seq(N) /\ Len(Push(l, s)) = Len(s) + 1 /\ Push(l, s)[1] = l
          /\ \A i \in 1..Len(s) : Push(l, s)[i + 1] = s[i]
      BY <3>2, PushFacts
    <3> QED
      BY <3>1, <3>3
  <2>3. more = Push(l, s)
    BY <1>1
  <2> QED
    BY <2>2, <2>3
<1>12. PICK P, Q : P = Stacked(tree, sub, s, f) /\ Q = Stacked(tree, sub, more, f)
  OBVIOUS
<1>13. Queue(nodes, rank, call.out, Len(s), P)
  <2>1. call.up = f
    BY <1>1, <1>2, <1>6 DEF Calls
  <2> QED
    BY <1>1, <1>5, <1>12, <2>1, PrintingQueue
<1>14. P[1] = sub[n] /\ Q[1] = sub[l] /\ Q[2] = {n} \cup sub[r]
  <2>1. P[1] = sub[n]
    BY <1>1, <1>7, <1>12 DEF Stacked
  <2>2. 1 \in 1..Len(more) /\ 2 \in 1..Len(more) /\ 2 # 1
    BY <1>7, <1>11
  <2>3. Q[1] = sub[l]
    BY <1>1, <1>11, <1>12, <2>2 DEF Stacked
  <2>4. more[2] = n
    <3>1. 1 \in 1..Len(s) /\ 1 + 1 = 2
      BY <1>7
    <3> QED
      BY <1>7, <1>11, <3>1
  <2>5. Q[2] = {n} \cup sub[r]
    BY <1>1, <1>12, <2>2, <2>4 DEF Stacked
  <2> QED
    BY <2>1, <2>3, <2>5
<1>15. \A i \in 2..Len(s) : Q[i + 1] = P[i]
  <2> SUFFICES ASSUME NEW i \in 2..Len(s) PROVE Q[i + 1] = P[i]
    OBVIOUS
  <2>1. i \in 1..Len(s) /\ i # 1 /\ i + 1 \in 1..Len(more) /\ i + 1 # 1 /\ more[i + 1] = s[i]
    BY <1>7, <1>11
  <2>2. P[i] = {s[i]} \cup sub[tree.kid["right"][s[i]]]
    BY <1>12, <2>1 DEF Stacked
  <2>3. Q[i + 1] = {more[i + 1]} \cup sub[tree.kid["right"][more[i + 1]]]
    BY <1>12, <2>1 DEF Stacked
  <2> QED
    BY <2>1, <2>2, <2>3
<1>16. P[1] = Q[1] \cup Q[2] /\ \A x \in Q[1], y \in Q[2] : rank[x] < rank[y]
  <2>1. sub[n] = {n} \cup sub[l] \cup sub[r]
    BY <1>1, <1>7, <1>8 DEF Shape, Subtrees, Kid
  <2>2. sub[l] \subseteq nodes /\ sub[r] \subseteq nodes
    BY <1>7, <1>8, <2>1, KidsBelow
  <2>3. (\A x \in sub[l] : rank[x] < rank[n]) /\ (\A y \in sub[r] : rank[n] < rank[y])
    BY <1>1, <1>7, <1>8 DEF Shape, Ordered, Kid
  <2>4. \A m \in nodes : rank[m] \in Int
    BY <1>8 DEF Shape
  <2>5. ASSUME NEW x \in sub[l], NEW y \in sub[r] PROVE rank[x] < rank[y]
    <3>1. rank[x] \in Int /\ rank[y] \in Int /\ rank[n] \in Int
      BY <1>7, <2>2, <2>4
    <3> QED
      BY <2>3, <3>1
  <2> QED
    BY <1>14, <2>1, <2>3, <2>5
<1>17. Queue(nodes, rank, call.out, Len(more), Q)
  <2>1. Queue(nodes, rank, call.out, Len(s) + 1, Q)
    BY <1>7, <1>13, <1>15, <1>16, QueueSplit
  <2> QED
    BY <1>11, <2>1
<1>18. PICK out : out = call.out
  OBVIOUS
<1>19. Turn(more, out, f)
  <2>1. call.up = f /\ call.out = out
    BY <1>1, <1>2, <1>6, <1>18 DEF Calls
  <2>2. [call EXCEPT !.out = out, !.up = f, !.stack = more] = [call EXCEPT !.stack = more]
    BY <1>6, <2>1 DEF Calls
  <2> QED
    BY <1>2, <2>2 DEF Turn
<1>20. f \in BOOLEAN /\ out \in Seq(nodes) /\ more \in Seq(nodes)
  BY <1>1, <1>6, <1>11, <1>18
<1>21. Queue(nodes, rank, out, Len(more), Stacked(tree, sub, more, f))
  BY <1>12, <1>17, <1>18
<1>22. Good(tree, nodes, rank, sub, NIL, 1)
  BY <1>4
<1> QED
  BY <1>2, <1>19, <1>20, <1>21, <1>22, TurnKeeps

LEMMA VisitKeeps ==
    ASSUME IInv, Visit
    PROVE  IInv'
<1>1. PICK n, r, s, out, tail, f, b :
         /\ s = call.stack /\ n = Head(s) /\ r = tree.kid["right"][n] /\ tail = Tail(s)
         /\ out = Append(call.out, n) /\ f = FALSE /\ b = TRUE
  OBVIOUS
<1>2. /\ call.pc = "in_order" /\ s # <<>> /\ (call.up \/ tree.kid["left"][n] = NIL) /\ ReadOnly
      /\ r = NIL => Turn(tail, out, b)
      /\ r # NIL => Turn(Push(r, tail), out, f)
  <2>1. call' = [call EXCEPT !.out = out, !.up = (r = NIL),
                             !.stack = IF r = NIL THEN tail ELSE Push(r, tail)]
    BY <1>1 DEF Visit, Kid
  <2>2. r = NIL => Turn(tail, out, b)
    BY <1>1, <2>1 DEF Turn
  <2>3. r # NIL => Turn(Push(r, tail), out, f)
    BY <1>1, <2>1 DEF Turn
  <2> QED
    BY <1>1, <2>2, <2>3 DEF Visit, In, Kid
<1>3. call.pc \notin Fixups /\ call.pc # "idle"
  BY <1>2 DEF Fixups
<1>4. PICK rank, sub : Good(tree, nodes, rank, sub, NIL, 1) /\ Underway(rank, sub)
  BY <1>3, Looking
<1>5. Printing(rank, sub)
  BY <1>2, <1>4 DEF Underway, In
<1>6. s \in Seq(nodes) /\ call.out \in Seq(nodes) /\ call \in Calls
  BY <1>1, <1>5, CallTypes DEF Printing
<1>7. /\ n \in nodes /\ n = s[1] /\ Len(s) \in Nat \ {0}
      /\ tail \in Seq(nodes) /\ Len(tail) = Len(s) - 1
      /\ \A i \in 1..(Len(s) - 1) : tail[i] = s[i + 1]
  BY <1>1, <1>2, <1>6, TailFacts
<1>8. Shape(tree, nodes, rank, sub)
  BY <1>4 DEF Good
<1>9. "left" \in Sides /\ "right" \in Sides
  BY DEF Sides
<1>10. r \in nodes \cup {NIL}
  BY <1>1, <1>7, <1>8, <1>9, KidsBelow
<1>11. PICK P, Q, up : /\ up = call.up /\ P = Stacked(tree, sub, s, up)
                       /\ Q = [i \in 1..Len(s) |-> IF i = 1 THEN sub[r] ELSE P[i]]
  OBVIOUS
<1>12. Queue(nodes, rank, call.out, Len(s), P)
  BY <1>1, <1>5, <1>11, PrintingQueue
<1>13. 1 \in 1..Len(s) /\ Q[1] = sub[r] /\ \A i \in 2..Len(s) : Q[i] = P[i]
  BY <1>7, <1>11
<1>14. \A i \in 2..Len(s) : P[i] = {s[i]} \cup sub[tree.kid["right"][s[i]]]
  BY <1>11 DEF Stacked
<1>15. P[1] = {n} \cup sub[r]
  <2>1. CASE up
    BY <1>1, <1>7, <1>11, <1>13, <2>1 DEF Stacked
  <2>2. CASE ~up
    <3>1. P[1] = sub[n]
      BY <1>7, <1>11, <1>13, <2>2 DEF Stacked
    <3>2. sub[n] = {n} \cup sub[tree.kid["left"][n]] \cup sub[r] /\ sub[NIL] = {}
      BY <1>1, <1>7, <1>8 DEF Shape, Subtrees
    <3> QED
      BY <1>2, <1>11, <2>2, <3>1, <3>2
  <2> QED
    BY <2>1, <2>2
<1>16. \A y \in sub[r] : rank[n] < rank[y]
  BY <1>1, <1>7, <1>8 DEF Shape, Ordered
<1>17. Queue(nodes, rank, out, Len(s), Q)
  <2>1. P[1] = {n} \cup Q[1] /\ \A y \in Q[1] : rank[n] < rank[y]
    BY <1>13, <1>15, <1>16
  <2>2. PICK old : old = call.out
    OBVIOUS
  <2>3. old \in Seq(nodes) /\ out = Append(old, n) /\ Queue(nodes, rank, old, Len(s), P)
    BY <1>1, <1>6, <1>12, <2>2
  <2> QED
    BY ZenonT(40), <1>7, <1>13, <2>1, <2>3, QueuePrint
<1>18. out \in Seq(nodes)
  BY <1>1, <1>6, <1>7
<1>19. Good(tree, nodes, rank, sub, NIL, 1)
  BY <1>4
<1>20. CASE r = NIL
  <2>1. PICK R : R = Stacked(tree, sub, tail, b)
    OBVIOUS
  <2>2. Q[1] = {}
    BY <1>8, <1>13, <1>20 DEF Shape, Subtrees
  <2>3. \A i \in 1..(Len(s) - 1) : R[i] = Q[i + 1]
    <3> SUFFICES ASSUME NEW i \in 1..(Len(s) - 1) PROVE R[i] = Q[i + 1]
      OBVIOUS
    <3>1. i + 1 \in 2..Len(s) /\ i \in 1..Len(tail) /\ tail[i] = s[i + 1]
      BY <1>7
    <3>2. R[i] = {tail[i]} \cup sub[tree.kid["right"][tail[i]]]
      BY <1>1, <2>1, <3>1 DEF Stacked
    <3>3. Q[i + 1] = {s[i + 1]} \cup sub[tree.kid["right"][s[i + 1]]]
      BY <1>13, <1>14, <3>1
    <3> QED
      BY <3>1, <3>2, <3>3
  <2>4. Queue(nodes, rank, out, Len(s) - 1, R)
    BY <1>7, <1>17, <2>2, <2>3, QueueDrop
  <2>5. Queue(nodes, rank, out, Len(tail), Stacked(tree, sub, tail, b))
    BY <1>7, <2>1, <2>4
  <2>6. b \in BOOLEAN /\ tail \in Seq(nodes) /\ Turn(tail, out, b)
    BY <1>1, <1>2, <1>7, <1>20
  <2> QED
    BY <1>2, <1>18, <1>19, <2>5, <2>6, TurnKeeps
<1>21. CASE r # NIL
  <2>1. PICK more : more = Push(r, tail)
    OBVIOUS
  <2>2. r \in nodes /\ tail \in Seq(nodes)
    BY <1>7, <1>10, <1>21
  <2>3. /\ Push(r, tail) \in Seq(nodes) /\ Len(Push(r, tail)) = Len(tail) + 1
        /\ Push(r, tail)[1] = r
        /\ \A i \in 1..Len(tail) : Push(r, tail)[i + 1] = tail[i]
    BY <2>2, PushFacts
  <2>4. /\ more \in Seq(nodes) /\ Len(more) = Len(s) /\ more[1] = r
        /\ \A i \in 2..Len(s) : more[i] = s[i]
    <3>1. more \in Seq(nodes) /\ Len(more) = Len(s) /\ more[1] = r
      BY <1>7, <2>1, <2>3
    <3>2. ASSUME NEW i \in 2..Len(s) PROVE more[i] = s[i]
      <4>1. i - 1 \in 1..Len(tail) /\ i - 1 \in 1..(Len(s) - 1) /\ (i - 1) + 1 = i
        BY <1>7
      <4>2. more[(i - 1) + 1] = tail[i - 1] /\ tail[i - 1] = s[(i - 1) + 1]
        BY <1>7, <2>1, <2>3, <4>1
      <4> QED
        BY <4>1, <4>2
    <3> QED
      BY <3>1, <3>2
  <2>5. PICK R : R = Stacked(tree, sub, more, f)
    OBVIOUS
  <2>6. R = Q
    <3>1. \A i \in 1..Len(s) : R[i] = Q[i]
      <4> SUFFICES ASSUME NEW i \in 1..Len(s) PROVE R[i] = Q[i]
        OBVIOUS
      <4>1. CASE i = 1
        <5>1. R[i] = sub[more[i]]
          BY <1>1, <2>4, <2>5, <4>1 DEF Stacked
        <5> QED
          BY <1>13, <2>4, <4>1, <5>1
      <4>2. CASE i \in 2..Len(s)
        <5>1. i # 1 /\ more[i] = s[i]
          BY <2>4, <4>2
        <5>2. R[i] = {more[i]} \cup sub[tree.kid["right"][more[i]]]
          BY <2>4, <2>5, <5>1 DEF Stacked
        <5> QED
          BY <1>13, <1>14, <4>2, <5>1, <5>2
      <4> QED
        BY <1>7, <4>1, <4>2
    <3>2. R = [i \in 1..Len(s) |-> R[i]] /\ Q = [i \in 1..Len(s) |-> Q[i]]
      BY <1>11, <2>4, <2>5 DEF Stacked
    <3> QED
      BY <3>1, <3>2
  <2>7. Queue(nodes, rank, out, Len(more), Stacked(tree, sub, more, f))
    BY <1>17, <2>4, <2>5, <2>6
  <2>8. f \in BOOLEAN /\ more \in Seq(nodes) /\ Turn(more, out, f)
    BY <1>1, <1>2, <1>21, <2>1, <2>4
  <2> QED
    BY <1>2, <1>18, <1>19, <2>7, <2>8, TurnKeeps
<1> QED
  BY <1>20, <1>21

LEMMA InOrderKeeps ==
    ASSUME IInv, InOrder
    PROVE  IInv'
<1>1. Ready /\ ReadOnly
  BY DEF InOrder
<1>2. PICK pc, e, root, s : /\ pc = "in_order" /\ e = << >> /\ root = tree.root
                            /\ s = IF root = NIL THEN e ELSE <<root>>
  OBVIOUS
<1>3. call' = [Idle EXCEPT !.pc = pc, !.stack = s]
  BY <1>2 DEF InOrder
<1>4. call = Idle /\ ~tree.dead
  BY <1>1 DEF Ready
<1>5. call.pc \notin Fixups
  BY <1>4, IdleCall DEF Fixups
<1>6. PICK rank, sub : Good(tree, nodes, rank, sub, NIL, 1)
  BY <1>4, <1>5, NotStale
<1>7. root \in nodes \cup {NIL} /\ nodes \subseteq Nodes
  BY <1>2, <1>6, CallTypes, GoodFacts
<1>8. s \in Seq(nodes)
  <2>1. CASE root = NIL
    BY <1>2, <2>1
  <2>2. CASE root # NIL
    BY <1>2, <1>7, <2>2
  <2> QED
    BY <2>1, <2>2
<1>9. s \in Seq(Nodes)
  BY <1>7, <1>8, SeqWider
<1>10. pc \in Loops /\ pc \notin Fixups
  BY <1>2 DEF Loops, Fixups
<1>11. /\ call' \in Calls /\ call'.pc = pc /\ call'.stack = s
       /\ call'.at = Idle.at /\ call'.out = Idle.out /\ call'.up = Idle.up
  <2>1. Idle \in Calls
    BY IdleCall
  <2> QED
    BY <1>3, <1>9, <1>10, <2>1 DEF Calls
<1>12. Idle.at = NIL /\ Idle.out = e /\ Idle.up = FALSE
  BY <1>2 DEF Idle
<1>13. tree' = tree /\ nodes' = nodes
  BY <1>1 DEF ReadOnly
<1>14. Queue(nodes, rank, e, Len(s), Stacked(tree, sub, s, FALSE))
  <2>1. Len(e) = 0
    BY <1>2
  <2>2. CASE root = NIL
    <3>1. nodes = {}
      BY <1>2, <1>6, <2>2 DEF Good, Shape, Subtrees
    <3>2. Len(s) = 0
      BY <1>2, <2>1, <2>2
    <3> QED
      BY <2>1, <3>1, <3>2 DEF Queue
  <2>3. CASE root # NIL
    <3>1. Len(s) = 1 /\ s[1] = root
      BY <1>2, <2>3
    <3>2. PICK P : P = Stacked(tree, sub, s, FALSE)
      OBVIOUS
    <3>3. P[1] = nodes
      <4>1. P[1] = sub[root]
        BY <3>1, <3>2 DEF Stacked
      <4> QED
        BY <1>2, <1>6, <4>1 DEF Good, Shape, Subtrees
    <3>4. Queue(nodes, rank, e, 1, P)
      BY <2>1, <3>3 DEF Queue
    <3> QED
      BY <3>1, <3>2, <3>4
  <2> QED
    BY <2>2, <2>3
<1>15. Printing(rank, sub)'
  <2>1. call'.stack \in Seq(nodes') /\ call'.out \in Seq(nodes')
    BY <1>2, <1>8, <1>11, <1>12, <1>13
  <2>2. Queue(nodes', rank, call'.out, Len(call'.stack),
              Stacked(tree', sub, call'.stack, call'.up))
    BY <1>11, <1>12, <1>13, <1>14
  <2> QED
    BY <2>1, <2>2, QueuePrinting
<1>16. Underway(rank, sub)'
  BY <1>2, <1>11, <1>15 DEF Underway, In
<1>17. call'.pc \notin Fixups /\ call'.at \in nodes \cup {NIL} /\ call' \in Calls
  BY <1>10, <1>11, <1>12
<1> QED
  BY <1>1, <1>4, <1>5, <1>6, <1>16, <1>17, Reading

-----------------------------------------------------------------------------
(* The invariant holds.                                                    *)

LEMMA EmptyIsTree == EmptyTree \in Trees /\ ~EmptyTree.dead /\ EmptyTree.root = NIL
<1>1. PICK n, z, u, b, f : n = NIL /\ z = 0 /\ u = Null /\ b = "BLACK" /\ f = FALSE
  OBVIOUS
<1>2. n \in Links
  BY <1>1, NilIsNoNode
<1>3. z \in Int
  BY <1>1
<1>4. u \in Links \cup {Null}
  BY <1>1
<1>5. b \in Colors
  BY <1>1 DEF Colors
<1>6. f \in BOOLEAN
  BY <1>1
<1>7. EmptyTree =
        [root |-> n, dead |-> f, kid |-> [s \in Sides |-> [m \in Nodes |-> n]],
         parent |-> [m \in Links |-> u], color |-> [m \in Links |-> b],
         key |-> [m \in Nodes |-> z], high |-> [m \in Nodes |-> z],
         size |-> [m \in Links |-> z], maxHigh |-> [m \in Links |-> z]]
  BY <1>1 DEF EmptyTree
<1>8. EmptyTree \in Trees
  BY <1>2, <1>3, <1>4, <1>5, <1>6, <1>7 DEF Trees
<1> QED
  BY <1>8 DEF EmptyTree

LEMMA EmptySentinel == Sentinel(EmptyTree)
<1>1. NIL \in Links
  BY NilIsNoNode
<1>2. EmptyTree.color[NIL] = "BLACK"
  BY <1>1 DEF EmptyTree
<1>3. EmptyTree.size[NIL] = 0
  BY <1>1 DEF EmptyTree
<1>4. EmptyTree.maxHigh[NIL] = 0
  BY <1>1 DEF EmptyTree
<1> QED
  BY <1>2, <1>3, <1>4 DEF Sentinel

LEMMA NoNodesGood ==
    ASSUME NEW t, t.root = NIL, t \in Trees, ~t.dead, Sentinel(t), NEW st, NEW off
    PROVE  \E rank, sub : Good(t, {}, rank, sub, st, off)
<1>1. PICK N : N = {}
  OBVIOUS
<1>2. PICK rank, sub : rank = [n \in N |-> 0] /\ sub = [n \in {NIL} |-> N]
  OBVIOUS
<1>3. rank \in [N -> Int]
  BY <1>1, <1>2
<1>4. sub \in [N \cup {NIL} -> SUBSET N] /\ sub[NIL] = N
  BY <1>1, <1>2
<1>5. Linked(t, N)
  BY <1>1 DEF Linked
<1>6. Subtrees(t, N, sub)
  BY <1>1, <1>4 DEF Subtrees
<1>7. Ordered(t, N, rank, sub)
  BY <1>1 DEF Ordered
<1>8. Booked(t, N, sub, st, off)
  BY <1>1 DEF Booked
<1>9. Good(t, N, rank, sub, st, off)
  BY <1>1, <1>3, <1>4, <1>5, <1>6, <1>7, <1>8 DEF Good, Shape
<1> QED
  BY <1>1, <1>9

LEMMA InitIInv == Init => IInv
<1> SUFFICES ASSUME Init PROVE IInv
  OBVIOUS
<1>1. /\ kind \in Kinds /\ tree = EmptyTree /\ nodes = {} /\ held = [d \in Data |-> 0]
      /\ call = Idle
  BY DEF Init
<1>2. call \in Calls /\ call.pc = "idle" /\ call.at = NIL
  BY <1>1, IdleCall
<1>3. ~tree.dead /\ tree.root = NIL /\ tree \in Trees /\ Sentinel(tree)
  BY <1>1, EmptyIsTree, EmptySentinel
<1>4. nodes \subseteq Nodes /\ IsFiniteSet(nodes)
  BY <1>1, FS_EmptySet
<1>5. HeldCounts
  <2>1. \A d \in Data : {n \in nodes : Datum(n) = d} = {}
    BY <1>1
  <2>2. \A d \in Data : Cardinality({n \in nodes : Datum(n) = d}) = 0
    BY <2>1, FS_EmptySet
  <2> QED
    BY <1>1, <2>2 DEF HeldCounts
<1>6. PICK rank, sub : Good(tree, nodes, rank, sub, Stale, Off)
  BY <1>1, <1>3, NoNodesGood
<1>7. Underway(rank, sub)
  BY <1>2 DEF Underway, In
<1> QED
  BY <1>1, <1>2, <1>3, <1>4, <1>5, <1>6, <1>7 DEF IInv

LEMMA StutterKeeps ==
    ASSUME IInv, UNCHANGED vars
    PROVE  IInv'
<1>1. kind' = kind /\ tree' = tree /\ nodes' = nodes /\ held' = held /\ call' = call
  BY DEF vars
<1>2. /\ kind' \in Kinds /\ nodes' \subseteq Nodes /\ IsFiniteSet(nodes')
      /\ call' \in Calls /\ call'.at \in nodes' \cup {NIL} /\ (tree'.dead => call' = Idle)
  BY <1>1 DEF IInv
<1>3. ASSUME ~tree.dead
      PROVE  HeldCounts' /\ (\E rank, sub : Good(tree, nodes, rank, sub, Stale, Off)
                                             /\ Underway(rank, sub))'
  <2>1. PICK rank, sub : Good(tree, nodes, rank, sub, Stale, Off) /\ Underway(rank, sub)
    BY <1>3 DEF IInv
  <2>2. Stale' = Stale /\ Off' = Off
    BY <1>1 DEF Stale, Off
  <2>3. Good(tree', nodes', rank, sub, Stale', Off')
    BY <1>1, <2>1, <2>2
  <2>4. Good(tree, nodes, rank, sub, Stale, Off)'
    BY <1>1, <2>3, GoodNext
  <2>5. (Fresh' <=> Fresh) /\ (Descending(rank, sub)' <=> Descending(rank, sub))
    BY <1>1 DEF Fresh, Kid, Descending
  <2>6. (Searching(sub)' <=> Searching(sub)) /\ (Minimal(rank, sub)' <=> Minimal(rank, sub))
    BY <1>1 DEF Searching, SameOrder, Minimal, Kid
  <2>7. Counting(rank, sub)' <=> Counting(rank, sub)
    BY <1>1 DEF Counting
  <2>8. Overlapping(sub)' <=> Overlapping(sub)
    BY <1>1 DEF Overlapping, NoShadow, Meets
  <2>9. Printing(rank, sub)' <=> Printing(rank, sub)
    BY <1>1 DEF Printing, Pending, Kid
  <2>10. Underway(rank, sub)'
    BY <1>1, <2>1, <2>5, <2>6, <2>7, <2>8, <2>9 DEF Underway, In
  <2>11. HeldCounts'
    BY <1>1, <1>3 DEF IInv, HeldCounts
  <2> QED
    BY <2>4, <2>10, <2>11
<1> QED
  BY <1>1, <1>2, <1>3 DEF IInv

LEMMA StepKeeps == IInv /\ [Next]_vars => IInv'
<1> SUFFICES ASSUME IInv, [Next]_vars PROVE IInv'
  OBVIOUS
<1>1. CASE Inserting
  <2>1. ASSUME NEW d \in Data, Insert(d, d, d) PROVE IInv'
    <3>1. d \in Int /\ d <= d
      BY TreeAssumption
    <3> QED
      BY <2>1, <3>1, InsertKeeps
  <2>7. ASSUME NEW i \in Intervals, Insert(i[1], i[2], i[3]) PROVE IInv'
    <3>1. i[1] \in Data /\ i[2] \in Int /\ i[3] \in Int /\ i[2] <= i[3]
      BY TreeAssumption
    <3> QED
      BY <2>7, <3>1, InsertKeeps
  <2>2. CASE Descend
    BY <2>2, DescendKeeps
  <2>3. CASE Link
    BY <2>3, LinkKeeps
  <2>4. CASE Climb
    BY <2>4, ClimbKeeps
  <2>5. CASE InsertFixup
    BY <2>5, InsertFixupKeeps
  <2>6. CASE InsertDone
    BY <2>6, InsertDoneKeeps
  <2> QED
    BY <1>1, <2>1, <2>2, <2>3, <2>4, <2>5, <2>6, <2>7 DEF Inserting
<1>2. CASE Removing
  <2>1. ASSUME NEW d \in Data, Remove(d) PROVE IInv'
    BY <2>1, RemoveKeeps
  <2>2. CASE Search
    BY <2>2, SearchKeeps
  <2>3. CASE NotFound
    BY <2>3, NotFoundKeeps
  <2>4. CASE RemoveOneKid
    BY <2>4, RemoveOneKidKeeps
  <2>5. CASE RemoveTwoKids
    BY <2>5, RemoveTwoKidsKeeps
  <2>6. CASE GoToMin
    BY <2>6, GoToMinKeeps
  <2>7. CASE RemoveMin
    BY <2>7, RemoveMinKeeps
  <2>8. CASE RemoveFixup
    BY <2>8, RemoveFixupKeeps
  <2>9. CASE RemoveDone
    BY <2>9, RemoveDoneKeeps
  <2> QED
    BY <1>2, <2>1, <2>2, <2>3, <2>4, <2>5, <2>6, <2>7, <2>8, <2>9 DEF Removing
<1>3. CASE Asking
  <2>1. ASSUME NEW k \in 0..(Cardinality(nodes) + 1), SearchK(k) PROVE IInv'
    BY <2>1, SearchKKeeps
  <2>2. ASSUME NEW i \in Intervals, IntervalSearch(i[2], i[3]) PROVE IInv'
    <3>1. i[2] \in Int /\ i[3] \in Int /\ i[2] <= i[3]
      BY TreeAssumption
    <3> QED
      BY <2>2, <3>1, IntervalSearchKeeps
  <2>3. CASE InOrder
    BY <2>3, InOrderKeeps
  <2>4. CASE StepK
    BY <2>4, StepKKeeps
  <2>5. CASE StepOverlap
    BY <2>5, StepOverlapKeeps
  <2>6. CASE GoLeft
    BY <2>6, GoLeftKeeps
  <2>7. CASE Visit
    BY <2>7, VisitKeeps
  <2>8. CASE Answer
    BY <2>8, AnswerKeeps
  <2> QED
    BY <1>3, <2>1, <2>2, <2>3, <2>4, <2>5, <2>6, <2>7, <2>8 DEF Asking
<1>4. CASE UNCHANGED vars
  BY <1>4, StutterKeeps
<1> QED
  BY <1>1, <1>2, <1>3, <1>4 DEF Next

\* Invariant: between any two passes of any loop of the code, unless the process
\* has ended, the links are a tree over the nodes, whose sizes and max_high are
\* right except above a node on whose account the way up is still to come; and what the
\* call under way has seen or left out agrees with where it is.
THEOREM InvariantHolds == Spec => []IInv
  BY InitIInv, StepKeeps, PTL DEF Spec

-----------------------------------------------------------------------------
(* What the invariant says of the properties that the runs check.          *)

\* TypeOK (rb_tree.hpp, os_tree.hpp, int_tree.hpp): every link leads to an
\* allocated node whose parent pointer leads back, and the sentinel keeps its
\* colour and its zeroes, between any two passes of a loop.
THEOREM TypeCorrect == Spec => []TypeOK
<1>1. ASSUME IInv PROVE TypeOK
  <2>1. kind \in Kinds
    BY <1>1 DEF IInv
  <2>2. ASSUME ~tree.dead
        PROVE  /\ tree.root \in nodes \cup {NIL}
               /\ tree.root # NIL => tree.parent[tree.root] = NIL
               /\ \A n \in nodes, s \in Sides :
                     LET c == tree.kid[s][n] IN c # NIL => c \in nodes /\ tree.parent[c] = n
               /\ tree.color[NIL] = "BLACK" /\ tree.size[NIL] = 0 /\ tree.maxHigh[NIL] = 0
    <3>1. PICK rank, sub : Good(tree, nodes, rank, sub, Stale, Off)
      BY <1>1, <2>2 DEF IInv
    <3>2. Linked(tree, nodes) /\ Sentinel(tree)
      BY <3>1 DEF Good, Shape
    <3> QED
      BY <3>2 DEF Linked, Sentinel
  <2> QED
    BY <2>1, <2>2 DEF TypeOK
<1> QED
  BY <1>1, InvariantHolds, PTL

\* search_k has come to a node as far from the left as k, or to none (os_tree_ini.hpp)
LEMMA KthFound == ASSUME IInv PROVE FindsKth
<1> SUFFICES ASSUME KAnswered PROVE FindsKth
  BY DEF FindsKth
<1>1. PICK at, l, k, arg : at = call.at /\ l = tree.kid["left"][at] /\ k = call.k
                           /\ arg = call.arg
  OBVIOUS
<1>2. call.pc = "search_k" /\ (at # NIL => k = tree.size[l] + 1)
  BY <1>1 DEF KAnswered, In, RankBelow, Kid
<1>3. call.pc \notin Fixups /\ call.pc # "idle"
  BY <1>2 DEF Fixups
<1>4. PICK o : o = 1
  OBVIOUS
<1>5. PICK rank, sub : Good(tree, nodes, rank, sub, NIL, o) /\ Underway(rank, sub)
  BY <1>3, <1>4, Looking
<1>6. nodes \subseteq Nodes /\ IsFiniteSet(nodes) /\ at \in nodes \cup {NIL} /\ call \in Calls
  BY <1>1, CallTypes
<1>7. Counting(rank, sub)
  BY <1>2, <1>5 DEF Underway, In
<1>8. Shape(tree, nodes, rank, sub) /\ kind = "os" /\ \A n \in nodes : tree.key[n] \in Int
  BY <1>5, <1>6, <1>7, GoodFacts DEF Counting
<1>9. CASE at = NIL
  <2>1. Cardinality(sub[NIL]) = 0
    BY <1>6, <1>8, SubsFinite
  <2>2. arg \in 1..Cardinality(nodes) => k \in 1..Cardinality(sub[at])
    BY <1>1, <1>7 DEF Counting
  <2>3. arg \notin 1..Cardinality(nodes)
    BY <2>1, <2>2, <1>9
  <2> QED
    BY <1>1, <1>9, <2>3 DEF FindsKth
<1>10. CASE at # NIL
  <2>1. at \in nodes /\ "left" \in Sides
    BY <1>6, <1>10 DEF Sides
  <2>2. l \in nodes \cup {NIL}
    BY <1>1, <1>8, <2>1, KidsBelow
  <2>3. tree.size[l] = Cardinality(sub[l]) /\ Cardinality(sub[l]) \in Nat
    BY <1>5, <1>6, <1>8, <2>2, KindSizes
  <2>4. Cardinality(Before(nodes, at, rank, sub)) \in Nat
    <3>1. Before(nodes, at, rank, sub) \in SUBSET nodes
      BY DEF Before
    <3> QED
      BY <1>6, <3>1, FS_Subset, FS_CardinalityType
  <2>5. arg = k + Cardinality(Before(nodes, at, rank, sub))
    BY <1>1, <1>7, <1>10 DEF Counting
  <2>6. arg = Cardinality(Before(nodes, at, rank, sub)) + Cardinality(sub[l]) + 1
    BY <1>2, <1>10, <2>3, <2>4, <2>5
  <2>7. /\ Cardinality({n \in nodes : tree.key[n] < tree.key[at]}) < arg
        /\ arg <= Cardinality({n \in nodes : tree.key[n] <= tree.key[at]})
    <3>1. PICK t, N : t = tree /\ N = nodes
      OBVIOUS
    <3>2. IsFiniteSet(N) /\ Shape(t, N, rank, sub) /\ at \in N
      BY <1>6, <1>8, <2>1, <3>1
    <3>3. \A n \in N : t.key[n] \in Int
      BY <1>8, <3>1
    <3>4. l = t.kid["left"][at]
      BY <1>1, <3>1
    <3>5. arg = Cardinality(Before(N, at, rank, sub)) + Cardinality(sub[l]) + 1
      BY <2>6, <3>1
    <3>6. /\ Cardinality({n \in N : t.key[n] < t.key[at]}) < arg
          /\ arg <= Cardinality({n \in N : t.key[n] <= t.key[at]})
      BY <3>2, <3>3, <3>4, <3>5, KthDatum
    <3> QED
      BY <3>1, <3>6
  <2>8. \A n \in nodes : tree.key[n] = Datum(n)
    BY <1>3, <1>8, Looking DEF HeldCounts
  <2>9. /\ {n \in nodes : tree.key[n] < tree.key[at]} = {n \in nodes : Datum(n) < Datum(at)}
        /\ {n \in nodes : tree.key[n] <= tree.key[at]} = {n \in nodes : Datum(n) <= Datum(at)}
    BY <2>1, <2>8
  <2> QED
    BY <1>1, <1>10, <2>1, <2>7, <2>9 DEF FindsKth
<1> QED
  BY <1>9, <1>10

\* FindsKth (os_tree_ini.hpp): the sizes are right after any rotation and
\* removal, so search_k answers the k-th smallest datum, or none beyond the last.
THEOREM KthCorrect == Spec => []FindsKth
  BY InvariantHolds, KthFound, PTL

\* interval_search has not left the side of the tree where an interval meets the
\* one asked for (int_tree_ini.hpp)
LEMMA OverlapFound == ASSUME IInv PROVE FindsOverlap
<1> SUFFICES ASSUME OverlapAnswered PROVE FindsOverlap
  BY DEF FindsOverlap
<1>1. call.pc = "int_search" /\ (call.at # NIL => Meets(call.at))
  BY DEF OverlapAnswered, In
<1>2. call.pc \notin Fixups /\ call.pc # "idle"
  BY <1>1 DEF Fixups
<1>3. PICK o : o = 1
  OBVIOUS
<1>4. PICK rank, sub : Good(tree, nodes, rank, sub, NIL, o) /\ Underway(rank, sub)
  BY <1>2, <1>3, Looking
<1>5. nodes \subseteq Nodes /\ call.at \in nodes \cup {NIL} /\ NIL \notin nodes
  BY CallTypes
<1>6. sub[NIL] = {}
  BY <1>4, <1>5, GoodFacts
<1>7. NoShadow /\ (\E n \in nodes : Meets(n)) => \E n \in sub[call.at] : Meets(n)
  BY <1>1, <1>4 DEF Underway, In, Overlapping
<1>8. call.at # NIL => call.at \in nodes /\ Meets(call.at)
  BY <1>1, <1>5
<1>9. NoShadow => (call.at = NIL <=> ~\E n \in nodes : Meets(n))
  BY <1>6, <1>7, <1>8
<1> QED
  BY <1>8, <1>9 DEF FindsOverlap, NoShadow

\* FindsOverlap (int_tree_ini.hpp): what interval_search finds meets the interval
\* asked for, and it finds one if there is one, no max_high being too small.
THEOREM OverlapCorrect == Spec => []FindsOverlap
  BY InvariantHolds, OverlapFound, PTL

\* where the data printed are d, and the nodes that hold d
PlacesOf(out, d) == {i \in 1..Len(out) : Datum(out[i]) = d}
Holding(N, d)    == {n \in N : Datum(n) = d}

\* what in_order has printed when its stack is empty: every node once, in order
LEMMA ListedAll ==
    ASSUME NEW N, NEW rank, NEW t, NEW out, out \in Seq(N), rank \in [N -> Int],
           \A m, n \in N : rank[m] < rank[n] => t.key[m] <= t.key[n],
           \A i, j \in 1..Len(out) : i < j => rank[out[i]] < rank[out[j]],
           \A n \in N : \E i \in 1..Len(out) : out[i] = n
    PROVE  /\ \A i, j \in 1..Len(out) : i < j => t.key[out[i]] <= t.key[out[j]]
           /\ \A d : ExistsBijection(PlacesOf(out, d), Holding(N, d))
<1>1. Len(out) \in Nat /\ \A i \in 1..Len(out) : out[i] \in N
  BY LenProperties
<1>2. \A i, j \in 1..Len(out) : i < j => t.key[out[i]] <= t.key[out[j]]
  BY <1>1
<1>3. \A i, j \in 1..Len(out) : out[i] = out[j] => i = j
  <2> SUFFICES ASSUME NEW i \in 1..Len(out), NEW j \in 1..Len(out), out[i] = out[j], i # j
               PROVE  FALSE
    OBVIOUS
  <2>1. i < j \/ j < i
    BY <1>1
  <2>2. rank[out[i]] \in Int
    BY <1>1
  <2>3. rank[out[i]] < rank[out[j]] \/ rank[out[j]] < rank[out[i]]
    BY <2>1
  <2>4. PICK r : r = rank[out[i]]
    OBVIOUS
  <2>5. r = rank[out[j]]
    BY <2>4
  <2>6. r < r
    BY <2>3, <2>4, <2>5
  <2>7. r \in Int
    BY <2>2, <2>4
  <2> QED
    BY <2>6, <2>7
<1>4. ASSUME NEW d
      PROVE  ExistsBijection(PlacesOf(out, d), Holding(N, d))
  <2> DEFINE I == {i \in 1..Len(out) : Datum(out[i]) = d}
             M == {n \in N : Datum(n) = d}
             f == [i \in I |-> out[i]]
  <2>1. \A i \in I : out[i] \in M
    BY <1>1
  <2>2. \A n \in M : \E i \in I : out[i] = n
    OBVIOUS
  <2>3. \A i, j \in I : out[i] = out[j] => i = j
    BY <1>3
  <2> HIDE DEF I, M
  <2>4. f \in Bijection(I, M)
    BY <2>1, <2>2, <2>3 DEF Bijection, Injection, Surjection, IsInjective
  <2>5. ExistsBijection(I, M)
    BY <2>4 DEF ExistsBijection
  <2> QED
    BY <2>5 DEF I, M, PlacesOf, Holding
<1> QED
  BY <1>2, <1>4

LEMMA ListedKept ==
    ASSUME IInv, Listed
    PROVE  /\ \A i, j \in 1 .. Len(call.out) :
                 i < j => tree.key[call.out[i]] <= tree.key[call.out[j]]
           /\ \A d \in Data :
                 Cardinality({i \in 1 .. Len(call.out) : Datum(call.out[i]) = d}) = held[d]
<1>1. call.pc = "in_order" /\ call.stack = << >>
  BY DEF Listed, In
<1>2. call.pc \notin Fixups /\ call.pc # "idle"
  BY <1>1 DEF Fixups
<1>3. ~tree.dead
  BY <1>2, NotDead
<1>4. (\E rank, sub : Good(tree, nodes, rank, sub, NIL, 1) /\ Underway(rank, sub)) /\ HeldCounts
  BY <1>2, <1>3, NotStale
<1>5. PICK rank, sub : Good(tree, nodes, rank, sub, NIL, 1) /\ Underway(rank, sub)
  BY <1>4
<1>6. Printing(rank, sub)
  BY <1>1, <1>5 DEF Underway, In
<1>7. PICK out : out = call.out
  OBVIOUS
<1>8. out \in Seq(nodes) /\ \A i, j \in 1..Len(out) : i < j => rank[out[i]] < rank[out[j]]
  BY <1>6, <1>7 DEF Printing
<1>9. \A n \in nodes : \E i \in 1..Len(out) : out[i] = n
  <2>1. \A j \in 1..Len(call.stack) : FALSE
    BY <1>1
  <2> QED
    BY <1>6, <1>7, <2>1 DEF Printing
<1>10. /\ rank \in [nodes -> Int]
       /\ \A m, n \in nodes : rank[m] < rank[n] => tree.key[m] <= tree.key[n]
  BY <1>5 DEF Good, Shape, Ordered
<1>11. /\ \A i, j \in 1..Len(out) : i < j => tree.key[out[i]] <= tree.key[out[j]]
       /\ \A d : ExistsBijection(PlacesOf(out, d), Holding(nodes, d))
  <2>1. PICK t, N : t = tree /\ N = nodes
    OBVIOUS
  <2>2. out \in Seq(N) /\ rank \in [N -> Int]
    BY <1>8, <1>10, <2>1
  <2>3. \A m, n \in N : rank[m] < rank[n] => t.key[m] <= t.key[n]
    BY <1>10, <2>1
  <2>4. \A i, j \in 1..Len(out) : i < j => rank[out[i]] < rank[out[j]]
    BY <1>8
  <2>5. \A n \in N : \E i \in 1..Len(out) : out[i] = n
    BY <1>9, <2>1
  <2>6. /\ \A i, j \in 1..Len(out) : i < j => t.key[out[i]] <= t.key[out[j]]
        /\ \A d : ExistsBijection(PlacesOf(out, d), Holding(N, d))
    BY <2>2, <2>3, <2>4, <2>5, ListedAll
  <2> QED
    BY <2>1, <2>6
<1>12. ASSUME NEW d \in Data
       PROVE  Cardinality({i \in 1..Len(out) : Datum(out[i]) = d}) = held[d]
  <2>1. PICK I, M : /\ I = PlacesOf(out, d)
                    /\ M = Holding(nodes, d)
    OBVIOUS
  <2>2. IsFiniteSet(I)
    <3>1. Len(out) \in Nat
      BY <1>8, LenProperties
    <3>2. IsFiniteSet(1..Len(out))
      BY <3>1, FS_Interval
    <3>3. I \in SUBSET (1..Len(out))
      BY <2>1 DEF PlacesOf
    <3> QED
      BY <3>2, <3>3, FS_Subset
  <2>3. ExistsBijection(I, M)
    BY <1>11, <2>1
  <2>4. Cardinality(M) = Cardinality(I)
    BY <2>2, <2>3, FS_Bijection
  <2>5. held[d] = Cardinality(M)
    BY <1>4, <2>1 DEF HeldCounts, Holding
  <2> QED
    BY <2>1, <2>4, <2>5 DEF PlacesOf
<1> QED
  BY <1>7, <1>11, <1>12

\* search_node has left no match aside on its way to the sentinel
LEMMA MissedKept ==
    ASSUME IInv, Missed, kind = "int" => SameOrder
    PROVE  held[call.arg] = 0
<1>1. PICK d : d = call.arg
  OBVIOUS
<1>2. call.pc = "search" /\ call.at = NIL
  BY DEF Missed, In
<1>3. call.pc \notin Fixups /\ call.pc # "idle"
  BY <1>2 DEF Fixups
<1>4. PICK rank, sub : Good(tree, nodes, rank, sub, NIL, 1) /\ Underway(rank, sub)
  BY <1>3, Looking
<1>5. HeldCounts
  BY <1>3, Looking
<1>6. SameOrder
  BY <1>5 DEF HeldCounts, SameOrder
<1>7. sub[NIL] = {}
  BY <1>4, CallTypes, GoodFacts
<1>8. Searching(sub)
  BY <1>2, <1>4 DEF Underway, In
<1>9. d \in Data /\ {n \in nodes : Datum(n) = d} = {}
  BY <1>1, <1>2, <1>6, <1>7, <1>8 DEF Searching
<1>10. held[d] = Cardinality({n \in nodes : Datum(n) = d})
  BY <1>5, <1>9 DEF HeldCounts
<1> QED
  BY <1>1, <1>9, <1>10, FS_EmptySet

LEMMA ContentsKept == ASSUME IInv PROVE KeepsContents
  BY ListedKept, MissedKept DEF KeepsContents

\* KeepsContents (rb_tree_ini.hpp, int_tree_ini.hpp): in_order prints what was inserted
\* and not removed, each datum as often as it is held, in the order of the keys, whatever
\* the fixups have rotated; and remove fails only for a datum that is not held, provided
\* that in an interval tree left ends and data have one order.
THEOREM ContentsCorrect == Spec => []KeepsContents
  BY InvariantHolds, ContentsKept, PTL
=============================================================================
