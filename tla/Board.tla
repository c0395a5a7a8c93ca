------------------------------- MODULE Board -------------------------------
(***************************************************************************)
(* The map and the snakes of a game (CMap, CSnake of src/game.cpp): pure   *)
(* operators on a board, a record of                                       *)
(*   map     what each cell shows (m_map)                                  *)
(*   over    how many nodes of snakes lie on each cell (m_overlap)         *)
(*   snakes  the nodes of each snake, head first (m_snake)                 *)
(*   seed    the seed of rand() (m_nRandSeed when the game began)          *)
(*   drawn   how many cells rand() has given since srand                   *)
(*   state   "ok"; "hung" in a loop that no cell can end; "wild" after an  *)
(*           access outside m_map                                          *)
(* A cell is a pair of a row and a column, from 0 as in the code.          *)
(***************************************************************************)
EXTENDS Integers, FiniteSets, Sequences, SequencesExt

CONSTANTS
    H, W,       \* MAP_H and MAP_W
    Players,    \* the clients that play, the keys of m_mapSnake
    Rand        \* what rand() yields after srand(seed): for each seed a
                \* sequence of cells inside the border, taken round and round

ASSUME BoardAssumption ==
    /\ H \in Nat /\ W \in Nat /\ H > 2 /\ W > 2
    /\ Players \subseteq Nat \ {0} /\ IsFiniteSet(Players)
    /\ \A seed \in DOMAIN Rand :
         /\ Rand[seed] \in Seq((1 .. H - 2) \X (1 .. W - 2))
         /\ ToSet(Rand[seed]) = (1 .. H - 2) \X (1 .. W - 2)

Seeds    == DOMAIN Rand
Cells    == (0 .. H - 1) \X (0 .. W - 1)
Interior == (1 .. H - 2) \X (1 .. W - 2)
Border   == Cells \ Interior

Kinds == {"BLANK", "BORDER", "SNAKE", "FOOD"}
Opts  == {"FORWARD", "UP", "DOWN", "LEFT", "RIGHT"}

\* the players in the order of their ids: a map is traversed in it, and the
\* i-th command of a frame is the i-th player's
Slots == CHOOSE s \in [1 .. Cardinality(Players) -> Players] :
            \A i, j \in DOMAIN s : i < j => s[i] < s[j]

Step(o) == CASE o = "UP"    -> <<-1, 0>> [] o = "DOWN"  -> <<1, 0>>
             [] o = "LEFT"  -> <<0, -1>> [] o = "RIGHT" -> <<0, 1>>

Neighbour(c, o) == <<c[1] + Step(o)[1], c[2] + Step(o)[2]>>

----------------------------------------------------------------------------
\* `n' more draws; the n-th of them is the cell that was taken
Draw(b, n) == Rand[b.seed][((b.drawn + n - 1) % Len(Rand[b.seed])) + 1]

\* The loops around rand() draw until a cell will do: the draws of one round
\* through the sequence that will do.  A round shows every cell, so that a loop
\* it does not end never ends.
Rounds(b, good) == {n \in 1 .. Len(Rand[b.seed]) : Draw(b, n) \in good}
First(N) == CHOOSE n \in N : \A m \in N : n <= m

Put(b, c) == [b EXCEPT !.map[c] = "SNAKE", !.over[c] = @ + 1]

\* a mutant: food may be put on a snake
BadRandomMakeFood(b) ==
    LET c == Draw(b, 1)
    IN  [b EXCEPT !.map[c] = "FOOD", !.drawn = (@ + 1) % Len(Rand[b.seed])]

\* The food goes on the first cell drawn that shows no snake, whatever else
\* it shows; when snakes fill the map there is none.
RandomMakeFood(b) ==
    LET N == Rounds(b, {c \in Interior : b.map[c] # "SNAKE"})
    IN  IF N = {} THEN [b EXCEPT !.state = "hung"]
        ELSE [b EXCEPT !.map[Draw(b, First(N))] = "FOOD",
                       !.drawn = (@ + First(N)) % Len(Rand[b.seed])]

\* One turn of random_make_snake's loop over m_mapSnake.  The neighbours are
\* tried in this order; a cell of the border will do for the second node.
\* The nodes are added to whatever nodes the snake still has.
Around == <<"UP", "DOWN", "LEFT", "RIGHT">>

Beside(b, c) == {i \in 1 .. 4 : b.map[Neighbour(c, Around[i])] # "SNAKE"}

RandomMakeSnake(b, p) ==
    LET N == Rounds(b, {e \in Interior : b.map[e] # "SNAKE" /\ Beside(b, e) # {}})
        c == Draw(b, First(N))
        d == Neighbour(c, Around[First(Beside(b, c))])
    IN  IF b.state # "ok" THEN b
        ELSE IF N = {} THEN [b EXCEPT !.state = "hung"]
        ELSE [Put(Put(b, c), d) EXCEPT
                 !.snakes[p] = @ \o <<c, d>>,
                 !.drawn = (@ + First(N)) % Len(Rand[b.seed])]

\* CMap::init
Clear(b, seed) ==
    [b EXCEPT !.map  = [c \in Cells |-> IF c \in Border THEN "BORDER" ELSE "BLANK"],
              !.over = [c \in Cells |-> 0],
              !.seed = seed, !.drawn = 0]

\* CGameClient::init; the snakes keep the nodes of an earlier game
NewGame(b, seed) ==
    LET placed[i \in 0 .. Len(Slots)] ==
            IF i = 0 THEN Clear(b, seed) ELSE RandomMakeSnake(placed[i - 1], Slots[i])
        all == placed[Len(Slots)]
    IN  IF all.state # "ok" THEN all ELSE RandomMakeFood(all)

NoGame == [map |-> [c \in Cells |-> "BLANK"], over |-> [c \in Cells |-> 0],
           seed |-> 0, drawn |-> 0, state |-> "ok",
           snakes |-> [p \in Players |-> <<>>]]

----------------------------------------------------------------------------
\* The tail leaves and becomes the head; its cell is blank again unless
\* another node lies on it.  The new head is counted first: it may go where
\* the tail was.
Advance(b, p, to) ==
    LET nodes == b.snakes[p]
        head  == Put(b, to)
        away  == [head EXCEPT !.over[Last(nodes)] = @ - 1]
        moved == [away EXCEPT !.snakes[p] = <<to>> \o Front(nodes)]
    IN  IF away.over[Last(nodes)] < 1 THEN [moved EXCEPT !.map[Last(nodes)] = "BLANK"]
        ELSE moved

Eat(b, p, to) ==
    RandomMakeFood([Put(b, to) EXCEPT !.snakes[p] = <<to>> \o @])

\* a mutant: the border is not looked at
BadMoveCore(b, p, o) ==
    LET to == Neighbour(Head(b.snakes[p]), o)
    IN  IF to \notin Cells THEN [b EXCEPT !.state = "wild"]
        ELSE IF b.map[to] = "FOOD" THEN Eat(b, p, to)
        ELSE Advance(b, p, to)

\* The next cell may be outside the array, on the border, or food; a blank one
\* and one with a snake are entered alike.
MoveCore(b, p, o) ==
    LET to == Neighbour(Head(b.snakes[p]), o)
    IN  IF to \notin Cells THEN [b EXCEPT !.state = "wild"]
        ELSE IF b.map[to] = "BORDER" THEN b
        ELSE IF b.map[to] = "FOOD" THEN Eat(b, p, to)
        ELSE Advance(b, p, to)

\* The first two nodes say where the snake goes.
Course(s) ==
    CASE s[1][1] > s[2][1] -> "DOWN"
      [] s[1][1] < s[2][1] -> "UP"
      [] s[1][1] = s[2][1] /\ s[1][2] > s[2][2] -> "RIGHT"
      [] OTHER -> "LEFT"

\* a mutant: the comparison is the wrong way round
BadTurnsBack(s, o) ==
    Step(o)[1] * (s[1][1] - s[2][1]) + Step(o)[2] * (s[1][2] - s[2][2]) > 0

\* move_up, move_down, move_left and move_right refuse to turn back.
TurnsBack(s, o) ==
    Step(o)[1] * (s[1][1] - s[2][1]) + Step(o)[2] * (s[1][2] - s[2][2]) < 0

\* one turn of refresh_thread_func's loop; an unknown command does nothing
Move(b, p, o) ==
    IF b.state # "ok" \/ o \notin Opts THEN b
    ELSE IF o = "FORWARD" THEN MoveCore(b, p, Course(b.snakes[p]))
    ELSE IF TurnsBack(b.snakes[p], o) THEN b
    ELSE MoveCore(b, p, o)

\* A frame moves the i-th snake by its i-th command.
ApplyFrame(b, slots) ==
    LET moved[i \in 0 .. Len(Slots)] ==
            IF i = 0 THEN b ELSE Move(moved[i - 1], Slots[i], slots[i])
    IN  moved[Len(Slots)]
=============================================================================
