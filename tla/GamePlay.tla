----------------------------- MODULE GamePlay -----------------------------
(***************************************************************************)
(* A game between its start and its end (src/game.cpp): the frame threads  *)
(* of the room on the server (CGame), the multicast datagrams, and on each *)
(* client the threads of CGameClient: one receives frames into a queue,    *)
(* one takes them out and moves the snakes on the client's own map.  No    *)
(* map is ever sent: the clients are to compute the same one from the same *)
(* seed and the same frames.                                               *)
(*                                                                         *)
(* Nothing in the repository fills m_mapSnake or calls add_gameopt yet;    *)
(* here the players of the room have a snake each, and their commands      *)
(* reach the room.  A frame is known by its place in `log', the frames     *)
(* sent so far (szFrameID); no client looks at that number.                *)
(***************************************************************************)
EXTENDS Board

CONSTANTS
    Clients,    \* the processes that show the game, a subset of Players
    Commands,   \* the commands given, a subset of what keys give
    MaxFrames,  \* bound on the frames sent
    MaxOpts,    \* bound on the commands given by all players together
    MaxPending, \* bound on the frames under way to a client
    MaxFaults,  \* bound on datagrams lost or overtaken, all together
    MaxGames    \* bound on the games a client process starts

ASSUME GamePlayAssumption ==
    /\ Clients \subseteq Players
    /\ Commands \subseteq Opts \ {"FORWARD"}
    /\ MaxFrames \in Nat /\ MaxOpts \in Nat /\ MaxPending \in Nat
    /\ MaxFaults \in Nat /\ MaxGames \in Nat

VARIABLES
    threads,    \* the frame threads: the commands each has in temp_frame
    opts,       \* m_mapGameOpt: the commands of each player of the room
    issued,     \* history: the commands each player has given
    log,        \* history: the frames sent
    net,        \* the datagrams in the socket of each client
    faults,     \* how many datagrams were lost or overtaken
    client      \* each client process
(* A client is a record of                                                 *)
(*   invited  it was told of the start and counts down                     *)
(*   on       start() is in its loop: not m_bExitRecvFrame, nor Refresh    *)
(*   games    how many games it has started                                *)
(*   seed     m_nRandSeed                                                  *)
(*   binding  a new receive thread has not bound the port yet              *)
(*   recv     the receive thread that has: "receiving", in recvfrom; to    *)
(*            test m_bExitRecvFrame next, "bound" for the first time or    *)
(*            "queued" after a frame; or "none"                            *)
(*   refresh  its refresh threads: "waiting" for a frame, or "asleep",     *)
(*            or new, to test m_bExitRefresh next                          *)
(*   hasty    history: start() has left its loop at a moment when the      *)
(*            receive thread was not in recvfrom                           *)
(*   que      m_queGameFrame                                               *)
(*   seen     history: the frames its map was moved by in this game        *)
(*   board    m_map and m_mapSnake                                         *)
(*   exited   IF_EXIT has ended the process                                *)
vars == <<threads, opts, issued, log, net, faults, client>>

NoClient == [invited |-> FALSE, on |-> FALSE, games |-> 0, seed |-> 0,
             binding |-> FALSE, recv |-> "none", refresh |-> <<>>, hasty |-> FALSE,
             que |-> <<>>, seen |-> <<>>, board |-> NoGame, exited |-> FALSE]

\* `now' is client c after a step that leaves the rest alone
Becomes(c, now) ==
    /\ ~client[c].exited
    /\ client' = [client EXCEPT ![c] = now]
    /\ UNCHANGED <<threads, opts, issued, log, faults>>

\* c's socket takes datagrams.  A client whose map is hung or wild is
\* followed no further.
Hears(c) == client[c].recv # "none" /\ client[c].board.state = "ok"

----------------------------------------------------------------------------
(* The server and the network.                                             *)

\* do_game_start: one seed for all players, and CGame::start.  The frames
\* begin at once, the clients count down five seconds first.  CGame::over is
\* called nowhere: a further start begins one more frame thread.
GameStart ==
    /\ \E s \in Seeds :
         client' = [c \in Clients |->
             IF client[c].exited THEN client[c]
             ELSE [client[c] EXCEPT !.seed = s, !.invited = ~client[c].on]]
    /\ \E c \in Clients : /\ ~client[c].on /\ ~client[c].invited /\ ~client[c].exited
                         /\ client[c].games < MaxGames
    /\ threads' = Append(threads, <<>>)
    /\ UNCHANGED <<opts, issued, log, net, faults>>

Given == Cardinality({n \in Players \X (1 .. MaxOpts) : n[2] <= Len(issued[n[1]])})

\* Try_GetTask on p's queue, with the command that stands in for none
Taken(p) == IF opts[p] = <<>> THEN "FORWARD" ELSE Head(opts[p])

\* CGame::add_gameopt
AddGameopt(p, o) ==
    /\ threads # <<>> /\ Given < MaxOpts
    /\ opts' = [opts EXCEPT ![p] = Append(@, o)]
    /\ issued' = [issued EXCEPT ![p] = Append(@, o)]
    /\ UNCHANGED <<threads, log, net, faults, client>>

\* a mutant: the command stays in its queue
BadPopCommand(t) ==
    LET p == Slots[Len(threads[t]) + 1]
    IN  /\ Len(threads[t]) < Len(Slots)
        /\ threads' = [threads EXCEPT ![t] = Append(@, Taken(p))]
        /\ UNCHANGED <<opts, issued, log, net, faults, client>>

\* send_frame_thread_func walks m_mapGameOpt in the order of the players' ids:
\* one Try_GetTask, under that queue's own mutex.  No lock is held from one
\* to the next, nor until the frame is sent.
PopCommand(t) ==
    LET p == Slots[Len(threads[t]) + 1]
    IN  /\ Len(threads[t]) < Len(Slots)
        /\ threads' = [threads EXCEPT ![t] = Append(@, Taken(p))]
        /\ opts' = [opts EXCEPT ![p] = IF @ = <<>> THEN <<>> ELSE Tail(@)]
        /\ UNCHANGED <<issued, log, net, faults, client>>

\* its sendto.  A datagram reaches the clients whose receive thread has bound
\* its socket.
SendTo(t) ==
    /\ Len(threads[t]) = Len(Slots) /\ Len(log) < MaxFrames
    /\ \A c \in Clients : Hears(c) => Len(net[c]) + Len(client[c].que) < MaxPending
    /\ log' = Append(log, threads[t])
    /\ threads' = [threads EXCEPT ![t] = <<>>]
    /\ net' = [c \in Clients |-> IF Hears(c) THEN Append(net[c], Len(log')) ELSE net[c]]
    /\ UNCHANGED <<opts, issued, faults, client>>

Lose(c, i) ==
    /\ faults < MaxFaults
    /\ i \in 1 .. Len(net[c])
    /\ net' = [net EXCEPT ![c] = RemoveAt(@, i)]
    /\ faults' = faults + 1
    /\ UNCHANGED <<threads, opts, issued, log, client>>

Overtake(c, i) ==
    /\ faults < MaxFaults
    /\ i \in 1 .. Len(net[c]) - 1
    /\ net' = [net EXCEPT ![c][i] = net[c][i + 1], ![c][i + 1] = net[c][i]]
    /\ faults' = faults + 1
    /\ UNCHANGED <<threads, opts, issued, log, client>>

----------------------------------------------------------------------------
(* The client.                                                             *)

\* The second that the last start() slept before it returned was time enough
\* for every thread that had something to do.
Rested(me, c) ==
    /\ ~me.binding /\ me.recv \in {"none", "receiving"}
    /\ me.recv = "receiving" => net[c] = <<>>
    /\ \A t \in DOMAIN me.refresh : me.refresh[t] = "waiting" /\ me.que = <<>>

\* CGameClient::start up to its loop: the flags are cleared, which also holds
\* for threads of an old game, and the two threads are begun.
Begin(c) ==
    LET me  == client[c]
        new == [me EXCEPT !.invited = FALSE, !.games = @ + 1, !.seen = <<>>,
                          !.board = NewGame(me.board, me.seed)]
    IN  /\ me.invited /\ ~me.on /\ Rested(me, c)
        /\ me.games < MaxGames
        /\ Becomes(c, IF new.board.state # "ok" THEN new
                      ELSE [new EXCEPT !.on = TRUE, !.binding = TRUE,
                                       !.refresh = Append(@, "asleep")])
        /\ UNCHANGED net

\* Two ESC in a row, or the end of stdin: start() leaves its loop, at any time
\* after it began, and tells the threads to end.
Stop(c) ==
    LET me == client[c]
    IN  /\ me.on
        /\ Becomes(c, [me EXCEPT !.on = FALSE,
                                 !.hasty = @ \/ me.binding \/ me.recv # "receiving"])
        /\ UNCHANGED net

\* recv_frame_thread_func up to its loop.  The port is held by a receive
\* thread of the last game that still waits for a frame: IF_EXIT.
Bind(c) ==
    LET me == client[c]
    IN  /\ me.binding
        /\ Becomes(c, IF me.recv = "none" THEN [me EXCEPT !.binding = FALSE, !.recv = "bound"]
                      ELSE [me EXCEPT !.binding = FALSE, !.recv = "none", !.exited = TRUE])
        /\ UNCHANGED net

\* while(!m_bExitRecvFrame); a thread that ends closes its socket
TestExit(c) ==
    LET me == client[c]
    IN  /\ me.recv \in {"bound", "queued"}
        /\ Becomes(c, [me EXCEPT !.recv = IF me.on THEN "receiving" ELSE "none"])
        /\ net' = [net EXCEPT ![c] = IF me.on THEN @ ELSE <<>>]

\* a mutant: the datagram stays in the socket
PeekReceive(c) ==
    LET me == client[c]
    IN  /\ me.recv = "receiving" /\ net[c] # <<>>
        /\ Becomes(c, [me EXCEPT !.que = Append(@, Head(net[c])), !.recv = "queued"])
        /\ UNCHANGED net

\* a mutant: a frame that arrives after Stop is not queued
BadReceive(c) ==
    LET me == client[c]
    IN  /\ me.recv = "receiving" /\ net[c] # <<>>
        /\ Becomes(c, [me EXCEPT !.que = IF me.on THEN Append(@, Head(net[c])) ELSE @,
                                 !.recv = "queued"])
        /\ net' = [net EXCEPT ![c] = Tail(@)]

\* a mutant: the newest frame is played first
WorseReceive(c) ==
    LET me == client[c]
    IN  /\ me.recv = "receiving" /\ net[c] # <<>>
        /\ Becomes(c, [me EXCEPT !.que = <<Head(net[c])>> \o @, !.recv = "queued"])
        /\ net' = [net EXCEPT ![c] = Tail(@)]

\* recvfrom, and the frame goes into m_queGameFrame, whatever m_bExitRecvFrame
\* has become
Receive(c) ==
    LET me == client[c]
    IN  /\ me.recv = "receiving" /\ net[c] # <<>>
        /\ Becomes(c, [me EXCEPT !.que = Append(@, Head(net[c])), !.recv = "queued"])
        /\ net' = [net EXCEPT ![c] = Tail(@)]

\* One turn of refresh_thread_func, up to the pause after it.  In a loop that
\* never ends the thread is lost.
Refresh(c, t) ==
    LET me == client[c]
    IN  /\ me.refresh[t] = "waiting" /\ me.que # <<>>
        /\ me.board.state = "ok"
        /\ Becomes(c, [me EXCEPT !.que = Tail(@), !.refresh[t] = "asleep",
                                 !.seen = Append(@, Head(me.que)),
                                 !.board = ApplyFrame(@, log[Head(me.que)])])
        /\ UNCHANGED net

\* at the start and after each pause: while(!m_bExitRefresh)
Wake(c, t) ==
    LET me == client[c]
    IN  /\ me.refresh[t] = "asleep"
        /\ me.board.state = "ok"
        /\ Becomes(c, [me EXCEPT !.refresh = IF me.on THEN [@ EXCEPT ![t] = "waiting"]
                                             ELSE RemoveAt(@, t)])
        /\ UNCHANGED net

----------------------------------------------------------------------------
Init ==
    /\ threads = <<>>
    /\ opts = [p \in Players |-> <<>>]
    /\ issued = [p \in Players |-> <<>>]
    /\ log = <<>>
    /\ net = [c \in Clients |-> <<>>]
    /\ faults = 0
    /\ client = [c \in Clients |-> NoClient]

Server  == \/ GameStart \/ \E t \in DOMAIN threads : PopCommand(t) \/ SendTo(t)
           \/ \E p \in Players, o \in Commands : AddGameopt(p, o)
Network == \E c \in Clients : \E i \in 1 .. MaxPending : Lose(c, i) \/ Overtake(c, i)
Process(c) ==
    \/ Begin(c) \/ Stop(c) \/ Bind(c) \/ TestExit(c) \/ Receive(c)
    \/ \E t \in DOMAIN client[c].refresh : Refresh(c, t) \/ Wake(c, t)

Next == Server \/ Network \/ \E c \in Clients : Process(c)

Spec == Init /\ [][Next]_vars

----------------------------------------------------------------------------
(* Properties.                                                             *)

SeqsUpTo(S, n) == UNION {[1 .. m -> S] : m \in 0 .. n}
Frames == 1 .. Len(log)

\* Every variable has its type; a client never holds more frames than are
\* under way to it (send_frame_thread_func, recv_frame_thread_func).
TypeOK ==
    /\ \A t \in DOMAIN threads : threads[t] \in SeqsUpTo(Opts, Len(Slots))
    /\ \A p \in Players : opts[p] \in SeqsUpTo(Opts, MaxOpts)
    /\ \A p \in Players : issued[p] \in SeqsUpTo(Opts, MaxOpts)
    /\ Len(log) <= MaxFrames
    /\ \A c \in Clients :
         /\ net[c] \in SeqsUpTo(Frames, MaxPending)
         /\ client[c].que \in SeqsUpTo(Frames, MaxPending)
         /\ client[c].board.map \in [Cells -> Kinds]
         /\ client[c].board.over \in [Cells -> Int]
         /\ client[c].board.state \in {"ok", "hung", "wild"}
         /\ \A p \in Players : ToSet(client[c].board.snakes[p]) \subseteq Cells
    /\ faults \in 0 .. MaxFaults

\* c is in its first game, or left it, and its map is sound.  A second game
\* finds the nodes of the first in the snakes and its frames in the queue.
FirstGame(c) == client[c].games = 1 /\ client[c].board.state = "ok"

NodesOn(b, cell) ==
    {n \in Players \X (1 .. MaxFrames + 2) :
        n[2] <= Len(b.snakes[n[1]]) /\ b.snakes[n[1]][n[2]] = cell}

\* What is drawn is what there is: a cell shows a snake exactly when nodes lie
\* on it, as many as m_overlap counts, though snakes cross themselves and
\* each other; and there is one piece of food (move_core, random_make_food).
MapShowsSnakes ==
    \A c \in Clients : FirstGame(c) =>
        LET b == client[c].board
        IN  /\ \A cell \in Cells :
                 /\ b.over[cell] = Cardinality(NodesOn(b, cell))
                 /\ (b.map[cell] = "SNAKE") <=> (b.over[cell] > 0)
            /\ Cardinality({cell \in Cells : b.map[cell] = "FOOD"}) = 1

\* A snake is a path of neighbouring cells that never turns back on itself,
\* whatever commands come and however it grows (move_up ... move_right).
SnakesHoldTogether ==
    \A c \in Clients, p \in Players : FirstGame(c) =>
        LET s == client[c].board.snakes[p]
        IN  /\ \A i \in 1 .. Len(s) - 1 :
                 \E o \in Opts \ {"FORWARD"} : s[i] = Neighbour(s[i + 1], o)
            /\ \A i \in 1 .. Len(s) - 2 : s[i] # s[i + 2]

SeedsInside ==
    {s \in Seeds : \A p \in Players : ToSet(NewGame(NoGame, s).snakes[p]) \subseteq Interior}

\* No snake gets onto the border or beyond it, unless random_make_snake has
\* put a node there and so opened it (move_core's test for BORDER).
BorderHolds ==
    \A c \in Clients :
        LET b == client[c].board
        IN  (client[c].games = 1 /\ b.seed \in SeedsInside)
            => /\ b.state # "wild"
               /\ \A cell \in Border : b.map[cell] = "BORDER"

\* From the first frame a client hears, and if no datagram was lost or
\* overtaken, its map is moved by every frame the server sent, in order
\* (the threads and the queue between them).
NoGaps ==
    \A c \in Clients : FirstGame(c) /\ faults = 0 =>
        LET way == client[c].seen \o client[c].que \o net[c]
        IN  \A i \in 1 .. Len(way) - 1 : way[i + 1] = way[i] + 1

\* the commands of s without what stands in for no command
Spoken(s) ==
    LET said[n \in 0 .. Len(s)] ==
            IF n = 0 THEN <<>>
            ELSE IF s[n] = "FORWARD" THEN said[n - 1]
            ELSE Append(said[n - 1], s[n])
    IN  said[Len(s)]

Times(s, o) == Cardinality({n \in 1 .. Len(s) : s[n] = o})

\* what the frames sent say at place i, and what the frame threads have there
Column(i) == [n \in 1 .. Len(log) |-> log[n][i]]
Hands(i)  == [t \in 1 .. Len(threads) |->
                IF i <= Len(threads[t]) THEN threads[t][i] ELSE "FORWARD"]

\* Each command a player gives reaches one frame, once, at that player's own
\* place, however many frame threads take commands and send frames at the same
\* time; and as long as a room has one thread they do so in order (add_gameopt,
\* Try_GetTask and sendto in send_frame_thread_func, start).
OwnCommands ==
    \A i \in 1 .. Len(Slots) :
        LET p == Slots[i]
        IN  /\ \A o \in Commands :
                 Times(Column(i), o) + Times(Hands(i), o) + Times(opts[p], o)
                   = Times(issued[p], o)
            /\ Len(threads) <= 1 =>
                 Spoken(Column(i)) \o Spoken(Hands(i)) \o opts[p] = issued[p]

\* If start() leaves its loop while the receive thread is in recvfrom, never
\* two refresh threads work on one map: the frame that ends the receive thread
\* of the old game also ends its refresh thread, and until it comes a new game
\* cannot bind the port (start, recv_frame_thread_func, refresh_thread_func).
OneRefresher ==
    \A c \in Clients :
        LET r == client[c]
        IN  ~r.exited /\ ~r.hasty /\ ~(r.binding /\ r.recv # "none") => Len(r.refresh) <= 1
=============================================================================
