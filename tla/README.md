# Specifications of PiracyKing

PiracyKing is a two-player terminal game: a server with a lobby and rooms
(`server.cpp`, `game.cpp`), a client (`client.cpp`), and the utilities both
use (`utility.hpp`, `utility.cpp`). Beside it the repository keeps three
header-only trees (`rb_tree/`), small servers written with libevent, and
exercises. This directory models the parts with logic of their own in TLA+,
checks them with TLC on small instances, and proves the central properties with
TLAPS for every instance.

## 1. Inventory

| Component | State | Operations | What must hold |
|---|---|---|---|
| Room table: `CGameServer`, `CGame`'s members (`game.cpp` 264-407, 456-698) | rooms by id; per room: players, ready flags, owner, frame threads | create, join, ready, quit ready, leave, lost player, start, over | one or two players per room, players and ready flags agree, the owner is a ready member, names unique |
| Game server: `CServerMng`, `COnlinePlayers` (`server.cpp`) | online table fd -> player, task queue, send queue, sockets | receive, task and send threads; one handler per message type | one descriptor per player, answers in order, every request answered, a start only in a full and ready room |
| Client: `CClientMng` (`client.cpp`) | menu, own player and room, start flag | menus, one call per message type, wait for and play a game | its view agrees with the server's, calls return, a start is not missed |
| Awaited answers: `CEventNotice` (`utility.hpp` 67-127) | task id -> promise | `WaitNoticeFor`, `Notice` | no answer for a wrong call, nothing left behind, no data race |
| Ids: `CSnowFlake` (`utility.hpp` 163-190, `utility.cpp` 58-121) | last timestamp, key, mutex | `get_sid` | ids unique and growing |
| `threadsafe_queue` (`utility.hpp` 375-505) | list, two mutexes, condition | push, try_pop, wait_and_pop, empty | a linearizable queue, no deadlock |
| `thread_pool` (`utility.hpp` 507-645), with the sorter and the accumulation that use it (647-787) | queue of work, workers, futures | submit, run_pending_task, worker_thread, destructor | every accepted piece of work runs once or is dropped with the pool, and whoever waits for one goes on |
| Trees (`rb_tree/`) | nodes with colour, size or interval | insert, remove, in_order, search_k, interval_search | contents, order, sizes, greatest ends, balance |
| Game play: `CMap`, `CSnake`, `CGame`'s frames, `CGameClient` (`game.cpp` 17-262, 409-454, 700-990) | map, snakes, frame queue | one frame per tick | both clients compute one game |
| Registration: `CClientInfoMng` (`server.cpp` 757-828) | accounts by id | regist, login | one account per name, one id per account |
| epoll build of the server (`server.cpp` 544-704) | sockets | edge-triggered receive | every message read |
| libevent thread pool: `XThreadPool`, `XThread` (`libevent_test/ev_ftp_server`, and once more in `test_thread_pool`) | per thread a list of tasks and a pipe | dispatch, activate, notify | every task is served |
| FTP server on libevent: `XFtpServerCMD` and its handlers (`libevent_test/ev_ftp_server`) | the session's directory and address, per handler a data connection and a file | commands, transfers, events of both connections | replies belong to commands, every command gets its last reply, one session does not end the others |
| Samples for hiredis, libssh2, ffmpeg, HTTP, Lua; `practice.cpp`, `test.cpp` | none worth a model | | |

**How they interact.** A client's menu thread queues a request, its send thread
writes it; the server's receive thread reads it into the task queue, its task
thread serves it against the online table and the room table and queues the
answer, its send thread writes it; the client's task thread hands it to the menu
thread through `CEventNotice`. The menu thread waits 10 ms for it and then goes
on without it. A lost connection is handled by the receive thread, beside the
task thread. A game's start is pushed to all players of its room, and the room's
frame thread then sends to them over UDP.

**What is hard.** Handlers take one lock per table, so the receive thread comes
in between the halves of a handler. What a handler checked may be stale when the
client's next message acts on it. Answers may be too late, messages split,
descriptors used again. Errors are sometimes returned in unsigned words. A
worker of the pool that waits for a task runs others on the same stack, which
wait themselves. A session of the FTP server is deleted while its transfers go on.
`get_sid` unlocks a mutex twice. `WaitNoticeFor` changes a map without its mutex.
The list of all such places, with their lines, is `hazards` in `PROJECT.json`.

## 2. Modules

| Module | Models |
|---|---|
| `GameServer` | the room table: one action per method of `CGameServer`, with `CGame`'s own methods as operators on a room |
| `Server` | the server's threads and tables over `GameServer`, with client processes and the network as environment |
| `SnowFlake` | `get_sid`, step by step, with the clock |
| `Fifo` | the queue `threadsafe_queue` promises: each call at one instant |
| `ThreadsafeQueue` | `threadsafe_queue`, a step per access to shared memory |
| `ThreadPool` | `thread_pool` over the steps of `ThreadsafeQueue`, its work queue, with tasks that submit tasks and wait for them |
| `XThreadPool` | the libevent thread pool: lists, pipes, event loops |
| `FtpServer` | an FTP session and its client, on a thread of `XThreadPool` |
| `ClientMng` | the menu, task and receive threads of one client, with `CEventNotice` and the start of a game |
| `Board` | the map and the snakes of a game (`CMap`, `CSnake`) as pure operators |
| `GamePlay` | a game over `Board`: the room's frame threads, the datagrams, the threads of each `CGameClient` |
| `Trees` | the three trees, a step per pass of a loop: the shared algorithm, and the bookkeeping each header adds |
| `MCGameServer`, `MCServer`, `MCSnowFlake`, `MCThreadPool`, `MCGamePlay`, `MCTrees`, `MCFtpServer` | instances for TLC |
| `ServerProofs` (also of `GameServer`), `SnowFlakeProofs`, `ThreadPoolProofs`, `FtpServerProofs`, `ClientMngProofs`, `GamePlayProofs`, `TreesProofs` | theorems and proofs |
| `DataLemmas` | what the proofs use of data: least numbers and induction, counting in sequences and sets |

Operators whose names begin with `Bad` or `Worse` are mutants: plausible mistakes
in the operator below them. No specification uses them; `PROJECT.json` says
which property each of them breaks.

**GameServer.** `mapGame` is the table; a room is a record of its name, its
players (`opt`, the keys of the map of operations), its ready flags, its owner,
and its frame threads. `dangling` says that a frame thread runs on in a room that
was erased, `alive` that the process runs. Widths matter in one place:
`create_game` returns -1 and -2 in a `uint64_t` (`U64`).

**Server.** `clientInfo` is `m_mapClientInfo`, a sequence of account names by id: ids
count up from 1 and no account is ever removed. `online` is `m_mapOlinePlayers`; `taskQue` and `sendQue` are the two
queues; `task` is the request the task thread serves and how far it is; `recv`
is the receive thread while it takes a lost player out of the tables, which takes
it three locks and so three actions; `sock` is the kernel's side of each
descriptor; `client` is a client process: the menu it shows, who and where it
believes to be, the call it waits for. A handler with one lock is one action
(`DoLogout`, `DoJoinRoom`, ...); `do_login`, `do_request_game_start` and
`do_game_start` take several and are several (`DoLoginCheck`, `DoLoginAdd`; ...).
The environment closes connections (`EXIT`), gives up on answers (`TIMEOUT`) and
delivers messages in parts (`SPLIT`); `Faults` chooses which of these happen.
A query reads one table and changes none, so one that is answered in time is a
single step of the client (`ShowRooms`, `ShowRoom`), which keeps what it saw
(`list`, `role`) and acts on it later, when it may be stale; one that is not shows
what was known before (`ShowOldRoom`) or leads out of the room (`AbandonRoom`).
An empty list of rooms leads back to the main menu. Not in the model: heartbeats
and chat (no code sends them), passwords (a wrong one is a name without an
account), the bodies of messages beyond the
fields that are read. `GAME_START` and `REQ_GAME_START` carry no player, as in the code. After a
`GAME_READY` that timed out the client still sends `QUIT_GAME_READY`, as in the
code.

**ClientMng.** Between `WaitNoticeFor`'s steps and `Notice`'s steps every
interleaving is explored. `corrupt` becomes true when a step uses the map while
the other thread changes it, or writes through a reference to an erased
promise: from then on nothing is said of the process. `m_cv.wait` has no
condition; spurious wake-ups are bounded by `MaxSpurious`. `watch` says how the
receive thread is told of arrivals, which is all that the macOS and the Linux
build differ in: kqueue reports a socket for as long as it holds something
("level"), epoll with `EPOLLET` reports each arrival once ("edge"), and since the
Linux build or's its flags to an uninitialised word, `EPOLLONESHOT` may be among
them ("once"). The thread reads one message per event in all builds. Other
garbage in that word makes `epoll_ctl` fail or has no effect; it is left out.

**Board and GamePlay.** `Board` has `CMap` and `CSnake` as operators on a record
of the map, the counts of overlaps, the snakes and the place in the sequence of
random numbers; `Rand` gives that sequence for each seed. `GamePlay` has the
frame threads of the room (`threads`: what each has in its frame so far). One takes
the next command of one player (`PopCommand`), then of the next, and sends the frame
(`SendTo`); no lock spans two of these steps. `CGame::over` is called nowhere, so each
further start of the room (`GameStart`) adds a frame thread beside the old ones, which
take commands out of the same queues. Then there are the datagrams (`net`, lost or
overtaken by `Lose` and `Overtake`), and per client the receive thread (`Bind` up to
its loop, `TestExit` for each test of `m_bExitRecvFrame`, `Receive` for `recvfrom` and
the queue), the refresh threads (`Wake` for the test of `m_bExitRefresh`, `Refresh` for
a turn) and `start` (`Begin` up to its own loop, `Stop` when it leaves that, at any
time from then on, as at the end of stdin). `hasty` is history: `Stop` came at a moment
when the receive thread was not in `recvfrom`. A client can start a second game while
threads of the first still live. Three things are not in the repository and are supplied by
the model: who fills `m_mapSnake`, who calls `add_gameopt`, and how the commands in
`m_queGameCmd` reach the server. `Rested` is an assumption on time: the second
that `start` sleeps before it returns lets every thread that can run finish.
Drawing and the keyboard are data; `CSnake::init` and `game_over` are called by
nobody. Not modelled: the frame thread walks `m_mapGameOpt` without its mutex, and
when a player leaves, the slots of a frame shift; `CGame::start` captures its
`port` by reference in a detached thread.

**ThreadsafeQueue.** A call is a sequence of steps, one per access to `head`,
`tail`, a node, a mutex or the set of sleeping threads. `chain`, the nodes from
head to tail, is a history variable; the refinement to `Fifo` reads the data
along it.

**ThreadPool.** The variables of the queue are those of `ThreadsafeQueue`, and
every call of the pool on it is made of that module's steps. `pool` says what the
queue is used for: by itself, with every call of every thread, or as the work
queue of a pool that is up, closing (`done` is set) or gone. A task is known by the
number of the node pushed for it. `stack` holds, for each thread, the functions it
is in: its task, the tasks it has submitted and not yet waited for, and what it
waits for. A function waits for its last task and runs others meanwhile, as
`do_sort` does (`AwaitLast`, `RunPending`), or the owner blocks in `get`, as
`parallel_accumulate_using_thread_pool` does (`Get`). The code has the owner wait
for everything it submits; the model lets it destroy the pool before. What tasks
compute, exceptions and `yield` are left out; so are the parallel algorithms over
plain threads, which share nothing.

**XThreadPool and FtpServer.** `tasks`, `pipe` and `loop` are a thread's list, the
bytes in its pipe and where its loop is; `Dispatch` is `AddTask` and `Activate`,
since the threads' loops run between the two, and `Notify` is `ReadByte` and
`RunFirst`. `fails` counts writes to the pipe that failed, which the code reports
and forgets. In `FtpServer` one of the tasks is the session looked at (`ses`). An
event loop runs one callback at a time, so a callback is an action: `CmdRead` and
`CmdEvent` on the control connection, `Connected`, `Drained` and `DataEvent` on the
data connection of each handler. A handler is a record of its connection (`st`,
and whether something is still to be written, `out`), its file (`file`, the chunks
`left`) and the command it works for. File contents and listings are counts of
chunks; a directory is the sequence of its names and whether the string ends in a
slash, which is what `CWD`, `CDUP`, `RETR` and `STOR` differ in. What the file system
says (`opened`, `chunks`) is chosen freely. The client sends a command, of any
kind, once it has the last reply to the one before. `Read` puts no lines together: one
turn of its loop (`CmdRead`) takes some of the bytes that are there, which are whole
commands or end within one (a segment, or the 1023 bytes of the buffer), and serves them
as one command, once. Its first word is that of the first command, or a part of it,
which is no command; its argument is what stands behind the last blank (`TakenFor`,
where `Garbled` is an argument with an end of line in it or without its own). What is
left of a command that was cut begins with no word that is a command (`Unread`), and is
answered 200 in its turn. `splits` counts such reads; the names in the model are none of
the commands. For the same reason a `CWD` to a name with a blank goes to its last word
(`LastWord`; `blank` remembers it). The names of files are not modelled, so neither is
this cut in `RETR` and `STOR`. `past` is history: what has
gone wrong so far, for properties that say "unless". A handler looks through its
pointer to the session for every reply; when the session is deleted, `proc` becomes
"wild" and nothing is said from then on.

**Trees.** A tree is a record of functions on nodes; code that the headers write
twice with left and right exchanged is written once with the side as a parameter.
`kind` chooses the header. Each header repeats `insert_fixup`, `remove_fixup`,
`transplant` and `search_node` word for word; they are modelled once, from
`rb_tree_ini.hpp`. A call and its loop variables are in `call`, and each pass of a
loop is an action: `insert`'s way down (`Descend`), the way up that keeps sizes or
max_high (`Climb`), a pass of a fixup with the rotations in it (`InsertFixup`,
`RemoveFixup`), `search_node`, `min_node`, `search_k`, `int_search`, and `in_order` with
its stack (`GoLeft`, `Visit`). The code is sequential, so a call begins when the last
has ended; the steps are there because what holds between two passes is what the
proof is about. A read through a null pointer makes the tree `dead`. A node
is named after its datum so that equal trees are one state. `held` counts what was put
in and taken out: what the user of the tree expects in it. An interval tree is given
any intervals with any data (`Intervals`): `insert` goes by the left ends (`key`), `remove`
by the data, and may so miss a node that is there; `KeepsContents` says of `remove` that it
fails only for a datum that is not held as long as the intervals in the tree are ordered
as their data are (`SameOrder`).

## 3. Runs

| Run | Asks | Result |
|---|---|---|
| `game_server` | Does the table stay consistent under every call with any player and room? | 29,764 states, holds |
| `server_faults` | With lost connections, late answers, split messages: one descriptor per player, order, refinement of `GameServer`, every request answered | 250,507 states, holds |
| `server_calm` | Without faults: does a client's view agree with the server, are all players told of a start, does the process survive? | 42,137 states, holds |
| `server_start` | Does a game start only in a full and ready room? | **violated** |
| `snowflake` | Do ids grow while serials last, though the timestamp falls back? | 541,387 states, holds |
| `queue` | Is the two-mutex queue a queue and is every mutex given back; in a pool, is every task in one place, what does the destructor drop, do all waits end? | 147,213 states, holds |
| `client` | Do calls return, is the table of promises kept, is the race confined to timeouts, which messages stay unread under kqueue and epoll? | 677,138 states, holds |
| `client_start` | Does a player who waits for the start get into the game? | **violated** |
| `play` | Does a client's map show its snakes, are snakes paths, does the border hold; is every frame played once and in order, does every command reach one frame, do no two threads move one map? | 1,495,780 states, holds |
| `trees` | Links between any two passes of a loop; what `in_order`, `search_k` and `interval_search` answer after any insertions and removals, with equal data, intervals in another order than their data, and intervals below 0; when `remove` fails | 5,314,185 states, holds |
| `ftp` | With broken connections, commands that arrive together or in parts, names with a blank and failed writes: do replies, directories, files and the process stay right, is every command answered? | 1,459,898 states, holds |
| `trees_null` | Does the sentinel spare the code null pointers? | **violated** |

**The violations** are disagreements of the code with its own comments or
messages; `findings` in `PROJECT.json` quotes them. In short:

* `do_request_game_start` checks that the room is full and ready, the client then
  sends `GAME_START`, which `do_game_start` serves without looking.
* `wait_to_start` sets `m_bGameStart` to false after the server may have started
  the game.
* `insert_fixup` rotates also after a red uncle, which takes a black node from
  one side. With eight nodes the fixups then meet the sentinel where a node must
  be, and read its null children. The compiled header crashes on the sequence TLC
  prints (insert 1 2 3 4 5 7 8 6, remove 3 4, insert 3 4).

**Bounds.** Two clients, two descriptors, two players and one or two rooms are
what the two-player room needs for every conflict: a full room, a room that loses
its owner, a descriptor used again (`MaxConnects` allows one connection more than
there are clients). The runs of `Server` begin where the server stands after
undisturbed logins: both players, or (with faults) one of two, so that the other
has to register. `MaxRequests` bounds the requests all clients send from there
on: with faults 2, enough for a login or a join to meet a lost connection; without
faults, where a room must be made, joined, made ready and started, 7. `MaxSenders` bounds frame threads. `Serials = 3` and `MsPerSec = 3`
make the timestamp fall back while serials are left and run out of them. The
queue has three threads, so that two can conflict while one waits, and by itself
three nodes (`MaxAlone`), which let pushes and pops meet at one node, at two and at
the dummy alone. As a pool they are its owner and two workers, and four nodes
(`MaxNodes`) are three tasks: one may wait for a second that another thread has
taken and that waits for the third. In
`ClientMng` three calls are the request that starts the trouble, one whose answer
comes late, and one more; two games can start. `play` has two snakes on a map of six
cells inside its border, so that they meet at once, one client process, three
frames, two commands, two datagrams under way and one fault, and two games of that
process, which make two frame threads; one seed puts the snakes inside the border, the
other one of them on it. `Followed` bounds what is explored together: with a fault one command, and
with a second frame thread no fault, the first seed, and three commands and frames in
all, enough for two threads to take a command each and send in either order. `Trees` has six nodes: the red-uncle case with a
grandparent above needs four, removal with a distant successor five, and equal
data are among them; `trees_null` needs eight. One datum of `MCTrees` is negative,
and the intervals end below and above the sentinel's 0; each datum comes with two
intervals, so that some trees are ordered as their data are and some are not.
`ftp` has one thread, with the session and one more task in its list, which one
failed write (`MaxFails`) can set apart; four commands, so that two moves and a
transfer can follow a `PORT`; two names, one of them with a blank and the other its last
word; files of one chunk, which a transfer sends in one callback and ends in the next;
and one read that ends within a command (`MaxSplits`), after which up to three commands
are followed (`Followed`): the one that was cut, the one that gets its second reply, and
one more.

**Deadlock** is not checked: every system here stops when its bounds are used up,
when its process has died or its pool is gone. That nobody waits for good is what
the liveness properties say (`MutexesReleased`, `WaitsEnd`, `CallsReturn`,
`EveryTaskAnswered`, `EveryCommandAnswered`).

**Fairness.** The server's threads are loops without exit over blocking waits, so
`Fairness` is weak fairness of the receive thread, of the task thread and of
`Deliver`, each as a whole; no user and no network owes anything. `EveryTaskAnswered` says
that for a request on the wire an answer with its id is queued, comes to the head of the
send queue and is written: leaving the server without one, which a handler with an early
return would let a request do, does not count. In the queue a
thread finishes the call it has begun; nobody need begin one. In a pool (`PoolFairness`)
every thread goes on with what it is in, workers poll, and a thread that tries to
lock `head_mutex` while others take and leave it gets it in the end (strong
fairness: `std::mutex` promises less, but schedulers do it, and without it one thread
could starve under the others' polling); the owner need not submit nor destroy. In the
FTP server the loops run, the main thread activates what it has dispatched, and a
client that listens takes connections, data and replies (`FtpFairness`); no timeout
and no error is owed. In the client the
menu thread, the task thread, the receive thread and the server's answers are
weakly fair; the user is not. In the play run nothing is fair: it checks safety.

## 4. Proofs

All are for any sets of players, clients, descriptors, rooms, threads, tasks, any board
and any bounds, under the named assumptions of the modules (`GameServerAssumption`,
`ServerAssumption`, `SnowFlakeAssumption`, `QueueAssumption`, `PoolAssumption`,
`XPoolAssumption`, `FtpAssumption`, `ClientAssumption`, `BoardAssumption`,
`GamePlayAssumption`, `TreeAssumption`). They say that the constants have their types, that player 0 is
what a request without login carries and is nobody's id, that "nobody" is no client or
thread, that the numbers a seed yields reach every cell inside the border, and that no
interval ends before it begins.

* **`ServerProofs`, the room table** (`GameSpec`, by itself). `RoomInv` says every room in the table is good: its
  ready flags have its players as domain, it has one or two of them, the owner is
  one and ready; and names are unique. `GameTypeOK` alone is not inductive: that
  the owner is a player after a succession needs that the room is not empty, and
  that needs that flags and players agree. One lemma per helper of `CGame`
  (`AddClientGood`, `RemoveClientMembers`, ...), one case per action. From it:
  `TypeCorrect`, `RoomsOccupied`, `MapsAgree`, `OwnerIsReadyMember`,
  `RoomNamesUnique`, `OwnersKeepRooms`.
* **`ServerProofs`, the server.** `ServerInv` adds to the types that no two accounts have one
  name, so that ids never run out (`IdsSuffice`), and that a player the task thread
  has found offline in `do_login` is still offline when it adds it: the receive
  thread only takes players out, and nobody else adds. From it
  `PlayersHaveOneFd`; and, step by step, that the server changes rooms only by
  operations of `GameServer`: `ServerRefinesGame`. Through the refinement
  `OwnerIsReadyOnServer` and `ServerTypeCorrect`. `FlowInv` says where the requests of
  one client are: in the answers to write, in the task thread, in the task queue or
  unread in its socket, the ids growing within each and from each to the next, and none
  above what the client has counted (`Flow`). It needs that what a client wrote is read
  only from the descriptor it still holds, or from none (`Connected`): a connection that
  was closed is never read again, and one that a new client got is empty. A step moves a
  request from one place to the next (`PipeSteps`), so `RequestsInOrder`.
  `CalmInv` is for a server that answers every request within the 10 ms and loses no
  connection (`Faults = {}`, the hypothesis of these theorems and of `server_calm`; with
  a late answer the client shows one thing and the tables another). It says of each client
  that the tables fit it as it is (`FitsIn`: online on its descriptor, a member of its
  room, ready if it shows that) while its request is under way, and fit it as it will be
  (`After`) once its answer is written (`OnTheirWay`, `InHand`). That needs `FlowInv`: a
  client that is told has nothing else under way, so no later handler undoes what the
  answer says. The other players' handlers keep a seat that is taken (`KeepsSeats`, one
  lemma per operation of the room table). So no handler meets a player that is not in
  the room, and the map lookups that would end the process do not happen:
  `ViewsAgreeHolds`, `OnlyFramesKill`; and, since a player in a room is online,
  `do_game_start` finds the descriptor of each: `NotifiesPlayersHolds`. They hold for
  every kind of request; the run has those of a player only, to stay small.
* **`SnowFlakeProofs`.** `Exclusive`: while no call has overflowed, the mutex is
  held by exactly the thread inside `get_sid`, so the key it read is still the
  key. `KeyIsLast`: the key is the last id or unused. Together they give
  `SidsGrow`: ids grow although the timestamp falls back every second.

* **`ThreadPoolProofs`.** `QueueInv`: `chain` runs from head to tail, each of its
  nodes but the last with its data and its successor (`Linked`); whoever is between
  taking and giving back a mutex holds it (`Holders`); the dummies that pushes have
  allocated are different and outside the queue (`Fresh`); what a push has written is
  at the tail (`Filled`). Without `Fresh` two pushes could link one node, without
  `Holders` a second push could write into the first's. With it every step of the
  queue is one step of `Fifo` or none: `QueueIsFifo`, for any number of threads and
  values; `HeadAndTailApart`. Every step of a pool is a step of its queue
  (`PoolKeepsQueue`), so the same holds of a work queue: `WorkQueueIsFifo`.
  `PoolInv` is about the tasks. A task that was submitted is in one of three places,
  once: carried by a push, in the queue, on a thread's stack (`Whole`, with
  cardinalities that each step moves by one). As long as its future is pending, the
  function that submitted it still has it in `kids` or waits for it, somewhere on some
  stack (`Wanted`); that function ends only when it has waited for all. A worker that has left runs
  nothing, and the owner calls the destructor from its own function alone (`Left`). So
  what is still queued when the last worker has left is a task nobody waits for:
  `TasksAreInOnePlace`, `OnlyUnawaitedAreDropped`, for any number of workers and tasks.
* **`FtpServerProofs`.** `NoTaskStranded` is inductive with the
  types: the list of a thread is as long as its pipe, plus the byte just read, plus the
  byte about to be written, plus the writes that failed. The steps of the sessions leave
  the pool alone: `SessionsAreServed`. `FtpTypeCorrect`: one lemma per operator on a
  session.
  `FtpInv` is about the dialogue until the first `CDUP` at the root or the first read
  that ended within a command. Whoever still has
  something to say to the client, a handler with a connection or an open file or a reply
  that waits, has it of the command the client waits for, and after a final reply nobody
  has (`Answers`); a client that waits for nothing meets a session without handler and
  reply, and a command on its way is the only one (`InTouch`). So a handler that finds
  its session deleted is one whose client had not waited for its reply. The directories
  agree before a command is read and again behind it, by what the client will make of the
  reply (`SameDir`, `DirMoves`); a client that has the reply to a `PORT` finds the session
  with one (`Ported`), which needs that no argument holds an end of line (`FtpAssumption`);
  the directories are the same one only until the client has named one with a blank.
  One lemma says what each operator makes of a session (`WriteIs`, `EventDataIs`,
  `ParseIs`), one what each step makes of the dialogue (`CmdReadFaithful`,
  `HandlerFaithful`, `TakeReplyFaithful`, ...).
  `Counted` goes on through reads that end within a command. The final replies that are
  there, the handlers that still owe one, and the commands on their way, whole or in
  part, are together no more than those reads, and one if the client waits. A handler
  owes one while its connection, of `RETR` its file, is open (`Owed`); each operator moves
  such a debt into the replies, or drops it, and a command makes one at most (`SaysDebts`,
  `EndsDebts`, `ParseDebts`). A read that ends within a command takes none off the way, and
  is counted for that (`CmdReadCounted`). From both `InStepHolds`, from the first
  `StaysUpHolds` and `FilesRightHolds`, for any number of commands, split reads, chunks,
  sessions and threads.
* **`ClientMngProofs`.** `ClientInv`: an id is on its way once, in one place of
  request, wire, socket and task thread (`Once`); what is on its way is the call in
  progress or late (`Owed`); a promise that is set has nothing under way (`Promised`).
  So only an answer that comes late finds the table in a state the caller does not
  expect: `PromisesStayLate`, `RacesNeedTimeouts`; and two messages meet in the socket
  only if one of them is late or a start: `UnreadNeedOverlaps`. `PlaysInv` counts: the
  games entered and the starts still to come (on the wire, in the socket, in the
  countdown) are together no more than the starts sent and the wake-ups:
  `PlaysNeedStart`.
* **`DataLemmas`.** A set of numbers with 0 that has n + 1 with n holds all numbers:
  stated of sets (`Induction`, from `LeastNumber`), since a theorem with an operator as
  parameter could not be instantiated. With it, lemmas by induction on the length of a
  sequence (`CountAppend`, `CountTail`).

* **`GamePlayProofs`.** Three invariants, one beside the other. `PlayInv` is about the
  threads of a client and says two things, whatever its board is. `OneThread`: as long as
  `start` has left its loop only while the receive thread was in `recvfrom`, a receive
  thread that is about to bind, or has just bound, the port is in a game that goes on, and
  a refresh thread that outlived its game, its receive thread gone or about to go, sleeps
  or has a frame in the queue, the one that ended the receive thread. So it cannot wait in
  vain and is gone when the port is free again: `OneRefresherHolds`. `UpToDate`: what the map has seen, the queue and the socket, one
  behind the other, are consecutive frames, and end with the last one sent while the
  receive thread lives: `NoGapsHolds`.
  `BoardInv` is about the maps, on a board of any size. There is one lemma for what each
  operator of `Board` makes of a map (`AdvanceIs`, `EatIs`, `MoveIs`, `SnakeIs`,
  `FoodIs`), stated in terms of the cells it touches; from them, that a turn keeps a
  sound map sound (`AdvanceSound`, `EatSound`, `MoveSound`), where sound means: each
  overlap count is the number of nodes on the cell and positive just where a snake is
  drawn, there is one piece of food, and every snake is a path that does not turn back. A
  frame is one turn per player and a new game one snake per player, so both go by
  induction over the slots (`FrameSound`, `SnakeMade`, `FirstGameIs`): `ApplyFrame` and
  `NewGame` are recursive functions, and `MovedIs` and `PlacedIs` show that the values
  they name exist. What makes it inductive: a snake that plays has at least two nodes,
  without which a course would not be defined; no more nodes than two and the frames seen
  (`HeldBoard`), without which a count could miss some; and in all games the map has its
  types, since a second game begins with what the first left. From it `MapShowsSnakesHolds`,
  `SnakesHoldTogetherHolds` and, for games whose snakes were made inside the border,
  `BorderHoldsAlways`.
  `OptInv` is about the commands, at each player's place: how often a command is in the
  frames sent, in the hands of the frame threads and in the player's queue is, together,
  how often the player gave it, whichever thread takes it and whenever it sends
  (`PopCommandWords`, `SendToWords`; the counts are those of `DataLemmas`); and with one frame
  thread the three, one behind the other, are what the player gave, in order (again by
  induction): `OwnCommandsHolds`. With the three together, `GamePlayTypeCorrect`.
* **`TreesProofs`.** For any data, intervals and number of nodes. "The subtree of a node" and
  "the place of a node in the order" would be recursive definitions; the invariant says
  instead that there are functions with their properties, `sub` and `rank`, and each step
  of the proof names the functions of the next state from those of this one. `Shape` says that
  links, subtrees and ranks agree: a node's rank lies between those of its two subtrees,
  whatever is not in a subtree lies on one side of all of it, and the keys follow the
  ranks (with equal keys, a search alone does not fix the place of a node; its rank does).
  A rotation keeps all ranks and changes two subtrees (`RotateShape`, `RotateSafe`); for
  a new leaf the ranks are doubled, which makes room beside the node it hangs from
  (`HangShape`); a node that is taken out, or whose successor takes its place, leaves the
  ranks of the others alone (`VacateShape`, `RenameShape`).
  `Booked` is the bookkeeping: a size is the cardinality of the subtree, a max_high the
  greatest right end in it as far as that is above 0. While a way up is under way it is
  so only of the nodes the way does not reach any more: sizes on the rest of the path are
  off by one, max_high there is unknown (`Good` with `Stale` and `Off`). What makes it
  inductive is, per loop, what the call has left aside (`Underway`): the new key belongs
  where the way down has come to (`Descending`); if keys and data have one order, a match is not outside of the
  subtree `search_node` is in (`Searching`); `min_node` has left only greater nodes
  (`Minimal`); `k` and the nodes on the left of all that is below make up the `k` asked for
  (`Counting`); where an interval meets the one asked for, one does in the subtree
  (`Overlapping`); and what `in_order` has printed, followed by what each entry of its stack
  stands for, is all nodes in the order of the ranks (`Printing`). After a removal the
  sentinel's parent pointer names the node whose child it replaced, which `remove_fixup`
  and the way up rely on. There is one lemma for each action, and `InvariantHolds` for
  all; from it `TypeCorrect`, `ContentsCorrect`, `KthCorrect`, `OverlapCorrect`. They speak of
  a tree that is not dead: that the code never reads through a null pointer is
  what `trees_null` refutes. The colours of nodes have no part in the invariant, so the
  theorems show that the defect of `insert_fixup` can end the process but cannot lose or
  misplace a datum.

**Proved only:** the types of `GameServer`, `Server`, `SnowFlake`, `ThreadsafeQueue`,
`ClientMng`, `XThreadPool` and `FtpServer` and the uniqueness of room names, of which a
run would show less.

**Model-checked only:** the liveness properties `EveryTaskAnswered`, `CallsReturn`,
`EveryMessageRead`, `MutexesReleased`, `WaitsEnd`, `EveryCommandAnswered` (liveness is
beyond the prover). Every safety property of a passing run is a theorem. Of the trees no
liveness is stated: that a search or a fixup ends would need the height of the tree
as a variant. What the runs refute (`server_start`, `client_start`,
`trees_null`) is of course no theorem.

## 5. Known and not covered by a property

* `push` notifies without `head_mutex`, so a waiting pop can test, be passed by a
  push and its notification, and go to sleep. The value stays and the next push
  wakes it (`ThreadsafeQueue`: `Look`, `PushMove`, `Notify`, `Sleep`).
* A generator started anew within a second repeats ids (`Restart`).
* A refused `create_game` is answered as a success (`CreateRes` in `Server`).
* Once the serials of a timestamp are used up, `get_sid` calls itself after it has
  destroyed its `lock_guard` by hand, and the guard unlocks a second time. With
  another thread in between, two calls return one id. `SidsIncrease` excludes that
  case; no comment of the code promises more.
* The interval tree's sentinel has `max_high` 0: with an interval that ends below 0
  in the tree, a search from 0 or below may miss (`FindsOverlap` excludes that). And
  `remove` searches by datum in a tree ordered by left ends: after `insert` of datum 5 with
  left end 10 and of datum 7 with left end 1, `remove(7)` turns right at the root and fails
  (`KeepsContents` promises nothing for such a tree, and the run reaches such failures).
* FTP: `CDUP` at the root answers twice, after which the client is one reply ahead;
  `RETR` and `STOR` before a `PORT` hand libevent a null pointer, which ends the
  process for every session; an empty directory gets no last reply to `LIST`, nor does
  a `LIST` or `RETR` whose data connection breaks; `STOR` answers 226 for a broken
  transfer, too; commands that arrive together with the one before are lost; one that
  arrives in two reads, or is longer than the buffer of 1023 bytes, is answered twice, and
  its first part may be served with half an argument; `CWD` to a name with a blank goes to
  its last word, below the current directory; a session is deleted while its handlers keep the pointer to it; after `CWD /name` and `CDUP`
  the directory has no slash at its end and `RETR` and `STOR` look for the file beside
  it. A write to the pipe of the pool that fails leaves its task in the list, and each
  later byte serves the task before its own.
* A second login on one connection answers success but `map::insert` keeps the
  first player, so the second can log in elsewhere, too (`AddPlayer`). A client
  sends one when the answer to its first came too late and the user then names
  another account. The proofs cover it; the runs' bound on requests is too small
  for its consequences.
* On Linux a message that arrives with another stays in the socket until a third
  comes, and the client is one answer behind from then on: each call times out and
  its answer is read, too late, by the next one's event (`ReadEdge`;
  `UnreadNeedsOverlap` says when that can begin).
* A snake may start on the border and then run off the map ("wild" in `Board`), and
  on a full map `random_make_food` never ends ("hung").
* Clients compute different maps as soon as a datagram is lost or overtaken, or
  when one of them opens its socket after the first frame: no client looks at
  `szFrameID`. The server sends at once, the clients count five seconds down.
* A second game of one client process finds frames and snake nodes of the first,
  and if the old receive thread still waits in its port, `bind` fails and the
  process exits (`Bind`). If `start` leaves its loop before the receive thread is in
  `recvfrom`, that thread ends without a frame, the refresh thread waits for one in
  `Wait_GetTask`, and in the next game two refresh threads take the frames and move one
  map (`hasty`; `OneRefresher` says that nothing else brings two). The properties of `play` speak of the first game where
  that matters.
* From the second game of a room on, two frame threads take commands and send frames
  side by side, twice as many as the clock means: one may take a player's first command
  and send it after the other has sent the second. `OwnCommands` asks for order only while
  there is one.
* The red-black conditions do not hold after `insert_fixup`; the searches do not
  need them, only the crash of `trees_null` comes from them.

## 6. Not modelled

* The epoll build of the server. Its tables, its task thread and its send thread are
  those of `Server`. Its receive thread reads one message per edge-triggered event, as
  the client's does (`ClientMng`, "edge"), and takes an end of file for a message with
  an uninitialised head; what then follows depends on that head alone. Its listen
  thread accepts one connection per edge (`server.cpp:569`), so of two that arrive
  together one waits for a third; and the branch for `EPOLLERR` (`server.cpp:648`)
  names the descriptor of the event read before, not its own. Since it is
  in the order and number of messages that this build differs, `Server`'s queries, which
  are no messages there, would have to become some.
* The parallel algorithms over plain threads: one thread per block and a join; how a
  range is cut is arithmetic on one call.
* `CSemaphore` under `CTaskQueue`: each has one mutex and one condition, and its calls
  act at one instant.
* The other samples, which call a library once, and the exercises.
* In the parts that are modelled: passwords, chat and heartbeats, multicast and
  broadcast senders that nobody starts, drawing, keys; what is named at each module.

## 7. Plan

1. `Server` with the queries as messages, and then its epoll build.
2. Two `CGameClient`s side by side: without faults, and if both listen before the
   first frame, they compute one game.
3. Proofs: what of `CalmInv` survives a late answer or a lost connection (the tables
   fit the client as it will be once all its answers are read).
