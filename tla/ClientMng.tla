----------------------------- MODULE ClientMng ------------------------------
(***************************************************************************)
(* The threads of one client process (src/client.cpp, class CClientMng)    *)
(* and the table of awaited answers they share (CEventNotice,              *)
(* src/utility.hpp).                                                       *)
(*                                                                         *)
(* The menu thread sends a request, then registers a promise under its     *)
(* task id, then waits 10 ms for it.  The task thread sets the promise     *)
(* when the answer comes.  The start of a game comes unasked: the task     *)
(* thread sets m_bGameStart, counts five seconds down and notifies m_cv.   *)
(*                                                                         *)
(* The receive thread moves what the server sent from the socket to the    *)
(* task thread's queue, one message for each event.  On macOS (kqueue) the *)
(* event comes again as long as there is something to read; on Linux       *)
(* (epoll with EPOLLET) it comes once for each arrival.                    *)
(*                                                                         *)
(* The server is the environment: it answers the requests in their order,  *)
(* and any owner of the room may start the game at any time (Server shows  *)
(* that readiness is not looked at again).                                 *)
(***************************************************************************)
EXTENDS Integers, Sequences, Functions

CONSTANTS Watches,     \* how the socket may be watched: "level" for kqueue,
                       \* "edge" or "once" for epoll
          MaxCalls,    \* BOUND: calls the user makes
          MaxStarts,   \* BOUND: games others start
          MaxSpurious  \* BOUND: wake-ups without a notification

ASSUME ClientAssumption ==
    /\ Watches \subseteq {"level", "edge", "once"}
    /\ MaxCalls \in Nat /\ MaxStarts \in Nat /\ MaxSpurious \in Nat

VARIABLES menu,      \* the menu thread
          task,      \* the task thread
          promises,  \* m_mapEventResult
          started,   \* m_bGameStart
          requests,  \* on their way to the server
          wire,      \* what the server sent and the socket still holds
          event,     \* something has arrived since the last event
          watch,     \* how the socket is watched, "off" after the one event of "once"
          inbox,     \* m_queTaskData: what has been read
          corrupt,   \* the two threads have used the map at once
          late,      \* ids of calls that timed out (history)
          count      \* calls, games started, wake-ups, games played (history)

net  == <<wire, event, watch>>
vars == <<menu, task, promises, started, requests, net, inbox, corrupt, late, count>>

Types == {"QUERY", "GAME_READY", "QUIT_GAME_READY", "REQ_GAME_START"}

AtMenu   == [pc |-> "menu", type |-> "QUERY", id |-> 0, res |-> "none"]
IdleTask == [pc |-> "idle", id |-> 0, res |-> "none"]

\* a thread that has met corrupt memory may do anything: nothing is said of it
MenuAt(pc) == ~corrupt /\ menu.pc = pc
TaskAt(pc) == ~corrupt /\ task.pc = pc
\* operator[] of the map: a promise that is not there is made
WithPromise(id) == [i \in DOMAIN promises \cup {id} |->
                       IF i \in DOMAIN promises THEN promises[i] ELSE "unset"]

\* CEventNotice::m_mtx: Notice holds it until the promise is set
NoticeHolds == task.pc \in {"find", "index", "set"}

-----------------------------------------------------------------------------
(***************************************************************************)
(* The menu thread: a call.                                                *)
(***************************************************************************)
\* get_sid, then the request is queued before anybody waits for its answer
Call(type) ==
    /\ count' = [count EXCEPT !.calls = @ + 1]
    /\ menu' = [pc |-> "sent", type |-> type, id |-> count'.calls, res |-> "none"]
    /\ requests' = Append(requests, [type |-> type, id |-> count'.calls])
    /\ UNCHANGED <<net, task, promises, started, inbox, corrupt, late>>

\* the user chooses
Choose ==
    /\ MenuAt("menu")
    /\ count.calls < MaxCalls
    /\ \E type \in {"QUERY", "GAME_READY", "REQ_GAME_START"} : Call(type)

\* registers without the mutex
BadRegister ==
    /\ MenuAt("sent")
    /\ promises' = WithPromise(menu.id)
    /\ menu' = [menu EXCEPT !.pc = "waiting"]
    /\ corrupt' \in {corrupt, NoticeHolds}
    /\ UNCHANGED <<net, task, started, requests, inbox, late, count>>

\* WaitNoticeFor: a promise under a fresh id
Register ==
    /\ MenuAt("sent")
    /\ ~NoticeHolds
    /\ promises' = WithPromise(menu.id)
    /\ menu' = [menu EXCEPT !.pc = "waiting"]
    /\ UNCHANGED <<net, task, started, requests, inbox, corrupt, late, count>>

\* goes on whether the wait ended with an answer or not
BadAnswered ==
    /\ MenuAt("waiting")
    /\ menu' = [menu EXCEPT !.pc = "erase",
                            !.res = IF promises[menu.id] = "unset" THEN "no"
                                    ELSE promises[menu.id]]
    /\ UNCHANGED <<net, task, promises, started, requests, inbox, corrupt, late, count>>

Answered ==
    /\ MenuAt("waiting")
    /\ promises[menu.id] # "unset"
    /\ menu' = [menu EXCEPT !.pc = "erase", !.res = promises[menu.id]]
    /\ UNCHANGED <<net, task, promises, started, requests, inbox, corrupt, late, count>>

\* waits on while the server has not answered
BadTimeout ==
    /\ MenuAt("waiting") /\ promises[menu.id] = "unset" /\ requests = <<>>
    /\ inbox # <<>>
    /\ menu' = [menu EXCEPT !.pc = "erase", !.res = "timeout"]
    /\ late' = late \cup {menu.id}
    /\ UNCHANGED <<net, task, promises, started, requests, inbox, corrupt, count>>

Timeout ==
    /\ MenuAt("waiting")
    /\ promises[menu.id] = "unset"
    /\ menu' = [menu EXCEPT !.pc = "erase", !.res = "timeout"]
    /\ late' = late \cup {menu.id}
    /\ UNCHANGED <<net, task, promises, started, requests, inbox, corrupt, count>>

\* where the menu goes with the result of its call: game_ready waits for the
\* game unless it timed out, and quits being ready afterwards
NextPc ==
    CASE menu.type = "GAME_READY" -> IF menu.res = "timeout" THEN "quit" ELSE "clear"
      [] menu.type = "REQ_GAME_START" /\ menu.res = "yes" -> "command"
      [] OTHER -> "menu"

\* keeps the promise of a call that was answered
BadErase ==
    /\ MenuAt("erase")
    /\ promises' = IF menu.res = "timeout"
                   THEN Restrict(promises, DOMAIN promises \ {menu.id}) ELSE promises
    /\ corrupt' \in {corrupt, NoticeHolds}
    /\ menu' = [menu EXCEPT !.pc = NextPc]
    /\ UNCHANGED <<net, task, started, requests, inbox, late, count>>

\* the map is changed without the mutex: when Notice is using it, that is a data
\* race, which may come out well or not
Erase ==
    /\ MenuAt("erase")
    /\ promises' = Restrict(promises, DOMAIN promises \ {menu.id})
    /\ corrupt' \in {corrupt, NoticeHolds}
    /\ menu' = [menu EXCEPT !.pc = NextPc]
    /\ UNCHANGED <<net, task, started, requests, inbox, late, count>>

-----------------------------------------------------------------------------
(***************************************************************************)
(* The menu thread: a game.                                                *)
(***************************************************************************)
\* wait_to_start forgets whatever has been set, then polls
Clear ==
    /\ MenuAt("clear")
    /\ started' = FALSE
    /\ menu' = [menu EXCEPT !.pc = "polling"]
    /\ UNCHANGED <<net, task, promises, requests, inbox, corrupt, late, count>>

SeeStart ==
    /\ MenuAt("polling")
    /\ started
    /\ menu' = [menu EXCEPT !.pc = "enter"]
    /\ UNCHANGED <<net, task, promises, started, requests, inbox, corrupt, late, count>>

\* the user types 0
Cancel ==
    /\ MenuAt("polling")
    /\ menu' = [menu EXCEPT !.pc = "quit"]
    /\ UNCHANGED <<net, task, promises, started, requests, inbox, corrupt, late, count>>

QuitReady == MenuAt("quit") /\ Call("QUIT_GAME_READY")

\* request_start_game sends the command, which has no answer
Command ==
    /\ MenuAt("command")
    /\ requests' = Append(requests, [type |-> "GAME_START", id |-> 0])
    /\ menu' = [menu EXCEPT !.pc = "enter"]
    /\ UNCHANGED <<net, task, promises, started, inbox, corrupt, late, count>>

\* does not wait to be notified
BadEnter ==
    /\ MenuAt("enter")
    /\ menu' = [menu EXCEPT !.pc = "playing"]
    /\ count' = [count EXCEPT !.plays = @ + 1]
    /\ UNCHANGED <<net, task, promises, started, requests, inbox, corrupt, late>>

\* game_start: m_cv.wait without a condition
Enter ==
    /\ MenuAt("enter")
    /\ menu' = [menu EXCEPT !.pc = "asleep"]
    /\ UNCHANGED <<net, task, promises, started, requests, inbox, corrupt, late, count>>

WakeSpuriously ==
    /\ MenuAt("asleep")
    /\ count.wakes < MaxSpurious
    /\ menu' = [menu EXCEPT !.pc = "playing"]
    /\ count' = [count EXCEPT !.wakes = @ + 1, !.plays = @ + 1]
    /\ UNCHANGED <<net, task, promises, started, requests, inbox, corrupt, late>>

\* the user leaves the game; the one who made it start was the owner
EndGame ==
    /\ MenuAt("playing")
    /\ menu' = [menu EXCEPT !.pc = IF menu.type = "GAME_READY" THEN "quit" ELSE "menu"]
    /\ UNCHANGED <<net, task, promises, started, requests, inbox, corrupt, late, count>>

-----------------------------------------------------------------------------
(***************************************************************************)
(* The task thread.                                                        *)
(***************************************************************************)
TakeAnswer ==
    /\ TaskAt("idle")
    /\ inbox # <<>>
    /\ Head(inbox).res # "start"
    /\ task' = [Head(inbox) EXCEPT !.pc = "find"]
    /\ inbox' = Tail(inbox)
    /\ UNCHANGED <<net, menu, promises, started, requests, corrupt, late, count>>

\* Notice drops an answer nobody has registered for
Find ==
    /\ TaskAt("find")
    /\ task' = IF task.id \in DOMAIN promises THEN [task EXCEPT !.pc = "index"]
                                              ELSE IdleTask
    /\ UNCHANGED <<net, menu, promises, started, requests, inbox, corrupt, late, count>>

\* operator[] makes a new promise if the caller has erased its own since
Index ==
    /\ TaskAt("index")
    /\ promises' = WithPromise(task.id)
    /\ task' = [task EXCEPT !.pc = "set"]
    /\ UNCHANGED <<net, menu, started, requests, inbox, corrupt, late, count>>

\* set_value through a reference, to a promise the caller may have erased since
SetValue ==
    /\ TaskAt("set")
    /\ IF task.id \in DOMAIN promises
       THEN promises' = [promises EXCEPT ![task.id] = task.res] /\ UNCHANGED corrupt
       ELSE corrupt' \in BOOLEAN /\ UNCHANGED promises
    /\ task' = IdleTask
    /\ UNCHANGED <<net, menu, started, requests, inbox, late, count>>

\* set_start: the flag is set under m_mtx, which game_start keeps for as long as
\* its game lasts
TakeStart ==
    /\ TaskAt("idle")
    /\ inbox # <<>>
    /\ Head(inbox).res = "start"
    /\ menu.pc # "playing"
    /\ started' = TRUE
    /\ task' = [task EXCEPT !.pc = "countdown"]
    /\ inbox' = Tail(inbox)
    /\ UNCHANGED <<net, menu, promises, requests, corrupt, late, count>>

\* notify_one after the countdown, without the mutex
Notify ==
    /\ TaskAt("countdown")
    /\ task' = IdleTask
    /\ IF menu.pc = "asleep"
       THEN /\ menu' = [menu EXCEPT !.pc = "playing"]
            /\ count' = [count EXCEPT !.plays = @ + 1]
       ELSE UNCHANGED <<menu, count>>
    /\ UNCHANGED <<net, promises, started, requests, inbox, corrupt, late>>

-----------------------------------------------------------------------------
(***************************************************************************)
(* The receive thread: one message for each event.                         *)
(***************************************************************************)
ReadMessage ==
    /\ wire # <<>>
    /\ wire' = Tail(wire)
    /\ inbox' = Append(inbox, Head(wire))
    /\ event' = FALSE
    /\ UNCHANGED <<menu, task, promises, started, requests, corrupt, late, count>>

\* as if the event was registered with EV_CLEAR
BadReadLevel == watch = "level" /\ event /\ ReadMessage /\ UNCHANGED watch

ReadLevel == watch = "level" /\ ReadMessage /\ UNCHANGED watch

ReadEdge == watch = "edge" /\ event /\ ReadMessage /\ UNCHANGED watch

\* ev.events is not initialised before EPOLLIN and EPOLLET are or'ed to it: it may
\* hold EPOLLONESHOT, and then there is no second event
ReadOnce == watch = "once" /\ event /\ ReadMessage /\ watch' = "off"

-----------------------------------------------------------------------------
(***************************************************************************)
(* The server and the other player.                                        *)
(***************************************************************************)
Receive(id, res) ==
    /\ wire' = Append(wire, [pc |-> "idle", id |-> id, res |-> res])
    /\ event' = TRUE

Serve ==
    /\ requests # <<>>
    /\ LET req == Head(requests)
       IN  IF req.type = "GAME_START"
           THEN /\ Receive(0, "start")
                /\ count' = [count EXCEPT !.starts = @ + 1]
           ELSE /\ \E res \in {"yes", "no"} : Receive(req.id, res)
                /\ UNCHANGED count
    /\ requests' = Tail(requests)
    /\ UNCHANGED <<menu, task, promises, started, watch, inbox, corrupt, late>>

OtherStarts ==
    /\ count.starts < MaxStarts
    /\ Receive(0, "start")
    /\ count' = [count EXCEPT !.starts = @ + 1]
    /\ UNCHANGED <<watch, menu, task, promises, started, requests, inbox, corrupt, late>>

-----------------------------------------------------------------------------
\* connect_server, before the threads start
Connected == wire = <<>> /\ event = FALSE /\ watch \in Watches

Init ==
    /\ menu = AtMenu
    /\ task = IdleTask
    /\ promises = << >>
    /\ started \in BOOLEAN         \* the constructor does not set it
    /\ requests = <<>>
    /\ Connected
    /\ inbox = <<>>
    /\ corrupt = FALSE
    /\ late = {}
    /\ count = [calls |-> 0, starts |-> 0, wakes |-> 0, plays |-> 0]

\* what the threads do by themselves, and what the user does
MenuThread ==
    \/ Register \/ Answered \/ Timeout \/ Erase
    \/ Clear \/ SeeStart \/ QuitReady \/ Command \/ Enter
User == Choose \/ Cancel \/ EndGame
TaskThread == TakeAnswer \/ Find \/ Index \/ SetValue \/ TakeStart \/ Notify
ReceiveThread == ReadLevel \/ ReadEdge \/ ReadOnce

Next ==
    \/ MenuThread \/ User \/ TaskThread \/ ReceiveThread
    \/ WakeSpuriously \/ Serve \/ OtherStarts

\* the threads run for ever; the user and the other players owe nothing
Fairness ==
    WF_vars(MenuThread) /\ WF_vars(TaskThread) /\ WF_vars(ReceiveThread) /\ WF_vars(Serve)

Spec == Init /\ [][Next]_vars
FairSpec == Spec /\ Fairness

-----------------------------------------------------------------------------
Results == {"none", "yes", "no", "timeout"}

TypeOK ==
    /\ menu \in [pc : {"menu", "sent", "waiting", "erase", "clear", "polling", "quit",
                       "command", "enter", "asleep", "playing"},
                 type : Types, id : Nat, res : Results]
    /\ task \in [pc : {"idle", "find", "index", "set", "countdown"}, id : Nat, res : Results]
    /\ DOMAIN promises \subseteq 1..count.calls
    /\ \A id \in DOMAIN promises : promises[id] \in {"unset", "yes", "no"}
    /\ started \in BOOLEAN /\ corrupt \in BOOLEAN
    /\ event \in BOOLEAN /\ watch \in Watches \cup {"off"}
    /\ late \subseteq 1..count.calls

\* Nothing is left in the table of promises but what the call in progress waits
\* for, and what Notice made anew for a call that had timed out.
OnlyLatePromisesStay ==
    DOMAIN promises \subseteq
        late \cup (IF menu.pc \in {"waiting", "erase"} THEN {menu.id} ELSE {})

\* WaitNoticeFor erases without the mutex.  As long as every answer comes in time
\* that does no harm: Notice has left the map when the caller wakes up.
RaceNeedsTimeout == corrupt => late # {}

\* m_cv.wait has no condition, yet a game is entered only for a start the server
\* sent, one game each, if threads do not wake up for no reason.
PlaysNeedStarts == count.plays <= count.starts + count.wakes

\* With kqueue nothing the server sent stays in the socket, however the messages
\* come together.
EveryMessageRead == watch = "level" /\ wire # <<>> ~> wire = <<>>

\* With epoll a message for which no event is left waits for the next one to arrive,
\* and the client is one answer behind from then on.  As long as answers come in
\* time and no game starts, every message is alone and that does not happen.
UnreadNeedsOverlap ==
    watch = "edge" /\ wire # <<>> /\ ~event => late # {} \/ count.starts > 0

\* A call returns even when its answer comes before its promise is registered.
CallsReturn == menu.pc = "waiting" ~> menu.pc # "waiting" \/ corrupt

\* do_game_start tells all players of the room to start ("通知该游戏房间下的所有玩家
\* 开始游戏"): a player who waits for the start when it comes gets into the game,
\* unless it gives up.
StartIsNotMissed ==
    task.pc = "countdown" /\ menu.pc \in {"clear", "polling"}
        ~> menu.pc \in {"playing", "quit"} \/ corrupt

=============================================================================
