------------------------------- MODULE Server -------------------------------
(***************************************************************************)
(* The game server (src/server.cpp, class CServerMng, the kqueue build)    *)
(* over the room table of GameServer, with the clients of src/client.cpp   *)
(* as its environment.                                                     *)
(*                                                                         *)
(* Three threads run: the receive thread reads requests from sockets and   *)
(* handles lost connections, the task thread serves the requests one by    *)
(* one, the send thread writes the answers.  They share the task queue,    *)
(* the send queue, the online table, the room table and the file           *)
(* descriptors.  An action is what a thread does under one lock: a handler *)
(* that takes two locks is two actions, and the other threads may come in  *)
(* between.                                                                *)
(***************************************************************************)
EXTENDS GameServer, Sequences, SequencesExt

CONSTANTS Clients,      \* client processes
          Logins,       \* names of accounts
          TestAccounts, \* names of the accounts start() adds, in the order of their ids
          NoLogin,      \* stands for a name with a wrong password
          Fds,          \* file descriptors of accepted sockets, positive
          Kinds,        \* BOUND: the kinds of request clients send
          Faults,       \* the faults the network and the clients may show
          MaxRequests,  \* BOUND: requests all clients together send
          MaxConnects,  \* BOUND: connections all clients together open
          NoClient      \* not a client

\* the ids accounts may get; 0 is what a request carries without a login
Accounts == Cids \ {0}

ASSUME ServerAssumption ==
    /\ 0 \in Cids
    /\ IsFiniteSet(Logins) /\ 1 .. Cardinality(Logins) \subseteq Cids
    /\ NoLogin \notin Logins
    /\ TestAccounts \in Seq(Logins)
    /\ \A c, d \in DOMAIN TestAccounts : TestAccounts[c] = TestAccounts[d] => c = d
    /\ Names # {}
    /\ Fds \subseteq Nat \ {0}
    /\ NoClient \notin Clients
    /\ Faults \subseteq {"EXIT", "TIMEOUT", "SPLIT"}
    /\ MaxRequests \in Nat
    /\ MaxConnects \in Nat

VARIABLES clientInfo,  \* m_mapClientInfo: the account names by id; ids count
                       \* up from 1 and no account is ever removed
          online,      \* m_mapOlinePlayers: fd -> cid
          taskQue,     \* m_queTaskData
          sendQue,     \* m_queSendMsg
          task,        \* the task thread: its request and where it stands
          recv,        \* the receive thread while it handles a lost socket
          sock,        \* per fd: the kernel's socket
          client       \* per client process

serverVars == <<clientInfo, online, taskQue, sendQue, task, recv>>
envVars    == <<sock, client>>
vars       == <<gameVars, serverVars, envVars>>

-----------------------------------------------------------------------------
(***************************************************************************)
(* Records.  A request carries the fields of its json body that the        *)
(* handler reads; "from" is the client that sent it (history).             *)
(***************************************************************************)
NoGid == 0
AnyName == CHOOSE n \in Names : TRUE

Request(type, id, from, cid, gid, name) ==
    [type |-> type, id |-> id, from |-> from, cid |-> cid, gid |-> gid,
     name |-> name]

NoRequest == Request("NONE", 0, NoClient, 0, NoGid, AnyName)

Answer(t, res, cid, gid) ==
    [type |-> t.req.type, id |-> t.req.id, to |-> t.req.from, fd |-> t.fd,
     res |-> res, cid |-> cid, gid |-> gid]

\* the push to every player of a started game: task id 0
StartNotice(fd) ==
    [type |-> "GAME_START", id |-> 0, to |-> NoClient, fd |-> fd, res |-> 0,
     cid |-> 0, gid |-> NoGid]

IdleTask  == [pc |-> "idle", fd |-> 0, req |-> NoRequest, cids |-> {}, ok |-> FALSE]
IdleRecv  == [pc |-> "idle", fd |-> 0, cid |-> NoCid]
FreeSock  == [peer |-> NoClient, eof |-> FALSE, in |-> <<>>]

\* CClientInfoMng
IsClientExisted(login) == \E cid \in DOMAIN clientInfo : clientInfo[cid] = login
FindClient(login) ==
    IF IsClientExisted(login)
    THEN CHOOSE cid \in DOMAIN clientInfo : clientInfo[cid] = login
    ELSE 0

\* COnlinePlayers
IsPlayerOnline(cid) == \E fd \in DOMAIN online : online[fd] = cid
SockFdOf(cid) ==
    IF IsPlayerOnline(cid)
    THEN CHOOSE fd \in DOMAIN online :
            online[fd] = cid /\ \A e \in DOMAIN online : online[e] = cid => fd <= e
    ELSE -1
\* map::insert: a descriptor that is already in the table keeps its player
AddPlayer(fd, cid) ==
    online' = [e \in DOMAIN online \cup {fd} |->
                  IF e \in DOMAIN online THEN online[e] ELSE cid]
RemoveFd(fd) == online' = [e \in DOMAIN online \ {fd} |-> online[e]]

-----------------------------------------------------------------------------
(***************************************************************************)
(* The receive thread, and the listen thread that feeds it.                *)
(***************************************************************************)
\* listen_thread_func accepts (the kernel hands out the lowest free descriptor)
\* and queues the socket; the receive thread takes it from that queue and
\* watches it.  Until then nothing is read from it, so both are one action.
Accept(k) ==
    /\ alive
    /\ client[k].menu = "off"
    /\ FoldFunction(+, 0, [c \in Clients |-> client[c].connects]) < MaxConnects
    /\ \E fd \in Fds :
          /\ sock[fd].peer = NoClient
          /\ \A e \in Fds : sock[e].peer = NoClient => fd <= e
          /\ sock' = [sock EXCEPT ![fd].peer = k]
          /\ client' = [client EXCEPT ![k] =
                          [client[k] EXCEPT !.menu = "login", !.fd = fd, !.connects = @ + 1]]
    /\ UNCHANGED <<gameVars, serverVars>>

\* queues the new request before the older ones
BadRead(fd) ==
    /\ alive /\ recv.pc = "idle" /\ ~sock[fd].eof /\ sock[fd].in # <<>>
    /\ taskQue' = <<[fd |-> fd, req |-> Head(sock[fd].in)]>> \o taskQue
    /\ sock' = [sock EXCEPT ![fd].in = Tail(@)]
    /\ UNCHANGED <<gameVars, clientInfo, online, sendQue, task, recv, client>>

\* one message is read per event; the EOF test comes first, so what a peer
\* sent before it closed and was not yet read is never read
Read(fd) ==
    /\ alive
    /\ recv.pc = "idle"
    /\ ~sock[fd].eof
    /\ sock[fd].in # <<>>
    /\ taskQue' = Append(taskQue, [fd |-> fd, req |-> Head(sock[fd].in)])
    /\ sock' = [sock EXCEPT ![fd].in = Tail(@)]
    /\ UNCHANGED <<gameVars, clientInfo, online, sendQue, task, recv, client>>

\* readn gives up when the rest of a message is not there yet (EAGAIN on a
\* non-blocking socket)
ReadnFails == "SPLIT" \in Faults

\* a message that arrives in parts: the descriptor is closed.  The online table
\* and the rooms keep the player; the client finds its connection closed.
ReadPart(fd) ==
    /\ ReadnFails
    /\ alive
    /\ recv.pc = "idle"
    /\ ~sock[fd].eof
    /\ sock[fd].in # <<>>
    /\ sock' = [sock EXCEPT ![fd] = FreeSock]
    /\ client' = [k \in Clients |->
                    IF client[k].fd = fd THEN [client[k] EXCEPT !.fd = 0]
                                         ELSE client[k]]
    /\ UNCHANGED <<gameVars, serverVars>>

\* EV_EOF: remove_player_by_socketfd, then the game server's remove_player
\* with the id found (or -1), then close
LostOnline(fd) ==
    /\ alive
    /\ recv.pc = "idle"
    /\ sock[fd].eof
    /\ recv' = [pc |-> "rooms", fd |-> fd,
                cid |-> IF fd \in DOMAIN online THEN online[fd] ELSE NoCid]
    /\ RemoveFd(fd)
    /\ UNCHANGED <<gameVars, clientInfo, taskQue, sendQue, task, sock, client>>

LostRooms ==
    /\ recv.pc = "rooms"
    /\ RemoveLostPlayer(recv.cid)
    /\ recv' = [recv EXCEPT !.pc = "close"]
    /\ UNCHANGED <<clientInfo, online, taskQue, sendQue, task, sock, client>>

LostClose ==
    /\ alive
    /\ recv.pc = "close"
    /\ sock' = [sock EXCEPT ![recv.fd] = FreeSock]
    /\ recv' = IdleRecv
    /\ UNCHANGED <<gameVars, clientInfo, online, taskQue, sendQue, task, client>>

-----------------------------------------------------------------------------
(***************************************************************************)
(* The task thread.  Begin(type, pc) takes the next request from the queue *)
(* and stands at pc; Reply queues the answer and makes the thread idle.    *)
(* A handler that takes one lock takes its request and answers in a single *)
(* action: nothing another thread does can be told apart in between.       *)
(***************************************************************************)
NextTask(type) ==
    /\ alive
    /\ task.pc = "idle"
    /\ taskQue # <<>>
    /\ Head(taskQue).req.type = type

Taken(pc) == [pc |-> pc, fd |-> Head(taskQue).fd, req |-> Head(taskQue).req,
              cids |-> {}, ok |-> FALSE]

TakeTo(t) ==
    /\ task' = t
    /\ taskQue' = Tail(taskQue)
    /\ UNCHANGED <<sendQue, online, gameVars>>

\* take the next request and answer it at once
Serve(res, cid, gid) ==
    /\ taskQue' = Tail(taskQue)
    /\ sendQue' = Append(sendQue, Answer(Taken("idle"), res, cid, gid))
    /\ UNCHANGED task

\* answer the request being served
Reply(res, cid, gid) ==
    /\ sendQue' = Append(sendQue, Answer(task, res, cid, gid))
    /\ task' = IdleTask
    /\ UNCHANGED taskQue

TaskFrame == UNCHANGED <<clientInfo, recv, envVars>>

\* do_regiser: only this thread uses CClientInfoMng, so its three locks are one
\* step
DoRegist ==
    /\ NextTask("REGIST")
    /\ LET login == Head(taskQue).req.name
       IN  IF IsClientExisted(login)
           THEN UNCHANGED clientInfo /\ Serve(-1, 0, NoGid)
           ELSE clientInfo' = Append(clientInfo, login)
                /\ Serve(0, Len(clientInfo) + 1, NoGid)
    /\ UNCHANGED <<gameVars, online, recv, envVars>>

\* the account found takes the place of the player id in the request, which
\* do_login does not read
Found(ok) ==
    [Taken("login") EXCEPT !.req.cid = FindClient(Head(taskQue).req.name), !.ok = ok]

\* forgets to look whether the player is online
WorseDoLoginCheck ==
    /\ NextTask("LOGIN")
    /\ TakeTo(Found(FindClient(Head(taskQue).req.name) # 0))
    /\ TaskFrame

\* do_login: find_client and is_player_online under two locks, then
\* add_player under a third.  The receive thread may come in between the last
\* two.
DoLoginCheck ==
    /\ NextTask("LOGIN")
    /\ LET cid == FindClient(Head(taskQue).req.name)
       IN  TakeTo(Found(cid # 0 /\ ~IsPlayerOnline(cid)))
    /\ TaskFrame

\* returns from a login it refuses without an answer
BadDoLoginAdd ==
    /\ alive
    /\ task.pc = "login"
    /\ IF task.ok
       THEN AddPlayer(task.fd, task.req.cid) /\ Reply(0, task.req.cid, NoGid)
       ELSE task' = IdleTask /\ UNCHANGED <<online, taskQue, sendQue>>
    /\ TaskFrame
    /\ UNCHANGED gameVars

DoLoginAdd ==
    /\ alive
    /\ task.pc = "login"
    /\ IF task.ok
       THEN AddPlayer(task.fd, task.req.cid) /\ Reply(0, task.req.cid, NoGid)
       ELSE UNCHANGED online /\ Reply(-1, 0, NoGid)
    /\ TaskFrame
    /\ UNCHANGED gameVars

\* do_logout: remove_player_by_clientid removes the first entry of the player
\* and leaves its rooms alone
DoLogout ==
    /\ NextTask("LOGOUT")
    /\ LET fd == SockFdOf(Head(taskQue).req.cid)
       IN  IF fd = -1 THEN UNCHANGED online ELSE RemoveFd(fd)
    /\ Serve(0, 0, NoGid)
    /\ TaskFrame
    /\ UNCHANGED gameVars

\* do_create_room: create_game returns an unsigned word, so the test "gid < 0"
\* is false for every result and the answer is always a success
CreateRes(g) == IF g < 0 THEN -1 ELSE 0

DoCreateRoom ==
    /\ NextTask("CREATE_ROOM")
    /\ LET req == Head(taskQue).req
       IN  \E gid \in Gids :
              LET g == CreateGameResult(req.name, gid)
              IN  /\ CreateGame(req.cid, req.name, gid)
                  /\ Serve(CreateRes(g), 0, g)
    /\ TaskFrame
    /\ UNCHANGED online

\* answers without adding the player
BadDoJoinRoom ==
    /\ NextTask("JOIN_ROOM")
    /\ LET gid == Head(taskQue).req.gid IN Serve(AddGamePlayerResult(gid), 0, gid)
    /\ TaskFrame
    /\ UNCHANGED <<online, gameVars>>

DoJoinRoom ==
    /\ NextTask("JOIN_ROOM")
    /\ LET req == Head(taskQue).req
       IN  /\ AddGamePlayer(req.gid, req.cid)
           /\ Serve(AddGamePlayerResult(req.gid), 0, req.gid)
    /\ TaskFrame
    /\ UNCHANGED online

\* takes the owner out of the room instead of the player who asks
BadDoQuitRoom ==
    /\ NextTask("QUIT_ROOM")
    /\ LET req == Head(taskQue).req
       IN  /\ RemovePlayer(req.gid, GetRoomOwner(req.gid))
           /\ Serve(0, 0, req.gid)
    /\ TaskFrame
    /\ UNCHANGED online

\* leaves an empty room in the table
WorseDoQuitRoom ==
    /\ NextTask("QUIT_ROOM")
    /\ LET req == Head(taskQue).req
       IN  /\ IF req.gid \in DOMAIN mapGame
              THEN Put(req.gid, RemoveClient(mapGame[req.gid], req.cid))
              ELSE UNCHANGED mapGame
           /\ Serve(0, 0, req.gid)
    /\ TaskFrame
    /\ UNCHANGED <<online, dangling, alive>>

DoQuitRoom ==
    /\ NextTask("QUIT_ROOM")
    /\ LET req == Head(taskQue).req
       IN  /\ RemovePlayer(req.gid, req.cid)
           /\ Serve(0, 0, req.gid)
    /\ TaskFrame
    /\ UNCHANGED online

ReadyRes(gid) == IF gid \in DOMAIN mapGame THEN 0 ELSE -1

DoGameReady ==
    /\ NextTask("GAME_READY")
    /\ LET req == Head(taskQue).req
       IN  /\ GameReady(req.gid, req.cid)
           /\ Serve(ReadyRes(req.gid), 0, req.gid)
    /\ TaskFrame
    /\ UNCHANGED online

DoQuitGameReady ==
    /\ NextTask("QUIT_GAME_READY")
    /\ LET req == Head(taskQue).req
       IN  /\ QuitGameReady(req.gid, req.cid)
           /\ Serve(ReadyRes(req.gid), 0, req.gid)
    /\ TaskFrame
    /\ UNCHANGED online

\* do_request_game_start: the number of players and their readiness are read
\* under two locks
ReqGameStartNums ==
    /\ NextTask("REQ_GAME_START")
    /\ TakeTo([Taken("ready") EXCEPT
                  !.ok = GetPlayerNums(Head(taskQue).req.gid) >= RoomLimit])
    /\ TaskFrame

ReqGameStartReady ==
    /\ alive
    /\ task.pc = "ready"
    /\ Reply(IF task.ok /\ GetGameReadyStatus(task.req.gid) THEN 0 ELSE -1,
             0, task.req.gid)
    /\ TaskFrame
    /\ UNCHANGED <<online, gameVars>>

\* do_game_start: the players are listed, the frame thread is started, then
\* each listed player that is online is told, in the order of the ids.
\* Neither the readiness of the room nor the sender is looked at.
GameStartList ==
    /\ NextTask("GAME_START")
    /\ TakeTo([Taken("start") EXCEPT !.cids = GetCidList(Head(taskQue).req.gid)])
    /\ TaskFrame

GameStartFrames ==
    /\ task.pc = "start"
    /\ GameStart(task.req.gid)
    /\ task' = [task EXCEPT !.pc = "notify"]
    /\ TaskFrame
    /\ UNCHANGED <<online, taskQue, sendQue>>

\* sends every message to the socket the command came from
BadGameStartNotify ==
    /\ alive /\ task.pc = "notify"
    /\ \E c \in task.cids :
          /\ task' = [task EXCEPT !.cids = @ \ {c}]
          /\ sendQue' = Append(sendQue, StartNotice(task.fd))
    /\ TaskFrame
    /\ UNCHANGED <<online, taskQue, gameVars>>

GameStartNotify ==
    /\ alive
    /\ task.pc = "notify"
    /\ \E c \in task.cids :
          /\ \A d \in task.cids : c <= d
          /\ task' = [task EXCEPT !.cids = @ \ {c}]
          /\ sendQue' = IF SockFdOf(c) > 0
                        THEN Append(sendQue, StartNotice(SockFdOf(c)))
                        ELSE sendQue
    /\ TaskFrame
    /\ UNCHANGED <<online, taskQue, gameVars>>

GameStartDone ==
    /\ alive
    /\ task.pc = "notify"
    /\ task.cids = {}
    /\ task' = IdleTask
    /\ TaskFrame
    /\ UNCHANGED <<online, taskQue, sendQue, gameVars>>

TaskThread ==
    \/ DoRegist \/ DoLoginCheck \/ DoLoginAdd \/ DoLogout
    \/ DoCreateRoom \/ DoJoinRoom \/ DoQuitRoom
    \/ DoGameReady \/ DoQuitGameReady
    \/ ReqGameStartNums \/ ReqGameStartReady
    \/ GameStartList \/ GameStartFrames \/ GameStartNotify \/ GameStartDone

-----------------------------------------------------------------------------
(***************************************************************************)
(* A client process: the menu it is in, the request it waits for, the      *)
(* player id and room it believes it has, the room list and the role in    *)
(* its room that it was last shown.  Every call waits 10 ms for the        *)
(* answer; Timeout gives up, and an answer that comes later is dropped,    *)
(* because its id is no longer registered.                                 *)
(*                                                                         *)
(* The two queries change nothing in the server.  One that is answered in  *)
(* time is a single step of the client, which sees the tables as they are  *)
(* at that instant and acts on them later; one that is not shows what the  *)
(* client saw before.                                                      *)
(***************************************************************************)
Menus == {"off", "login", "main", "list", "entering", "room", "granted", "ready"}
Roles == {"unknown", "owner", "guest"}

NewClient == [menu |-> "off", fd |-> 0, cid |-> 0, gid |-> NoGid,
              list |-> {}, role |-> "unknown",
              await |-> NoRequest, sent |-> 0, connects |-> 0]

Free(k, menu) == client[k].menu = menu /\ client[k].await = NoRequest

\* put a request on the wire, if there still is one (fd 0: the server has closed
\* the connection); id 0 is a command that nobody answers
Send(k, type, id, cid, gid, name) ==
    sock' = [fd \in Fds |->
                IF fd = client[k].fd
                THEN [sock[fd] EXCEPT !.in =
                         Append(@, Request(type, id, k, cid, gid, name))]
                ELSE sock[fd]]

Call(k, type, cid, gid, name) ==
    LET id == client[k].sent + 1
    IN  /\ alive
        /\ type \in Kinds
        /\ FoldFunction(+, 0, [c \in Clients |-> client[c].sent]) < MaxRequests
        /\ Send(k, type, id, cid, gid, name)
        /\ client' = [client EXCEPT ![k].sent = id,
                                    ![k].await = Request(type, id, k, cid, gid, name)]
        /\ UNCHANGED <<gameVars, serverVars>>

Regist(k) ==
    Free(k, "login") /\ \E login \in Logins : Call(k, "REGIST", 0, NoGid, login)

Login(k) ==
    /\ Free(k, "login")
    /\ \E login \in Logins \cup {NoLogin} : Call(k, "LOGIN", 0, NoGid, login)

Logout(k) == Free(k, "main") /\ Call(k, "LOGOUT", client[k].cid, NoGid, AnyName)

CreateRoom(k) ==
    /\ Free(k, "main")
    /\ \E name \in Names : Call(k, "CREATE_ROOM", client[k].cid, NoGid, name)

\* room_list_menu: the list is asked for, and again whenever the user likes.
\* An empty list leads back to the main menu.
ShowRooms(k) ==
    /\ alive
    /\ Free(k, "main") \/ Free(k, "list")
    /\ client' = [client EXCEPT ![k].menu = IF GetGameidList = {} THEN "main" ELSE "list",
                                ![k].list = GetGameidList]
    /\ UNCHANGED <<gameVars, serverVars, sock>>

\* the user types 0
LeaveRooms(k) ==
    /\ alive
    /\ Free(k, "list")
    /\ client' = [client EXCEPT ![k].menu = "main", ![k].list = {}]
    /\ UNCHANGED <<gameVars, serverVars, sock>>

\* a room of the list, which may be gone by now
JoinRoom(k) ==
    /\ Free(k, "list")
    /\ \E gid \in client[k].list :
          Call(k, "JOIN_ROOM", client[k].cid, gid, AnyName)

QuitRoom(k) ==
    Free(k, "room") /\ Call(k, "QUIT_ROOM", client[k].cid, client[k].gid, AnyName)

\* player_list_menu: a player that is shown as the owner asks to start, one that
\* is not gets ready
RequestStartGame(k) ==
    /\ Free(k, "room")
    /\ client[k].role = "owner"
    /\ Call(k, "REQ_GAME_START", client[k].cid, client[k].gid, AnyName)

Ready(k) ==
    /\ Free(k, "room")
    /\ client[k].role = "guest"
    /\ Call(k, "GAME_READY", client[k].cid, client[k].gid, AnyName)

QuitReady(k) ==
    /\ Free(k, "ready")
    /\ Call(k, "QUIT_GAME_READY", client[k].cid, client[k].gid, AnyName)

\* a granted request is followed by the command, sent with task id 0
StartCommand(k) ==
    /\ alive
    /\ Free(k, "granted")
    /\ Send(k, "GAME_START", 0, client[k].cid, client[k].gid, AnyName)
    /\ client' = [client EXCEPT ![k].menu = "entering"]
    /\ UNCHANGED <<gameVars, serverVars>>

\* player_list_menu asks for the players before each turn, and whenever the user
\* likes.  If that fails it shows what it knows; if it never knew anything, or
\* the room is gone, it returns to the main menu without a word to the server.
ShowRoom(k) ==
    /\ alive
    /\ Free(k, "entering") \/ Free(k, "room")
    /\ client[k].gid \in DOMAIN mapGame
    /\ client' = [client EXCEPT
                    ![k].menu = "room",
                    ![k].role = IF GetRoomOwner(client[k].gid) = client[k].cid
                                THEN "owner" ELSE "guest"]
    /\ UNCHANGED <<gameVars, serverVars, sock>>

ShowOldRoom(k) ==
    /\ alive
    /\ "TIMEOUT" \in Faults
    /\ Free(k, "entering") /\ client[k].role # "unknown"
    /\ client' = [client EXCEPT ![k].menu = "room"]
    /\ UNCHANGED <<gameVars, serverVars, sock>>

AbandonRoom(k) ==
    /\ alive
    /\ Free(k, "entering") \/ Free(k, "room")
    /\ \/ client[k].gid \notin DOMAIN mapGame
       \/ client[k].role = "unknown" /\ "TIMEOUT" \in Faults
    /\ client' = [client EXCEPT ![k].menu = "main", ![k].gid = NoGid,
                                ![k].role = "unknown"]
    /\ UNCHANGED <<gameVars, serverVars, sock>>

\* where a client goes with the result of its call: res < 0 is a refusal or a
\* timeout
After(c, res, cid, gid) ==
    LET d == [c EXCEPT !.await = NoRequest]
        t == c.await.type
    IN  CASE t = "REGIST" /\ res = 0 -> [d EXCEPT !.cid = cid]
          [] t = "LOGIN" /\ res = 0  -> [d EXCEPT !.menu = "main", !.cid = cid]
          [] t = "LOGOUT"            -> [d EXCEPT !.menu = "login"]
          [] t \in {"CREATE_ROOM", "JOIN_ROOM"} ->
                IF res = 0 THEN [d EXCEPT !.menu = "entering", !.gid = gid, !.list = {}]
                           ELSE [d EXCEPT !.menu = "main", !.list = {}]
          [] t = "QUIT_ROOM" ->
                [d EXCEPT !.menu = "main", !.gid = NoGid, !.role = "unknown"]
          [] t = "REQ_GAME_START" ->
                [d EXCEPT !.menu = IF res = 0 THEN "granted" ELSE "entering"]
          [] t = "GAME_READY"        -> [d EXCEPT !.menu = "ready"]
          [] t = "QUIT_GAME_READY"   -> [d EXCEPT !.menu = "entering"]
          [] OTHER                   -> d

Timeout(k) ==
    /\ "TIMEOUT" \in Faults
    /\ client[k].await # NoRequest
    /\ client' = [client EXCEPT ![k] = After(@, -1, 0, NoGid)]
    /\ UNCHANGED <<gameVars, serverVars, sock>>

\* the client process ends: the kernel closes its socket
Exit(k) ==
    /\ "EXIT" \in Faults
    /\ client[k].menu # "off"
    /\ sock' = [fd \in Fds |-> IF fd = client[k].fd
                               THEN [sock[fd] EXCEPT !.eof = TRUE] ELSE sock[fd]]
    /\ client' = [client EXCEPT ![k] =
                    [NewClient EXCEPT !.sent = client[k].sent,
                                      !.connects = client[k].connects]]
    /\ UNCHANGED <<gameVars, serverVars>>

-----------------------------------------------------------------------------
(***************************************************************************)
(* The send thread writes the first answer to its descriptor, whoever has  *)
(* it by now; the client's Notice wakes the call registered for that id.   *)
(***************************************************************************)
Awaited(k, r) ==
    /\ k \in Clients
    /\ client[k].await # NoRequest
    /\ client[k].await.id = r.id

Deliver ==
    /\ alive
    /\ sendQue # <<>>
    /\ LET r == Head(sendQue)
           k == IF sock[r.fd].eof THEN NoClient ELSE sock[r.fd].peer
       IN  client' = IF Awaited(k, r)
                     THEN [client EXCEPT ![k] = After(@, r.res, r.cid, r.gid)]
                     ELSE client
    /\ sendQue' = Tail(sendQue)
    /\ UNCHANGED <<gameVars, clientInfo, online, taskQue, task, recv, sock>>

\* writing to a connection the peer has closed may raise SIGPIPE, which nobody
\* handles
WriteFaults ==
    /\ sendQue # <<>>
    /\ sock[Head(sendQue).fd].eof
    /\ ProcessKilled
    /\ UNCHANGED <<serverVars, envVars>>

-----------------------------------------------------------------------------
Init ==
    /\ GameInit
    /\ clientInfo = TestAccounts
    /\ online = [fd \in {} |-> 0]
    /\ taskQue = <<>>
    /\ sendQue = <<>>
    /\ task = IdleTask
    /\ recv = IdleRecv
    /\ sock = [fd \in Fds |-> FreeSock]
    /\ client = [k \in Clients |-> NewClient]

RecvThread == (\E fd \in Fds : Read(fd) \/ ReadPart(fd) \/ LostOnline(fd)) \/ LostRooms \/ LostClose

Client(k) ==
    \/ Accept(k) \/ Regist(k) \/ Login(k) \/ Logout(k) \/ CreateRoom(k)
    \/ ShowRooms(k) \/ LeaveRooms(k) \/ JoinRoom(k)
    \/ QuitRoom(k) \/ RequestStartGame(k) \/ Ready(k) \/ QuitReady(k)
    \/ StartCommand(k) \/ ShowRoom(k) \/ ShowOldRoom(k) \/ AbandonRoom(k)
    \/ Timeout(k) \/ Exit(k)

FrameFault == DanglingSenderFaults /\ UNCHANGED <<serverVars, envVars>>

Next ==
    \/ RecvThread
    \/ TaskThread
    \/ Deliver
    \/ WriteFaults
    \/ FrameFault
    \/ \E k \in Clients : Client(k)

\* the three threads of the server run for ever; clients owe nothing
Fairness == WF_vars(RecvThread) /\ WF_vars(TaskThread) /\ WF_vars(Deliver)

Spec == Init /\ [][Next]_vars
FairSpec == Spec /\ Fairness

-----------------------------------------------------------------------------
(***************************************************************************)
(* Properties.                                                             *)
(***************************************************************************)
\* every room id a message may carry: the table's, none, or create_game's errors
Words == Gids \cup {NoGid, U64(-1), U64(-2)}

Labels == Names \cup Logins \cup {NoLogin}

MsgTypes == {"NONE", "REGIST", "LOGIN", "LOGOUT", "CREATE_ROOM", "JOIN_ROOM", "QUIT_ROOM",
             "GAME_READY", "QUIT_GAME_READY", "REQ_GAME_START", "GAME_START"}
WellNamed(type, name) ==
    /\ type = "CREATE_ROOM" => name \in Names
    /\ type = "REGIST" => name \in Logins
Requests == {r \in [type : MsgTypes, id : Nat, from : Clients \cup {NoClient},
                    cid : Cids, gid : Words, name : Labels] :
                WellNamed(r.type, r.name)}
Answers  == [type : MsgTypes, id : Nat, to : Clients \cup {NoClient}, fd : Fds,
             res : Int, cid : Cids, gid : Words]
Tasks    == [pc : {"idle", "login", "ready", "start", "notify"}, fd : Fds \cup {0},
             req : Requests, cids : SUBSET Cids, ok : BOOLEAN]
Recvs    == [pc : {"idle", "rooms", "close"}, fd : Fds \cup {0},
             cid : Accounts \cup {NoCid}]
Socks    == [peer : Clients \cup {NoClient}, eof : BOOLEAN, in : Seq(Requests)]
ClientStates == [menu : Menus, fd : Fds \cup {0}, cid : Cids, gid : Words,
                 list : SUBSET Gids, role : Roles,
                 await : Requests, sent : Nat, connects : Nat]

\* Types of the tables and queues: every player in the online table has been
\* registered (do_regiser, do_login), every task and every answer belongs to a descriptor.
TypeOK ==
    /\ GameTypeOK
    /\ DOMAIN online \subseteq Fds
    /\ clientInfo \in Seq(Logins)
    /\ online \in [DOMAIN online -> DOMAIN clientInfo]
    /\ taskQue \in Seq([fd : Fds, req : Requests])
    /\ sendQue \in Seq(Answers)
    /\ task \in Tasks /\ (task.pc # "idle" => task.fd \in Fds)
    /\ recv \in Recvs
    /\ sock \in [Fds -> Socks]
    /\ client \in [Clients -> ClientStates]

\* do_login looks a player up and adds it under two locks while the receive
\* thread removes players: no player is ever online on two descriptors.
OneFdPerPlayer ==
    \A e, f \in DOMAIN online : online[e] = online[f] => e = f

\* A request and its answer on their way through the server: whose they are, and
\* the id.  Commands have id 0 and no answer, nor is a notice one.
Ticket(from, id) == [from |-> from, id |-> id]
IsCall(k, t) == t.from = k /\ t.id # 0

\* What has come from client k and what others asked meanwhile, the oldest first:
\* answers to write, the request being served, tasks, and k's unread bytes.
Answering == [i \in DOMAIN sendQue |-> Ticket(sendQue[i].to, sendQue[i].id)]
Serving   == IF task.pc = "idle" THEN <<>> ELSE <<Ticket(task.req.from, task.req.id)>>
Waiting   == [i \in DOMAIN taskQue |-> Ticket(taskQue[i].req.from, taskQue[i].req.id)]
Wire(fd)  == [i \in DOMAIN sock[fd].in |-> Ticket(sock[fd].in[i].from, sock[fd].in[i].id)]
Unread(k) == IF client[k].fd = 0 THEN <<>> ELSE Wire(client[k].fd)

Pipeline(k) == Answering \o Serving \o Waiting \o Unread(k)

\* Three threads and three queues neither reorder nor repeat what one
\* client asked: its requests leave the server in the order they came, each
\* with one answer.
PipelineInOrder ==
    \A k \in Clients :
        LET p == Pipeline(k)
        IN  \A i, j \in DOMAIN p :
               i < j /\ IsCall(k, p[i]) /\ IsCall(k, p[j]) => p[i].id < p[j].id

\* A request on the wire is answered: no handler drops it on any of its ways out,
\* an answer with its client and its id comes to the head of the send queue and
\* is written, whatever else happens, short of the process dying or the client
\* losing its connection.
UnderWay(k, id) == Ticket(k, id) \in ToSet(Pipeline(k))
AnswerNext(k, id) == Answering # <<>> /\ Head(Answering) = Ticket(k, id)

EveryTaskAnswered ==
    \A k \in Clients : \A id \in 1..MaxRequests :
        /\ (UnderWay(k, id) /\ client[k].fd # 0)
               ~> (~alive \/ client[k].fd = 0 \/ AnswerNext(k, id))
        /\ AnswerNext(k, id) ~> (~alive \/ ~AnswerNext(k, id))

\* Every answer within 10 ms and no connection lost: a client that waits for
\* nothing and is shown a room is online under its own player id and is a
\* member of that room, whatever the other players do meanwhile.
SeesItsRoom(k) ==
    /\ client[k].fd \in DOMAIN online
    /\ online[client[k].fd] = client[k].cid
    /\ client[k].cid \in GetCidList(client[k].gid)

ViewsAgree ==
    alive => \A k \in Clients : client[k].await = NoRequest =>
        /\ client[k].role # "unknown" => SeesItsRoom(k)
        /\ client[k].menu = "ready" =>
              mapGame[client[k].gid].ready[client[k].cid] = 1

\* ... and nothing but a frame thread that outlived its room ends the process:
\* no handler takes a player out of a room it is not in.
DiesOnlyOfFrames == ~alive => dangling

\* do_game_start tells "all players of the room" ("通知该游戏房间下的所有玩家"): for
\* the player whose turn it is, every client that plays as that player and is
\* in that room gets the message.
PlaysIn(k, cid, gid) ==
    /\ client[k].role # "unknown"
    /\ client[k].cid = cid
    /\ client[k].gid = gid

NotifiesPlayers ==
    [][\A c \in task.cids \ task'.cids : \A k \in Clients :
          PlaysIn(k, c, task.req.gid) =>
              \E i \in DOMAIN sendQue' : sendQue'[i] = StartNotice(client[k].fd)]_vars

\* do_request_game_start refuses a room that is not full ("房间人数未满.") or not
\* ready ("请等待所有玩家准备."): a game that starts has a full and ready room.
StartsOnlyReadyRooms ==
    [][\A gid \in DOMAIN mapGame \cap DOMAIN mapGame' :
          mapGame'[gid].senders > mapGame[gid].senders =>
              GetPlayerNums(gid) = RoomLimit /\ GetGameReadyStatus(gid)]_vars

=============================================================================
