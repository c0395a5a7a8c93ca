----------------------------- MODULE GameServer -----------------------------
(***************************************************************************)
(* The room table of the server: class CGameServer (a map from room id to  *)
(* room, guarded by one mutex) and class CGame (the members of one room,   *)
(* their ready flags, its owner).  Both are in src/game.cpp.               *)
(*                                                                         *)
(* Every method of CGameServer holds CGameServer::m_mtx from its first to  *)
(* its last access of the table, so every method is one action.  The task  *)
(* thread and the receive thread call them; Server.tla says with which     *)
(* arguments, this module allows any.                                      *)
(*                                                                         *)
(* Undefined behaviour.  CGame::remove_client erases find(client) without  *)
(* looking whether the client was found.  Erasing end() from a std::map    *)
(* unlinks and frees the header node, which lies inside the map object:    *)
(* the allocator rejects the pointer and the process aborts.  That outcome *)
(* is alive = FALSE, after which no action is enabled.                     *)
(***************************************************************************)
EXTENDS Integers, FiniteSets

CONSTANTS Cids,        \* player ids a request may carry
          Gids,        \* room ids CSnowFlake::get_sid can return
          Names,       \* room names
          W,           \* 2^64: the modulus of the unsigned words
          MaxSenders   \* BOUND: frame threads started per room

ASSUME GameServerAssumption ==
    /\ Cids \subseteq Nat
    /\ W \in Nat
    /\ Gids \subseteq 0..(W - 3)
    /\ MaxSenders \in Nat

VARIABLES mapGame,     \* m_mapGame: room id -> room
          dangling,    \* a frame thread may stand on a node that is destroyed
          alive        \* FALSE once the process has aborted

gameVars == <<mapGame, dangling, alive>>

RoomLimit == 2                       \* CGame::add_client: size() == 2
NoCid     == -1                      \* "no such player" of every lookup
U64(n)    == n % W                   \* conversion of an int to uint64_t

(***************************************************************************)
(* An operator whose name begins with Bad is a plausible bug of the        *)
(* definition that follows it; no definition uses it.  PROJECT.json pairs  *)
(* it with the property that tells the two apart.                          *)
(*                                                                         *)
(* CGame: operators on the record of one room.  opt is the key set of      *)
(* m_mapGameOpt, ready the map m_mapGameReady, exit m_bExitSendFrame and   *)
(* senders the number of detached frame threads running on this room.      *)
(***************************************************************************)
NewGame(name) ==
    [name |-> name, opt |-> {}, ready |-> [c \in {} |-> 0],
     owner |-> NoCid, exit |-> FALSE, senders |-> 0]

AddClient(g, c) ==
    [g EXCEPT !.opt   = @ \cup {c},
              !.ready = [d \in DOMAIN g.ready \cup {c} |->
                            IF d \in DOMAIN g.ready THEN g.ready[d] ELSE 0]]

\* forgets the second of the two maps
BadRemoveClient(g, c) == [g EXCEPT !.opt = @ \ {c}]

RemoveClient(g, c) ==
    [g EXCEPT !.opt   = @ \ {c},
              !.ready = [d \in DOMAIN g.ready \ {c} |-> g.ready[d]]]

SetReady(g, c) ==
    IF c \in DOMAIN g.ready THEN [g EXCEPT !.ready[c] = 1] ELSE g

\* forgets that the owner stays ready
BadClearReady(g, c) ==
    IF c \in DOMAIN g.ready THEN [g EXCEPT !.ready[c] = 0] ELSE g

ClearReady(g, c) ==
    IF c \in DOMAIN g.ready /\ c # g.owner
    THEN [g EXCEPT !.ready[c] = 0] ELSE g

IsAllReady(g) == \A c \in DOMAIN g.ready : g.ready[c] = 1

FirstClient(g) == CHOOSE c \in g.opt : \A d \in g.opt : c <= d

\* set_room_owner(): the smallest client id, which becomes ready as well
SetRoomOwner(g) ==
    LET o == FirstClient(g)
    IN  [g EXCEPT !.owner = o,
                  !.ready = [d \in DOMAIN g.ready \cup {o} |->
                                IF d = o THEN 1 ELSE g.ready[d]]]

-----------------------------------------------------------------------------
(***************************************************************************)
(* CGameServer: lookups (what a call returns in the current state).        *)
(***************************************************************************)
IsGameNameExisted(name) ==
    \E gid \in DOMAIN mapGame : mapGame[gid].name = name

\* create_game returns the new id, or -1 / -2 converted to uint64_t
CreateGameResult(name, gid) ==
    CASE IsGameNameExisted(name)                     -> U64(-1)
      [] ~IsGameNameExisted(name) /\ gid \in DOMAIN mapGame -> U64(-2)
      [] OTHER                                       -> gid

\* lets one player too many in
BadAddGamePlayerResult(gid) ==
    CASE gid \notin DOMAIN mapGame                          -> -2
      [] gid \in DOMAIN mapGame
            /\ Cardinality(mapGame[gid].opt) > RoomLimit    -> -1
      [] OTHER                                              -> 0

AddGamePlayerResult(gid) ==
    CASE gid \notin DOMAIN mapGame                          -> -2
      [] gid \in DOMAIN mapGame
            /\ Cardinality(mapGame[gid].opt) = RoomLimit    -> -1
      [] OTHER                                              -> 0

\* get_gameid_list: what a player is shown to choose from
GetGameidList == DOMAIN mapGame

GetCidList(gid)  == IF gid \in DOMAIN mapGame THEN mapGame[gid].opt ELSE {}
GetRoomOwner(gid) ==
    IF gid \in DOMAIN mapGame THEN mapGame[gid].owner ELSE NoCid
GetPlayerNums(gid) ==
    IF gid \in DOMAIN mapGame THEN Cardinality(mapGame[gid].opt) ELSE -1
GetGameReadyStatus(gid) == gid \in DOMAIN mapGame /\ IsAllReady(mapGame[gid])

-----------------------------------------------------------------------------
(***************************************************************************)
(* CGameServer: the methods that change the table.                         *)
(***************************************************************************)
Put(gid, g) ==
    mapGame' = [h \in DOMAIN mapGame \cup {gid} |->
                    IF h = gid THEN g ELSE mapGame[h]]

\* m_mapGame.erase: the room is destroyed under its frame threads
Erase(gid) ==
    /\ mapGame' = [h \in DOMAIN mapGame \ {gid} |-> mapGame[h]]
    /\ dangling' = (dangling \/ mapGame[gid].senders > 0)

NewRoom(cid, name) ==
    SetReady(SetRoomOwner(AddClient(NewGame(name), cid)), cid)

CreateGame(cid, name, gid) ==
    /\ alive
    /\ IF CreateGameResult(name, gid) = gid
       THEN Put(gid, NewRoom(cid, name))
       ELSE UNCHANGED mapGame
    /\ UNCHANGED <<dangling, alive>>

\* elects the owner anew at every join
BadAddGamePlayer(gid, cid) ==
    /\ alive
    /\ IF AddGamePlayerResult(gid) = 0
       THEN Put(gid, SetRoomOwner(AddClient(mapGame[gid], cid)))
       ELSE UNCHANGED mapGame
    /\ UNCHANGED <<dangling, alive>>

AddGamePlayer(gid, cid) ==
    /\ alive
    /\ IF AddGamePlayerResult(gid) = 0
       THEN Put(gid, AddClient(mapGame[gid], cid))
       ELSE UNCHANGED mapGame
    /\ UNCHANGED <<dangling, alive>>

GameReady(gid, cid) ==
    /\ alive
    /\ IF gid \in DOMAIN mapGame
       THEN Put(gid, SetReady(mapGame[gid], cid))
       ELSE UNCHANGED mapGame
    /\ UNCHANGED <<dangling, alive>>

QuitGameReady(gid, cid) ==
    /\ alive
    /\ IF gid \in DOMAIN mapGame
       THEN Put(gid, ClearReady(mapGame[gid], cid))
       ELSE UNCHANGED mapGame
    /\ UNCHANGED <<dangling, alive>>

\* the common part of both remove_player: take cid out of room gid.  The frame
\* threads of the room walk m_mapGameOpt without the lock.
Leave(gid, cid) ==
    LET g == RemoveClient(mapGame[gid], cid)
    IN  CASE cid \notin mapGame[gid].opt ->          \* erase(end())
                 /\ alive' = FALSE
                 /\ UNCHANGED <<mapGame, dangling>>
          [] cid \in mapGame[gid].opt /\ g.opt = {} ->
                 /\ Erase(gid)
                 /\ UNCHANGED alive
          [] OTHER ->
                 /\ Put(gid, IF g.owner = cid THEN SetRoomOwner(g) ELSE g)
                 /\ dangling' = (dangling \/ g.senders > 0)
                 /\ UNCHANGED alive

\* remove_player(gid, cid): a player quits a room
RemovePlayer(gid, cid) ==
    /\ alive
    /\ IF gid \in DOMAIN mapGame
       THEN Leave(gid, cid)
       ELSE UNCHANGED gameVars

\* remove_player(cid): a connection is lost.  remove_client always answers
\* true, so the loop ends at the first room of the map, whoever is in it.
RemoveLostPlayer(cid) ==
    /\ alive
    /\ \/ /\ DOMAIN mapGame = {}
          /\ UNCHANGED gameVars
       \/ \E gid \in DOMAIN mapGame :
             /\ \A h \in DOMAIN mapGame : gid <= h
             /\ Leave(gid, cid)

\* game_start: one more detached frame thread, whatever runs already
GameStart(gid) ==
    /\ alive
    /\ IF gid \in DOMAIN mapGame
       THEN /\ mapGame[gid].senders < MaxSenders
            /\ Put(gid, [mapGame[gid] EXCEPT !.exit = FALSE, !.senders = @ + 1])
       ELSE UNCHANGED mapGame
    /\ UNCHANGED <<dangling, alive>>

\* game_over and remove_game are part of the class; no code calls them yet
GameOver(gid) ==
    /\ alive
    /\ IF gid \in DOMAIN mapGame
       THEN Put(gid, [mapGame[gid] EXCEPT !.exit = TRUE])
       ELSE UNCHANGED mapGame
    /\ UNCHANGED <<dangling, alive>>

RemoveGame(gid) ==
    /\ alive
    /\ \/ /\ gid \in DOMAIN mapGame
          /\ Erase(gid)
          /\ UNCHANGED alive
       \/ /\ gid \notin DOMAIN mapGame           \* erase(end())
          /\ alive' = FALSE
          /\ UNCHANGED <<mapGame, dangling>>

\* send_frame_thread_func leaves its loop once it sees m_bExitSendFrame
SenderExits(gid) ==
    /\ alive
    /\ gid \in DOMAIN mapGame
    /\ mapGame[gid].exit
    /\ mapGame[gid].senders > 0
    /\ Put(gid, [mapGame[gid] EXCEPT !.senders = @ - 1])
    /\ UNCHANGED <<dangling, alive>>

\* a frame thread that reads a freed room, or a freed entry of its map, may go on
\* unharmed (a stuttering step) or fault
DanglingSenderFaults ==
    /\ alive
    /\ dangling
    /\ alive' = FALSE
    /\ UNCHANGED <<mapGame, dangling>>

\* the process ends for a reason that has nothing to do with the rooms
ProcessKilled ==
    /\ alive
    /\ alive' = FALSE
    /\ UNCHANGED <<mapGame, dangling>>

-----------------------------------------------------------------------------
GameInit ==
    /\ mapGame = [gid \in {} |-> NewGame(CHOOSE n \in Names : TRUE)]
    /\ dangling = FALSE
    /\ alive = TRUE

GameNext ==
    \/ \E cid \in Cids, name \in Names, gid \in Gids : CreateGame(cid, name, gid)
    \/ \E gid \in Gids, cid \in Cids :
          \/ AddGamePlayer(gid, cid)
          \/ GameReady(gid, cid)
          \/ QuitGameReady(gid, cid)
          \/ RemovePlayer(gid, cid)
    \/ \E cid \in Cids \cup {NoCid} : RemoveLostPlayer(cid)
    \/ \E gid \in Gids :
          \/ GameStart(gid)
          \/ GameOver(gid)
          \/ RemoveGame(gid)
          \/ SenderExits(gid)
    \/ DanglingSenderFaults
    \/ ProcessKilled

GameSpec == GameInit /\ [][GameNext]_gameVars

-----------------------------------------------------------------------------
(***************************************************************************)
(* Properties.                                                             *)
(***************************************************************************)
Game == [name : Names, opt : SUBSET Cids,
         ready : UNION {[S -> {0, 1}] : S \in SUBSET Cids},
         owner : Cids, exit : BOOLEAN, senders : 0..MaxSenders]

\* Types of the room table: a room in the table is a complete record whose
\* owner is a real player, never the "no player" it is constructed with.
GameTypeOK ==
    /\ DOMAIN mapGame \subseteq Gids
    /\ mapGame \in [DOMAIN mapGame -> Game]
    /\ dangling \in BOOLEAN
    /\ alive \in BOOLEAN

\* No room in the table is empty and none holds more players than the room
\* limit do_join_room tells its client ("room limited to 2 players").
RoomOccupancy ==
    \A gid \in DOMAIN mapGame :
        /\ mapGame[gid].opt # {}
        /\ IsFiniteSet(mapGame[gid].opt)
        /\ Cardinality(mapGame[gid].opt) <= RoomLimit

\* The two maps of a room, operations and ready flags, always have the same
\* keys, although each is changed by a statement of its own.
SameMembers ==
    \A gid \in DOMAIN mapGame : DOMAIN mapGame[gid].ready = mapGame[gid].opt

\* The owner of a room is one of its members and is always ready (the code's
\* comment in quit_ready), through joins, quits, lost players and succession.
OwnerInRoomAndReady ==
    \A gid \in DOMAIN mapGame :
        /\ mapGame[gid].owner \in mapGame[gid].opt
        /\ mapGame[gid].ready[mapGame[gid].owner] = 1

\* create_game never lets two rooms of one name into the table.
NamesUnique ==
    \A g, h \in DOMAIN mapGame : mapGame[g].name = mapGame[h].name => g = h

\* A room changes hands only when its owner has left it.
OwnersStay ==
    \A gid \in DOMAIN mapGame \cap DOMAIN mapGame' :
        mapGame'[gid].owner # mapGame[gid].owner =>
            mapGame[gid].owner \notin mapGame'[gid].opt

OwnerKeepsRoom == [][OwnersStay]_gameVars

=============================================================================
