---------------------------- MODULE ServerProofs ----------------------------
(***************************************************************************)
(* Proofs about the room table and about the server with its clients, for  *)
(* any set of clients, players, descriptors, room ids and names, and any   *)
(* word size.                                                              *)
(*                                                                         *)
(* RoomInv is inductive for the room table.  ServerInv is inductive        *)
(* together with RoomInv for the server: it says the types of the queues   *)
(* and tables, that no two accounts have one name, so that ids suffice     *)
(* (LoginsDiffer), and the two facts that carry the login over the gap     *)
(* between its two locks (LoginChecked).  From it follow that every step   *)
(* of the server is a step of the room table or leaves the room table      *)
(* alone, so that all that is proved about GameServer holds here.          *)
(*                                                                         *)
(* FlowInv follows the requests of one client through the socket, the task *)
(* queue, the task thread and the send queue.                              *)
(*                                                                         *)
(* CalmInv is for a network that loses no connection and answers in time   *)
(* (Faults = {}): it compares each client with the online table and the    *)
(* room table, as the client is or as the answer on its way will make it.  *)
(***************************************************************************)
EXTENDS Server, FiniteSetTheorems, SequenceTheorems, TLAPS

-----------------------------------------------------------------------------
(* The room table by itself: GameServer's own specification.  RoomInv is   *)
(* the inductive invariant: it says of each room that its record is        *)
(* complete (GoodRoom), and that names are unique.  Types alone are not    *)
(* inductive: the new owner set_room_owner picks is a player only because  *)
(* the room it is called on is not empty, and a room stays non-empty       *)
(* because remove_player erases the one it empties.                        *)

ReadyMaps == UNION {[S -> {0, 1}] : S \in SUBSET Cids}

\* a room's record while it is being built: the owner may still be missing
RawGame == [name : Names, opt : SUBSET Cids, ready : ReadyMaps,
            owner : Cids \cup {NoCid}, exit : BOOLEAN, senders : 0..MaxSenders]

\* every property of one room, with the owner's part split off: RemoveClient
\* may take the owner away, and SetRoomOwner puts another one in place
Members(g) ==
    /\ g \in RawGame
    /\ g.opt # {}
    /\ IsFiniteSet(g.opt)
    /\ Cardinality(g.opt) <= RoomLimit
    /\ g.ready \in [g.opt -> {0, 1}]

GoodRoom(g) ==
    /\ Members(g)
    /\ g.owner \in g.opt
    /\ g.ready[g.owner] = 1

RoomInv ==
    /\ DOMAIN mapGame \subseteq Gids
    /\ mapGame = [gid \in DOMAIN mapGame |-> mapGame[gid]]
    /\ \A gid \in DOMAIN mapGame : GoodRoom(mapGame[gid])
    /\ NamesUnique
    /\ dangling \in BOOLEAN
    /\ alive \in BOOLEAN

-----------------------------------------------------------------------------
LEMMA ReadyMapsIntro ==
    ASSUME NEW S \in SUBSET Cids, NEW f \in [S -> {0, 1}]
    PROVE  f \in ReadyMaps
BY DEF ReadyMaps

\* A player joins a room with a free seat.
LEMMA AddClientMembers ==
    ASSUME NEW g \in RawGame, NEW c \in Cids,
           IsFiniteSet(g.opt), Cardinality(g.opt) < RoomLimit,
           g.ready \in [g.opt -> {0, 1}]
    PROVE  LET a == AddClient(g, c) IN
           /\ Members(a)
           /\ a.opt = g.opt \cup {c}
           /\ a.name = g.name /\ a.owner = g.owner
           /\ \A d \in g.opt : a.ready[d] = g.ready[d]
<1> DEFINE a == AddClient(g, c)
           r == [d \in DOMAIN g.ready \cup {c} |->
                    IF d \in DOMAIN g.ready THEN g.ready[d] ELSE 0]
<1>1. a = [g EXCEPT !.opt = g.opt \cup {c}, !.ready = r]
  BY DEF AddClient
<1>2. r \in [g.opt \cup {c} -> {0, 1}] /\ \A d \in g.opt : r[d] = g.ready[d]
  <2>1. DOMAIN g.ready = g.opt /\ \A d \in g.opt : g.ready[d] \in {0, 1}
    OBVIOUS
  <2>2. r = [d \in g.opt \cup {c} |-> IF d \in g.opt THEN g.ready[d] ELSE 0]
    BY <2>1
  <2> HIDE DEF r
  <2>3. \A d \in g.opt \cup {c} :
            (IF d \in g.opt THEN g.ready[d] ELSE 0) \in {0, 1}
    BY <2>1
  <2>4. QED
    BY <2>2, <2>3
<1>3. g.opt \cup {c} \in SUBSET Cids
  BY DEF RawGame
<1>4. r \in ReadyMaps
  BY <1>2, <1>3, ReadyMapsIntro
<1> HIDE DEF r
<1>5. /\ a.opt = g.opt \cup {c} /\ a.ready = r
      /\ a.name = g.name /\ a.owner = g.owner
      /\ a \in RawGame
  BY <1>1, <1>3, <1>4 DEF RawGame
<1>6. /\ IsFiniteSet(g.opt \cup {c})
      /\ Cardinality(g.opt \cup {c}) <= Cardinality(g.opt) + 1
      /\ Cardinality(g.opt) \in Nat
      /\ Cardinality(g.opt \cup {c}) \in Nat
  <2>1. Cardinality(g.opt) \in Nat
    BY FS_CardinalityType
  <2>2. /\ IsFiniteSet(g.opt \cup {c})
        /\ Cardinality(g.opt \cup {c}) =
              IF c \in g.opt THEN Cardinality(g.opt) ELSE Cardinality(g.opt) + 1
    BY FS_AddElement
  <2>3. QED
    BY <2>1, <2>2
<1>7. Cardinality(g.opt \cup {c}) <= RoomLimit
  BY <1>6 DEF RoomLimit
<1>8. QED
  BY <1>2, <1>5, <1>6, <1>7 DEF Members

\* The same for a room of the table, whose owner stays in place.
LEMMA AddClientGood ==
    ASSUME NEW g, GoodRoom(g), NEW c \in Cids, Cardinality(g.opt) # RoomLimit
    PROVE  GoodRoom(AddClient(g, c)) /\ AddClient(g, c).name = g.name
<1>1. Cardinality(g.opt) \in Nat
  BY FS_CardinalityType DEF GoodRoom, Members
<1>2. Cardinality(g.opt) < RoomLimit
  BY <1>1 DEF GoodRoom, Members, RoomLimit
<1>3. QED
  BY <1>2, AddClientMembers DEF GoodRoom, Members

\* Ready flags go up and down, the owner's stays up.
LEMMA SetReadyGood ==
    ASSUME NEW g, GoodRoom(g), NEW c \in Cids
    PROVE  GoodRoom(SetReady(g, c)) /\ SetReady(g, c).name = g.name
<1> DEFINE r == [g.ready EXCEPT ![c] = 1]
<1>1. CASE c \notin DOMAIN g.ready
  BY <1>1 DEF SetReady
<1>2. CASE c \in DOMAIN g.ready
  <2>1. SetReady(g, c) = [g EXCEPT !.ready = r]
    BY <1>2 DEF SetReady, GoodRoom, Members, RawGame
  <2>2. r \in [g.opt -> {0, 1}] /\ r[g.owner] = 1
    BY DEF GoodRoom, Members
  <2>3. r \in ReadyMaps
    BY <2>2, ReadyMapsIntro DEF GoodRoom, Members, RawGame
  <2> HIDE DEF r
  <2>4. QED
    BY <2>1, <2>2, <2>3 DEF GoodRoom, Members, RawGame
<1>3. QED
  BY <1>1, <1>2

LEMMA ClearReadyGood ==
    ASSUME NEW g, GoodRoom(g), NEW c \in Cids
    PROVE  GoodRoom(ClearReady(g, c)) /\ ClearReady(g, c).name = g.name
<1> DEFINE r == [g.ready EXCEPT ![c] = 0]
<1>1. CASE ~(c \in DOMAIN g.ready /\ c # g.owner)
  BY <1>1 DEF ClearReady
<1>2. CASE c \in DOMAIN g.ready /\ c # g.owner
  <2>1. ClearReady(g, c) = [g EXCEPT !.ready = r]
    BY <1>2 DEF ClearReady, GoodRoom, Members, RawGame
  <2>2. r \in [g.opt -> {0, 1}] /\ r[g.owner] = 1
    BY <1>2 DEF GoodRoom, Members
  <2>3. r \in ReadyMaps
    BY <2>2, ReadyMapsIntro DEF GoodRoom, Members, RawGame
  <2> HIDE DEF r
  <2>4. QED
    BY <2>1, <2>2, <2>3 DEF GoodRoom, Members, RawGame
<1>3. QED
  BY <1>1, <1>2

\* The smallest of at most two players exists.
LEMMA FirstClientInRoom ==
    ASSUME NEW g, Members(g)
    PROVE  FirstClient(g) \in g.opt
<1>1. PICK c \in g.opt : TRUE
  BY DEF Members
<1>2. g.opt \subseteq Nat
  BY GameServerAssumption DEF Members, RawGame
<1>3. CASE g.opt = {c}
  <2>1. \A d \in g.opt : c <= d
    BY <1>2, <1>3
  <2>2. QED
    BY <2>1, <1>1 DEF FirstClient
<1>4. CASE g.opt # {c}
  <2>1. PICK d \in g.opt : d # c
    BY <1>1, <1>4
  <2>2. /\ IsFiniteSet(g.opt \ {c})
        /\ Cardinality(g.opt \ {c}) = Cardinality(g.opt) - 1
    BY <1>1, FS_RemoveElement DEF Members
  <2>3. /\ IsFiniteSet((g.opt \ {c}) \ {d})
        /\ Cardinality((g.opt \ {c}) \ {d}) = Cardinality(g.opt \ {c}) - 1
    BY <2>1, <2>2, FS_RemoveElement
  <2>4. Cardinality((g.opt \ {c}) \ {d}) = 0
    BY <2>2, <2>3, FS_CardinalityType DEF Members, RoomLimit
  <2>5. (g.opt \ {c}) \ {d} = {}
    BY <2>3, <2>4, FS_EmptySet
  <2>6. g.opt = {c, d}
    BY <2>5, <2>1, <1>1
  <2>7. \E x \in g.opt : \A y \in g.opt : x <= y
    BY <2>6, <1>2
  <2>8. QED
    BY <2>7 DEF FirstClient
<1>5. QED
  BY <1>3, <1>4

\* Succession: the owner set_room_owner chooses is a ready member.
LEMMA SetRoomOwnerGood ==
    ASSUME NEW g, Members(g)
    PROVE  GoodRoom(SetRoomOwner(g)) /\ SetRoomOwner(g).name = g.name
<1> DEFINE o == FirstClient(g)
           r == [d \in DOMAIN g.ready \cup {o} |-> IF d = o THEN 1 ELSE g.ready[d]]
<1>1. o \in g.opt /\ o \in Cids
  BY FirstClientInRoom DEF Members, RawGame
<1>2. SetRoomOwner(g) = [g EXCEPT !.owner = o, !.ready = r]
  BY DEF SetRoomOwner
<1> HIDE DEF o
<1>3. r \in [g.opt -> {0, 1}] /\ r[o] = 1
  BY <1>1 DEF Members
<1>4. r \in ReadyMaps
  BY <1>3, ReadyMapsIntro DEF Members, RawGame
<1> HIDE DEF r
<1>5. QED
  BY <1>1, <1>2, <1>3, <1>4 DEF GoodRoom, Members, RawGame

\* A new room holds its creator, who owns it and is ready.
LEMMA NewRoomGood ==
    ASSUME NEW cid \in Cids, NEW name \in Names
    PROVE  GoodRoom(NewRoom(cid, name)) /\ NewRoom(cid, name).name = name
<1> DEFINE e == NewGame(name)
           a == AddClient(e, cid)
<1>1. [c \in {} |-> 0] \in [{} -> {0, 1}]
  OBVIOUS
<1>2. [c \in {} |-> 0] \in ReadyMaps
  BY <1>1, ReadyMapsIntro
<1>3. e \in RawGame /\ e.opt = {} /\ e.ready \in [{} -> {0, 1}] /\ e.name = name
  BY <1>1, <1>2, GameServerAssumption DEF NewGame, RawGame
<1>4. IsFiniteSet(e.opt) /\ Cardinality(e.opt) < RoomLimit
  BY <1>3, FS_EmptySet DEF RoomLimit
<1> HIDE DEF e
<1>5. Members(a) /\ a.name = name
  BY <1>3, <1>4, AddClientMembers
<1> HIDE DEF a
<1>6. QED
  BY <1>5, SetRoomOwnerGood, SetReadyGood DEF NewRoom, a, e

\* What is left of a room when one of its members has gone.
LEMMA RemoveClientMembers ==
    ASSUME NEW g, GoodRoom(g), NEW c \in g.opt, RemoveClient(g, c).opt # {}
    PROVE  /\ Members(RemoveClient(g, c))
           /\ RemoveClient(g, c).name = g.name
           /\ RemoveClient(g, c).owner # c => GoodRoom(RemoveClient(g, c))
<1> DEFINE a == RemoveClient(g, c)
           r == [d \in DOMAIN g.ready \ {c} |-> g.ready[d]]
<1>1. a = [g EXCEPT !.opt = g.opt \ {c}, !.ready = r]
  BY DEF RemoveClient
<1>2. /\ r \in [g.opt \ {c} -> {0, 1}]
      /\ g.owner # c => r[g.owner] = 1
  BY DEF GoodRoom, Members
<1>3. r \in ReadyMaps
  BY <1>2, ReadyMapsIntro DEF GoodRoom, Members, RawGame
<1> HIDE DEF r
<1>4. /\ a \in RawGame /\ a.opt = g.opt \ {c} /\ a.ready = r
      /\ a.name = g.name /\ a.owner = g.owner
  BY <1>1, <1>3 DEF GoodRoom, Members, RawGame
<1>5. IsFiniteSet(g.opt \ {c}) /\ Cardinality(g.opt \ {c}) <= RoomLimit
  <2>1. IsFiniteSet(g.opt) /\ Cardinality(g.opt) \in Nat
    BY FS_CardinalityType DEF GoodRoom, Members
  <2>2. Cardinality(g.opt) <= RoomLimit
    BY DEF GoodRoom, Members
  <2>3. IsFiniteSet(g.opt \ {c}) /\ Cardinality(g.opt \ {c}) = Cardinality(g.opt) - 1
    BY <2>1, FS_RemoveElement
  <2>4. QED
    BY <2>1, <2>2, <2>3 DEF RoomLimit
<1>6. QED
  BY <1>2, <1>4, <1>5 DEF GoodRoom, Members

-----------------------------------------------------------------------------
\* Writing one good room into the table keeps the table good, if no other room
\* has its name.
LEMMA PutKeeps ==
    ASSUME RoomInv, NEW gid \in Gids, NEW g, GoodRoom(g), Put(gid, g),
           \A h \in DOMAIN mapGame \ {gid} : mapGame[h].name # g.name,
           dangling' \in BOOLEAN, alive' \in BOOLEAN
    PROVE  RoomInv'
<1>1. /\ DOMAIN mapGame' = DOMAIN mapGame \cup {gid}
      /\ mapGame' = [h \in DOMAIN mapGame' |-> mapGame'[h]]
      /\ \A h \in DOMAIN mapGame' :
            mapGame'[h] = IF h = gid THEN g ELSE mapGame[h]
  BY DEF Put
<1>2. \A h \in DOMAIN mapGame' : GoodRoom(mapGame'[h])
  BY <1>1 DEF RoomInv
<1>3. NamesUnique'
  BY <1>1 DEF RoomInv, NamesUnique
<1>4. QED
  BY <1>1, <1>2, <1>3 DEF RoomInv, GoodRoom, Members, RawGame

\* A room that is changed under its own name.
LEMMA UpdateKeeps ==
    ASSUME RoomInv, NEW gid \in DOMAIN mapGame, NEW g, GoodRoom(g),
           g.name = mapGame[gid].name, Put(gid, g),
           dangling' \in BOOLEAN, alive' \in BOOLEAN
    PROVE  RoomInv'
<1>1. gid \in Gids /\ \A h \in DOMAIN mapGame \ {gid} : mapGame[h].name # g.name
  BY DEF RoomInv, NamesUnique
<1>2. QED
  BY <1>1, PutKeeps

\* Erasing a room keeps the others.
LEMMA EraseKeeps ==
    ASSUME RoomInv, NEW gid \in DOMAIN mapGame, Erase(gid), alive' \in BOOLEAN
    PROVE  RoomInv'
<1>1. /\ DOMAIN mapGame' = DOMAIN mapGame \ {gid}
      /\ mapGame' = [h \in DOMAIN mapGame' |-> mapGame'[h]]
      /\ \A h \in DOMAIN mapGame' : mapGame'[h] = mapGame[h]
  BY DEF Erase
<1>2. \A h \in DOMAIN mapGame' : GoodRoom(mapGame'[h])
  BY <1>1 DEF RoomInv
<1>3. NamesUnique'
  BY <1>1 DEF RoomInv, NamesUnique
<1>4. dangling' \in BOOLEAN
  BY DEF Erase
<1>5. QED
  BY <1>1, <1>2, <1>3, <1>4 DEF RoomInv, GoodRoom, Members, RawGame

\* A player leaves: the room is erased, or goes on under a ready member.
LEMMA LeaveKeeps ==
    ASSUME RoomInv, NEW gid \in DOMAIN mapGame, NEW cid, Leave(gid, cid)
    PROVE  RoomInv'
<1> DEFINE m == mapGame[gid]
           g == RemoveClient(m, cid)
           n == IF g.owner = cid THEN SetRoomOwner(g) ELSE g
<1>0. GoodRoom(m)
  BY DEF RoomInv
<1>1. CASE cid \notin m.opt
  <2>1. alive' = FALSE /\ UNCHANGED <<mapGame, dangling>>
    BY <1>1 DEF Leave
  <2>2. QED
    BY <2>1 DEF RoomInv, NamesUnique
<1>2. CASE cid \in m.opt /\ g.opt = {}
  <2>1. Erase(gid) /\ alive' = alive
    BY <1>2 DEF Leave
  <2>2. QED
    BY <2>1, EraseKeeps DEF RoomInv
<1>3. CASE cid \in m.opt /\ g.opt # {}
  <2>1. Members(g) /\ g.name = m.name /\ (g.owner # cid => GoodRoom(g))
    BY <1>0, <1>3, RemoveClientMembers
  <2>2. GoodRoom(n) /\ n.name = m.name
    BY <2>1, SetRoomOwnerGood
  <2>3. Put(gid, n) /\ dangling' = (dangling \/ g.senders > 0) /\ alive' = alive
    BY <1>3 DEF Leave
  <2>4. dangling' \in BOOLEAN /\ alive' \in BOOLEAN
    BY <2>3 DEF RoomInv
  <2> HIDE DEF n
  <2>5. QED
    BY <2>2, <2>3, <2>4, UpdateKeeps
<1>4. QED
  BY <1>1, <1>2, <1>3

\* The room invariant survives every step of the table.
LEMMA RoomInvStep == RoomInv /\ [GameNext]_gameVars => RoomInv'
<1> SUFFICES ASSUME RoomInv, [GameNext]_gameVars PROVE RoomInv'
  OBVIOUS
<1>0. UNCHANGED gameVars => RoomInv'
  BY DEF gameVars, RoomInv, NamesUnique
<1>1. ASSUME NEW cid \in Cids, NEW name \in Names, NEW gid \in Gids,
             CreateGame(cid, name, gid)
      PROVE  RoomInv'
  <2>1. CASE CreateGameResult(name, gid) = gid
    <3>1. U64(-1) # gid
      BY GameServerAssumption DEF U64
    <3>2. ~IsGameNameExisted(name)
      BY <2>1, <3>1 DEF CreateGameResult
    <3>3. \A h \in DOMAIN mapGame \ {gid} :
              mapGame[h].name # NewRoom(cid, name).name
      BY <3>2, NewRoomGood DEF IsGameNameExisted
    <3>4. QED
      BY <1>1, <2>1, <3>3, NewRoomGood, PutKeeps DEF CreateGame, RoomInv
  <2>2. CASE CreateGameResult(name, gid) # gid
    BY <1>0, <1>1, <2>2 DEF CreateGame, gameVars
  <2>3. QED
    BY <2>1, <2>2
<1>2. ASSUME NEW gid \in Gids, NEW cid \in Cids, AddGamePlayer(gid, cid)
      PROVE  RoomInv'
  <2>1. CASE AddGamePlayerResult(gid) = 0
    <3>1. gid \in DOMAIN mapGame /\ Cardinality(mapGame[gid].opt) # RoomLimit
      BY <2>1 DEF AddGamePlayerResult
    <3>2. /\ GoodRoom(AddClient(mapGame[gid], cid))
          /\ AddClient(mapGame[gid], cid).name = mapGame[gid].name
      BY <3>1, AddClientGood DEF RoomInv
    <3>3. QED
      BY <1>2, <2>1, <3>1, <3>2, UpdateKeeps DEF AddGamePlayer, RoomInv
  <2>2. CASE AddGamePlayerResult(gid) # 0
    BY <1>0, <1>2, <2>2 DEF AddGamePlayer, gameVars
  <2>3. QED
    BY <2>1, <2>2
<1>3. ASSUME NEW gid \in Gids, NEW cid \in Cids,
             GameReady(gid, cid) \/ QuitGameReady(gid, cid)
      PROVE  RoomInv'
  <2>1. CASE gid \in DOMAIN mapGame
    <3>1. /\ GoodRoom(SetReady(mapGame[gid], cid))
          /\ GoodRoom(ClearReady(mapGame[gid], cid))
          /\ SetReady(mapGame[gid], cid).name = mapGame[gid].name
          /\ ClearReady(mapGame[gid], cid).name = mapGame[gid].name
      BY <2>1, SetReadyGood, ClearReadyGood DEF RoomInv
    <3>2. QED
      BY <1>3, <2>1, <3>1, UpdateKeeps DEF GameReady, QuitGameReady, RoomInv
  <2>2. CASE gid \notin DOMAIN mapGame
    BY <1>0, <1>3, <2>2 DEF GameReady, QuitGameReady, gameVars
  <2>3. QED
    BY <2>1, <2>2
<1>4. ASSUME NEW gid \in Gids, NEW cid \in Cids, RemovePlayer(gid, cid)
      PROVE  RoomInv'
  BY <1>0, <1>4, LeaveKeeps DEF RemovePlayer
<1>5. ASSUME NEW cid \in Cids \cup {NoCid}, RemoveLostPlayer(cid)
      PROVE  RoomInv'
  BY <1>0, <1>5, LeaveKeeps DEF RemoveLostPlayer
<1>6. ASSUME NEW gid \in Gids, GameStart(gid) \/ GameOver(gid) \/ SenderExits(gid)
      PROVE  RoomInv'
  <2>1. CASE gid \in DOMAIN mapGame
    <3> DEFINE m == mapGame[gid]
    <3>1. GoodRoom(m)
      BY <2>1 DEF RoomInv
    <3>2. ASSUME NEW x \in BOOLEAN, NEW n \in 0..MaxSenders
          PROVE  LET g == [m EXCEPT !.exit = x, !.senders = n]
                 IN  GoodRoom(g) /\ g.name = m.name
      BY <3>1 DEF GoodRoom, Members, RawGame
    <3>3. PICK x \in BOOLEAN, n \in 0..MaxSenders :
              Put(gid, [m EXCEPT !.exit = x, !.senders = n])
      <4>1. m \in RawGame /\ m.senders \in 0..MaxSenders /\ m.exit \in BOOLEAN
        BY <3>1 DEF GoodRoom, Members, RawGame
      <4>2. CASE GameStart(gid)
        <5>1. m.senders + 1 \in 0..MaxSenders
          BY <2>1, <4>1, <4>2, GameServerAssumption DEF GameStart
        <5>2. Put(gid, [m EXCEPT !.exit = FALSE, !.senders = m.senders + 1])
          BY <2>1, <4>2 DEF GameStart
        <5>3. QED
          BY <5>1, <5>2
      <4>3. CASE GameOver(gid)
        <5>1. [m EXCEPT !.exit = TRUE] = [m EXCEPT !.exit = TRUE, !.senders = m.senders]
          BY <4>1 DEF RawGame
        <5>2. QED
          BY <2>1, <4>1, <4>3, <5>1 DEF GameOver
      <4>4. CASE SenderExits(gid)
        <5>1. m.senders - 1 \in 0..MaxSenders
          BY <4>1, <4>4, GameServerAssumption DEF SenderExits
        <5>2. [m EXCEPT !.senders = @ - 1]
                 = [m EXCEPT !.exit = m.exit, !.senders = m.senders - 1]
          BY <4>1 DEF RawGame
        <5>3. QED
          BY <4>1, <4>4, <5>1, <5>2 DEF SenderExits
      <4>5. QED
        BY <1>6, <4>2, <4>3, <4>4
    <3>4. dangling' \in BOOLEAN /\ alive' \in BOOLEAN
      BY <1>6 DEF GameStart, GameOver, SenderExits, RoomInv
    <3>5. QED
      BY <2>1, <3>2, <3>3, <3>4, UpdateKeeps
  <2>2. CASE gid \notin DOMAIN mapGame
    BY <1>0, <1>6, <2>2 DEF GameStart, GameOver, SenderExits, gameVars
  <2>3. QED
    BY <2>1, <2>2
<1>7. ASSUME NEW gid \in Gids, RemoveGame(gid)
      PROVE  RoomInv'
  <2>1. CASE gid \in DOMAIN mapGame
    BY <1>7, <2>1, EraseKeeps DEF RemoveGame, RoomInv
  <2>2. CASE gid \notin DOMAIN mapGame
    BY <1>7, <2>2 DEF RemoveGame, RoomInv, NamesUnique
  <2>3. QED
    BY <2>1, <2>2
<1>8. CASE DanglingSenderFaults \/ ProcessKilled
  BY <1>8 DEF DanglingSenderFaults, ProcessKilled, RoomInv, NamesUnique
<1>9. QED
  BY <1>0, <1>1, <1>2, <1>3, <1>4, <1>5, <1>6, <1>7, <1>8 DEF GameNext

-----------------------------------------------------------------------------
LEMMA GameInitInv == GameInit => RoomInv
<1> SUFFICES ASSUME GameInit PROVE RoomInv
  OBVIOUS
<1>1. DOMAIN mapGame = {} /\ mapGame = [gid \in DOMAIN mapGame |-> mapGame[gid]]
  BY DEF GameInit
<1>2. QED
  BY <1>1 DEF GameInit, RoomInv, NamesUnique

\* The invariant holds in every state of every behaviour.
THEOREM RoomInvariant == GameSpec => []RoomInv
BY GameInitInv, RoomInvStep, PTL DEF GameSpec

\* Types of the room table, for all players, rooms and names.
THEOREM TypeCorrect == GameSpec => []GameTypeOK
<1>1. RoomInv => GameTypeOK
  <2> SUFFICES ASSUME RoomInv PROVE GameTypeOK
    OBVIOUS
  <2>1. \A gid \in DOMAIN mapGame : mapGame[gid] \in Game
    <3> SUFFICES ASSUME NEW gid \in DOMAIN mapGame PROVE mapGame[gid] \in Game
      OBVIOUS
    <3>1. mapGame[gid] \in RawGame /\ mapGame[gid].owner \in Cids
      BY DEF RoomInv, GoodRoom, Members, RawGame
    <3>2. QED
      BY <3>1 DEF RawGame, Game, ReadyMaps
  <2>2. QED
    BY <2>1 DEF RoomInv, GameTypeOK
<1>2. QED
  BY <1>1, RoomInvariant, PTL

\* A room in the table holds one or two players, however many try to join.
THEOREM RoomsOccupied == GameSpec => []RoomOccupancy
<1>1. RoomInv => RoomOccupancy
  BY DEF RoomInv, RoomOccupancy, GoodRoom, Members
<1>2. QED
  BY <1>1, RoomInvariant, PTL

\* The two maps of a room never drift apart.
THEOREM MapsAgree == GameSpec => []SameMembers
<1>1. RoomInv => SameMembers
  BY DEF RoomInv, SameMembers, GoodRoom, Members
<1>2. QED
  BY <1>1, RoomInvariant, PTL

\* The owner of a room is always one of its members and always ready.
THEOREM OwnerIsReadyMember == GameSpec => []OwnerInRoomAndReady
<1>1. RoomInv => OwnerInRoomAndReady
  BY DEF RoomInv, OwnerInRoomAndReady, GoodRoom
<1>2. QED
  BY <1>1, RoomInvariant, PTL

\* No two rooms of the table have one name.
THEOREM RoomNamesUnique == GameSpec => []NamesUnique
<1>1. RoomInv => NamesUnique
  BY DEF RoomInv
<1>2. QED
  BY <1>1, RoomInvariant, PTL
-----------------------------------------------------------------------------
\* Writing a room that keeps its owner, or has lost it, changes no other owner.
LEMMA PutOwner ==
    ASSUME NEW h, NEW g, Put(h, g),
           h \in DOMAIN mapGame =>
               (g.owner = mapGame[h].owner \/ mapGame[h].owner \notin g.opt)
    PROVE  OwnersStay
BY DEF Put, OwnersStay

LEMMA SameOwner ==
    ASSUME NEW gid \in DOMAIN mapGame, NEW cid, RoomInv
    PROVE  LET g == mapGame[gid] IN
           /\ AddClient(g, cid).owner = g.owner
           /\ SetReady(g, cid).owner = g.owner
           /\ ClearReady(g, cid).owner = g.owner
           /\ RemoveClient(g, cid).owner = g.owner
           /\ RemoveClient(g, cid).opt = g.opt \ {cid}
           /\ SetRoomOwner(RemoveClient(g, cid)).opt = g.opt \ {cid}
<1> DEFINE g == mapGame[gid]
<1>1. g \in RawGame
  BY DEF RoomInv, GoodRoom, Members
<1> HIDE DEF g
<1>2. /\ AddClient(g, cid).owner = g.owner
      /\ SetReady(g, cid).owner = g.owner
      /\ ClearReady(g, cid).owner = g.owner
  BY <1>1 DEF AddClient, SetReady, ClearReady, RawGame
<1>3. /\ RemoveClient(g, cid).owner = g.owner
      /\ RemoveClient(g, cid).opt = g.opt \ {cid}
  BY <1>1 DEF RemoveClient, RawGame
<1>4. SetRoomOwner(RemoveClient(g, cid)).opt = g.opt \ {cid}
  BY <1>1 DEF RemoveClient, SetRoomOwner, RawGame
<1>5. QED
  BY <1>2, <1>3, <1>4 DEF g

LEMMA LeaveOwner ==
    ASSUME RoomInv, NEW gid \in DOMAIN mapGame, NEW cid, Leave(gid, cid)
    PROVE  OwnersStay
<1> DEFINE m == mapGame[gid]
           g == RemoveClient(m, cid)
<1>1. CASE UNCHANGED mapGame
  BY <1>1 DEF OwnersStay
<1>2. CASE Erase(gid)
  BY <1>2 DEF Erase, OwnersStay
<1>3. CASE g.owner # cid /\ Put(gid, g)
  BY <1>3, SameOwner, PutOwner
<1>4. CASE g.owner = cid /\ Put(gid, SetRoomOwner(g))
  <2>1. m.owner \notin SetRoomOwner(g).opt
    BY <1>4, SameOwner
  <2>2. QED
    BY <1>4, <2>1, PutOwner
<1>5. QED
  BY <1>1, <1>2, <1>3, <1>4 DEF Leave

LEMMA OwnersStayStep == RoomInv /\ [GameNext]_gameVars => OwnersStay
<1> SUFFICES ASSUME RoomInv, [GameNext]_gameVars
             PROVE  OwnersStay
  OBVIOUS
<1>1. CASE UNCHANGED mapGame
  BY <1>1 DEF OwnersStay
<1>2. ASSUME NEW cid, NEW name, NEW gid \in Gids, CreateGame(cid, name, gid)
      PROVE  OwnersStay
  <2>1. CreateGameResult(name, gid) = gid => gid \notin DOMAIN mapGame
    BY GameServerAssumption DEF CreateGameResult, U64
  <2>2. QED
    BY <1>1, <1>2, <2>1, PutOwner DEF CreateGame
<1>3. ASSUME NEW gid, NEW cid, AddGamePlayer(gid, cid)
      PROVE  OwnersStay
  <2>1. AddGamePlayerResult(gid) = 0 => gid \in DOMAIN mapGame
    BY DEF AddGamePlayerResult
  <2>2. QED
    BY <1>1, <1>3, <2>1, SameOwner, PutOwner DEF AddGamePlayer
<1>4. ASSUME NEW gid, NEW cid, GameReady(gid, cid) \/ QuitGameReady(gid, cid)
      PROVE  OwnersStay
  BY <1>1, <1>4, SameOwner, PutOwner DEF GameReady, QuitGameReady
<1>5. ASSUME NEW gid, NEW cid, RemovePlayer(gid, cid)
      PROVE  OwnersStay
  BY <1>1, <1>5, LeaveOwner DEF RemovePlayer, gameVars
<1>6. ASSUME NEW cid, RemoveLostPlayer(cid)
      PROVE  OwnersStay
  BY <1>1, <1>6, LeaveOwner DEF RemoveLostPlayer, gameVars
<1>7. ASSUME NEW gid, GameStart(gid) \/ GameOver(gid) \/ SenderExits(gid)
      PROVE  OwnersStay
  <2>1. CASE gid \in DOMAIN mapGame
    <3>1. mapGame[gid] \in RawGame
      BY <2>1 DEF RoomInv, GoodRoom, Members
    <3> DEFINE m == mapGame[gid]
               s == [m EXCEPT !.exit = FALSE, !.senders = m.senders + 1]
               o == [m EXCEPT !.exit = TRUE]
               e == [m EXCEPT !.senders = m.senders - 1]
    <3>2. s.owner = m.owner /\ o.owner = m.owner /\ e.owner = m.owner
      <4> HIDE DEF m
      <4>1. m \in RawGame
        BY <3>1 DEF m
      <4>2. QED
        BY <4>1 DEF RawGame
    <3>3. Put(gid, s) \/ Put(gid, o) \/ Put(gid, e)
      BY <1>7, <2>1 DEF GameStart, GameOver, SenderExits
    <3> HIDE DEF s, o, e
    <3>4. QED
      BY <3>2, <3>3, PutOwner
  <2>2. CASE gid \notin DOMAIN mapGame
    BY <1>1, <1>7, <2>2 DEF GameStart, GameOver, SenderExits
  <2>3. QED
    BY <2>1, <2>2
<1>8. ASSUME NEW gid, RemoveGame(gid)
      PROVE  OwnersStay
  BY <1>1, <1>8 DEF RemoveGame, Erase, OwnersStay
<1>9. QED
  BY <1>1, <1>2, <1>3, <1>4, <1>5, <1>6, <1>7, <1>8
     DEF GameNext, gameVars, DanglingSenderFaults, ProcessKilled

\* A room changes hands only when its owner has left it.
THEOREM OwnersKeepRooms == GameSpec => OwnerKeepsRoom
BY OwnersStayStep, RoomInvariant, PTL DEF GameSpec, OwnerKeepsRoom


-----------------------------------------------------------------------------
(* The server with its clients.                                            *)

\* What do_login has found out holds until it adds the player: the receive
\* thread, which runs in between, only takes players out of the online table.
LoginChecked ==
    task.pc = "login" /\ task.ok =>
        /\ task.req.cid \in DOMAIN clientInfo
        /\ \A fd \in DOMAIN online : online[fd] # task.req.cid

\* do_regiser refuses a name that has an account.
LoginsDiffer ==
    \A c, d \in DOMAIN clientInfo : clientInfo[c] = clientInfo[d] => c = d

ServerTypes ==
    /\ DOMAIN online \subseteq Fds
    /\ clientInfo \in Seq(Logins)
    /\ online \in [DOMAIN online -> DOMAIN clientInfo]
    /\ taskQue \in Seq([fd : Fds, req : Requests])
    /\ sendQue \in Seq(Answers)
    /\ task \in Tasks /\ (task.pc # "idle" => task.fd \in Fds)
    /\ recv \in Recvs
    /\ sock \in [Fds -> Socks]
    /\ client \in [Clients -> ClientStates]

ServerInv == ServerTypes /\ LoginsDiffer /\ OneFdPerPlayer /\ LoginChecked

-----------------------------------------------------------------------------
\* The constants of the model are of their types.
LEMMA NoRequestType == NoRequest \in Requests /\ AnyName \in Labels
<1>1. AnyName \in Labels
  BY ServerAssumption DEF AnyName, Labels
<1>2. NoGid \in Words /\ 0 \in Cids
  BY ServerAssumption DEF Words
<1>3. NoRequest = [type |-> "NONE", id |-> 0, from |-> NoClient, cid |-> 0,
                   gid |-> NoGid, name |-> AnyName]
  BY DEF NoRequest, Request
<1>4. QED
  BY <1>1, <1>2, <1>3 DEF Requests, WellNamed, MsgTypes

\* An account of each name leaves an id for one more, and 0 is nobody's.
LEMMA IdsSuffice ==
    ASSUME ServerTypes, LoginsDiffer
    PROVE  /\ 0 \in Cids /\ DOMAIN clientInfo \subseteq Cids
           /\ \A login \in Logins : ~IsClientExisted(login) => Len(clientInfo) + 1 \in Cids
<1> DEFINE n == Len(clientInfo)
<1>1. n \in Nat /\ DOMAIN clientInfo = 1 .. n /\ clientInfo \in [1 .. n -> Logins]
  BY DEF ServerTypes
<1>2. IsFiniteSet(Logins) /\ Cardinality(Logins) \in Nat /\ 1 .. Cardinality(Logins) \subseteq Cids
  BY ServerAssumption, FS_CardinalityType
<1>3. IsFiniteSet(1 .. n) /\ Cardinality(1 .. n) = n
  BY <1>1, FS_Interval
<1>4. clientInfo \in Injection(1 .. n, Logins)
  BY <1>1 DEF LoginsDiffer, Injection, IsInjective
<1>5. n <= Cardinality(Logins)
  BY <1>2, <1>3, <1>4, FS_Injection
<1>6. ASSUME NEW login \in Logins, ~IsClientExisted(login)
      PROVE  n + 1 <= Cardinality(Logins)
  <2>1. IsFiniteSet(Logins \ {login}) /\ Cardinality(Logins \ {login}) = Cardinality(Logins) - 1
    BY <1>2, FS_RemoveElement
  <2>2. clientInfo \in Injection(1 .. n, Logins \ {login})
    BY <1>1, <1>4, <1>6 DEF IsClientExisted, Injection, IsInjective
  <2>3. n <= Cardinality(Logins \ {login})
    BY <1>3, <2>1, <2>2, FS_Injection
  <2>4. QED
    BY <1>1, <1>2, <2>1, <2>3
<1>7. QED
  BY <1>1, <1>2, <1>5, <1>6, ServerAssumption

LEMMA IdleTypes ==
    /\ IdleTask \in Tasks /\ IdleTask.pc = "idle"
    /\ IdleRecv \in Recvs
    /\ FreeSock \in Socks
    /\ NewClient \in ClientStates
<1>1. IdleTask \in Tasks /\ IdleTask.pc = "idle"
  BY NoRequestType DEF IdleTask, Tasks
<1>2. IdleRecv \in Recvs /\ FreeSock \in Socks
  BY DEF IdleRecv, Recvs, FreeSock, Socks
<1>3. NewClient \in ClientStates
  BY NoRequestType, ServerAssumption DEF NewClient, ClientStates, Menus, Roles, Words
<1>4. QED
  BY <1>1, <1>2, <1>3

-----------------------------------------------------------------------------
\* The parts of a step: taking a request, answering it, sending one.
LEMMA TakenTypes ==
    ASSUME ServerTypes, taskQue # <<>>
    PROVE  /\ Head(taskQue).fd \in Fds /\ Head(taskQue).req \in Requests
           /\ Tail(taskQue) \in Seq([fd : Fds, req : Requests])
           /\ \A pc \in {"idle", "login", "ready", "start"} :
                 /\ Taken(pc) \in Tasks
                 /\ Taken(pc).fd \in Fds /\ Taken(pc).pc = pc
                 /\ Taken(pc).req = Head(taskQue).req
<1> DEFINE Item == [fd : Fds, req : Requests]
<1>0. taskQue \in Seq(Item)
  BY DEF ServerTypes
<1> HIDE DEF Item
<1>1. Head(taskQue) \in Item /\ Tail(taskQue) \in Seq(Item)
  BY <1>0
<1> USE DEF Item
<1>2. Tail(taskQue) \in Seq([fd : Fds, req : Requests])
  BY <1>1
<1>3. QED
  BY <1>1, <1>2 DEF Taken, Tasks

LEMMA AnswerType ==
    ASSUME NEW t, t.fd \in Fds, t.req \in Requests,
           NEW res \in Int, NEW cid \in Cids, NEW gid \in Words
    PROVE  Answer(t, res, cid, gid) \in Answers
BY DEF Answer, Answers, Requests

LEMMA ServeTypes ==
    ASSUME ServerTypes, taskQue # <<>>,
           NEW res \in Int, NEW cid \in Cids, NEW gid \in Words,
           Serve(res, cid, gid)
    PROVE  /\ taskQue' \in Seq([fd : Fds, req : Requests])
           /\ sendQue' \in Seq(Answers)
           /\ task' = task
<1>1. Answer(Taken("idle"), res, cid, gid) \in Answers
  BY TakenTypes, AnswerType
<1>2. sendQue' \in Seq(Answers)
  BY <1>1 DEF Serve, ServerTypes
<1>3. QED
  BY <1>2, TakenTypes DEF Serve

LEMMA ReplyTypes ==
    ASSUME ServerTypes, task.pc # "idle",
           NEW res \in Int, NEW cid \in Cids, NEW gid \in Words,
           Reply(res, cid, gid)
    PROVE  /\ taskQue' = taskQue
           /\ sendQue' \in Seq(Answers)
           /\ task' = IdleTask
<1>1. Answer(task, res, cid, gid) \in Answers
  BY AnswerType DEF ServerTypes, Tasks
<1>2. QED
  BY <1>1 DEF Reply, ServerTypes

LEMMA SendTypes ==
    ASSUME ServerTypes, NEW k \in Clients, NEW type \in MsgTypes, NEW id \in Nat,
           NEW cid \in Cids, NEW gid \in Words, NEW name \in Labels,
           WellNamed(type, name), Send(k, type, id, cid, gid, name)
    PROVE  /\ Request(type, id, k, cid, gid, name) \in Requests
           /\ sock' \in [Fds -> Socks]
<1>1. Request(type, id, k, cid, gid, name) \in Requests
  BY DEF Request, Requests
<1>2. sock \in [Fds -> Socks]
  BY DEF ServerTypes
<1>3. ASSUME NEW s \in Socks
      PROVE  [s EXCEPT !.in = Append(s.in, Request(type, id, k, cid, gid, name))]
                \in Socks
  <2>1. Append(s.in, Request(type, id, k, cid, gid, name)) \in Seq(Requests)
    BY <1>1 DEF Socks
  <2>2. QED
    BY <2>1 DEF Socks
<1>4. QED
  BY <1>1, <1>2, <1>3 DEF Send

LEMMA CallTypes ==
    ASSUME ServerTypes, NEW k \in Clients, NEW type \in MsgTypes,
           NEW cid \in Cids, NEW gid \in Words, NEW name \in Labels,
           WellNamed(type, name), Call(k, type, cid, gid, name)
    PROVE  /\ sock' \in [Fds -> Socks]
           /\ client' \in [Clients -> ClientStates]
           /\ UNCHANGED <<gameVars, serverVars>>
<1> DEFINE id == client[k].sent + 1
           r  == Request(type, id, k, cid, gid, name)
<1>1. id \in Nat /\ client[k] \in ClientStates
  BY DEF ServerTypes, ClientStates
<1>2. Send(k, type, id, cid, gid, name)
  BY DEF Call
<1>3. r \in Requests /\ sock' \in [Fds -> Socks]
  BY <1>1, <1>2, SendTypes
<1>4. client' = [client EXCEPT ![k] = [client[k] EXCEPT !.sent = id, !.await = r]]
  BY DEF Call, ServerTypes
<1>5. [client[k] EXCEPT !.sent = id, !.await = r] \in ClientStates
  BY <1>1, <1>3 DEF ClientStates
<1>6. client' \in [Clients -> ClientStates]
  BY <1>4, <1>5 DEF ServerTypes
<1>7. QED
  BY <1>3, <1>6 DEF Call

LEMMA AfterType ==
    ASSUME NEW c \in ClientStates, NEW res, NEW cid \in Cids, NEW gid \in Words
    PROVE  After(c, res, cid, gid) \in ClientStates
<1> DEFINE d == [c EXCEPT !.await = NoRequest]
<1>1. d \in ClientStates
  BY NoRequestType DEF ClientStates
<1>2. \A m \in Menus : [d EXCEPT !.menu = m] \in ClientStates
  BY <1>1 DEF ClientStates
<1>3. /\ [d EXCEPT !.cid = cid] \in ClientStates
      /\ [d EXCEPT !.menu = "main", !.cid = cid] \in ClientStates
      /\ [d EXCEPT !.menu = "entering", !.gid = gid, !.list = {}] \in ClientStates
      /\ [d EXCEPT !.menu = "main", !.list = {}] \in ClientStates
      /\ [d EXCEPT !.menu = "main", !.gid = NoGid, !.role = "unknown"] \in ClientStates
  BY <1>1 DEF ClientStates, Menus, Roles, Words
<1>4. /\ [d EXCEPT !.menu = "login"] \in ClientStates
      /\ [d EXCEPT !.menu = "granted"] \in ClientStates
      /\ [d EXCEPT !.menu = "ready"] \in ClientStates
      /\ [d EXCEPT !.menu = "entering"] \in ClientStates
  BY <1>2 DEF Menus
<1>5. QED
  BY <1>1, <1>3, <1>4 DEF After

-----------------------------------------------------------------------------
\* Actions that leave the accounts, the online table and the task alone keep the
\* login facts.
LEMMA LoginFactsKept ==
    ASSUME LoginsDiffer, OneFdPerPlayer, LoginChecked,
           clientInfo' = clientInfo, online' = online, task' = task
    PROVE  LoginsDiffer' /\ OneFdPerPlayer' /\ LoginChecked'
BY DEF LoginsDiffer, OneFdPerPlayer, LoginChecked

LEMMA LoginFactsIdle ==
    ASSUME LoginsDiffer, OneFdPerPlayer,
           clientInfo' = clientInfo, online' = online, task'.pc # "login"
    PROVE  LoginsDiffer' /\ OneFdPerPlayer' /\ LoginChecked'
BY DEF LoginsDiffer, OneFdPerPlayer, LoginChecked

\* Taking an entry out of the online table keeps them too.
LEMMA RemoveFdKeeps ==
    ASSUME ServerTypes, OneFdPerPlayer, NEW fd, RemoveFd(fd)
    PROVE  /\ DOMAIN online' \subseteq DOMAIN online
           /\ \A e \in DOMAIN online' : online'[e] = online[e]
           /\ online' \in [DOMAIN online' -> DOMAIN clientInfo]
           /\ OneFdPerPlayer'
BY DEF ServerTypes, OneFdPerPlayer, RemoveFd

\* The socket of a player, if it has one, is a descriptor of the server.
LEMMA SockFdType ==
    ASSUME ServerTypes, OneFdPerPlayer, NEW c, IsPlayerOnline(c)
    PROVE  SockFdOf(c) \in Fds
<1>1. PICK fd \in DOMAIN online : online[fd] = c
  BY DEF IsPlayerOnline
<1>2. fd \in Nat /\ fd <= fd
  BY ServerAssumption DEF ServerTypes
<1>3. \A e \in DOMAIN online : online[e] = c => fd <= e
  BY <1>1, <1>2 DEF OneFdPerPlayer
<1>4. SockFdOf(c) \in DOMAIN online
  BY <1>1, <1>3 DEF SockFdOf
<1>5. QED
  BY <1>4 DEF ServerTypes

\* The receive thread.
LEMMA RecvStep ==
    ASSUME ServerInv, RecvThread
    PROVE  ServerInv'
<1> USE DEF ServerInv
<1>1. ASSUME NEW fd \in Fds, Read(fd)
      PROVE  ServerInv'
  <2>1. sock[fd] \in Socks
    BY DEF ServerTypes
  <2>2. Head(sock[fd].in) \in Requests /\ Tail(sock[fd].in) \in Seq(Requests)
    BY <1>1, <2>1 DEF Read, Socks
  <2>3. [sock[fd] EXCEPT !.in = Tail(sock[fd].in)] \in Socks
    BY <2>1, <2>2 DEF Socks
  <2>4. sock' \in [Fds -> Socks]
    BY <1>1, <2>3 DEF Read, ServerTypes
  <2>5. [fd |-> fd, req |-> Head(sock[fd].in)] \in [fd : Fds, req : Requests]
    BY <2>2
  <2>6. taskQue' \in Seq([fd : Fds, req : Requests])
    BY <1>1, <2>5 DEF Read, ServerTypes
  <2>7. QED
    BY <1>1, <2>4, <2>6, LoginFactsKept DEF Read, ServerTypes
<1>2. ASSUME NEW fd \in Fds, ReadPart(fd)
      PROVE  ServerInv'
  <2>1. sock' \in [Fds -> Socks]
    BY <1>2, IdleTypes DEF ReadPart, ServerTypes
  <2>2. \A k \in Clients : [client[k] EXCEPT !.fd = 0] \in ClientStates
    BY DEF ServerTypes, ClientStates
  <2>3. client' \in [Clients -> ClientStates]
    BY <1>2, <2>2 DEF ReadPart, ServerTypes
  <2>4. QED
    BY <1>2, <2>1, <2>3, LoginFactsKept DEF ReadPart, ServerTypes, serverVars
<1>3. ASSUME NEW fd \in Fds, LostOnline(fd)
      PROVE  ServerInv'
  <2>1. recv' \in Recvs
    <3>1. DOMAIN clientInfo \subseteq Accounts
      BY IdsSuffice DEF ServerTypes, Accounts
    <3>2. QED
      BY <1>3, <3>1 DEF LostOnline, Recvs, ServerTypes
  <2>2. /\ DOMAIN online' \subseteq DOMAIN online
        /\ \A e \in DOMAIN online' : online'[e] = online[e]
        /\ online' \in [DOMAIN online' -> DOMAIN clientInfo]
        /\ OneFdPerPlayer' /\ UNCHANGED clientInfo
    BY <1>3, RemoveFdKeeps DEF LostOnline
  <2>3. LoginsDiffer' /\ LoginChecked'
    BY <1>3, <2>2 DEF LoginsDiffer, LoginChecked, LostOnline
  <2>4. QED
    BY <1>3, <2>1, <2>2, <2>3 DEF LostOnline, ServerTypes
<1>4. CASE LostRooms
  <2>1. recv' \in Recvs
    BY <1>4 DEF LostRooms, Recvs, ServerTypes
  <2>2. QED
    BY <1>4, <2>1, LoginFactsKept DEF LostRooms, ServerTypes
<1>5. CASE LostClose
  <2>1. recv' \in Recvs /\ sock' \in [Fds -> Socks]
    BY <1>5, IdleTypes DEF LostClose, ServerTypes
  <2>2. QED
    BY <1>5, <2>1, LoginFactsKept DEF LostClose, ServerTypes
<1>6. QED
  BY <1>1, <1>3, <1>4, <1>5, <1>2 DEF RecvThread

\* The login: the check and the entry.
LEMMA LoginStep ==
    ASSUME ServerInv, DoLoginCheck \/ DoLoginAdd
    PROVE  ServerInv'
<1> USE DEF ServerInv
<1>1. CASE DoLoginCheck
  <2> DEFINE t   == Taken("login")
             cid == FindClient(Head(taskQue).req.name)
             ok  == cid # 0 /\ ~IsPlayerOnline(cid)
  <2>1. taskQue # <<>>
    BY <1>1 DEF DoLoginCheck, NextTask
  <2>2. /\ t \in Tasks /\ t.fd \in Fds /\ t.pc = "login"
        /\ Tail(taskQue) \in Seq([fd : Fds, req : Requests])
    BY <2>1, TakenTypes
  <2>3. task' = [t EXCEPT !.req.cid = cid, !.ok = ok] /\ taskQue' = Tail(taskQue)
    BY <1>1 DEF DoLoginCheck, TakeTo, Found
  <2>4. cid \in Cids /\ (cid # 0 => cid \in DOMAIN clientInfo)
    BY IdsSuffice DEF FindClient, IsClientExisted
  <2>5. ok \in BOOLEAN
    OBVIOUS
  <2>6. task' \in Tasks /\ task'.fd \in Fds /\ task'.ok = ok /\ task'.req.cid = cid
    <3> HIDE DEF t, ok, cid
    <3>1. QED
      BY <2>2, <2>3, <2>4, <2>5 DEF Tasks, Requests
  <2>7. UNCHANGED <<clientInfo, online, sendQue, recv, sock, client>>
    BY <1>1 DEF DoLoginCheck, TakeTo, TaskFrame, envVars
  <2>8. LoginChecked'
    <3> HIDE DEF cid
    <3>1. QED
      BY <2>4, <2>6, <2>7 DEF LoginChecked, IsPlayerOnline
  <2>9. QED
    BY <2>2, <2>3, <2>6, <2>7, <2>8 DEF ServerTypes, OneFdPerPlayer, LoginsDiffer
<1>2. CASE DoLoginAdd
  <2>1. UNCHANGED <<clientInfo, recv, sock, client>> /\ task.pc = "login"
    BY <1>2 DEF DoLoginAdd, TaskFrame, envVars
  <2>2. task.fd \in Fds /\ task.req.cid \in Cids /\ 0 \in Cids /\ NoGid \in Words
    BY <2>1, ServerAssumption DEF ServerTypes, Tasks, Requests, Words
  <2>3. CASE task.ok
    <3>1. AddPlayer(task.fd, task.req.cid) /\ Reply(0, task.req.cid, NoGid)
      BY <1>2, <2>3 DEF DoLoginAdd
    <3>2. taskQue' = taskQue /\ sendQue' \in Seq(Answers) /\ task' = IdleTask
      BY <2>1, <2>2, <3>1, ReplyTypes
    <3>3. task.req.cid \in DOMAIN clientInfo /\ \A fd \in DOMAIN online : online[fd] # task.req.cid
      BY <2>1, <2>3 DEF LoginChecked
    <3>4. /\ DOMAIN online' \subseteq Fds
          /\ online' \in [DOMAIN online' -> DOMAIN clientInfo]
          /\ OneFdPerPlayer'
      BY <2>2, <3>1, <3>3 DEF AddPlayer, OneFdPerPlayer, ServerTypes
    <3>5. LoginsDiffer' /\ LoginChecked'
      BY <2>1, <3>2, IdleTypes DEF LoginsDiffer, LoginChecked
    <3>6. QED
      BY <2>1, <3>2, <3>4, <3>5, IdleTypes DEF ServerTypes
  <2>4. CASE ~task.ok
    <3>1. online' = online /\ Reply(-1, 0, NoGid)
      BY <1>2, <2>4 DEF DoLoginAdd
    <3>2. taskQue' = taskQue /\ sendQue' \in Seq(Answers) /\ task' = IdleTask
      BY <2>1, <2>2, <3>1, ReplyTypes
    <3>3. LoginsDiffer' /\ OneFdPerPlayer' /\ LoginChecked'
      BY <2>1, <3>1, <3>2, IdleTypes, LoginFactsIdle
    <3>4. QED
      BY <2>1, <3>1, <3>2, <3>3, IdleTypes DEF ServerTypes
  <2>5. QED
    BY <2>3, <2>4
<1>3. QED
  BY <1>1, <1>2

\* A handler that answers at once and does not touch the online table.
LEMMA ServedStep ==
    ASSUME ServerInv, taskQue # <<>>,
           NEW res \in Int, NEW gid \in Words, Serve(res, 0, gid),
           online' = online, TaskFrame
    PROVE  ServerInv'
<1>1. /\ taskQue' \in Seq([fd : Fds, req : Requests])
      /\ sendQue' \in Seq(Answers) /\ task' = task
  BY ServeTypes, ServerAssumption DEF ServerInv
<1>2. UNCHANGED <<clientInfo, recv, sock, client>>
  BY DEF TaskFrame, envVars
<1>3. QED
  BY <1>1, <1>2, LoginFactsKept DEF ServerInv, ServerTypes

LEMMA HandlerStep ==
    ASSUME ServerInv,
           \/ DoRegist \/ DoLogout \/ DoCreateRoom \/ DoJoinRoom \/ DoQuitRoom
           \/ DoGameReady \/ DoQuitGameReady
    PROVE  ServerInv'
<1> DEFINE req == Head(taskQue).req
<1>1. taskQue # <<>>
  BY DEF DoRegist, DoLogout, DoCreateRoom, DoJoinRoom, DoQuitRoom, DoGameReady,
         DoQuitGameReady, NextTask
<1>2. req \in Requests /\ req.gid \in Words
  BY <1>1, TakenTypes DEF ServerInv, Requests
<1>3. CASE DoLogout
  <2>1. /\ taskQue' \in Seq([fd : Fds, req : Requests])
        /\ sendQue' \in Seq(Answers) /\ task' = task
    <3>1. Serve(0, 0, NoGid)
      BY <1>3 DEF DoLogout
    <3>2. ServerTypes /\ 0 \in Cids /\ NoGid \in Words /\ 0 \in Int
      BY ServerAssumption DEF ServerInv, Words
    <3> HIDE DEF req
    <3>3. QED
      BY <1>1, <3>1, <3>2, ServeTypes, Zenon
  <2>2. UNCHANGED <<clientInfo, recv, sock, client>>
    BY <1>3 DEF DoLogout, TaskFrame, envVars
  <2>3. CASE online' = online
    BY <2>1, <2>2, <2>3, LoginFactsKept DEF ServerInv, ServerTypes
  <2>4. CASE \E fd : RemoveFd(fd)
    <3>1. /\ DOMAIN online' \subseteq DOMAIN online
          /\ \A e \in DOMAIN online' : online'[e] = online[e]
          /\ online' \in [DOMAIN online' -> DOMAIN clientInfo]
          /\ OneFdPerPlayer'
      BY <2>4, RemoveFdKeeps DEF ServerInv
    <3>2. LoginsDiffer' /\ LoginChecked'
      BY <2>1, <2>2, <3>1 DEF LoginsDiffer, LoginChecked, ServerInv
    <3>3. QED
      BY <2>1, <2>2, <3>1, <3>2 DEF ServerInv, ServerTypes
  <2>5. QED
    BY <1>3, <2>3, <2>4 DEF DoLogout
<1>9. CASE DoRegist
  <2> DEFINE login == req.name
  <2>1. /\ 0 \in Cids /\ NoGid \in Words
        /\ ~IsClientExisted(login) => Len(clientInfo) + 1 \in Cids
    BY <1>2, <1>9, IdsSuffice DEF DoRegist, NextTask, Requests, WellNamed, ServerInv, Words
  <2>2. PICK res \in {0, -1}, cid \in Cids : Serve(res, cid, NoGid)
    BY <1>9, <2>1 DEF DoRegist
  <2>3. /\ taskQue' \in Seq([fd : Fds, req : Requests])
        /\ sendQue' \in Seq(Answers) /\ task' = task
    <3>1. res \in Int /\ ServerTypes
      BY DEF ServerInv
    <3> HIDE DEF req
    <3>2. QED
      BY <1>1, <2>1, <2>2, <3>1, ServeTypes, Zenon
  <2>4. UNCHANGED <<online, recv, sock, client>>
    BY <1>9 DEF DoRegist, envVars
  <2>5. CASE IsClientExisted(login)
    <3>1. clientInfo' = clientInfo
      BY <1>9, <2>5 DEF DoRegist
    <3>2. QED
      BY <2>3, <2>4, <3>1, LoginFactsKept DEF ServerInv, ServerTypes
  <2>6. CASE ~IsClientExisted(login)
    <3>1. login \in Logins /\ clientInfo \in Seq(Logins)
      BY <1>2, <1>9 DEF DoRegist, NextTask, Requests, WellNamed, ServerInv, ServerTypes
    <3>2. clientInfo' = Append(clientInfo, login)
      BY <1>9, <2>6 DEF DoRegist
    <3> HIDE DEF login
    <3>3. /\ clientInfo' \in Seq(Logins)
          /\ DOMAIN clientInfo' = DOMAIN clientInfo \cup {Len(clientInfo) + 1}
          /\ \A c \in DOMAIN clientInfo : clientInfo'[c] = clientInfo[c]
          /\ clientInfo'[Len(clientInfo) + 1] = login
      BY <3>1, <3>2
    <3>4. LoginsDiffer'
      BY <2>6, <3>3 DEF LoginsDiffer, IsClientExisted, ServerInv
    <3>5. online' \in [DOMAIN online' -> DOMAIN clientInfo'] /\ DOMAIN online' \subseteq Fds
      BY <2>4, <3>3 DEF ServerInv, ServerTypes
    <3>6. OneFdPerPlayer' /\ LoginChecked'
      BY <2>3, <2>4, <3>3 DEF ServerInv, OneFdPerPlayer, LoginChecked
    <3>7. QED
      BY <2>3, <2>4, <3>3, <3>4, <3>5, <3>6 DEF ServerInv, ServerTypes
  <2>7. QED
    BY <2>5, <2>6
<1>4. CASE DoCreateRoom
  <2>1. PICK gid \in Gids : Serve(CreateRes(CreateGameResult(req.name, gid)), 0,
                                  CreateGameResult(req.name, gid))
    BY <1>4 DEF DoCreateRoom
  <2>2. CreateGameResult(req.name, gid) \in {U64(-1), U64(-2), gid}
    BY DEF CreateGameResult
  <2>3. CreateGameResult(req.name, gid) \in Words
    BY <2>2 DEF Words
  <2>4. CreateRes(CreateGameResult(req.name, gid)) \in Int
    BY DEF CreateRes
  <2>5. online' = online /\ TaskFrame
    BY <1>4 DEF DoCreateRoom
  <2>6. QED
    BY <1>1, <2>1, <2>3, <2>4, <2>5, ServedStep
<1>5. CASE DoJoinRoom
  <2>1. AddGamePlayerResult(req.gid) \in Int
    BY DEF AddGamePlayerResult
  <2>2. Serve(AddGamePlayerResult(req.gid), 0, req.gid) /\ online' = online /\ TaskFrame
    BY <1>5 DEF DoJoinRoom
  <2> HIDE DEF req
  <2>3. QED
    BY <1>1, <1>2, <2>1, <2>2, ServedStep
<1>6. CASE DoQuitRoom
  <2>1. Serve(0, 0, req.gid) /\ online' = online /\ TaskFrame
    BY <1>6 DEF DoQuitRoom
  <2> HIDE DEF req
  <2>2. QED
    BY <1>1, <1>2, <2>1, ServedStep
<1>7. CASE DoGameReady \/ DoQuitGameReady
  <2>1. ReadyRes(req.gid) \in Int
    BY DEF ReadyRes
  <2>2. Serve(ReadyRes(req.gid), 0, req.gid) /\ online' = online /\ TaskFrame
    BY <1>7 DEF DoGameReady, DoQuitGameReady
  <2> HIDE DEF req
  <2>3. QED
    BY <1>1, <1>2, <2>1, <2>2, ServedStep
<1>8. QED
  BY <1>3, <1>4, <1>5, <1>6, <1>7, <1>9

\* Asking for the start of a game, and starting it.
LEMMA StartStep ==
    ASSUME ServerInv, RoomInv,
           \/ ReqGameStartNums \/ ReqGameStartReady \/ GameStartList
           \/ GameStartFrames \/ GameStartNotify \/ GameStartDone
    PROVE  ServerInv'
<1> USE DEF ServerInv
<1>0. UNCHANGED <<clientInfo, recv, sock, client>>
  BY DEF ReqGameStartNums, ReqGameStartReady, GameStartList, GameStartFrames,
         GameStartNotify, GameStartDone, TaskFrame, envVars
<1>1. CASE ReqGameStartNums
  <2> DEFINE t  == Taken("ready")
             ok == GetPlayerNums(Head(taskQue).req.gid) >= RoomLimit
  <2>1. taskQue # <<>>
    BY <1>1 DEF ReqGameStartNums, NextTask
  <2>2. /\ t \in Tasks /\ t.fd \in Fds /\ t.pc = "ready"
        /\ Tail(taskQue) \in Seq([fd : Fds, req : Requests])
    BY <2>1, TakenTypes
  <2>3. task' = [t EXCEPT !.ok = ok] /\ taskQue' = Tail(taskQue)
        /\ UNCHANGED <<online, sendQue>>
    BY <1>1 DEF ReqGameStartNums, TakeTo
  <2>4. ok \in BOOLEAN
    OBVIOUS
  <2> HIDE DEF t, ok
  <2>5. task' \in Tasks /\ task'.fd \in Fds /\ task'.pc = "ready"
    BY <2>2, <2>3, <2>4 DEF Tasks
  <2>6. QED
    BY <1>0, <2>2, <2>3, <2>5, LoginFactsIdle DEF ServerTypes
<1>2. CASE ReqGameStartReady
  <2>1. PICK res \in {0, -1} : Reply(res, 0, task.req.gid)
    BY <1>2 DEF ReqGameStartReady
  <2>2. /\ task.pc # "idle" /\ online' = online
        /\ task.req.gid \in Words /\ 0 \in Cids /\ res \in Int
    BY <1>2, ServerAssumption DEF ReqGameStartReady, ServerTypes, Tasks, Requests
  <2>3. taskQue' = taskQue /\ sendQue' \in Seq(Answers) /\ task' = IdleTask
    BY <2>1, <2>2, ReplyTypes
  <2>4. QED
    BY <1>0, <2>2, <2>3, IdleTypes, LoginFactsIdle DEF ServerTypes
<1>3. CASE GameStartList
  <2> DEFINE t == Taken("start")
             S == GetCidList(Head(taskQue).req.gid)
  <2>1. taskQue # <<>>
    BY <1>3 DEF GameStartList, NextTask
  <2>2. /\ t \in Tasks /\ t.fd \in Fds /\ t.pc = "start"
        /\ Tail(taskQue) \in Seq([fd : Fds, req : Requests])
    BY <2>1, TakenTypes
  <2>3. task' = [t EXCEPT !.cids = S] /\ taskQue' = Tail(taskQue)
        /\ UNCHANGED <<online, sendQue>>
    BY <1>3 DEF GameStartList, TakeTo
  <2>4. S \in SUBSET Cids
    BY DEF GetCidList, RoomInv, GoodRoom, Members, RawGame
  <2> HIDE DEF t, S
  <2>5. task' \in Tasks /\ task'.fd \in Fds /\ task'.pc = "start"
    BY <2>2, <2>3, <2>4 DEF Tasks
  <2>6. QED
    BY <1>0, <2>2, <2>3, <2>5, LoginFactsIdle DEF ServerTypes
<1>4. CASE GameStartFrames
  <2>1. task' \in Tasks /\ task'.fd = task.fd /\ task'.pc = "notify" /\ task.pc # "idle"
        /\ UNCHANGED <<online, taskQue, sendQue>>
    BY <1>4 DEF GameStartFrames, ServerTypes, Tasks
  <2>2. QED
    BY <1>0, <2>1, LoginFactsIdle DEF ServerTypes
<1>5. CASE GameStartNotify
  <2>1. PICK c \in task.cids :
           /\ task' = [task EXCEPT !.cids = task.cids \ {c}]
           /\ sendQue' = IF SockFdOf(c) > 0
                         THEN Append(sendQue, StartNotice(SockFdOf(c)))
                         ELSE sendQue
    BY <1>5 DEF GameStartNotify, ServerTypes, Tasks
  <2>2. task' \in Tasks /\ task'.fd = task.fd /\ task'.pc = "notify"
        /\ task.pc # "idle" /\ UNCHANGED <<online, taskQue>>
    BY <1>5, <2>1 DEF GameStartNotify, ServerTypes, Tasks
  <2>3. SockFdOf(c) > 0 => SockFdOf(c) \in Fds
    <3>1. ~IsPlayerOnline(c) => SockFdOf(c) = -1
      BY DEF SockFdOf
    <3>2. QED
      BY <3>1, SockFdType
  <2>4. sendQue' \in Seq(Answers)
    <3>1. CASE SockFdOf(c) > 0
      <4>1. NoGid \in Words /\ 0 \in Cids /\ SockFdOf(c) \in Fds
        BY <2>3, <3>1, ServerAssumption DEF Words
      <4> DEFINE fd == SockFdOf(c)
      <4> HIDE DEF fd
      <4>2. StartNotice(fd) \in Answers
        BY <4>1 DEF fd, StartNotice, Answers, MsgTypes
      <4>3. QED
        BY <2>1, <3>1, <4>2 DEF ServerTypes, fd
    <3>2. QED
      BY <2>1, <3>1 DEF ServerTypes
  <2>5. QED
    BY <1>0, <2>2, <2>4, LoginFactsIdle DEF ServerTypes
<1>6. CASE GameStartDone
  BY <1>0, <1>6, IdleTypes, LoginFactsIdle DEF GameStartDone, ServerTypes
<1>7. QED
  BY <1>1, <1>2, <1>3, <1>4, <1>5, <1>6

\* A client's own steps change its state and its socket, nothing of the server.
LEMMA ClientStep ==
    ASSUME ServerInv, RoomInv, NEW k \in Clients, Client(k)
    PROVE  ServerInv'
<1> USE DEF ServerInv
<1> DEFINE c == client[k]
<1>1. c \in ClientStates /\ NoGid \in Words /\ 0 \in Cids /\ c.cid \in Cids
      /\ c.gid \in Words /\ AnyName \in Labels
  BY NoRequestType, ServerAssumption DEF ServerTypes, ClientStates, Words
<1>2. SUFFICES /\ sock' \in [Fds -> Socks]
               /\ client' \in [Clients -> ClientStates]
               /\ UNCHANGED serverVars
  BY LoginFactsKept DEF serverVars, ServerTypes
<1>3. ASSUME NEW d \in ClientStates, client' = [client EXCEPT ![k] = d]
      PROVE  client' \in [Clients -> ClientStates]
  BY <1>3 DEF ServerTypes
<1>4. CASE Accept(k)
  <2>1. PICK fd \in Fds :
           /\ sock' = [sock EXCEPT ![fd].peer = k]
           /\ client' = [client EXCEPT ![k] =
                      [client[k] EXCEPT !.menu = "login", !.fd = fd, !.connects = @ + 1]]
    BY <1>4 DEF Accept
  <2>2. sock' \in [Fds -> Socks]
    BY <2>1 DEF ServerTypes, Socks
  <2>3. [client[k] EXCEPT !.menu = "login", !.fd = fd, !.connects = @ + 1] \in ClientStates
    <3>1. /\ client[k] \in ClientStates /\ client[k].connects + 1 \in Nat
          /\ fd \in Fds \cup {0} /\ "login" \in Menus
      BY <1>1, <2>1 DEF ClientStates, Menus
    <3>2. QED
      BY <3>1 DEF ClientStates
  <2>4. client' \in [Clients -> ClientStates]
    BY <2>1, <2>3, <1>3
  <2>5. UNCHANGED serverVars
    BY <1>4 DEF Accept
  <2>6. QED
    BY <2>2, <2>4, <2>5
<1>5. CASE \/ Regist(k) \/ Login(k) \/ Logout(k) \/ CreateRoom(k) \/ JoinRoom(k) \/ QuitRoom(k)
           \/ RequestStartGame(k) \/ Ready(k) \/ QuitReady(k)
  <2>1. JoinRoom(k) => \E gid \in Words : Call(k, "JOIN_ROOM", c.cid, gid, AnyName)
    BY <1>1 DEF JoinRoom, ClientStates, Words
  <2>2. /\ Regist(k) => \E name \in Labels :
              WellNamed("REGIST", name) /\ Call(k, "REGIST", 0, NoGid, name)
        /\ Login(k) => \E name \in Labels : Call(k, "LOGIN", 0, NoGid, name)
        /\ Logout(k) => Call(k, "LOGOUT", c.cid, NoGid, AnyName)
        /\ CreateRoom(k) =>
              \E name \in Labels :
                 WellNamed("CREATE_ROOM", name) /\ Call(k, "CREATE_ROOM", c.cid, NoGid, name)
    BY DEF Labels, WellNamed, Regist, Login, Logout, CreateRoom
  <2>3. /\ QuitRoom(k) => Call(k, "QUIT_ROOM", c.cid, c.gid, AnyName)
        /\ RequestStartGame(k) => Call(k, "REQ_GAME_START", c.cid, c.gid, AnyName)
        /\ Ready(k) => Call(k, "GAME_READY", c.cid, c.gid, AnyName)
        /\ QuitReady(k) => Call(k, "QUIT_GAME_READY", c.cid, c.gid, AnyName)
    BY DEF QuitRoom, RequestStartGame, Ready, QuitReady
  <2>4. \A type \in MsgTypes, cid \in Cids, gid \in Words, name \in Labels :
           WellNamed(type, name) /\ Call(k, type, cid, gid, name) =>
              /\ sock' \in [Fds -> Socks]
              /\ client' \in [Clients -> ClientStates]
              /\ UNCHANGED serverVars
    BY CallTypes
  <2>5. /\ {"REGIST", "LOGIN", "LOGOUT", "CREATE_ROOM", "JOIN_ROOM", "QUIT_ROOM",
            "GAME_READY", "QUIT_GAME_READY", "REQ_GAME_START"} \subseteq MsgTypes
        /\ \A name : \A type \in {"LOGIN", "LOGOUT", "JOIN_ROOM", "QUIT_ROOM",
              "GAME_READY", "QUIT_GAME_READY", "REQ_GAME_START"} : WellNamed(type, name)
    BY DEF MsgTypes, WellNamed
  <2> HIDE DEF c
  <2>6. QED
    BY <1>1, <1>5, <2>1, <2>2, <2>3, <2>4, <2>5
<1>6. CASE StartCommand(k)
  <2>1. sock' \in [Fds -> Socks]
    BY <1>1, <1>6, SendTypes DEF StartCommand, MsgTypes, WellNamed
  <2>2. client' \in [Clients -> ClientStates]
    <3>1. [c EXCEPT !.menu = "entering"] \in ClientStates
      BY <1>1 DEF ClientStates, Menus
    <3>2. client' = [client EXCEPT ![k] = [c EXCEPT !.menu = "entering"]]
      BY <1>6 DEF StartCommand, ServerTypes
    <3> QED
      BY <1>3, <3>1, <3>2
  <2>3. QED
    BY <1>6, <2>1, <2>2 DEF StartCommand
<1>7. CASE \/ ShowRooms(k) \/ LeaveRooms(k) \/ ShowRoom(k) \/ ShowOldRoom(k)
           \/ AbandonRoom(k)
  <2> DEFINE Turned(menu, role) == [c EXCEPT !.menu = menu, !.role = role]
  <2>1. client' \in [Clients -> ClientStates]
    <3>1. \A menu \in Menus, role \in Roles : Turned(menu, role) \in ClientStates
      BY <1>1 DEF ClientStates
    <3>2. \A menu \in Menus, list \in SUBSET Gids :
             [c EXCEPT !.menu = menu, !.list = list] \in ClientStates
      BY <1>1 DEF ClientStates
    <3>3. [c EXCEPT !.menu = "main", !.gid = NoGid, !.role = "unknown"] \in ClientStates
      BY <1>1 DEF ClientStates, Menus, Roles
    <3>4. CASE ShowRooms(k) \/ LeaveRooms(k)
      <4>1. PICK menu \in Menus, list \in SUBSET Gids :
               client' = [client EXCEPT ![k] = [c EXCEPT !.menu = menu, !.list = list]]
        <5>1. DOMAIN mapGame \in SUBSET Gids /\ {} \in SUBSET Gids
          BY DEF RoomInv
        <5>2. "main" \in Menus /\ "list" \in Menus
          BY DEF Menus
        <5>3. CASE ShowRooms(k)
          BY <5>1, <5>2, <5>3 DEF ShowRooms, GetGameidList, ServerTypes
        <5>4. CASE LeaveRooms(k)
          BY <5>1, <5>2, <5>4 DEF LeaveRooms, ServerTypes
        <5>5. QED
          BY <3>4, <5>3, <5>4
      <4> HIDE DEF c
      <4>2. QED
        BY <1>3, <3>2, <4>1
    <3>5. CASE ShowRoom(k)
      <4>1. PICK role \in Roles : client' = [client EXCEPT ![k] = Turned("room", role)]
        BY <3>5 DEF ShowRoom, Roles, ServerTypes
      <4>2. "room" \in Menus
        BY DEF Menus
      <4> HIDE DEF c, Turned
      <4>3. QED
        BY <1>3, <3>1, <4>1, <4>2
    <3>6. CASE ShowOldRoom(k)
      <4>1. client' = [client EXCEPT ![k] = [c EXCEPT !.menu = "room"]]
        BY <3>6 DEF ShowOldRoom, ServerTypes
      <4>2. [c EXCEPT !.menu = "room"] \in ClientStates
        BY <1>1 DEF ClientStates, Menus
      <4> HIDE DEF c
      <4>3. QED
        BY <1>3, <4>1, <4>2
    <3>7. CASE AbandonRoom(k)
      <4>1. client' = [client EXCEPT ![k] =
                          [c EXCEPT !.menu = "main", !.gid = NoGid, !.role = "unknown"]]
        BY <3>7 DEF AbandonRoom, ServerTypes
      <4> HIDE DEF c
      <4>2. QED
        BY <1>3, <3>3, <4>1
    <3>8. QED
      BY <1>7, <3>4, <3>5, <3>6, <3>7
  <2>2. UNCHANGED <<serverVars, sock>>
    BY <1>7 DEF ShowRooms, LeaveRooms, ShowRoom, ShowOldRoom, AbandonRoom
  <2>3. QED
    BY <2>1, <2>2 DEF ServerTypes
<1>8. CASE Timeout(k)
  <2>1. client' = [client EXCEPT ![k] = After(c, -1, 0, NoGid)]
    BY <1>8 DEF Timeout
  <2>2. After(c, -1, 0, NoGid) \in ClientStates
    BY <1>1, AfterType
  <2>3. QED
    BY <1>3, <1>8, <2>1, <2>2 DEF Timeout, ServerTypes
<1>9. CASE Exit(k)
  <2>1. sock' \in [Fds -> Socks]
    BY <1>9 DEF Exit, ServerTypes, Socks
  <2>2. [NewClient EXCEPT !.sent = c.sent, !.connects = c.connects] \in ClientStates
    BY <1>1, IdleTypes DEF ClientStates
  <2>3. QED
    BY <1>3, <1>9, <2>1, <2>2 DEF Exit
<1>10. QED
  BY <1>4, <1>5, <1>6, <1>7, <1>8, <1>9 DEF Client

\* The send thread.
LEMMA DeliverStep ==
    ASSUME ServerInv, Deliver
    PROVE  ServerInv'
<1> USE DEF ServerInv
<1>1. Head(sendQue) \in Answers /\ Tail(sendQue) \in Seq(Answers)
  BY DEF Deliver, ServerTypes
<1>2. client' \in [Clients -> ClientStates]
  <2> DEFINE r == Head(sendQue)
             k == IF sock[r.fd].eof THEN NoClient ELSE sock[r.fd].peer
  <2>1. CASE Awaited(k, r)
    <3>1. k \in Clients /\ client[k] \in ClientStates
      BY <2>1 DEF Awaited, ServerTypes
    <3>2. After(client[k], r.res, r.cid, r.gid) \in ClientStates
      BY <1>1, <3>1, AfterType DEF Answers
    <3>3. client' = [client EXCEPT ![k] = After(client[k], r.res, r.cid, r.gid)]
      BY <2>1 DEF Deliver
    <3> HIDE DEF k, r
    <3>4. QED
      BY <3>1, <3>2, <3>3 DEF ServerTypes
  <2>2. CASE ~Awaited(k, r)
    BY <2>2 DEF Deliver, ServerTypes
  <2>3. QED
    BY <2>1, <2>2
<1>3. QED
  BY <1>1, <1>2, LoginFactsKept DEF Deliver, ServerTypes

-----------------------------------------------------------------------------
LEMMA ServerInvStep == ServerInv /\ RoomInv /\ [Next]_vars => ServerInv'
<1> SUFFICES ASSUME ServerInv, RoomInv, [Next]_vars
             PROVE  ServerInv'
  OBVIOUS
<1>1. CASE UNCHANGED vars
  BY <1>1, LoginFactsKept DEF vars, serverVars, envVars, ServerInv, ServerTypes
<1>2. CASE RecvThread
  BY <1>2, RecvStep
<1>3. CASE TaskThread
  BY <1>3, LoginStep, HandlerStep, StartStep DEF TaskThread
<1>4. CASE Deliver
  BY <1>4, DeliverStep
<1>5. CASE FrameFault \/ WriteFaults
  BY <1>5, LoginFactsKept DEF FrameFault, WriteFaults, serverVars, envVars, ServerInv, ServerTypes
<1>6. ASSUME NEW k \in Clients, Client(k)
      PROVE  ServerInv'
  BY <1>6, ClientStep
<1>7. QED
  BY <1>1, <1>2, <1>3, <1>4, <1>5, <1>6 DEF Next

\* The heart of the refinement: what a handler asks of the room table is one
\* step of the room table with arguments of the right types, or none at all.
LEMMA GameStep == ServerInv /\ RoomInv /\ [Next]_vars => [GameNext]_gameVars
<1> SUFFICES ASSUME ServerInv, RoomInv, [Next]_vars
             PROVE  GameNext \/ UNCHANGED gameVars
  OBVIOUS
<1> DEFINE req == Head(taskQue).req
<1>1. CASE LostRooms
  <2>1. recv.cid \in Cids \cup {NoCid}
    BY DEF ServerInv, ServerTypes, Recvs, Accounts
  <2>2. QED
    BY <1>1, <2>1 DEF LostRooms, GameNext
<1>2. CASE DoCreateRoom
  <2>1. req.cid \in Cids /\ req.name \in Names
    BY <1>2, TakenTypes DEF DoCreateRoom, NextTask, ServerInv, Requests, WellNamed
  <2>2. QED
    BY <1>2, <2>1 DEF DoCreateRoom, GameNext
<1>3. CASE DoJoinRoom \/ DoQuitRoom \/ DoGameReady \/ DoQuitGameReady
  <2>1. req.cid \in Cids
    BY <1>3, TakenTypes DEF DoJoinRoom, DoQuitRoom, DoGameReady, DoQuitGameReady,
       NextTask, ServerInv, Requests
  <2>2. \/ AddGamePlayer(req.gid, req.cid) \/ RemovePlayer(req.gid, req.cid)
        \/ GameReady(req.gid, req.cid) \/ QuitGameReady(req.gid, req.cid)
    BY <1>3 DEF DoJoinRoom, DoQuitRoom, DoGameReady, DoQuitGameReady
  <2>3. CASE req.gid \in Gids
    BY <2>1, <2>2, <2>3 DEF GameNext
  <2>4. CASE req.gid \notin Gids
    <3>1. req.gid \notin DOMAIN mapGame
      BY <2>4 DEF RoomInv
    <3>2. QED
      BY <2>2, <3>1 DEF AddGamePlayer, AddGamePlayerResult, RemovePlayer, GameReady,
         QuitGameReady, gameVars
  <2>5. QED
    BY <2>3, <2>4
<1>4. CASE GameStartFrames
  <2>1. CASE task.req.gid \in Gids
    BY <1>4, <2>1 DEF GameStartFrames, GameNext
  <2>2. CASE task.req.gid \notin Gids
    BY <1>4, <2>2 DEF GameStartFrames, GameStart, RoomInv, gameVars
  <2>3. QED
    BY <2>1, <2>2
<1>5. CASE FrameFault \/ WriteFaults
  BY <1>5 DEF FrameFault, WriteFaults, GameNext
<1>6. CASE \/ \E fd \in Fds : Read(fd) \/ ReadPart(fd) \/ LostOnline(fd)
           \/ LostClose \/ Deliver
  BY <1>6 DEF Read, ReadPart, LostOnline, LostClose, Deliver
<1>7. CASE \/ DoRegist \/ DoLoginCheck \/ DoLoginAdd \/ DoLogout \/ ReqGameStartNums
           \/ ReqGameStartReady \/ GameStartList \/ GameStartNotify \/ GameStartDone
  BY <1>7 DEF DoRegist, DoLoginCheck, DoLoginAdd, DoLogout, ReqGameStartNums,
     ReqGameStartReady, GameStartList, GameStartNotify, GameStartDone, TakeTo
<1>8. ASSUME NEW k \in Clients, Client(k)
      PROVE  UNCHANGED gameVars
  BY <1>8 DEF Client, Accept, Regist, Login, Logout, CreateRoom, ShowRooms, LeaveRooms,
     JoinRoom, QuitRoom, RequestStartGame, Ready, QuitReady, StartCommand, ShowRoom,
     ShowOldRoom, AbandonRoom, Timeout, Exit, Call
<1>9. CASE UNCHANGED vars
  BY <1>9 DEF vars
<1>10. QED
  BY <1>1, <1>2, <1>3, <1>4, <1>5, <1>6, <1>7, <1>8, <1>9
     DEF Next, RecvThread, TaskThread

LEMMA InitInv == Init => ServerInv /\ RoomInv
<1> SUFFICES ASSUME Init PROVE ServerInv /\ RoomInv
  OBVIOUS
<1>1. RoomInv
  BY GameInitInv DEF Init
<1>2. /\ taskQue \in Seq([fd : Fds, req : Requests]) /\ sendQue \in Seq(Answers)
      /\ online \in [DOMAIN online -> DOMAIN clientInfo] /\ DOMAIN online = {}
      /\ clientInfo \in Seq(Logins) /\ LoginsDiffer
  BY ServerAssumption DEF Init, LoginsDiffer
<1>3. /\ task \in Tasks /\ task.pc = "idle" /\ recv \in Recvs
      /\ sock \in [Fds -> Socks] /\ client \in [Clients -> ClientStates]
  BY IdleTypes DEF Init
<1>4. QED
  BY <1>1, <1>2, <1>3 DEF ServerInv, ServerTypes, OneFdPerPlayer, LoginChecked

THEOREM Invariant == Spec => [](ServerInv /\ RoomInv)
<1>1. ServerInv /\ RoomInv /\ [Next]_vars => (ServerInv /\ RoomInv)'
  BY ServerInvStep, GameStep, RoomInvStep
<1>2. QED
  BY <1>1, InitInv, PTL DEF Spec

\* No player is ever online on two descriptors, although do_login looks it up
\* and adds it under two locks.
THEOREM PlayersHaveOneFd == Spec => []OneFdPerPlayer
<1>1. ServerInv => OneFdPerPlayer
  BY DEF ServerInv
<1>2. QED
  BY <1>1, Invariant, PTL

\* The server with its three threads and its clients implements the room table:
\* it changes rooms only by whole operations of CGameServer.
THEOREM ServerRefinesGame == Spec => GameSpec
<1>1. Init => GameInit
  BY DEF Init
<1>2. QED
  BY <1>1, GameStep, Invariant, PTL DEF Spec, GameSpec

\* Types of the server's tables, queues and threads.
THEOREM ServerTypeCorrect == Spec => []TypeOK
<1>1. GameTypeOK /\ ServerInv => TypeOK
  BY DEF ServerInv, ServerTypes, TypeOK
<1>2. QED
  BY <1>1, Invariant, ServerRefinesGame, TypeCorrect, PTL

\* So the owner of a room is a ready member of it whatever requests, late
\* answers and lost connections the server meets, as long as it runs.
THEOREM OwnerIsReadyOnServer == Spec => []OwnerInRoomAndReady
BY ServerRefinesGame, OwnerIsReadyMember, PTL

-----------------------------------------------------------------------------
(***************************************************************************)
(* The pipeline.  It is four sequences of tickets one behind the other; a  *)
(* step moves a ticket from the head of one to the end of the one before,  *)
(* drops it, or adds one at the end.                                       *)
(***************************************************************************)
Tickets == [from : Clients \cup {NoClient}, id : Nat]

Ordered(k, w) ==
    \A i, j \in DOMAIN w :
       i < j /\ IsCall(k, w[i]) /\ IsCall(k, w[j]) => w[i].id < w[j].id

Ids(k, w) == {w[i].id : i \in {j \in DOMAIN w : IsCall(k, w[j])}}

Before(k, v, w) == \A a \in Ids(k, v), b \in Ids(k, w) : a < b
UpTo(k, w, n)   == \A a \in Ids(k, w) : a <= n

Pipe(k, a, s, q, u, n) ==
    /\ Ordered(k, a) /\ Ordered(k, s) /\ Ordered(k, q) /\ Ordered(k, u)
    /\ Before(k, a, s) /\ Before(k, a, q) /\ Before(k, a, u)
    /\ Before(k, s, q) /\ Before(k, s, u) /\ Before(k, q, u)
    /\ UpTo(k, a, n) /\ UpTo(k, s, n) /\ UpTo(k, q, n) /\ UpTo(k, u, n)

LEMMA NoTickets ==
    ASSUME NEW k
    PROVE  Ordered(k, <<>>) /\ Ids(k, <<>>) = {}
<1>1. DOMAIN <<>> = {}
  <2>1. <<>> \in Seq({}) /\ Len(<<>>) = 0
    BY EmptySeq
  <2>2. DOMAIN <<>> = 1 .. Len(<<>>)
    BY <2>1, LenProperties
  <2> QED
    BY <2>1, <2>2
<1> QED
  BY <1>1 DEF Ordered, Ids

LEMMA OneTicket ==
    ASSUME NEW k, NEW t \in Tickets
    PROVE  /\ <<t>> \in Seq(Tickets) /\ Ordered(k, <<t>>)
           /\ Ids(k, <<t>>) = IF IsCall(k, t) THEN {t.id} ELSE {}
<1>1. <<t>> \in Seq(Tickets) /\ DOMAIN <<t>> = {1} /\ <<t>>[1] = t
  OBVIOUS
<1> QED
  BY <1>1 DEF Ordered, Ids

LEMMA TicketAdded ==
    ASSUME NEW k, NEW w \in Seq(Tickets), NEW t \in Tickets
    PROVE  /\ Append(w, t) \in Seq(Tickets)
           /\ Ids(k, Append(w, t)) = Ids(k, w) \cup (IF IsCall(k, t) THEN {t.id} ELSE {})
           /\ Ordered(k, w) /\ (IsCall(k, t) => \A a \in Ids(k, w) : a < t.id)
                 => Ordered(k, Append(w, t))
<1> DEFINE v == Append(w, t)
<1>1. /\ v \in Seq(Tickets) /\ Len(w) \in Nat
      /\ DOMAIN v = DOMAIN w \cup {Len(w) + 1} /\ DOMAIN w = 1 .. Len(w)
      /\ \A i \in DOMAIN w : v[i] = w[i]
      /\ v[Len(w) + 1] = t
  BY AppendProperties, LenProperties
<1>2. \A i \in DOMAIN w : i < Len(w) + 1
  BY <1>1
<1>3. \A i, j \in DOMAIN v : i < j => i \in DOMAIN w
  BY <1>1
<1> HIDE DEF v
<1>4. Ids(k, v) = Ids(k, w) \cup (IF IsCall(k, t) THEN {t.id} ELSE {})
  BY <1>1 DEF Ids
<1>5. ASSUME Ordered(k, w), IsCall(k, t) => \A a \in Ids(k, w) : a < t.id,
             NEW i \in DOMAIN v, NEW j \in DOMAIN v,
             i < j, IsCall(k, v[i]), IsCall(k, v[j])
      PROVE  v[i].id < v[j].id
  <2>1. i \in DOMAIN w /\ v[i] = w[i]
    BY <1>1, <1>3, <1>5
  <2>2. CASE j \in DOMAIN w
    BY <1>1, <1>5, <2>1, <2>2 DEF Ordered
  <2>3. CASE j = Len(w) + 1
    BY <1>1, <1>5, <2>1, <2>3 DEF Ids
  <2> QED
    BY <1>1, <2>2, <2>3
<1> QED
  BY <1>1, <1>4, <1>5 DEF v, Ordered

LEMMA TicketTaken ==
    ASSUME NEW k, NEW w \in Seq(Tickets), w # <<>>, Ordered(k, w)
    PROVE  /\ Head(w) \in Tickets /\ Tail(w) \in Seq(Tickets) /\ Ordered(k, Tail(w))
           /\ Ids(k, w) = Ids(k, Tail(w))
                             \cup (IF IsCall(k, Head(w)) THEN {Head(w).id} ELSE {})
           /\ IsCall(k, Head(w)) => \A b \in Ids(k, Tail(w)) : Head(w).id < b
<1> DEFINE v == Tail(w)
           h == Head(w)
<1>1. /\ h \in Tickets /\ v \in Seq(Tickets) /\ Len(v) = Len(w) - 1
      /\ \A i \in 1 .. Len(v) : v[i] = w[i + 1]
      /\ h = w[1] /\ Len(w) \in Nat \ {0}
  BY HeadTailProperties, EmptySeq
<1>2. /\ DOMAIN v = 1 .. Len(v) /\ DOMAIN w = 1 .. Len(w)
      /\ \A i \in DOMAIN v : i + 1 \in DOMAIN w /\ i + 1 > 1 /\ v[i] = w[i + 1]
      /\ 1 \in DOMAIN w
      /\ \A i \in DOMAIN w : i = 1 \/ \E j \in DOMAIN v : i = j + 1
  <2>1. DOMAIN v = 1 .. Len(v) /\ DOMAIN w = 1 .. Len(w) /\ Len(v) \in Nat
    BY <1>1, LenProperties
  <2>2. ASSUME NEW i \in 1 .. Len(w), i # 1
        PROVE  i - 1 \in 1 .. Len(v) /\ i = (i - 1) + 1
    BY <1>1, <2>1, <2>2
  <2>3. \A i \in DOMAIN w : i = 1 \/ \E j \in DOMAIN v : i = j + 1
    BY <2>1, <2>2
  <2>4. \A i \in DOMAIN v : i + 1 \in DOMAIN w /\ i + 1 > 1 /\ v[i] = w[i + 1]
    BY <1>1, <2>1
  <2> QED
    BY <1>1, <2>1, <2>3, <2>4
<1>3. \A i, j \in DOMAIN v : i < j => i + 1 < j + 1
  BY <1>2
<1> HIDE DEF v, h
<1>4. Ordered(k, v)
  BY <1>2, <1>3 DEF Ordered
<1>5. Ids(k, w) = Ids(k, v) \cup (IF IsCall(k, h) THEN {h.id} ELSE {})
  <2>1. \A a \in Ids(k, v) : a \in Ids(k, w)
    BY <1>2 DEF Ids
  <2>2. IsCall(k, h) => h.id \in Ids(k, w)
    BY <1>1, <1>2 DEF Ids
  <2>3. ASSUME NEW i \in DOMAIN w, IsCall(k, w[i])
        PROVE  w[i].id \in Ids(k, v) \/ (IsCall(k, h) /\ w[i].id = h.id)
    <3>1. CASE i = 1
      BY <1>1, <2>3, <3>1
    <3>2. CASE \E j \in DOMAIN v : i = j + 1
      <4>1. PICK j \in DOMAIN v : i = j + 1
        BY <3>2
      <4>2. v[j] = w[i]
        BY <1>2, <4>1
      <4>3. IsCall(k, v[j]) /\ v[j].id = w[i].id
        BY <2>3, <4>2
      <4>4. \A m \in DOMAIN v : IsCall(k, v[m]) => v[m].id \in Ids(k, v)
        BY DEF Ids
      <4>5. v[j].id \in Ids(k, v)
        BY <4>1, <4>3, <4>4
      <4> QED
        BY <4>3, <4>5
    <3>3. i = 1 \/ \E j \in DOMAIN v : i = j + 1
      BY <1>2, <2>3
    <3> QED
      BY <3>1, <3>2, <3>3
  <2>4. \A a \in Ids(k, w) : a \in Ids(k, v) \/ (IsCall(k, h) /\ a = h.id)
    BY <2>3 DEF Ids
  <2> QED
    BY <2>1, <2>2, <2>4
<1>6. ASSUME IsCall(k, h), NEW b \in Ids(k, v) PROVE h.id < b
  <2>1. PICK i \in DOMAIN v : IsCall(k, v[i]) /\ b = v[i].id
    BY DEF Ids
  <2>2. i + 1 \in DOMAIN w /\ 1 < i + 1 /\ v[i] = w[i + 1] /\ 1 \in DOMAIN w /\ h = w[1]
    BY <1>1, <1>2
  <2> QED
    BY <1>6, <2>1, <2>2 DEF Ordered
<1> QED
  BY <1>1, <1>4, <1>5, <1>6 DEF v, h

\* The steps of a pipeline.
LEMMA PipeSteps ==
    ASSUME NEW k, NEW n \in Nat, NEW t \in Tickets,
           NEW a \in Seq(Tickets), NEW s \in Seq(Tickets),
           NEW q \in Seq(Tickets), NEW u \in Seq(Tickets), Pipe(k, a, s, q, u, n)
    PROVE  /\ q # <<>> /\ s = <<>> => /\ Pipe(k, a, <<Head(q)>>, Tail(q), u, n)
                                      /\ Pipe(k, Append(a, Head(q)), <<>>, Tail(q), u, n)
           /\ s = <<t>> => Pipe(k, Append(a, t), <<>>, q, u, n)
           /\ ~IsCall(k, t) => /\ Pipe(k, Append(a, t), s, q, u, n)
                               /\ Pipe(k, a, s, Append(q, t), u, n)
                               /\ Pipe(k, a, s, q, Append(u, t), n)
           /\ IsCall(k, t) /\ t.id = n + 1 => Pipe(k, a, s, q, Append(u, t), n + 1)
           /\ Pipe(k, a, s, q, u, n + 1)
           /\ a # <<>> => Pipe(k, Tail(a), s, q, u, n)
           /\ u # <<>> => Pipe(k, a, s, Append(q, Head(u)), Tail(u), n)
           /\ Pipe(k, a, <<>>, q, u, n) /\ Pipe(k, a, s, q, <<>>, n)
<1> USE DEF Pipe
<1>1. ASSUME q # <<>>, s = <<>>
      PROVE  /\ Pipe(k, a, <<Head(q)>>, Tail(q), u, n)
             /\ Pipe(k, Append(a, Head(q)), <<>>, Tail(q), u, n)
  <2>1. /\ Head(q) \in Tickets /\ Tail(q) \in Seq(Tickets) /\ Ordered(k, Tail(q))
        /\ Ids(k, q) = Ids(k, Tail(q)) \cup (IF IsCall(k, Head(q)) THEN {Head(q).id} ELSE {})
        /\ IsCall(k, Head(q)) => \A b \in Ids(k, Tail(q)) : Head(q).id < b
    BY <1>1, TicketTaken
  <2>2. Pipe(k, a, <<Head(q)>>, Tail(q), u, n)
    BY <2>1, OneTicket DEF Before, UpTo
  <2>3. Pipe(k, Append(a, Head(q)), <<>>, Tail(q), u, n)
    <3>1. IsCall(k, Head(q)) => Head(q).id \in Ids(k, q)
      BY <2>1
    <3>2. /\ Ids(k, Append(a, Head(q))) =
                Ids(k, a) \cup (IF IsCall(k, Head(q)) THEN {Head(q).id} ELSE {})
          /\ Ordered(k, Append(a, Head(q)))
      BY <2>1, <3>1, TicketAdded DEF Before
    <3> QED
      BY <2>1, <3>1, <3>2, NoTickets DEF Before, UpTo
  <2> QED
    BY <2>2, <2>3
<1>2. ASSUME s = <<t>> PROVE Pipe(k, Append(a, t), <<>>, q, u, n)
  <2>1. Ids(k, s) = IF IsCall(k, t) THEN {t.id} ELSE {}
    BY <1>2, OneTicket
  <2>2. /\ Ids(k, Append(a, t)) = Ids(k, a) \cup Ids(k, s)
        /\ Ordered(k, Append(a, t))
    BY <2>1, TicketAdded DEF Before
  <2> QED
    BY <2>2, NoTickets DEF Before, UpTo
<1>3. ASSUME ~IsCall(k, t)
      PROVE  /\ Pipe(k, Append(a, t), s, q, u, n)
             /\ Pipe(k, a, s, Append(q, t), u, n)
             /\ Pipe(k, a, s, q, Append(u, t), n)
  BY <1>3, TicketAdded DEF Before, UpTo
<1>5. ASSUME NEW w \in Seq(Tickets), UpTo(k, w, n)
      PROVE  UpTo(k, w, n + 1) /\ \A b \in Ids(k, w) : b < n + 1
  <2>1. \A b \in Ids(k, w) : b \in Nat
    <3>1. \A i \in DOMAIN w : w[i] \in Tickets
      BY ElementOfSeq, LenProperties
    <3>2. \A e \in Tickets : e.id \in Nat
      BY DEF Tickets
    <3> QED
      BY <3>1, <3>2 DEF Ids
  <2> QED
    BY <1>5, <2>1 DEF UpTo
<1>6. Pipe(k, a, s, q, u, n + 1)
  BY <1>5
<1>7. ASSUME IsCall(k, t), t.id = n + 1
      PROVE  Pipe(k, a, s, q, Append(u, t), n + 1)
  BY <1>5, <1>7, TicketAdded DEF Before, UpTo
<1>8. ASSUME a # <<>> PROVE Pipe(k, Tail(a), s, q, u, n)
  BY <1>8, TicketTaken DEF Before, UpTo
<1>9. ASSUME u # <<>> PROVE Pipe(k, a, s, Append(q, Head(u)), Tail(u), n)
  <2>1. /\ Head(u) \in Tickets /\ Tail(u) \in Seq(Tickets) /\ Ordered(k, Tail(u))
        /\ Ids(k, u) = Ids(k, Tail(u)) \cup (IF IsCall(k, Head(u)) THEN {Head(u).id} ELSE {})
        /\ IsCall(k, Head(u)) => \A b \in Ids(k, Tail(u)) : Head(u).id < b
    BY <1>9, TicketTaken
  <2> QED
    BY <2>1, TicketAdded DEF Before, UpTo
<1>10. Pipe(k, a, <<>>, q, u, n) /\ Pipe(k, a, s, q, <<>>, n)
  BY NoTickets DEF Before, UpTo
<1> QED
  BY <1>1, <1>2, <1>3, <1>6, <1>7, <1>8, <1>9, <1>10

\* there is a ticket
LEMMA OneOfTickets == Ticket(NoClient, 0) \in Tickets
  BY DEF Ticket, Tickets

-----------------------------------------------------------------------------
(* The queues as tickets.                                                    *)

Map(f, w) == [i \in DOMAIN w |-> f[w[i]]]

LEMMA Mapped ==
    ASSUME NEW X, NEW f \in [X -> Tickets], NEW w \in Seq(X)
    PROVE  /\ Map(f, w) \in Seq(Tickets)
           /\ \A e : Append(w, e) \in Seq(X) => Map(f, Append(w, e)) = Append(Map(f, w), f[e])
           /\ w = <<>> => Map(f, w) = <<>>
           /\ w # <<>> => /\ Map(f, w) # <<>> /\ Head(Map(f, w)) = f[Head(w)]
                          /\ Head(w) \in X /\ Map(f, Tail(w)) = Tail(Map(f, w))
<1>1. DOMAIN w = 1 .. Len(w) /\ Len(w) \in Nat /\ \A i \in DOMAIN w : w[i] \in X
  BY LenProperties, ElementOfSeq
<1>2. /\ Map(f, w) \in Seq(Tickets) /\ Len(Map(f, w)) = Len(w)
      /\ \A i \in 1 .. Len(w) : Map(f, w)[i] = f[w[i]]
  BY <1>1 DEF Map
<1>3. ASSUME NEW e, Append(w, e) \in Seq(X)
      PROVE  Map(f, Append(w, e)) = Append(Map(f, w), f[e])
  <2>1. /\ DOMAIN Append(w, e) = 1 .. Len(w) + 1
        /\ Append(w, e)[Len(w) + 1] = e
        /\ \A i \in 1 .. Len(w) : Append(w, e)[i] = w[i]
    BY <1>1
  <2>2. e \in X
    BY <1>1, <1>3, <2>1, ElementOfSeq, LenProperties
  <2>3. f[e] \in Tickets
    BY <2>2
  <2>4. /\ Append(Map(f, w), f[e]) \in Seq(Tickets)
        /\ Len(Append(Map(f, w), f[e])) = Len(w) + 1
        /\ Append(Map(f, w), f[e])[Len(w) + 1] = f[e]
        /\ \A i \in 1 .. Len(w) : Append(Map(f, w), f[e])[i] = f[w[i]]
    BY <1>2, <2>3, AppendProperties
  <2>5. /\ Map(f, Append(w, e)) \in Seq(Tickets)
        /\ Len(Map(f, Append(w, e))) = Len(w) + 1
        /\ Map(f, Append(w, e))[Len(w) + 1] = f[e]
        /\ \A i \in 1 .. Len(w) : Map(f, Append(w, e))[i] = f[w[i]]
    BY <1>1, <1>3, <2>1, <2>2 DEF Map
  <2>6. \A i \in 1 .. Len(w) + 1 : i \in 1 .. Len(w) \/ i = Len(w) + 1
    BY <1>1
  <2>7. \A i \in 1 .. Len(w) + 1 : Map(f, Append(w, e))[i] = Append(Map(f, w), f[e])[i]
    BY <2>4, <2>5, <2>6
  <2> QED
    BY <2>4, <2>5, <2>7, SeqEqual
<1>4. ASSUME w = <<>> PROVE Map(f, w) = <<>>
  BY <1>2, <1>4
<1>5. ASSUME w # <<>>
      PROVE  /\ Map(f, w) # <<>> /\ Head(Map(f, w)) = f[Head(w)]
             /\ Head(w) \in X /\ Map(f, Tail(w)) = Tail(Map(f, w))
  <2>1. /\ Head(w) \in X /\ Tail(w) \in Seq(X) /\ Len(Tail(w)) = Len(w) - 1
        /\ \A i \in 1 .. Len(w) - 1 : Tail(w)[i] = w[i + 1]
        /\ Len(w) \in Nat \ {0} /\ Head(w) = w[1]
    BY <1>5, HeadTailProperties, EmptySeq
  <2>2. Map(f, w) # <<>> /\ Head(Map(f, w)) = f[Head(w)]
    BY <1>2, <2>1
  <2>3. /\ Tail(Map(f, w)) \in Seq(Tickets) /\ Len(Tail(Map(f, w))) = Len(w) - 1
        /\ \A i \in 1 .. Len(w) - 1 : Tail(Map(f, w))[i] = f[w[i + 1]]
    BY <1>2, <2>1, <2>2, HeadTailProperties
  <2>4. DOMAIN Tail(w) = 1 .. Len(w) - 1 /\ \A i \in DOMAIN Tail(w) : Tail(w)[i] \in X
    BY <2>1, LenProperties, ElementOfSeq
  <2>5. /\ Map(f, Tail(w)) \in Seq(Tickets) /\ Len(Map(f, Tail(w))) = Len(w) - 1
        /\ \A i \in 1 .. Len(w) - 1 : Map(f, Tail(w))[i] = f[w[i + 1]]
    BY <2>1, <2>4 DEF Map
  <2> QED
    BY <2>1, <2>2, <2>3, <2>5, SeqEqual
<1> QED
  BY <1>2, <1>3, <1>4, <1>5

LEMMA LastOne ==
    ASSUME NEW X, NEW w \in Seq(X), NEW e, Append(w, e) \in Seq(X)
    PROVE  e \in X
<1>1. Len(w) \in Nat /\ Len(Append(w, e)) = Len(w) + 1 /\ Append(w, e)[Len(w) + 1] = e
  BY LenProperties
<1> QED
  BY <1>1, ElementOfSeq

Items     == [fd : Fds, req : Requests]
OfAnswer  == [r \in Answers |-> Ticket(r.to, r.id)]
OfRequest == [r \in Requests |-> Ticket(r.from, r.id)]
OfTask    == [x \in Items |-> Ticket(x.req.from, x.req.id)]

LEMMA QueueTypes ==
    ASSUME ServerTypes
    PROVE  /\ Answering \in Seq(Tickets) /\ Waiting \in Seq(Tickets) /\ Serving \in Seq(Tickets)
           /\ \A fd \in Fds : Wire(fd) \in Seq(Tickets)
           /\ \A k \in Clients : Unread(k) \in Seq(Tickets)
<1>1. /\ OfAnswer \in [Answers -> Tickets] /\ OfRequest \in [Requests -> Tickets]
      /\ OfTask \in [Items -> Tickets]
  BY DEF Items, OfAnswer, OfRequest, OfTask, Answers, Requests, Tickets, Ticket
<1>2. sendQue \in Seq(Answers) /\ taskQue \in Seq(Items)
      /\ \A fd \in Fds : sock[fd].in \in Seq(Requests)
  BY DEF ServerTypes, Socks, Items
<1>3. Answering = Map(OfAnswer, sendQue)
  <2>1. \A i \in DOMAIN sendQue : OfAnswer[sendQue[i]] = Ticket(sendQue[i].to, sendQue[i].id)
    BY <1>2, ElementOfSeq, LenProperties DEF OfAnswer
  <2> QED
    BY <2>1 DEF Answering, Map
<1>4. Waiting = Map(OfTask, taskQue)
  <2>1. \A i \in DOMAIN taskQue :
           OfTask[taskQue[i]] = Ticket(taskQue[i].req.from, taskQue[i].req.id)
    BY <1>2, ElementOfSeq, LenProperties DEF OfTask
  <2> QED
    BY <2>1 DEF Waiting, Map
<1>5. \A fd \in Fds : Wire(fd) = Map(OfRequest, sock[fd].in)
  <2>1. \A q \in Seq(Requests) : \A i \in DOMAIN q : OfRequest[q[i]] = Ticket(q[i].from, q[i].id)
    BY ElementOfSeq, LenProperties DEF OfRequest
  <2> QED
    BY <1>2, <2>1 DEF Wire, Map
<1>6. \A fd \in Fds : Wire(fd) \in Seq(Tickets)
  <2>1. \A fd \in Fds : Map(OfRequest, sock[fd].in) \in Seq(Tickets)
    BY <1>1, <1>2, Mapped
  <2> QED
    BY <1>5, <2>1
<1>7. \A k \in Clients : Unread(k) \in Seq(Tickets)
  <2>1. <<>> \in Seq(Tickets)
    BY EmptySeq
  <2> QED
    BY <1>6, <2>1 DEF Unread, ServerTypes, ClientStates
<1>8. Serving \in Seq(Tickets)
  <2>1. <<>> \in Seq(Tickets)
    BY EmptySeq
  <2>2. Ticket(task.req.from, task.req.id) \in Tickets
    BY DEF ServerTypes, Tasks, Requests, Tickets, Ticket
  <2> QED
    BY <2>1, <2>2 DEF Serving
<1>9. Answering \in Seq(Tickets) /\ Waiting \in Seq(Tickets)
  <2>1. Map(OfAnswer, sendQue) \in Seq(Tickets) /\ Map(OfTask, taskQue) \in Seq(Tickets)
    BY <1>1, <1>2, Mapped
  <2> QED
    BY <1>3, <1>4, <2>1
<1> QED
  BY <1>6, <1>7, <1>8, <1>9

\* What the steps make of the queues.
LEMMA Queues ==
    ASSUME ServerTypes, ServerTypes'
    PROVE  /\ Answering \in Seq(Tickets) /\ Waiting \in Seq(Tickets) /\ Serving \in Seq(Tickets)
           /\ \A fd \in Fds : Wire(fd) \in Seq(Tickets)
           /\ \A k \in Clients : Unread(k) \in Seq(Tickets)
           /\ \A r : sendQue' = Append(sendQue, r) =>
                 Ticket(r.to, r.id) \in Tickets
                 /\ Answering' = Append(Answering, Ticket(r.to, r.id))
           /\ sendQue # <<>> /\ sendQue' = Tail(sendQue) =>
                 Answering # <<>> /\ Answering' = Tail(Answering)
           /\ \A x : taskQue' = Append(taskQue, x) =>
                 Ticket(x.req.from, x.req.id) \in Tickets
                 /\ Waiting' = Append(Waiting, Ticket(x.req.from, x.req.id))
           /\ taskQue # <<>> =>
                 /\ Waiting # <<>>
                 /\ Head(Waiting) = Ticket(Head(taskQue).req.from, Head(taskQue).req.id)
                 /\ taskQue' = Tail(taskQue) => Waiting' = Tail(Waiting)
           /\ sendQue' = sendQue => Answering' = Answering
           /\ taskQue' = taskQue => Waiting' = Waiting
<1>1. OfAnswer \in [Answers -> Tickets] /\ OfTask \in [Items -> Tickets]
  BY DEF Items, OfAnswer, OfTask, Answers, Requests, Tickets, Ticket
<1>2. /\ sendQue \in Seq(Answers) /\ sendQue' \in Seq(Answers)
      /\ taskQue \in Seq(Items) /\ taskQue' \in Seq(Items)
  BY DEF ServerTypes, Items
<1>3. Answering = Map(OfAnswer, sendQue) /\ Answering' = Map(OfAnswer, sendQue')
  <2>1. \A q \in Seq(Answers) : \A i \in DOMAIN q : OfAnswer[q[i]] = Ticket(q[i].to, q[i].id)
    BY ElementOfSeq, LenProperties DEF OfAnswer
  <2> QED
    BY <1>2, <2>1 DEF Answering, Map
<1>4. Waiting = Map(OfTask, taskQue) /\ Waiting' = Map(OfTask, taskQue')
  <2>1. \A q \in Seq(Items) : \A i \in DOMAIN q :
           OfTask[q[i]] = Ticket(q[i].req.from, q[i].req.id)
    BY ElementOfSeq, LenProperties DEF OfTask
  <2> QED
    BY <1>2, <2>1 DEF Waiting, Map
<1>5. ASSUME NEW r, sendQue' = Append(sendQue, r)
      PROVE  Ticket(r.to, r.id) \in Tickets
             /\ Answering' = Append(Answering, Ticket(r.to, r.id))
  <2>1. r \in Answers
    BY <1>2, <1>5, LastOne
  <2>2. OfAnswer[r] = Ticket(r.to, r.id)
    BY <2>1 DEF OfAnswer
  <2>3. Map(OfAnswer, Append(sendQue, r)) = Append(Map(OfAnswer, sendQue), OfAnswer[r])
    BY <1>1, <1>2, <1>5, Mapped
  <2> QED
    BY <1>1, <1>3, <1>5, <2>1, <2>2, <2>3
<1>6. ASSUME NEW x, taskQue' = Append(taskQue, x)
       PROVE  Ticket(x.req.from, x.req.id) \in Tickets
              /\ Waiting' = Append(Waiting, Ticket(x.req.from, x.req.id))
  <2>1. x \in Items
    BY <1>2, <1>6, LastOne
  <2>2. OfTask[x] = Ticket(x.req.from, x.req.id)
    BY <2>1 DEF OfTask
  <2>3. Map(OfTask, Append(taskQue, x)) = Append(Map(OfTask, taskQue), OfTask[x])
    <3>1. taskQue \in Seq(Items) /\ Append(taskQue, x) \in Seq(Items)
      BY <1>2, <1>6
    <3>2. OfTask \in [Items -> Tickets]
      BY <1>1
    <3> QED
      BY <3>1, <3>2, Mapped
  <2> QED
    BY <1>1, <1>4, <1>6, <2>1, <2>2, <2>3
<1>7. ASSUME sendQue # <<>>, sendQue' = Tail(sendQue)
       PROVE  Answering # <<>> /\ Answering' = Tail(Answering)
  BY <1>1, <1>2, <1>3, <1>7, Mapped
<1>8. ASSUME taskQue # <<>>
       PROVE  /\ Waiting # <<>>
              /\ Head(Waiting) = Ticket(Head(taskQue).req.from, Head(taskQue).req.id)
              /\ taskQue' = Tail(taskQue) => Waiting' = Tail(Waiting)
  <2>1. /\ Waiting # <<>> /\ Head(Waiting) = OfTask[Head(taskQue)]
        /\ Head(taskQue) \in Items
        /\ Map(OfTask, Tail(taskQue)) = Tail(Waiting)
    <3>1. taskQue \in Seq(Items) /\ OfTask \in [Items -> Tickets]
      BY <1>1, <1>2
    <3>2. Map(OfTask, taskQue) # <<>> /\ Head(Map(OfTask, taskQue)) = OfTask[Head(taskQue)]
          /\ Head(taskQue) \in Items /\ Map(OfTask, Tail(taskQue)) = Tail(Map(OfTask, taskQue))
      BY <1>8, <3>1, Mapped
    <3> QED
      BY <1>4, <3>2
  <2>2. OfTask[Head(taskQue)] = Ticket(Head(taskQue).req.from, Head(taskQue).req.id)
    BY <2>1 DEF OfTask
  <2> QED
    BY <1>4, <2>1, <2>2
<1>9. (sendQue' = sendQue => Answering' = Answering) /\ (taskQue' = taskQue => Waiting' = Waiting)
  BY <1>3, <1>4
<1> QED
  BY <1>5, <1>6, <1>7, <1>8, <1>9, QueueTypes

LEMMA Wires ==
    ASSUME ServerTypes, ServerTypes', NEW fd \in Fds
    PROVE  /\ Wire(fd) \in Seq(Tickets)
           /\ sock'[fd].in = sock[fd].in => Wire(fd)' = Wire(fd)
           /\ sock'[fd].in = <<>> => Wire(fd)' = <<>>
           /\ sock[fd].in = <<>> => Wire(fd) = <<>>
           /\ \A r : sock'[fd].in = Append(sock[fd].in, r) =>
                 Ticket(r.from, r.id) \in Tickets
                 /\ Wire(fd)' = Append(Wire(fd), Ticket(r.from, r.id))
           /\ sock[fd].in # <<>> =>
                 /\ Wire(fd) # <<>>
                 /\ Head(Wire(fd)) = Ticket(Head(sock[fd].in).from, Head(sock[fd].in).id)
                 /\ sock'[fd].in = Tail(sock[fd].in) => Wire(fd)' = Tail(Wire(fd))
<1> DEFINE w == sock[fd].in
           v == sock'[fd].in
<1>1. OfRequest \in [Requests -> Tickets]
  BY DEF OfRequest, Requests, Tickets, Ticket
<1>2. w \in Seq(Requests) /\ v \in Seq(Requests)
  BY DEF ServerTypes, Socks
<1>3. Wire(fd) = Map(OfRequest, w) /\ Wire(fd)' = Map(OfRequest, v)
  <2>1. \A q \in Seq(Requests) : \A i \in DOMAIN q : OfRequest[q[i]] = Ticket(q[i].from, q[i].id)
    BY ElementOfSeq, LenProperties DEF OfRequest
  <2> QED
    BY <1>2, <2>1 DEF Wire, Map
<1> HIDE DEF w, v
<1>4. /\ Map(OfRequest, w) \in Seq(Tickets)
      /\ w = <<>> => Map(OfRequest, w) = <<>>
      /\ v = <<>> => Map(OfRequest, v) = <<>>
  BY <1>1, <1>2, Mapped
<1>5. ASSUME NEW r, v = Append(w, r)
      PROVE  Ticket(r.from, r.id) \in Tickets
             /\ Wire(fd)' = Append(Wire(fd), Ticket(r.from, r.id))
  <2>1. r \in Requests
    BY <1>2, <1>5, LastOne
  <2>2. OfRequest[r] = Ticket(r.from, r.id)
    BY <2>1 DEF OfRequest
  <2>3. Map(OfRequest, Append(w, r)) = Append(Map(OfRequest, w), OfRequest[r])
    BY <1>1, <1>2, <1>5, Mapped
  <2> QED
    BY <1>1, <1>3, <1>5, <2>1, <2>2, <2>3
<1>6. ASSUME w # <<>>
      PROVE  /\ Wire(fd) # <<>> /\ Head(Wire(fd)) = Ticket(Head(w).from, Head(w).id)
             /\ v = Tail(w) => Wire(fd)' = Tail(Wire(fd))
  <2>1. /\ Map(OfRequest, w) # <<>> /\ Head(Map(OfRequest, w)) = OfRequest[Head(w)]
        /\ Head(w) \in Requests /\ Map(OfRequest, Tail(w)) = Tail(Map(OfRequest, w))
    BY <1>1, <1>2, <1>6, Mapped, SMTT(20)
  <2>2. OfRequest[Head(w)] = Ticket(Head(w).from, Head(w).id)
    BY <2>1 DEF OfRequest
  <2> QED
    BY <1>3, <2>1, <2>2
<1> QED
  BY <1>3, <1>4, <1>5, <1>6 DEF w, v

-----------------------------------------------------------------------------
(* The steps of the server.                                                  *)

Connected ==
    /\ \A k \in Clients : client[k].fd # 0 =>
          /\ client[k].fd \in Fds
          /\ sock[client[k].fd].peer = k /\ ~sock[client[k].fd].eof
    /\ \A k \in Clients : client[k].menu = "off" => client[k].fd = 0
    /\ \A fd \in Fds : sock[fd].peer = NoClient => sock[fd].in = <<>> /\ ~sock[fd].eof
    /\ \A fd \in Fds, k \in Clients :
          ~sock[fd].eof /\ Ids(k, Wire(fd)) # {} => client[k].fd = fd
    /\ recv.pc # "idle" => recv.fd \in Fds /\ sock[recv.fd].eof

Flow(k) == Pipe(k, Answering, Serving, Waiting, Unread(k), client[k].sent)

FlowInv == Connected /\ \A k \in Clients : Flow(k)

LEMMA TaskFlow ==
    ASSUME ServerTypes, ServerTypes', FlowInv, TaskThread
    PROVE  FlowInv'
<1>1. UNCHANGED <<recv, sock, client>>
  BY DEF TaskThread, DoRegist, DoLoginCheck, DoLoginAdd, DoLogout, DoCreateRoom, DoJoinRoom,
     DoQuitRoom, DoGameReady, DoQuitGameReady, ReqGameStartNums, ReqGameStartReady,
     GameStartList, GameStartFrames, GameStartNotify, GameStartDone, TaskFrame, envVars
<1>2. Connected'
  BY <1>1 DEF FlowInv, Connected, Wire
<1>3. \A k \in Clients : Unread(k)' = Unread(k)
  BY <1>1 DEF Unread, Wire
<1>4. /\ Answering \in Seq(Tickets) /\ Waiting \in Seq(Tickets) /\ Serving \in Seq(Tickets)
      /\ \A k \in Clients : Unread(k) \in Seq(Tickets) /\ client[k].sent \in Nat
  BY Queues DEF ServerTypes, ClientStates
<1>5. SUFFICES ASSUME NEW k \in Clients
               PROVE  Pipe(k, Answering', Serving', Waiting', Unread(k), client[k].sent)
  BY <1>1, <1>2, <1>3 DEF FlowInv, Flow
<1>6. Pipe(k, Answering, Serving, Waiting, Unread(k), client[k].sent)
  BY DEF FlowInv, Flow
<1>7. CASE \/ DoRegist \/ DoLogout \/ DoCreateRoom \/ DoJoinRoom \/ DoQuitRoom
           \/ DoGameReady \/ DoQuitGameReady
  <2>1. taskQue # <<>> /\ task.pc = "idle" /\ \E res, cid, gid : Serve(res, cid, gid)
    BY <1>7 DEF DoRegist, DoLogout, DoCreateRoom, DoJoinRoom, DoQuitRoom, DoGameReady,
       DoQuitGameReady, NextTask
  <2>2. PICK r : /\ sendQue' = Append(sendQue, r) /\ taskQue' = Tail(taskQue) /\ task' = task
                 /\ Ticket(r.to, r.id)
                       = Ticket(Head(taskQue).req.from, Head(taskQue).req.id)
    BY <2>1 DEF Serve, Answer, Taken
  <2>3. Serving = <<>> /\ Serving' = <<>>
    BY <2>1, <2>2 DEF Serving
  <2>4. /\ Waiting # <<>> /\ Waiting' = Tail(Waiting)
        /\ Answering' = Append(Answering, Head(Waiting))
    BY <2>1, <2>2, Queues
  <2> QED
    BY <1>4, <1>6, <2>3, <2>4, PipeSteps, OneOfTickets
<1>8. CASE DoLoginCheck \/ ReqGameStartNums \/ GameStartList
  <2>1. taskQue # <<>> /\ task.pc = "idle" /\ taskQue' = Tail(taskQue) /\ sendQue' = sendQue
    BY <1>8 DEF DoLoginCheck, ReqGameStartNums, GameStartList, NextTask, TakeTo
  <2>2. /\ task'.pc # "idle" /\ task'.req.from = Head(taskQue).req.from
        /\ task'.req.id = Head(taskQue).req.id
    <3>1. Head(taskQue).req \in Requests
      BY <2>1, TakenTypes
    <3>2. PICK r : r = Head(taskQue).req
      OBVIOUS
    <3>3. CASE DoLoginCheck
      BY <3>1, <3>2, <3>3 DEF DoLoginCheck, TakeTo, Found, Taken, Requests
    <3>4. CASE ReqGameStartNums
      BY <3>1, <3>2, <3>4 DEF ReqGameStartNums, TakeTo, Taken, Requests
    <3>5. CASE GameStartList
      BY <3>1, <3>2, <3>5 DEF GameStartList, TakeTo, Taken, Requests
    <3> QED
      BY <1>8, <3>3, <3>4, <3>5
  <2>3. Serving = <<>> /\ Waiting # <<>> /\ Serving' = <<Head(Waiting)>>
        /\ Waiting' = Tail(Waiting) /\ Answering' = Answering
    BY <2>1, <2>2, Queues DEF Serving
  <2> QED
    BY <1>4, <1>6, <2>3, PipeSteps, OneOfTickets
<1>9. CASE DoLoginAdd \/ ReqGameStartReady
  <2>1. task.pc # "idle" /\ \E res, cid, gid : Reply(res, cid, gid)
    BY <1>9 DEF DoLoginAdd, ReqGameStartReady
  <2>2. PICK r : /\ sendQue' = Append(sendQue, r) /\ taskQue' = taskQue /\ task' = IdleTask
                 /\ Ticket(r.to, r.id) = Ticket(task.req.from, task.req.id)
    BY <2>1 DEF Reply, Answer
  <2>3. /\ Serving = <<Ticket(r.to, r.id)>> /\ Serving' = <<>>
        /\ Answering' = Append(Answering, Ticket(r.to, r.id)) /\ Waiting' = Waiting
        /\ Ticket(r.to, r.id) \in Tickets
    BY <2>1, <2>2, Queues DEF Serving, IdleTask
  <2> QED
    BY <1>4, <1>6, <2>3, PipeSteps
<1>10. CASE GameStartFrames
  <2>1. task'.pc = "notify" /\ task.pc = "start" /\ task'.req = task.req
        /\ UNCHANGED <<sendQue, taskQue>>
    BY <1>10 DEF GameStartFrames, ServerTypes, Tasks
  <2>2. Answering' = Answering /\ Waiting' = Waiting /\ Serving' = Serving
    BY <2>1, Queues DEF Serving
  <2> QED
    BY <1>6, <2>2
<1>11. CASE GameStartNotify
  <2>1. /\ task'.pc = "notify" /\ task.pc = "notify" /\ task'.req = task.req
        /\ taskQue' = taskQue
        /\ sendQue' = sendQue \/ \E fd : sendQue' = Append(sendQue, StartNotice(fd))
    BY <1>11 DEF GameStartNotify, ServerTypes, Tasks
  <2>2. Waiting' = Waiting /\ Serving' = Serving
    BY <2>1, Queues DEF Serving
  <2>3. CASE sendQue' = sendQue
    BY <1>6, <2>2, <2>3, Queues
  <2>4. CASE \E fd : sendQue' = Append(sendQue, StartNotice(fd))
    <3>1. PICK t \in Tickets : t = Ticket(NoClient, 0) /\ Answering' = Append(Answering, t)
      BY <2>4, Queues DEF StartNotice
    <3>2. ~IsCall(k, t)
      BY <3>1 DEF IsCall, Ticket
    <3> QED
      BY <1>4, <1>6, <2>2, <3>1, <3>2, PipeSteps
  <2> QED
    BY <2>1, <2>3, <2>4
<1>12. CASE GameStartDone
  <2>1. Answering' = Answering /\ Waiting' = Waiting /\ Serving' = <<>>
    BY <1>12, Queues DEF GameStartDone, Serving, IdleTask
  <2> QED
    BY <1>4, <1>6, <2>1, PipeSteps, OneOfTickets
<1> QED
  BY <1>7, <1>8, <1>9, <1>10, <1>11, <1>12 DEF TaskThread

LEMMA TicketsLeft ==
    ASSUME NEW k, NEW w \in Seq(Tickets), w # <<>>
    PROVE  /\ IsCall(k, Head(w)) => Ids(k, w) # {}
           /\ Ids(k, Tail(w)) # {} => Ids(k, w) # {}
<1>1. /\ Head(w) = w[1] /\ Len(w) \in Nat \ {0} /\ DOMAIN w = 1 .. Len(w)
      /\ Tail(w) \in Seq(Tickets) /\ Len(Tail(w)) = Len(w) - 1
      /\ \A i \in 1 .. Len(Tail(w)) : Tail(w)[i] = w[i + 1]
  BY HeadTailProperties, EmptySeq, LenProperties
<1>2. DOMAIN Tail(w) = 1 .. Len(Tail(w))
  BY <1>1, LenProperties
<1>3. \A i \in DOMAIN Tail(w) : i + 1 \in DOMAIN w /\ Tail(w)[i] = w[i + 1]
  BY <1>1, <1>2
<1>4. \A m \in DOMAIN w : IsCall(k, w[m]) => w[m].id \in Ids(k, w)
  BY DEF Ids
<1>5. IsCall(k, Head(w)) => Ids(k, w) # {}
  BY <1>1, <1>4
<1>6. ASSUME Ids(k, Tail(w)) # {} PROVE Ids(k, w) # {}
  <2>1. PICK i \in DOMAIN Tail(w) : IsCall(k, Tail(w)[i])
    BY <1>6 DEF Ids
  <2> QED
    BY <1>3, <1>4, <2>1
<1> QED
  BY <1>5, <1>6

LEMMA ReadFlow ==
    ASSUME ServerTypes, ServerTypes', FlowInv, NEW fd \in Fds, Read(fd)
    PROVE  FlowInv'
<1>1. /\ ~sock[fd].eof /\ sock[fd].in # <<>>
      /\ taskQue' = Append(taskQue, [fd |-> fd, req |-> Head(sock[fd].in)])
      /\ sock' = [sock EXCEPT ![fd].in = Tail(@)]
      /\ UNCHANGED <<sendQue, task, recv, client>>
  BY DEF Read
<1>2. /\ sock'[fd].in = Tail(sock[fd].in)
      /\ \A e \in Fds : sock'[e].eof = sock[e].eof /\ sock'[e].peer = sock[e].peer
      /\ \A e \in Fds : e # fd => sock'[e].in = sock[e].in
  BY <1>1 DEF ServerTypes, Socks
<1>3. /\ Wire(fd) # <<>> /\ Wire(fd)' = Tail(Wire(fd)) /\ Wire(fd) \in Seq(Tickets)
      /\ Waiting' = Append(Waiting, Head(Wire(fd)))
      /\ Head(Wire(fd)) \in Tickets
      /\ \A e \in Fds : e # fd => Wire(e)' = Wire(e)
  <2>1. /\ Wire(fd) # <<>> /\ Wire(fd)' = Tail(Wire(fd)) /\ Wire(fd) \in Seq(Tickets)
        /\ Head(Wire(fd)) = Ticket(Head(sock[fd].in).from, Head(sock[fd].in).id)
    BY <1>1, <1>2, Wires
  <2> DEFINE x == [fd |-> fd, req |-> Head(sock[fd].in)]
  <2>2. /\ Ticket(x.req.from, x.req.id) \in Tickets
        /\ Waiting' = Append(Waiting, Ticket(x.req.from, x.req.id))
    <3> HIDE DEF x
    <3>1. taskQue' = Append(taskQue, x)
      BY <1>1 DEF x
    <3> QED
      BY <3>1, Queues
  <2>3. \A e \in Fds : e # fd => Wire(e)' = Wire(e)
    BY <1>2, Wires
  <2> QED
    BY <2>1, <2>2, <2>3
<1>4. Answering' = Answering /\ Serving' = Serving
  BY <1>1, Queues DEF Serving
<1>5. Connected'
  <2>1. \A e \in Fds, k \in Clients : Ids(k, Wire(e)') # {} => Ids(k, Wire(e)) # {}
    BY <1>3, TicketsLeft
  <2>2. \A e \in Fds : sock[e].peer = NoClient => sock'[e].in = <<>>
    BY <1>1, <1>2 DEF FlowInv, Connected
  <2> QED
    BY <1>1, <1>2, <2>1, <2>2 DEF FlowInv, Connected
<1>6. ASSUME NEW k \in Clients PROVE Flow(k)'
  <2>1. /\ Answering \in Seq(Tickets) /\ Waiting \in Seq(Tickets) /\ Serving \in Seq(Tickets)
        /\ Unread(k) \in Seq(Tickets) /\ client[k].sent \in Nat
    BY Queues DEF ServerTypes, ClientStates
  <2>2. Pipe(k, Answering, Serving, Waiting, Unread(k), client[k].sent)
    BY DEF FlowInv, Flow
  <2>3. CASE client[k].fd = fd
    <3>1. Unread(k) = Wire(fd) /\ Unread(k)' = Tail(Unread(k)) /\ Unread(k) # <<>>
      BY <1>1, <1>3, <2>3, ServerAssumption DEF Unread
    <3>2. Pipe(k, Answering, Serving, Append(Waiting, Head(Unread(k))), Tail(Unread(k)),
               client[k].sent)
      BY <2>1, <2>2, <3>1, PipeSteps, OneOfTickets
    <3> QED
      BY <1>1, <1>3, <1>4, <3>1, <3>2 DEF Flow
  <2>4. CASE client[k].fd # fd
    <3>1. Unread(k)' = Unread(k)
      BY <1>1, <1>3, <2>4 DEF Unread, FlowInv, Connected
    <3>2. ~IsCall(k, Head(Wire(fd)))
      <4>1. Ids(k, Wire(fd)) = {}
        BY <1>1, <2>4 DEF FlowInv, Connected
      <4> QED
        BY <1>3, <4>1, TicketsLeft
    <3>3. Pipe(k, Answering, Serving, Append(Waiting, Head(Wire(fd))), Unread(k), client[k].sent)
      BY <1>3, <2>1, <2>2, <3>2, PipeSteps
    <3> QED
      BY <1>1, <1>3, <1>4, <3>1, <3>3 DEF Flow
  <2> QED
    BY <2>3, <2>4
<1> QED
  BY <1>5, <1>6 DEF FlowInv

\* Steps that take or add nothing, but may lose what a client has written.
LEMMA LosingFlow ==
    ASSUME ServerTypes, ServerTypes', FlowInv, Connected',
           UNCHANGED <<sendQue, taskQue, task>>,
           \A k \in Clients : client'[k].sent = client[k].sent,
           \A k \in Clients : Unread(k)' = Unread(k) \/ Unread(k)' = <<>>
    PROVE  FlowInv'
<1>1. Answering' = Answering /\ Serving' = Serving /\ Waiting' = Waiting
  BY Queues DEF Serving
<1>2. ASSUME NEW k \in Clients PROVE Flow(k)'
  <2>1. /\ Answering \in Seq(Tickets) /\ Waiting \in Seq(Tickets) /\ Serving \in Seq(Tickets)
        /\ Unread(k) \in Seq(Tickets) /\ client[k].sent \in Nat
    BY Queues DEF ServerTypes, ClientStates
  <2>2. Pipe(k, Answering, Serving, Waiting, Unread(k), client[k].sent)
    BY DEF FlowInv, Flow
  <2>3. Pipe(k, Answering, Serving, Waiting, <<>>, client[k].sent)
    BY <2>1, <2>2, PipeSteps, OneOfTickets
  <2> QED
    BY <1>1, <2>2, <2>3 DEF Flow
<1> QED
  BY <1>2 DEF FlowInv

LEMMA RecvFlow ==
    ASSUME ServerTypes, ServerTypes', FlowInv, RecvThread
    PROVE  FlowInv'
<1>1. ASSUME NEW fd \in Fds, Read(fd) PROVE FlowInv'
  BY <1>1, ReadFlow
<1>2. ASSUME NEW fd \in Fds, ReadPart(fd) PROVE FlowInv'
  <2>1. /\ sock' = [sock EXCEPT ![fd] = FreeSock] /\ recv.pc = "idle"
        /\ client' = [k \in Clients |->
                        IF client[k].fd = fd THEN [client[k] EXCEPT !.fd = 0] ELSE client[k]]
        /\ UNCHANGED <<sendQue, taskQue, task, recv>>
    BY <1>2 DEF ReadPart, serverVars
  <2>2. /\ sock'[fd].in = <<>> /\ ~sock'[fd].eof
        /\ \A e \in Fds : e # fd => sock'[e] = sock[e]
    BY <2>1 DEF ServerTypes, FreeSock
  <2>3. \A k \in Clients :
           /\ client'[k].sent = client[k].sent /\ client'[k].menu = client[k].menu
           /\ client'[k].fd = IF client[k].fd = fd THEN 0 ELSE client[k].fd
    BY <2>1 DEF ServerTypes, ClientStates
  <2>4. Wire(fd)' = <<>> /\ \A e \in Fds : e # fd => Wire(e)' = Wire(e)
    BY <2>2, Wires
  <2>5. Connected'
    <3>1. \A k \in Clients : Ids(k, Wire(fd)') = {}
      BY <2>4, NoTickets
    <3>2. \A e \in Fds, k \in Clients : ~sock'[e].eof /\ Ids(k, Wire(e)') # {} => client'[k].fd = e
      BY <2>2, <2>3, <2>4, <3>1 DEF FlowInv, Connected
    <3>3. \A k \in Clients : client'[k].fd # 0 =>
             /\ client'[k].fd \in Fds
             /\ sock'[client'[k].fd].peer = k /\ ~sock'[client'[k].fd].eof
      BY <2>2, <2>3 DEF FlowInv, Connected
    <3> QED
      BY <2>1, <2>2, <2>3, <3>2, <3>3 DEF FlowInv, Connected
  <2>6. \A k \in Clients : Unread(k)' = Unread(k) \/ Unread(k)' = <<>>
    BY <2>3, <2>4 DEF Unread, FlowInv, Connected
  <2> QED
    BY <2>1, <2>3, <2>5, <2>6, LosingFlow
<1>3. ASSUME NEW fd \in Fds, LostOnline(fd) PROVE FlowInv'
  <2>1. /\ UNCHANGED <<sendQue, taskQue, task, sock, client>>
        /\ recv'.fd = fd /\ sock[fd].eof
    BY <1>3 DEF LostOnline
  <2>2. \A e \in Fds : Wire(e)' = Wire(e)
    BY <2>1 DEF Wire
  <2>3. Connected'
    BY <2>1, <2>2 DEF FlowInv, Connected
  <2> QED
    BY <2>1, <2>3, LosingFlow DEF Unread, Wire
<1>4. CASE LostRooms
  <2>1. /\ UNCHANGED <<sendQue, taskQue, task, sock, client>>
        /\ recv'.fd = recv.fd /\ recv.pc # "idle"
    BY <1>4 DEF LostRooms, ServerTypes, Recvs
  <2>2. \A e \in Fds : Wire(e)' = Wire(e)
    BY <2>1 DEF Wire
  <2>3. Connected'
    BY <2>1, <2>2 DEF FlowInv, Connected
  <2> QED
    BY <2>1, <2>3, LosingFlow DEF Unread, Wire
<1>5. CASE LostClose
  <2>1. PICK fd \in Fds : fd = recv.fd /\ sock[fd].eof
    BY <1>5 DEF LostClose, FlowInv, Connected
  <2>2. /\ sock' = [sock EXCEPT ![fd] = FreeSock] /\ recv'.pc = "idle"
        /\ UNCHANGED <<sendQue, taskQue, task, client>>
    BY <1>5, <2>1 DEF LostClose, IdleRecv
  <2>3. /\ sock'[fd].in = <<>> /\ ~sock'[fd].eof
        /\ \A e \in Fds : e # fd => sock'[e] = sock[e]
    BY <2>1, <2>2 DEF ServerTypes, FreeSock
  <2>4. Wire(fd)' = <<>> /\ \A e \in Fds : e # fd => Wire(e)' = Wire(e)
    <3>1. Wire(fd)' = <<>>
      BY <2>1, <2>3, Wires
    <3>2. \A e \in Fds : e # fd => Wire(e)' = Wire(e)
      BY <2>3, Wires
    <3> QED
      BY <3>1, <3>2
  <2>5. \A k \in Clients : client[k].fd # fd
    BY <2>1, ServerAssumption DEF FlowInv, Connected
  <2>6. Connected'
    <3>1. \A k \in Clients : Ids(k, Wire(fd)') = {}
      BY <2>4, NoTickets
    <3>2. \A e \in Fds, k \in Clients : ~sock'[e].eof /\ Ids(k, Wire(e)') # {} => client'[k].fd = e
      <4>1. ASSUME NEW e \in Fds, NEW k \in Clients, ~sock'[e].eof, Ids(k, Wire(e)') # {}
            PROVE  client[k].fd = e
        <5>1. e # fd
          BY <3>1, <4>1
        <5>2. sock'[e] = sock[e] /\ Wire(e)' = Wire(e)
          BY <2>3, <2>4, <5>1
        <5> QED
          BY <4>1, <5>2 DEF FlowInv, Connected
      <4> QED
        BY <2>2, <4>1
    <3>3. \A k \in Clients : client'[k].fd # 0 =>
             /\ client'[k].fd \in Fds
             /\ sock'[client'[k].fd].peer = k /\ ~sock'[client'[k].fd].eof
      BY <2>2, <2>3, <2>5 DEF FlowInv, Connected
    <3> QED
      BY <2>2, <2>3, <3>2, <3>3 DEF FlowInv, Connected
  <2>7. \A k \in Clients : Unread(k)' = Unread(k)
    BY <2>2, <2>4, <2>5 DEF Unread, FlowInv, Connected
  <2> QED
    BY <2>2, <2>6, <2>7, LosingFlow
<1> QED
  BY <1>1, <1>2, <1>3, <1>4, <1>5 DEF RecvThread

-----------------------------------------------------------------------------
(* The steps of the send thread and of the clients.                          *)

\* Where a client goes with an answer, it keeps its connection.
LEMMA AfterKeeps ==
    ASSUME NEW c \in ClientStates, NEW res, NEW cid, NEW gid
    PROVE  /\ After(c, res, cid, gid).fd = c.fd
           /\ After(c, res, cid, gid).sent = c.sent
           /\ After(c, res, cid, gid).menu = "off" => c.menu = "off"
<1> DEFINE d == [c EXCEPT !.await = NoRequest]
<1>1. d.fd = c.fd /\ d.sent = c.sent /\ d.menu = c.menu
  BY DEF ClientStates
<1>2. /\ \A m : [d EXCEPT !.menu = m].fd = c.fd /\ [d EXCEPT !.menu = m].sent = c.sent
                /\ [d EXCEPT !.menu = m].menu = m
      /\ [d EXCEPT !.cid = cid].fd = c.fd /\ [d EXCEPT !.cid = cid].sent = c.sent
      /\ [d EXCEPT !.cid = cid].menu = c.menu
      /\ [d EXCEPT !.menu = "main", !.cid = cid].fd = c.fd
      /\ [d EXCEPT !.menu = "main", !.cid = cid].sent = c.sent
      /\ [d EXCEPT !.menu = "main", !.cid = cid].menu = "main"
  BY DEF ClientStates
<1>3. /\ [d EXCEPT !.menu = "entering", !.gid = gid, !.list = {}].fd = c.fd
      /\ [d EXCEPT !.menu = "entering", !.gid = gid, !.list = {}].sent = c.sent
      /\ [d EXCEPT !.menu = "entering", !.gid = gid, !.list = {}].menu = "entering"
      /\ [d EXCEPT !.menu = "main", !.list = {}].fd = c.fd
      /\ [d EXCEPT !.menu = "main", !.list = {}].sent = c.sent
      /\ [d EXCEPT !.menu = "main", !.list = {}].menu = "main"
      /\ [d EXCEPT !.menu = "main", !.gid = NoGid, !.role = "unknown"].fd = c.fd
      /\ [d EXCEPT !.menu = "main", !.gid = NoGid, !.role = "unknown"].sent = c.sent
      /\ [d EXCEPT !.menu = "main", !.gid = NoGid, !.role = "unknown"].menu = "main"
  BY DEF ClientStates
<1> QED
  BY <1>1, <1>2, <1>3 DEF After

\* Steps that leave the sockets and the connections alone.
LEMMA QuietFlow ==
    ASSUME ServerTypes, ServerTypes', FlowInv,
           UNCHANGED <<taskQue, task, recv, sock>>,
           sendQue' = sendQue \/ (sendQue # <<>> /\ sendQue' = Tail(sendQue)),
           \A k \in Clients : /\ client'[k].fd = client[k].fd
                              /\ client'[k].sent = client[k].sent
                              /\ client'[k].menu = "off" => client[k].menu = "off"
    PROVE  FlowInv'
<1>1. \A fd \in Fds : Wire(fd)' = Wire(fd)
  BY DEF Wire
<1>2. Connected'
  <2>1. \A k \in Clients : client'[k].fd # 0 =>
           /\ client'[k].fd \in Fds
           /\ sock'[client'[k].fd].peer = k /\ ~sock'[client'[k].fd].eof
    BY DEF FlowInv, Connected
  <2>2. \A k \in Clients : client'[k].menu = "off" => client'[k].fd = 0
    BY DEF FlowInv, Connected
  <2>3. \A fd \in Fds, k \in Clients :
           ~sock'[fd].eof /\ Ids(k, Wire(fd)') # {} => client'[k].fd = fd
    BY <1>1 DEF FlowInv, Connected
  <2> QED
    BY <2>1, <2>2, <2>3 DEF FlowInv, Connected
<1>3. Serving' = Serving /\ Waiting' = Waiting
  BY Queues DEF Serving
<1>4. ASSUME NEW k \in Clients PROVE Flow(k)'
  <2>1. Unread(k)' = Unread(k)
    BY <1>1 DEF Unread, FlowInv, Connected
  <2>2. /\ Answering \in Seq(Tickets) /\ Waiting \in Seq(Tickets) /\ Serving \in Seq(Tickets)
        /\ Unread(k) \in Seq(Tickets) /\ client[k].sent \in Nat
    BY Queues DEF ServerTypes, ClientStates
  <2>3. Pipe(k, Answering, Serving, Waiting, Unread(k), client[k].sent)
    BY DEF FlowInv, Flow
  <2>4. CASE sendQue' = sendQue
    <3>1. Answering' = Answering
      BY <2>4, Queues
    <3> QED
      BY <1>3, <2>1, <2>3, <3>1 DEF Flow
  <2>5. CASE sendQue # <<>> /\ sendQue' = Tail(sendQue)
    <3>1. Answering # <<>> /\ Answering' = Tail(Answering)
      BY <2>5, Queues
    <3>2. Pipe(k, Tail(Answering), Serving, Waiting, Unread(k), client[k].sent)
      BY <2>2, <2>3, <3>1, PipeSteps, OneOfTickets
    <3> QED
      BY <1>3, <2>1, <3>1, <3>2 DEF Flow
  <2> QED
    BY <2>4, <2>5
<1> QED
  BY <1>2, <1>4 DEF FlowInv

LEMMA DeliverFlow ==
    ASSUME ServerTypes, ServerTypes', FlowInv, Deliver
    PROVE  FlowInv'
<1>1. PICK r, j : client' = IF Awaited(j, r)
                            THEN [client EXCEPT ![j] = After(client[j], r.res, r.cid, r.gid)]
                            ELSE client
  BY DEF Deliver
<1>2. ASSUME NEW k \in Clients
      PROVE  /\ client'[k].fd = client[k].fd /\ client'[k].sent = client[k].sent
             /\ client'[k].menu = "off" => client[k].menu = "off"
  <2>1. client[k] \in ClientStates
    BY DEF ServerTypes
  <2>2. client'[k] = client[k] \/ client'[k] = After(client[k], r.res, r.cid, r.gid)
    BY <1>1 DEF ServerTypes
  <2> QED
    BY <2>1, <2>2, AfterKeeps
<1>3. /\ UNCHANGED <<taskQue, task, recv, sock>>
      /\ sendQue # <<>> /\ sendQue' = Tail(sendQue)
  BY DEF Deliver
<1> QED
  BY <1>2, <1>3, QuietFlow

\* A request or a command that a client writes.
LEMMA SendFlow ==
    ASSUME ServerTypes, ServerTypes', FlowInv, NEW j \in Clients,
           NEW type, NEW id \in Nat, NEW cid, NEW gid, NEW name,
           Send(j, type, id, cid, gid, name),
           UNCHANGED <<taskQue, sendQue, task, recv>>,
           \A k \in Clients : /\ client'[k].fd = client[k].fd
                              /\ client'[k].menu = "off" => client[k].menu = "off"
                              /\ k # j => client'[k].sent = client[k].sent,
           \/ id = 0 /\ client'[j].sent = client[j].sent
           \/ id = client[j].sent + 1 /\ client'[j].sent = id
    PROVE  FlowInv'
<1> DEFINE r == Request(type, id, j, cid, gid, name)
<1>1. /\ r.from = j /\ r.id = id
      /\ \A e \in Fds : sock'[e].peer = sock[e].peer /\ sock'[e].eof = sock[e].eof
      /\ \A e \in Fds : sock'[e].in = IF e = client[j].fd THEN Append(sock[e].in, r)
                                                          ELSE sock[e].in
  BY DEF Send, Request, ServerTypes, Socks
<1> HIDE DEF r
<1>2. PICK t : t = Ticket(j, id)
  OBVIOUS
<1>3. /\ t \in Tickets /\ t.from = j /\ t.id = id
      /\ t = Ticket(r.from, r.id)
  BY <1>1, <1>2 DEF Ticket, Tickets
<1>4. \A e \in Fds : Wire(e)' = IF e = client[j].fd THEN Append(Wire(e), t) ELSE Wire(e)
  <2>1. ASSUME NEW e \in Fds, e = client[j].fd
        PROVE  Wire(e)' = Append(Wire(e), t)
    BY <1>1, <1>3, <2>1, Wires
  <2>2. ASSUME NEW e \in Fds, e # client[j].fd
        PROVE  Wire(e)' = Wire(e)
    BY <1>1, <2>2, Wires
  <2> QED
    BY <2>1, <2>2
<1>5. Connected'
  <2>1. \A k \in Clients : client'[k].fd # 0 =>
           /\ client'[k].fd \in Fds
           /\ sock'[client'[k].fd].peer = k /\ ~sock'[client'[k].fd].eof
    BY <1>1 DEF FlowInv, Connected
  <2>2. \A k \in Clients : client'[k].menu = "off" => client'[k].fd = 0
    BY DEF FlowInv, Connected
  <2>3. \A e \in Fds : sock'[e].peer = NoClient => sock'[e].in = <<>> /\ ~sock'[e].eof
    <3>1. \A e \in Fds : sock[e].peer = NoClient => e # client[j].fd
      BY ServerAssumption DEF FlowInv, Connected
    <3> QED
      BY <1>1, <3>1 DEF FlowInv, Connected
  <2>4. ASSUME NEW e \in Fds, NEW k \in Clients, ~sock'[e].eof, Ids(k, Wire(e)') # {}
        PROVE  client'[k].fd = e
    <3>1. CASE e # client[j].fd \/ ~IsCall(k, t)
      <4>1. Ids(k, Wire(e)) # {}
        <5>1. Wire(e) \in Seq(Tickets)
          BY Queues
        <5>2. CASE e # client[j].fd
          BY <1>4, <2>4, <5>2
        <5>3. CASE e = client[j].fd /\ ~IsCall(k, t)
          <6>1. Ids(k, Append(Wire(e), t)) = Ids(k, Wire(e)) \cup {}
            BY <1>3, <5>1, <5>3, TicketAdded
          <6>2. Wire(e)' = Append(Wire(e), t)
            BY <1>4, <5>3
          <6> QED
            BY <2>4, <6>1, <6>2
        <5> QED
          BY <3>1, <5>2, <5>3
      <4> QED
        BY <1>1, <2>4, <4>1 DEF FlowInv, Connected
    <3>2. CASE e = client[j].fd /\ IsCall(k, t)
      BY <1>3, <3>2 DEF IsCall
    <3> QED
      BY <3>1, <3>2
  <2>5. recv'.pc # "idle" => recv'.fd \in Fds /\ sock'[recv'.fd].eof
    BY <1>1 DEF FlowInv, Connected
  <2> QED
    BY <2>1, <2>2, <2>3, <2>4, <2>5 DEF Connected
<1>6. Answering' = Answering /\ Serving' = Serving /\ Waiting' = Waiting
  BY Queues DEF Serving
<1>7. ASSUME NEW k \in Clients PROVE Flow(k)'
  <2>1. /\ Answering \in Seq(Tickets) /\ Waiting \in Seq(Tickets) /\ Serving \in Seq(Tickets)
        /\ Unread(k) \in Seq(Tickets) /\ client[k].sent \in Nat
    BY Queues DEF ServerTypes, ClientStates
  <2>2. Pipe(k, Answering, Serving, Waiting, Unread(k), client[k].sent)
    BY DEF FlowInv, Flow
  <2>3. CASE k # j
    <3>1. Unread(k)' = Unread(k)
      <4>1. client[k].fd # 0 => client[k].fd \in Fds /\ client[k].fd # client[j].fd
        BY <2>3, ServerAssumption DEF FlowInv, Connected
      <4> QED
        BY <1>4, <4>1 DEF Unread
    <3> QED
      BY <1>6, <2>2, <2>3, <3>1 DEF Flow
  <2>4. CASE k = j
    <3>1. Unread(k)' = Unread(k) \/ Unread(k)' = Append(Unread(k), t)
      BY <1>4, <2>4, ServerAssumption DEF Unread, FlowInv, Connected
    <3>2. CASE id = 0 /\ client'[j].sent = client[j].sent
      <4>1. ~IsCall(k, t)
        BY <1>3, <3>2 DEF IsCall
      <4>2. Pipe(k, Answering, Serving, Waiting, Append(Unread(k), t), client[k].sent)
        BY <1>3, <2>1, <2>2, <4>1, PipeSteps
      <4> QED
        BY <1>6, <2>2, <2>4, <3>1, <3>2, <4>2 DEF Flow
    <3>3. CASE id = client[j].sent + 1 /\ client'[j].sent = id
      <4>1. IsCall(k, t) /\ t.id = client[k].sent + 1
        BY <1>3, <2>1, <2>4, <3>3 DEF IsCall
      <4>2. /\ Pipe(k, Answering, Serving, Waiting, Append(Unread(k), t), client[k].sent + 1)
            /\ Pipe(k, Answering, Serving, Waiting, Unread(k), client[k].sent + 1)
        BY <1>3, <2>1, <2>2, <4>1, PipeSteps
      <4> QED
        BY <1>6, <2>4, <3>1, <3>3, <4>2 DEF Flow
    <3> QED
      BY <3>2, <3>3
  <2> QED
    BY <2>3, <2>4
<1> QED
  BY <1>5, <1>7 DEF FlowInv

LEMMA AcceptFlow ==
    ASSUME ServerTypes, ServerTypes', FlowInv, NEW j \in Clients, Accept(j)
    PROVE  FlowInv'
<1>1. PICK fd \in Fds :
         /\ sock[fd].peer = NoClient
         /\ sock' = [sock EXCEPT ![fd].peer = j]
         /\ client' = [client EXCEPT ![j] =
                    [client[j] EXCEPT !.menu = "login", !.fd = fd, !.connects = @ + 1]]
  BY DEF Accept
<1>2. UNCHANGED <<taskQue, sendQue, task, recv>> /\ client[j].menu = "off"
  BY DEF Accept, serverVars
<1>3. /\ sock'[fd].peer = j /\ sock'[fd].eof = sock[fd].eof /\ sock'[fd].in = sock[fd].in
      /\ \A e \in Fds : e # fd => sock'[e] = sock[e]
  BY <1>1 DEF ServerTypes, Socks
<1>4. /\ client'[j].fd = fd /\ client'[j].menu = "login" /\ client'[j].sent = client[j].sent
      /\ \A k \in Clients : k # j => client'[k] = client[k]
  BY <1>1 DEF ServerTypes, ClientStates
<1>5. /\ sock[fd].in = <<>> /\ ~sock[fd].eof /\ client[j].fd = 0
      /\ \A k \in Clients : client[k].fd # fd
  BY <1>1, <1>2, ServerAssumption DEF FlowInv, Connected
<1>6. Wire(fd)' = <<>> /\ \A e \in Fds : e # fd => Wire(e)' = Wire(e)
  <2>1. Wire(fd)' = <<>>
    BY <1>3, <1>5, Wires
  <2>2. ASSUME NEW e \in Fds, e # fd PROVE Wire(e)' = Wire(e)
    BY <1>3, <2>2, Wires
  <2> QED
    BY <2>1, <2>2
<1>7. Connected'
  <2>1. \A k \in Clients : client'[k].fd # 0 =>
           /\ client'[k].fd \in Fds
           /\ sock'[client'[k].fd].peer = k /\ ~sock'[client'[k].fd].eof
    BY <1>3, <1>4, <1>5 DEF FlowInv, Connected
  <2>2. \A k \in Clients : client'[k].menu = "off" => client'[k].fd = 0
    BY <1>4 DEF FlowInv, Connected
  <2>3. \A e \in Fds : sock'[e].peer = NoClient => sock'[e].in = <<>> /\ ~sock'[e].eof
    BY <1>3, <1>5 DEF FlowInv, Connected
  <2>4. ASSUME NEW e \in Fds, NEW k \in Clients, ~sock'[e].eof, Ids(k, Wire(e)') # {}
        PROVE  client'[k].fd = e
    <3>1. e # fd
      BY <1>6, <2>4, NoTickets
    <3>2. client[k].fd = e
      BY <1>3, <1>6, <2>4, <3>1 DEF FlowInv, Connected
    <3>3. k # j
      BY <1>5, <3>2, ServerAssumption
    <3> QED
      BY <1>4, <3>2, <3>3
  <2>5. recv'.pc # "idle" => recv'.fd \in Fds /\ sock'[recv'.fd].eof
    BY <1>2, <1>3, <1>5 DEF FlowInv, Connected
  <2> QED
    BY <2>1, <2>2, <2>3, <2>4, <2>5 DEF Connected
<1>8. \A k \in Clients : Unread(k)' = Unread(k) \/ Unread(k)' = <<>>
  BY <1>4, <1>5, <1>6 DEF Unread, FlowInv, Connected
<1>9. \A k \in Clients : client'[k].sent = client[k].sent
  BY <1>4
<1> QED
  BY <1>2, <1>7, <1>8, <1>9, LosingFlow

LEMMA ExitFlow ==
    ASSUME ServerTypes, ServerTypes', FlowInv, NEW j \in Clients, Exit(j)
    PROVE  FlowInv'
<1>1. /\ UNCHANGED <<taskQue, sendQue, task, recv>>
      /\ sock' = [fd \in Fds |-> IF fd = client[j].fd
                                 THEN [sock[fd] EXCEPT !.eof = TRUE] ELSE sock[fd]]
      /\ client' = [client EXCEPT ![j] =
                      [NewClient EXCEPT !.sent = client[j].sent,
                                        !.connects = client[j].connects]]
  BY DEF Exit, serverVars
<1>2. \A e \in Fds : /\ sock'[e].peer = sock[e].peer /\ sock'[e].in = sock[e].in
                     /\ e = client[j].fd => sock'[e].eof
                     /\ e # client[j].fd => sock'[e].eof = sock[e].eof
  BY <1>1 DEF ServerTypes, Socks
<1>3. /\ client'[j].fd = 0 /\ client'[j].sent = client[j].sent
      /\ \A k \in Clients : k # j => client'[k] = client[k]
  BY <1>1 DEF ServerTypes, ClientStates, NewClient
<1>4. \A e \in Fds : Wire(e)' = Wire(e)
  BY <1>2, Wires
<1>5. Connected'
  <2>1. \A k \in Clients : client'[k].fd # 0 =>
           /\ client'[k].fd \in Fds
           /\ sock'[client'[k].fd].peer = k /\ ~sock'[client'[k].fd].eof
    <3>1. ASSUME NEW k \in Clients, client'[k].fd # 0
          PROVE  /\ client'[k].fd \in Fds
                 /\ sock'[client'[k].fd].peer = k /\ ~sock'[client'[k].fd].eof
      <4>1. k # j /\ client'[k].fd = client[k].fd
        BY <1>3, <3>1
      <4>2. /\ client[k].fd \in Fds
            /\ sock[client[k].fd].peer = k /\ ~sock[client[k].fd].eof
        BY <3>1, <4>1 DEF FlowInv, Connected
      <4>3. client[k].fd # client[j].fd
        BY <3>1, <4>1, <4>2, ServerAssumption DEF FlowInv, Connected
      <4> QED
        BY <1>2, <4>1, <4>2, <4>3
    <3> QED
      BY <3>1
  <2>2. \A k \in Clients : client'[k].menu = "off" => client'[k].fd = 0
    BY <1>3 DEF FlowInv, Connected
  <2>3. \A e \in Fds : sock'[e].peer = NoClient => sock'[e].in = <<>> /\ ~sock'[e].eof
    <3>1. \A e \in Fds : sock[e].peer = NoClient => e # client[j].fd
      BY ServerAssumption DEF FlowInv, Connected
    <3> QED
      BY <1>2, <3>1 DEF FlowInv, Connected
  <2>4. ASSUME NEW e \in Fds, NEW k \in Clients, ~sock'[e].eof, Ids(k, Wire(e)') # {}
        PROVE  client'[k].fd = e
    <3>1. client[k].fd = e /\ client[j].fd # e
      BY <1>2, <1>4, <2>4 DEF FlowInv, Connected
    <3> QED
      BY <1>3, <3>1
  <2>5. recv'.pc # "idle" => recv'.fd \in Fds /\ sock'[recv'.fd].eof
    BY <1>1, <1>2 DEF FlowInv, Connected
  <2> QED
    BY <2>1, <2>2, <2>3, <2>4, <2>5 DEF Connected
<1>6. \A k \in Clients : Unread(k)' = Unread(k) \/ Unread(k)' = <<>>
  BY <1>3, <1>4 DEF Unread, FlowInv, Connected
<1>7. \A k \in Clients : client'[k].sent = client[k].sent
  BY <1>3
<1> QED
  BY <1>1, <1>5, <1>6, <1>7, LosingFlow

LEMMA ClientFlow ==
    ASSUME ServerTypes, ServerTypes', FlowInv, NEW j \in Clients, Client(j)
    PROVE  FlowInv'
<1>1. CASE Accept(j)
  BY <1>1, AcceptFlow
<1>2. CASE Exit(j)
  BY <1>2, ExitFlow
<1>3. CASE \/ Regist(j) \/ Login(j) \/ Logout(j) \/ CreateRoom(j) \/ JoinRoom(j) \/ QuitRoom(j)
           \/ RequestStartGame(j) \/ Ready(j) \/ QuitReady(j)
  <2>1. PICK type, cid, gid, name : Call(j, type, cid, gid, name)
    BY <1>3 DEF Regist, Login, Logout, CreateRoom, JoinRoom, QuitRoom, RequestStartGame,
       Ready, QuitReady
  <2>2. PICK id : id = client[j].sent + 1
    OBVIOUS
  <2>3. /\ UNCHANGED <<taskQue, sendQue, task, recv>>
        /\ Send(j, type, id, cid, gid, name)
        /\ client' = [client EXCEPT ![j] =
              [client[j] EXCEPT !.sent = id, !.await = Request(type, id, j, cid, gid, name)]]
    BY <2>1, <2>2 DEF Call, serverVars, ServerTypes
  <2>4. /\ client'[j].fd = client[j].fd /\ client'[j].menu = client[j].menu
        /\ client'[j].sent = id /\ id \in Nat
        /\ \A k \in Clients : k # j => client'[k] = client[k]
    BY <2>2, <2>3 DEF ServerTypes, ClientStates
  <2> QED
    BY <2>2, <2>3, <2>4, SendFlow
<1>4. CASE StartCommand(j)
  <2>1. /\ UNCHANGED <<taskQue, sendQue, task, recv>>
        /\ Send(j, "GAME_START", 0, client[j].cid, client[j].gid, AnyName)
        /\ client' = [client EXCEPT ![j] = [client[j] EXCEPT !.menu = "entering"]]
    BY <1>4 DEF StartCommand, serverVars, ServerTypes
  <2>2. /\ client'[j].fd = client[j].fd /\ client'[j].menu = "entering"
        /\ client'[j].sent = client[j].sent
        /\ \A k \in Clients : k # j => client'[k] = client[k]
    BY <2>1 DEF ServerTypes, ClientStates
  <2> QED
    BY <2>1, <2>2, SendFlow
<1>5. CASE \/ ShowRooms(j) \/ LeaveRooms(j) \/ ShowRoom(j) \/ ShowOldRoom(j)
           \/ AbandonRoom(j) \/ Timeout(j)
  <2>1. UNCHANGED <<taskQue, sendQue, task, recv, sock>>
    BY <1>5 DEF ShowRooms, LeaveRooms, ShowRoom, ShowOldRoom, AbandonRoom, Timeout, serverVars
  <2>2. client[j] \in ClientStates
    BY DEF ServerTypes
  <2>3. /\ client'[j].fd = client[j].fd /\ client'[j].sent = client[j].sent
        /\ client'[j].menu = "off" => client[j].menu = "off"
        /\ \A k \in Clients : k # j => client'[k] = client[k]
    <3>1. CASE Timeout(j)
      <4>1. client' = [client EXCEPT ![j] = After(client[j], -1, 0, NoGid)]
        BY <3>1 DEF Timeout
      <4>2. /\ client'[j] = After(client[j], -1, 0, NoGid)
            /\ \A k \in Clients : k # j => client'[k] = client[k]
        BY <4>1 DEF ServerTypes
      <4> QED
        BY <2>2, <4>2, AfterKeeps
    <3>2. CASE ShowRooms(j) \/ LeaveRooms(j)
      BY <3>2 DEF ShowRooms, LeaveRooms, ServerTypes, ClientStates
    <3>3. CASE ShowRoom(j) \/ ShowOldRoom(j) \/ AbandonRoom(j)
      BY <3>3 DEF ShowRoom, ShowOldRoom, AbandonRoom, ServerTypes, ClientStates
    <3> QED
      BY <1>5, <3>1, <3>2, <3>3
  <2> QED
    BY <2>1, <2>3, QuietFlow
<1> QED
  BY <1>1, <1>2, <1>3, <1>4, <1>5 DEF Client

LEMMA FlowStep ==
    ASSUME ServerTypes, ServerTypes', FlowInv, [Next]_vars
    PROVE  FlowInv'
<1>1. CASE UNCHANGED vars \/ FrameFault \/ WriteFaults
  <2>1. UNCHANGED <<taskQue, sendQue, task, recv, sock, client>>
    BY <1>1 DEF vars, FrameFault, WriteFaults, serverVars, envVars
  <2> QED
    BY <2>1, QuietFlow
<1>2. ASSUME NEW k \in Clients, Client(k) PROVE FlowInv'
  BY <1>2, ClientFlow
<1> QED
  BY <1>1, <1>2, RecvFlow, TaskFlow, DeliverFlow DEF Next

LEMMA InitFlow == Init => FlowInv
<1> SUFFICES ASSUME Init PROVE FlowInv
  OBVIOUS
<1>1. /\ taskQue = <<>> /\ sendQue = <<>> /\ task.pc = "idle" /\ recv.pc = "idle"
      /\ \A fd \in Fds : sock[fd].in = <<>> /\ sock[fd].peer = NoClient /\ ~sock[fd].eof
      /\ \A k \in Clients : client[k].fd = 0 /\ client[k].sent = 0
  BY DEF Init, IdleTask, IdleRecv, FreeSock, NewClient
<1>2. /\ Answering = <<>> /\ Serving = <<>> /\ Waiting = <<>>
      /\ \A k \in Clients : Unread(k) = <<>>
      /\ \A fd \in Fds : Wire(fd) = <<>>
  BY <1>1 DEF Answering, Serving, Waiting, Unread, Wire
<1>3. Connected
  BY <1>1, <1>2, NoTickets DEF Connected
<1>4. \A k \in Clients : Flow(k)
  BY <1>2, NoTickets DEF Flow, Pipe, Before, UpTo
<1> QED
  BY <1>3, <1>4 DEF FlowInv

-----------------------------------------------------------------------------
\* Two pieces of the pipeline, one behind the other.
LEMMA TicketsJoined ==
    ASSUME NEW k, NEW v \in Seq(Tickets), NEW w \in Seq(Tickets),
           Ordered(k, v), Ordered(k, w), Before(k, v, w)
    PROVE  /\ v \o w \in Seq(Tickets) /\ Ordered(k, v \o w)
           /\ Ids(k, v \o w) = Ids(k, v) \cup Ids(k, w)
<1> DEFINE p == v \o w
<1>1. /\ p \in Seq(Tickets) /\ Len(p) = Len(v) + Len(w) /\ Len(v) \in Nat /\ Len(w) \in Nat
      /\ DOMAIN v = 1 .. Len(v) /\ DOMAIN w = 1 .. Len(w) /\ DOMAIN p = 1 .. Len(p)
  BY ConcatProperties, LenProperties
<1>2. \A i \in 1 .. Len(v) + Len(w) : p[i] = IF i <= Len(v) THEN v[i] ELSE w[i - Len(v)]
  BY ConcatProperties
<1>3. ASSUME NEW i \in DOMAIN p
      PROVE  \/ i <= Len(v) /\ i \in DOMAIN v /\ p[i] = v[i]
             \/ i > Len(v) /\ i - Len(v) \in DOMAIN w /\ p[i] = w[i - Len(v)]
  <2>1. CASE i <= Len(v)
    BY <1>1, <1>2, <2>1
  <2>2. CASE i > Len(v)
    BY <1>1, <1>2, <2>2
  <2> QED
    BY <1>1, <2>1, <2>2
<1>4. /\ \A i \in DOMAIN v : i \in DOMAIN p /\ p[i] = v[i]
      /\ \A i \in DOMAIN w : i + Len(v) \in DOMAIN p /\ p[i + Len(v)] = w[i]
  BY <1>1, <1>2
<1>5. \A i, j \in DOMAIN p : i < j /\ i > Len(v) => j > Len(v) /\ i - Len(v) < j - Len(v)
  BY <1>1
<1>6. \A i, j \in DOMAIN p : i < j /\ j <= Len(v) => i <= Len(v)
  BY <1>1
<1>7. \A i \in DOMAIN p : ~(i <= Len(v) /\ i > Len(v))
  BY <1>1
<1> HIDE DEF p
<1>8. /\ \A i \in DOMAIN v : IsCall(k, v[i]) => v[i].id \in Ids(k, v)
      /\ \A i \in DOMAIN w : IsCall(k, w[i]) => w[i].id \in Ids(k, w)
      /\ \A i \in DOMAIN p : IsCall(k, p[i]) => p[i].id \in Ids(k, p)
  BY DEF Ids
<1>9. ASSUME NEW i \in DOMAIN p, NEW j \in DOMAIN p, i < j, IsCall(k, p[i]), IsCall(k, p[j])
      PROVE  p[i].id < p[j].id
  <2>1. CASE j <= Len(v)
    BY <1>3, <1>6, <1>7, <1>9, <2>1 DEF Ordered
  <2>2. CASE i <= Len(v) /\ j > Len(v)
    BY <1>3, <1>7, <1>8, <1>9, <2>2 DEF Before
  <2>3. CASE i > Len(v)
    BY <1>3, <1>5, <1>7, <1>9, <2>3 DEF Ordered
  <2> QED
    BY <1>3, <2>1, <2>2, <2>3
<1>10. Ids(k, p) = Ids(k, v) \cup Ids(k, w)
  <2>1. \A a \in Ids(k, p) : a \in Ids(k, v) \cup Ids(k, w)
    <3>1. \A i \in DOMAIN p : IsCall(k, p[i]) => p[i].id \in Ids(k, v) \cup Ids(k, w)
      BY <1>3, <1>8
    <3> QED
      BY <3>1 DEF Ids
  <2>2. \A a \in Ids(k, v) : a \in Ids(k, p)
    BY <1>4, <1>8 DEF Ids
  <2>3. \A a \in Ids(k, w) : a \in Ids(k, p)
    <3>1. \A i \in DOMAIN w : IsCall(k, w[i]) => w[i].id \in Ids(k, p)
      <4>1. ASSUME NEW i \in DOMAIN w, IsCall(k, w[i]) PROVE w[i].id \in Ids(k, p)
        <5>1. PICK j : j = i + Len(v)
          OBVIOUS
        <5>2. j \in DOMAIN p /\ p[j] = w[i]
          BY <1>4, <5>1
        <5> QED
          BY <1>8, <4>1, <5>2
      <4> QED
        BY <4>1
    <3> QED
      BY <3>1 DEF Ids
  <2> QED
    BY <2>1, <2>2, <2>3
<1> QED
  BY <1>1, <1>9, <1>10 DEF p, Ordered

LEMMA FlowIsOrdered ==
    ASSUME ServerTypes, FlowInv, NEW k \in Clients
    PROVE  Ordered(k, Pipeline(k))
<1>1. Pipe(k, Answering, Serving, Waiting, Unread(k), client[k].sent)
  BY DEF FlowInv, Flow
<1>2. PICK a, s, q, u : a = Answering /\ s = Serving /\ q = Waiting /\ u = Unread(k)
  OBVIOUS
<1>3. a \in Seq(Tickets) /\ s \in Seq(Tickets) /\ q \in Seq(Tickets) /\ u \in Seq(Tickets)
  BY <1>2, QueueTypes
<1>4. Pipe(k, a, s, q, u, client[k].sent)
  BY <1>1, <1>2
<1>5. /\ a \o s \in Seq(Tickets) /\ Ordered(k, a \o s)
      /\ Ids(k, a \o s) = Ids(k, a) \cup Ids(k, s)
  BY <1>3, <1>4, TicketsJoined DEF Pipe
<1>6. Before(k, a \o s, q) /\ Before(k, a \o s, u)
  BY <1>4, <1>5 DEF Pipe, Before
<1>7. /\ (a \o s) \o q \in Seq(Tickets) /\ Ordered(k, (a \o s) \o q)
      /\ Ids(k, (a \o s) \o q) = Ids(k, a \o s) \cup Ids(k, q)
  BY <1>3, <1>4, <1>5, <1>6, TicketsJoined DEF Pipe
<1>8. Before(k, (a \o s) \o q, u)
  BY <1>4, <1>6, <1>7 DEF Pipe, Before
<1>9. Ordered(k, ((a \o s) \o q) \o u)
  BY <1>3, <1>4, <1>7, <1>8, TicketsJoined DEF Pipe
<1> QED
  BY <1>2, <1>9 DEF Pipeline

\* Three threads and three queues neither reorder nor repeat what one client asked, whatever
\* connections are lost or closed meanwhile.
THEOREM RequestsInOrder == Spec => []PipelineInOrder
<1>1. Init => FlowInv
  BY InitFlow
<1>2. ServerInv => ServerTypes
  BY DEF ServerInv
<1>3. ServerInv /\ ServerInv' /\ FlowInv /\ [Next]_vars => FlowInv'
  BY <1>2, FlowStep DEF ServerInv
<1>4. ServerInv /\ FlowInv => PipelineInOrder
  BY <1>2, FlowIsOrdered DEF PipelineInOrder, Ordered
<1> QED
  BY <1>1, <1>3, <1>4, Invariant, PTL DEF Spec

-----------------------------------------------------------------------------
(***************************************************************************)
(* Nothing is lost and nothing comes late (Faults = {}).                   *)
(*                                                                         *)
(* CalmInv compares each client with the tables.  A client learns what the *)
(* server has done when it reads the answer, so the tables fit the client  *)
(* as it is while its request is under way, and as it will be once the     *)
(* answer is written: Fits speaks of the one or the other.                 *)
(***************************************************************************)
InRoomMenus == {"entering", "room", "granted", "ready"}

\* which menu sends which request
Sends == ({"login"} \X {"REGIST", "LOGIN"})
         \cup ({"main"} \X {"LOGOUT", "CREATE_ROOM"})
         \cup {<<"list", "JOIN_ROOM">>}
         \cup ({"room"} \X {"QUIT_ROOM", "REQ_GAME_START", "GAME_READY"})
         \cup {<<"ready", "QUIT_GAME_READY">>}

\* A room with id NoGid or an error of create_game is nobody's: the client that
\* enters it finds out when it asks for the players.
Inside(c) == c.menu \in InRoomMenus /\ c.gid \in Gids

\* What a client knows by itself.
Sane(c) ==
    /\ (c.menu \in InRoomMenus \ {"entering"} \/ c.role # "unknown") => Inside(c)
    /\ c.await # NoRequest =>
          /\ c.await.id # 0
          /\ <<c.menu, c.await.type>> \in Sends
          /\ c.menu # "login" => c.await.cid = c.cid
          /\ c.menu \in {"room", "ready"} => c.await.gid = c.gid

\* What an online table and a room table say of it.
FitsIn(c, players, rooms) ==
    /\ IF c.menu \in {"off", "login"}
       THEN c.fd \notin DOMAIN players
       ELSE c.fd \in DOMAIN players /\ players[c.fd] = c.cid
    /\ Inside(c) =>
          /\ c.gid \in DOMAIN rooms
          /\ c.cid \in rooms[c.gid].opt
          /\ c.menu = "ready" => rooms[c.gid].ready[c.cid] = 1

Fits(c) == FitsIn(c, online, mapGame)

\* A request on its way is the one its client waits for; a command has id 0.
Asks(fd, r) ==
    IF r.type = "GAME_START" THEN r.id = 0
    ELSE /\ r.from \in Clients /\ r.id # 0
         /\ r = client[r.from].await /\ fd = client[r.from].fd

InHand ==
    /\ task.pc \in {"login", "ready"} =>
          /\ task.req.from \in Clients /\ task.req.id # 0
          /\ task.req.type = IF task.pc = "login" THEN "LOGIN" ELSE "REQ_GAME_START"
          /\ client[task.req.from].await.id = task.req.id
          /\ client[task.req.from].await.type = task.req.type
          /\ client[task.req.from].fd = task.fd
    /\ task.pc \in {"start", "notify"} => task.req.id = 0
    /\ task.pc \notin {"start", "notify"} => task.cids = {}

\* so is an answer, and a notice is nobody's answer
Tells(r) ==
    IF r.to = NoClient THEN r.id = 0
    ELSE r.id # 0 /\ r.id = client[r.to].await.id /\ r.fd = client[r.to].fd

Told(k) == \E r \in ToSet(sendQue) : r.to = k

Undisturbed ==
    /\ \A fd \in Fds : ~sock[fd].eof
    /\ recv.pc = "idle"
    /\ ~alive => dangling
    /\ \A fd \in DOMAIN online : \E k \in Clients : client[k].fd = fd

OnTheirWay ==
    /\ \A fd \in Fds : \A r \in ToSet(sock[fd].in) : Asks(fd, r)
    /\ \A x \in ToSet(taskQue) : Asks(x.fd, x.req)
    /\ InHand
    /\ \A r \in ToSet(sendQue) : Tells(r)

TablesFit ==
    \A k \in Clients :
        /\ Sane(client[k])
        /\ ~Told(k) => Fits(client[k])
        /\ \A r \in ToSet(sendQue) :
              r.to = k => Fits(After(client[k], r.res, r.cid, r.gid))

CalmInv == Undisturbed /\ OnTheirWay /\ TablesFit

-----------------------------------------------------------------------------
\* What a queue holds, as one end or the other changes.
LEMMA QueueHolds ==
    ASSUME NEW X, NEW w \in Seq(X)
    PROVE  /\ ToSet(w) \subseteq X
           /\ w = <<>> => ToSet(w) = {}
           /\ \A e \in X : ToSet(Append(w, e)) = ToSet(w) \cup {e}
           /\ w # <<>> => Head(w) \in ToSet(w) /\ ToSet(Tail(w)) \subseteq ToSet(w)
<1>1. DOMAIN w = 1 .. Len(w) /\ Len(w) \in Nat /\ \A i \in DOMAIN w : w[i] \in X
  BY LenProperties, ElementOfSeq
<1>2. w = <<>> => ToSet(w) = {}
  BY DEF ToSet
<1>3. ASSUME NEW e \in X
      PROVE  ToSet(Append(w, e)) = ToSet(w) \cup {e}
  <2>1. /\ DOMAIN Append(w, e) = DOMAIN w \cup {Len(w) + 1}
        /\ \A i \in DOMAIN w : Append(w, e)[i] = w[i]
        /\ Append(w, e)[Len(w) + 1] = e
    BY <1>1, AppendProperties, LenProperties
  <2> QED
    BY <2>1 DEF ToSet
<1>4. ASSUME w # <<>>
      PROVE  Head(w) \in ToSet(w) /\ ToSet(Tail(w)) \subseteq ToSet(w)
  <2>1. Head(w) = w[1] /\ 1 \in DOMAIN w
    BY <1>1, <1>4
  <2>2. \A i \in DOMAIN Tail(w) : i + 1 \in DOMAIN w /\ Tail(w)[i] = w[i + 1]
    BY <1>1, <1>4
  <2> QED
    BY <2>1, <2>2 DEF ToSet
<1> QED
  BY <1>1, <1>2, <1>3, <1>4 DEF ToSet

\* An id in a queue is an id in its tickets.
LEMMA IdsOf ==
    ASSUME NEW k
    PROVE  /\ \A r \in ToSet(sendQue) : r.to = k /\ r.id # 0 => r.id \in Ids(k, Answering)
           /\ \A x \in ToSet(taskQue) :
                 x.req.from = k /\ x.req.id # 0 => x.req.id \in Ids(k, Waiting)
           /\ \A fd : \A r \in ToSet(sock[fd].in) :
                 r.from = k /\ r.id # 0 => r.id \in Ids(k, Wire(fd))
           /\ task.pc # "idle" /\ task.req.from = k /\ task.req.id # 0 =>
                 task.req.id \in Ids(k, Serving)
<1>1. ASSUME NEW r \in ToSet(sendQue), r.to = k, r.id # 0
      PROVE  r.id \in Ids(k, Answering)
  <2>1. PICK i \in DOMAIN sendQue : r = sendQue[i]
    BY DEF ToSet
  <2>2. i \in DOMAIN Answering /\ Answering[i] = Ticket(r.to, r.id)
    BY <2>1 DEF Answering
  <2>3. IsCall(k, Answering[i]) /\ Answering[i].id = r.id
    BY <1>1, <2>2 DEF IsCall, Ticket
  <2> QED
    BY <2>2, <2>3 DEF Ids
<1>2. ASSUME NEW x \in ToSet(taskQue), x.req.from = k, x.req.id # 0
      PROVE  x.req.id \in Ids(k, Waiting)
  <2>1. PICK i \in DOMAIN taskQue : x = taskQue[i]
    BY DEF ToSet
  <2>2. i \in DOMAIN Waiting /\ Waiting[i] = Ticket(x.req.from, x.req.id)
    BY <2>1 DEF Waiting
  <2>3. IsCall(k, Waiting[i]) /\ Waiting[i].id = x.req.id
    BY <1>2, <2>2 DEF IsCall, Ticket
  <2> QED
    BY <2>2, <2>3 DEF Ids
<1>3. ASSUME NEW fd, NEW r \in ToSet(sock[fd].in), r.from = k, r.id # 0
      PROVE  r.id \in Ids(k, Wire(fd))
  <2>1. PICK i \in DOMAIN sock[fd].in : r = sock[fd].in[i]
    BY DEF ToSet
  <2>2. i \in DOMAIN Wire(fd) /\ Wire(fd)[i] = Ticket(r.from, r.id)
    BY <2>1 DEF Wire
  <2>3. IsCall(k, Wire(fd)[i]) /\ Wire(fd)[i].id = r.id
    BY <1>3, <2>2 DEF IsCall, Ticket
  <2> QED
    BY <2>2, <2>3 DEF Ids
<1>4. ASSUME task.pc # "idle", task.req.from = k, task.req.id # 0
      PROVE  task.req.id \in Ids(k, Serving)
  <2>1. Serving = <<Ticket(k, task.req.id)>>
    BY <1>4 DEF Serving
  <2>2. 1 \in DOMAIN Serving /\ Serving[1] = Ticket(k, task.req.id)
    BY <2>1
  <2>3. IsCall(k, Serving[1]) /\ Serving[1].id = task.req.id
    BY <1>4, <2>2 DEF IsCall, Ticket
  <2> QED
    BY <2>2, <2>3 DEF Ids
<1> QED
  BY <1>1, <1>2, <1>3, <1>4

\* A client that has been told has nothing else under way: its requests and answers
\* carry the id it waits for, and FlowInv has them in the order of their ids.
LEMMA ToldHasNoTask ==
    ASSUME ServerTypes, FlowInv, OnTheirWay, NEW k \in Clients, Told(k)
    PROVE  /\ \A x \in ToSet(taskQue) : x.req.type # "GAME_START" => x.req.from # k
           /\ task.pc \in {"login", "ready"} => task.req.from # k
           /\ \A fd \in Fds : \A r \in ToSet(sock[fd].in) :
                 r.type # "GAME_START" => r.from # k
<1>1. PICK a \in ToSet(sendQue) : a.to = k
  BY DEF Told
<1>2. k # NoClient
  BY ServerAssumption
<1>3. a.id # 0 /\ a.id = client[k].await.id
  BY <1>1, <1>2 DEF OnTheirWay, Tells
<1>4. a.id \in Nat
  <2>1. a \in Answers
    BY <1>1, QueueHolds DEF ServerTypes
  <2> QED
    BY <2>1 DEF Answers
<1>5. a.id \in Ids(k, Answering)
  BY <1>1, <1>3, IdsOf
<1>6. /\ Before(k, Answering, Serving) /\ Before(k, Answering, Waiting)
      /\ Before(k, Answering, Unread(k))
  BY DEF FlowInv, Flow, Pipe
<1>7. ~(a.id < a.id)
  BY <1>4
<1>8. a.id \notin Ids(k, Serving) /\ a.id \notin Ids(k, Waiting) /\ a.id \notin Ids(k, Unread(k))
  BY <1>5, <1>6, <1>7 DEF Before
<1>9. ASSUME NEW x \in ToSet(taskQue), x.req.type # "GAME_START", x.req.from = k
      PROVE  FALSE
  <2>1. x.req.id = a.id
    BY <1>3, <1>9 DEF OnTheirWay, Asks
  <2> QED
    BY <1>3, <1>8, <1>9, <2>1, IdsOf
<1>10. ASSUME task.pc \in {"login", "ready"}, task.req.from = k
       PROVE  FALSE
  <2>1. task.req.id = a.id /\ task.pc # "idle"
    BY <1>3, <1>10 DEF OnTheirWay, InHand
  <2> QED
    BY <1>3, <1>8, <1>10, <2>1, IdsOf
<1>11. ASSUME NEW fd \in Fds, NEW r \in ToSet(sock[fd].in), r.type # "GAME_START", r.from = k
       PROVE  FALSE
  <2>1. r.id = a.id /\ fd = client[k].fd
    BY <1>3, <1>11 DEF OnTheirWay, Asks
  <2>2. Unread(k) = Wire(fd)
    BY <2>1, ServerAssumption DEF Unread
  <2> QED
    BY <1>3, <1>8, <1>11, <2>1, <2>2, IdsOf
<1> QED
  BY <1>9, <1>10, <1>11

\* What a client answers to: where each call leads, and what it keeps.
LEMMA AfterShows ==
    ASSUME NEW c \in ClientStates, NEW res \in Int, NEW cid, NEW gid
    PROVE  LET d == After(c, res, cid, gid)
               t == c.await.type
           IN  /\ d.fd = c.fd /\ d.await = NoRequest
               /\ t = "REGIST" => d.menu = c.menu /\ d.gid = c.gid /\ d.role = c.role
               /\ t = "LOGIN" => /\ d.gid = c.gid /\ d.role = c.role
                                 /\ d.menu = IF res = 0 THEN "main" ELSE c.menu
                                 /\ d.cid = IF res = 0 THEN cid ELSE c.cid
               /\ t = "LOGOUT" => d.menu = "login" /\ d.gid = c.gid /\ d.role = c.role
               /\ t \in {"CREATE_ROOM", "JOIN_ROOM"} =>
                     /\ d.cid = c.cid /\ d.role = c.role
                     /\ d.menu = IF res = 0 THEN "entering" ELSE "main"
                     /\ d.gid = IF res = 0 THEN gid ELSE c.gid
               /\ t = "QUIT_ROOM" => d.cid = c.cid /\ d.menu = "main" /\ d.role = "unknown"
               /\ t \in {"REQ_GAME_START", "GAME_READY", "QUIT_GAME_READY"} =>
                     d.cid = c.cid /\ d.gid = c.gid /\ d.role = c.role
               /\ t = "REQ_GAME_START" => d.menu = IF res = 0 THEN "granted" ELSE "entering"
               /\ t = "GAME_READY" => d.menu = "ready"
               /\ t = "QUIT_GAME_READY" => d.menu = "entering"
<1> DEFINE d == [c EXCEPT !.await = NoRequest]
<1>1. d.fd = c.fd /\ d.menu = c.menu /\ d.cid = c.cid /\ d.gid = c.gid /\ d.role = c.role
      /\ d.await = NoRequest
  BY DEF ClientStates
<1>2. ASSUME NEW m
      PROVE  LET e == [d EXCEPT !.menu = m] IN
             e.fd = c.fd /\ e.menu = m /\ e.cid = c.cid /\ e.gid = c.gid /\ e.role = c.role
             /\ e.await = NoRequest
  BY DEF ClientStates
<1>3. LET e == [d EXCEPT !.cid = cid] IN
      e.fd = c.fd /\ e.menu = c.menu /\ e.cid = cid /\ e.gid = c.gid /\ e.role = c.role
      /\ e.await = NoRequest
  BY DEF ClientStates
<1>4. LET e == [d EXCEPT !.menu = "main", !.cid = cid] IN
      e.fd = c.fd /\ e.menu = "main" /\ e.cid = cid /\ e.gid = c.gid /\ e.role = c.role
      /\ e.await = NoRequest
  BY DEF ClientStates
<1>5. LET e == [d EXCEPT !.menu = "entering", !.gid = gid, !.list = {}] IN
      e.fd = c.fd /\ e.menu = "entering" /\ e.cid = c.cid /\ e.gid = gid /\ e.role = c.role
      /\ e.await = NoRequest
  BY DEF ClientStates
<1>6. LET e == [d EXCEPT !.menu = "main", !.list = {}] IN
      e.fd = c.fd /\ e.menu = "main" /\ e.cid = c.cid /\ e.gid = c.gid /\ e.role = c.role
      /\ e.await = NoRequest
  BY DEF ClientStates
<1>7. LET e == [d EXCEPT !.menu = "main", !.gid = NoGid, !.role = "unknown"] IN
      e.fd = c.fd /\ e.menu = "main" /\ e.cid = c.cid /\ e.role = "unknown"
      /\ e.await = NoRequest
  BY DEF ClientStates
<1> QED
  BY <1>1, <1>2, <1>3, <1>4, <1>5, <1>6, <1>7 DEF After

\* The two calls that lead into a room.
LEMMA EnteringShows ==
    ASSUME NEW c \in ClientStates, NEW res \in Int, NEW cid, NEW gid,
           c.await.type \in {"CREATE_ROOM", "JOIN_ROOM"}
    PROVE  LET d == After(c, res, cid, gid)
           IN  /\ d.cid = c.cid
               /\ d.menu = IF res = 0 THEN "entering" ELSE "main"
               /\ d.gid = IF res = 0 THEN gid ELSE c.gid
BY AfterShows

-----------------------------------------------------------------------------
\* What the methods of the room table leave to the players who do not ask: their
\* seats and their readiness.
KeepsSeats(x) ==
    \A g \in DOMAIN mapGame : \A c \in mapGame[g].opt :
        c # x => /\ g \in DOMAIN mapGame' /\ c \in mapGame'[g].opt
                 /\ mapGame[g].ready[c] = 1 => mapGame'[g].ready[c] = 1

LEMMA PutSeats ==
    ASSUME NEW h, NEW g, NEW x, Put(h, g),
           h \in DOMAIN mapGame =>
              \A c \in mapGame[h].opt :
                 c # x => c \in g.opt /\ (mapGame[h].ready[c] = 1 => g.ready[c] = 1)
    PROVE  KeepsSeats(x)
BY DEF Put, KeepsSeats

LEMMA SameSeats ==
    ASSUME NEW x, mapGame' = mapGame
    PROVE  KeepsSeats(x)
BY DEF KeepsSeats

LEMMA CreateSeats ==
    ASSUME RoomInv, NEW cid \in Cids, NEW name \in Names, NEW gid \in Gids,
           CreateGame(cid, name, gid)
    PROVE  /\ \A x : KeepsSeats(x)
           /\ CreateGameResult(name, gid) \in Gids =>
                 /\ CreateGameResult(name, gid) \in DOMAIN mapGame'
                 /\ cid \in mapGame'[CreateGameResult(name, gid)].opt
<1>1. U64(-1) \notin Gids /\ U64(-2) \notin Gids
  BY GameServerAssumption DEF U64
<1>2. CreateGameResult(name, gid) \in Gids => CreateGameResult(name, gid) = gid
  BY <1>1 DEF CreateGameResult
<1>3. CASE CreateGameResult(name, gid) = gid
  <2>1. gid \notin DOMAIN mapGame
    BY <1>1, <1>3 DEF CreateGameResult
  <2>2. Put(gid, NewRoom(cid, name))
    BY <1>3 DEF CreateGame
  <2>3. cid \in NewRoom(cid, name).opt
    <3>1. AddClient(NewGame(name), cid).opt = {cid}
      BY DEF AddClient, NewGame
    <3>2. SetRoomOwner(AddClient(NewGame(name), cid)).opt = {cid}
      BY <3>1 DEF SetRoomOwner, AddClient, NewGame
    <3> QED
      BY <3>2 DEF NewRoom, SetReady, SetRoomOwner, AddClient, NewGame
  <2>4. gid \in DOMAIN mapGame' /\ cid \in mapGame'[gid].opt
    BY <2>2, <2>3 DEF Put
  <2>5. \A x : KeepsSeats(x)
    BY <2>1, <2>2, PutSeats
  <2> QED
    BY <1>3, <2>4, <2>5
<1>4. CASE CreateGameResult(name, gid) # gid
  BY <1>2, <1>4, SameSeats DEF CreateGame
<1> QED
  BY <1>3, <1>4

LEMMA JoinSeats ==
    ASSUME RoomInv, NEW gid, NEW cid \in Cids, AddGamePlayer(gid, cid)
    PROVE  /\ \A x : KeepsSeats(x)
           /\ AddGamePlayerResult(gid) = 0 =>
                 gid \in DOMAIN mapGame' /\ cid \in mapGame'[gid].opt
<1>1. CASE AddGamePlayerResult(gid) = 0
  <2> DEFINE m == mapGame[gid]
  <2>1. gid \in DOMAIN mapGame /\ Cardinality(m.opt) # RoomLimit
    BY <1>1 DEF AddGamePlayerResult
  <2>2. GoodRoom(m)
    BY <2>1 DEF RoomInv
  <2>3. Cardinality(m.opt) \in Nat
    BY <2>2, FS_CardinalityType DEF GoodRoom, Members
  <2>4. /\ m \in RawGame /\ IsFiniteSet(m.opt) /\ Cardinality(m.opt) < RoomLimit
        /\ m.ready \in [m.opt -> {0, 1}]
    BY <2>1, <2>2, <2>3 DEF GoodRoom, Members, RoomLimit
  <2> HIDE DEF m
  <2>5. /\ AddClient(m, cid).opt = m.opt \cup {cid}
        /\ \A d \in m.opt : AddClient(m, cid).ready[d] = m.ready[d]
    BY <2>4, AddClientMembers
  <2>6. Put(gid, AddClient(m, cid))
    BY <1>1 DEF AddGamePlayer, m
  <2>7. \A x : KeepsSeats(x)
    BY <2>5, <2>6, PutSeats DEF m
  <2>8. gid \in DOMAIN mapGame' /\ cid \in mapGame'[gid].opt
    BY <2>5, <2>6 DEF Put
  <2> QED
    BY <2>7, <2>8
<1>2. CASE AddGamePlayerResult(gid) # 0
  BY <1>2, SameSeats DEF AddGamePlayer
<1> QED
  BY <1>1, <1>2

LEMMA ReadySeats ==
    ASSUME RoomInv, NEW gid, NEW cid \in Cids, GameReady(gid, cid)
    PROVE  /\ \A x : KeepsSeats(x)
           /\ gid \in DOMAIN mapGame /\ cid \in mapGame[gid].opt =>
                 mapGame'[gid].ready[cid] = 1
<1>1. CASE gid \in DOMAIN mapGame
  <2> DEFINE m == mapGame[gid]
  <2>1. m \in RawGame /\ m.ready \in [m.opt -> {0, 1}]
    BY <1>1 DEF RoomInv, GoodRoom, Members
  <2> HIDE DEF m
  <2>2. /\ SetReady(m, cid).opt = m.opt
        /\ \A d \in m.opt : m.ready[d] = 1 => SetReady(m, cid).ready[d] = 1
        /\ cid \in m.opt => SetReady(m, cid).ready[cid] = 1
    BY <2>1 DEF SetReady, RawGame
  <2>3. Put(gid, SetReady(m, cid))
    BY <1>1 DEF GameReady, m
  <2>4. \A x : KeepsSeats(x)
    BY <2>2, <2>3, PutSeats DEF m
  <2> QED
    BY <2>2, <2>3, <2>4 DEF Put, m
<1>2. CASE gid \notin DOMAIN mapGame
  BY <1>2, SameSeats DEF GameReady
<1> QED
  BY <1>1, <1>2

LEMMA UnreadySeats ==
    ASSUME RoomInv, NEW gid, NEW cid \in Cids, QuitGameReady(gid, cid)
    PROVE  /\ KeepsSeats(cid)
           /\ \A g \in DOMAIN mapGame :
                 g \in DOMAIN mapGame' /\ mapGame'[g].opt = mapGame[g].opt
<1>1. CASE gid \in DOMAIN mapGame
  <2> DEFINE m == mapGame[gid]
  <2>1. m \in RawGame /\ m.ready \in [m.opt -> {0, 1}]
    BY <1>1 DEF RoomInv, GoodRoom, Members
  <2> HIDE DEF m
  <2>2. /\ ClearReady(m, cid).opt = m.opt
        /\ \A d \in m.opt : d # cid => ClearReady(m, cid).ready[d] = m.ready[d]
    BY <2>1 DEF ClearReady, RawGame
  <2>3. Put(gid, ClearReady(m, cid))
    BY <1>1 DEF QuitGameReady, m
  <2>4. KeepsSeats(cid)
    BY <2>2, <2>3, PutSeats DEF m
  <2> QED
    BY <2>2, <2>3, <2>4 DEF Put, m
<1>2. CASE gid \notin DOMAIN mapGame
  BY <1>2, SameSeats DEF QuitGameReady
<1> QED
  BY <1>1, <1>2

\* A player who is in the room leaves it: the process lives, and so do the others.
LEMMA QuitSeats ==
    ASSUME RoomInv, NEW gid \in DOMAIN mapGame, NEW cid \in mapGame[gid].opt,
           RemovePlayer(gid, cid)
    PROVE  KeepsSeats(cid) /\ alive' = alive /\ (dangling => dangling')
<1> DEFINE m == mapGame[gid]
           g == RemoveClient(m, cid)
<1>0. Leave(gid, cid) /\ cid \in m.opt
  BY DEF RemovePlayer
<1>1. GoodRoom(m)
  BY DEF RoomInv
<1>2. m \in RawGame /\ m.ready \in [m.opt -> {0, 1}]
  BY <1>1 DEF GoodRoom, Members
<1>3. g.opt = m.opt \ {cid} /\ \A d \in g.opt : g.ready[d] = m.ready[d]
  <2> HIDE DEF m
  <2> QED
    BY <1>2 DEF RemoveClient, RawGame
<1>4. CASE g.opt = {}
  <2>1. Erase(gid) /\ alive' = alive
    BY <1>0, <1>4 DEF Leave
  <2>2. \A c \in m.opt : c = cid
    BY <1>3, <1>4
  <2>3. KeepsSeats(cid)
    BY <2>1, <2>2 DEF Erase, KeepsSeats
  <2> QED
    BY <2>1, <2>3 DEF Erase
<1>5. CASE g.opt # {}
  <2>1. /\ Put(gid, IF g.owner = cid THEN SetRoomOwner(g) ELSE g)
        /\ dangling' = (dangling \/ g.senders > 0) /\ alive' = alive
    BY <1>0, <1>5 DEF Leave
  <2>2. Members(g)
    BY <1>1, <1>5, RemoveClientMembers
  <2> HIDE DEF g, m
  <2>3. /\ SetRoomOwner(g).opt = g.opt
        /\ \A d \in g.opt : g.ready[d] = 1 => SetRoomOwner(g).ready[d] = 1
    BY <2>2 DEF Members, SetRoomOwner, RawGame
  <2>4. PICK n : Put(gid, n) /\ (n = g \/ n = SetRoomOwner(g))
    BY <2>1
  <2>5. \A d \in m.opt : d # cid => d \in n.opt /\ (m.ready[d] = 1 => n.ready[d] = 1)
    BY <1>3, <2>3, <2>4
  <2>6. KeepsSeats(cid)
    BY <2>4, <2>5, PutSeats DEF m
  <2> QED
    BY <2>1, <2>6
<1> QED
  BY <1>4, <1>5

LEMMA StartSeats ==
    ASSUME RoomInv, NEW gid, GameStart(gid)
    PROVE  \A x : KeepsSeats(x)
<1>1. CASE gid \in DOMAIN mapGame
  <2> DEFINE m == mapGame[gid]
             n == [m EXCEPT !.exit = FALSE, !.senders = @ + 1]
  <2>1. m \in RawGame
    BY <1>1 DEF RoomInv, GoodRoom, Members
  <2>2. n.opt = m.opt /\ n.ready = m.ready
    <3> HIDE DEF m
    <3> QED
      BY <2>1 DEF RawGame
  <2>3. Put(gid, n)
    BY <1>1 DEF GameStart
  <2> HIDE DEF n
  <2> QED
    BY <2>2, <2>3, PutSeats
<1>2. CASE gid \notin DOMAIN mapGame
  BY <1>2, SameSeats DEF GameStart
<1> QED
  BY <1>1, <1>2

-----------------------------------------------------------------------------
\* One descriptor carries one client.
LEMMA FdsDiffer ==
    ASSUME FlowInv, NEW k \in Clients, NEW j \in Clients, j # k, client[k].fd \in Fds
    PROVE  client[j].fd # client[k].fd
BY ServerAssumption DEF FlowInv, Connected

\* The tables fit a client while only another one's seat and entry change.
LEMMA FitsKept ==
    ASSUME OneFdPerPlayer, NEW d, FitsIn(d, online, mapGame),
           NEW fd, d.fd # fd, NEW x, KeepsSeats(x),
           (fd \in DOMAIN online /\ online[fd] = x) \/ (\A y : KeepsSeats(y)),
           \A e : e # fd => /\ e \in DOMAIN online' <=> e \in DOMAIN online
                            /\ e \in DOMAIN online => online'[e] = online[e]
    PROVE  FitsIn(d, online', mapGame')
<1>1. PICK y : KeepsSeats(y) /\ (Inside(d) => d.cid # y)
  <2>1. CASE fd \in DOMAIN online /\ online[fd] = x
    <3>1. Inside(d) => d.fd \in DOMAIN online /\ online[d.fd] = d.cid
      BY DEF FitsIn, Inside, InRoomMenus
    <3>2. Inside(d) => d.cid # x
      BY <2>1, <3>1 DEF OneFdPerPlayer
    <3> QED
      BY <3>2
  <2>2. CASE \A y : KeepsSeats(y)
    <3>1. PICK y : y # d.cid
      <4>1. d.cid # 0 \/ d.cid # 1
        OBVIOUS
      <4> QED
        BY <4>1
    <3> QED
      BY <2>2, <3>1
  <2> QED
    BY <2>1, <2>2
<1>2. Inside(d) =>
         /\ d.gid \in DOMAIN mapGame' /\ d.cid \in mapGame'[d.gid].opt
         /\ d.menu = "ready" => mapGame'[d.gid].ready[d.cid] = 1
  BY <1>1 DEF FitsIn, KeepsSeats
<1>3. IF d.menu \in {"off", "login"}
      THEN d.fd \notin DOMAIN online'
      ELSE d.fd \in DOMAIN online' /\ online'[d.fd] = d.cid
  BY DEF FitsIn
<1> QED
  BY <1>2, <1>3 DEF FitsIn

\* The request that is taken next.
LEMMA HeadAsks ==
    ASSUME ServerTypes, FlowInv, CalmInv, NEW type, NextTask(type), type # "GAME_START"
    PROVE  LET r == Head(taskQue).req
               k == r.from
           IN  /\ k \in Clients /\ r = client[k].await /\ r.id # 0 /\ r.type = type
               /\ Head(taskQue).fd = client[k].fd /\ client[k].fd \in Fds
               /\ ~Told(k) /\ Sane(client[k]) /\ FitsIn(client[k], online, mapGame)
               /\ <<client[k].menu, type>> \in Sends
               /\ client[k].menu # "login" => r.cid = client[k].cid
               /\ client[k].menu \in {"room", "ready"} => r.gid = client[k].gid
<1> DEFINE r == Head(taskQue).req
           k == r.from
<1>1. taskQue # <<>> /\ r.type = type
  BY DEF NextTask
<1>2. Head(taskQue) \in ToSet(taskQue) /\ Head(taskQue).fd \in Fds
  <2>1. taskQue \in Seq([fd : Fds, req : Requests])
    BY DEF ServerTypes
  <2>2. Head(taskQue) \in ToSet(taskQue)
    BY <1>1, <2>1, QueueHolds
  <2> QED
    BY <1>1, <2>2, TakenTypes
<1>3. /\ k \in Clients /\ r.id # 0 /\ r = client[k].await /\ Head(taskQue).fd = client[k].fd
  BY <1>1, <1>2 DEF CalmInv, OnTheirWay, Asks
<1>4. ~Told(k)
  BY <1>1, <1>2, <1>3, ToldHasNoTask DEF CalmInv
<1>5. Sane(client[k]) /\ FitsIn(client[k], online, mapGame)
  BY <1>3, <1>4 DEF CalmInv, TablesFit, Fits
<1>6. client[k].await # NoRequest
  BY <1>3 DEF NoRequest, Request
<1> HIDE DEF r, k
<1>7. /\ <<client[k].menu, type>> \in Sends
      /\ client[k].menu # "login" => r.cid = client[k].cid
      /\ client[k].menu \in {"room", "ready"} => r.gid = client[k].gid
  BY <1>1, <1>3, <1>5, <1>6 DEF Sane, r
<1> QED
  BY <1>1, <1>2, <1>3, <1>4, <1>5, <1>7 DEF r, k

\* What a handler owes: the answer fits the client it is for, and the others see no change.
LEMMA AnsweredCalm ==
    ASSUME ServerTypes, ServerTypes', FlowInv, CalmInv, NEW k \in Clients, ~Told(k),
           NEW a \in Answers, sendQue' = Append(sendQue, a),
           a.to = k, a.id # 0, a.id = client[k].await.id, a.fd = client[k].fd,
           ToSet(taskQue') \subseteq ToSet(taskQue), InHand',
           UNCHANGED <<recv, sock, client>>,
           FitsIn(After(client[k], a.res, a.cid, a.gid), online', mapGame'),
           \A d : d.fd # client[k].fd /\ FitsIn(d, online, mapGame)
                     => FitsIn(d, online', mapGame'),
           DOMAIN online' \subseteq DOMAIN online \cup {client[k].fd},
           ~alive' => dangling'
    PROVE  CalmInv'
<1>1. Undisturbed'
  BY DEF CalmInv, Undisturbed
<1>2. ToSet(sendQue') = ToSet(sendQue) \cup {a} /\ ToSet(sendQue) \subseteq Answers
  <2>1. sendQue \in Seq(Answers)
    BY DEF ServerTypes
  <2> QED
    BY <2>1, QueueHolds
<1>3. \A r : Tells(r)' <=> Tells(r)
  BY DEF Tells
<1>4. Tells(a)
  BY ServerAssumption DEF Tells
<1>5. \A fd, r : Asks(fd, r)' <=> Asks(fd, r)
  BY DEF Asks
<1>6. OnTheirWay'
  <2>1. \A fd \in Fds : \A r \in ToSet(sock'[fd].in) : Asks(fd, r)'
    BY <1>5 DEF CalmInv, OnTheirWay
  <2>2. \A x \in ToSet(taskQue') : Asks(x.fd, x.req)'
    BY <1>5 DEF CalmInv, OnTheirWay
  <2>3. \A r \in ToSet(sendQue') : Tells(r)'
    BY <1>2, <1>3, <1>4 DEF CalmInv, OnTheirWay
  <2> QED
    BY <2>1, <2>2, <2>3 DEF OnTheirWay
<1>7. client[k].fd \in Fds
  BY DEF Answers
<1>8. ASSUME NEW j \in Clients
      PROVE  /\ Sane(client'[j])
             /\ ~Told(j)' => FitsIn(client'[j], online', mapGame')
             /\ \A r \in ToSet(sendQue') : r.to = j =>
                   FitsIn(After(client'[j], r.res, r.cid, r.gid), online', mapGame')
  <2>1. Sane(client[j]) /\ client' = client
    BY DEF CalmInv, TablesFit
  <2>2. CASE j = k
    <3>1. \A r \in ToSet(sendQue') : r.to = j => r = a
      BY <1>2, <2>2 DEF Told
    <3>2. Told(j)'
      BY <1>2, <2>2 DEF Told
    <3> QED
      BY <2>1, <2>2, <3>1, <3>2
  <2>3. CASE j # k
    <3>1. client[j].fd # client[k].fd
      BY <1>7, <2>3, FdsDiffer
    <3>2. \A r \in ToSet(sendQue') : r.to = j => r \in ToSet(sendQue)
      BY <1>2, <2>3
    <3>3. ~Told(j)' => FitsIn(client[j], online, mapGame)
      BY <1>2 DEF Told, CalmInv, TablesFit, Fits
    <3>4. ASSUME NEW r \in ToSet(sendQue'), r.to = j
          PROVE  FitsIn(After(client[j], r.res, r.cid, r.gid), online', mapGame')
      <4>1. r \in Answers /\ client[j] \in ClientStates
        BY <1>2, <3>2, <3>4 DEF ServerTypes
      <4>2. r.res \in Int
        BY <4>1 DEF Answers
      <4>3. After(client[j], r.res, r.cid, r.gid).fd = client[j].fd
        BY <4>1, <4>2, AfterShows
      <4>4. FitsIn(After(client[j], r.res, r.cid, r.gid), online, mapGame)
        BY <3>2, <3>4 DEF CalmInv, TablesFit, Fits
      <4> QED
        BY <3>1, <4>3, <4>4
    <3> QED
      BY <2>1, <3>1, <3>3, <3>4
  <2> QED
    BY <2>2, <2>3
<1>9. TablesFit'
  BY <1>8 DEF TablesFit, Fits, Told, Sane, Inside
<1> QED
  BY <1>1, <1>6, <1>9 DEF CalmInv

LEMMA SentFrom ==
    ASSUME NEW m
    PROVE  /\ <<m, "REGIST">> \in Sends \/ <<m, "LOGIN">> \in Sends => m = "login"
           /\ <<m, "LOGOUT">> \in Sends \/ <<m, "CREATE_ROOM">> \in Sends => m = "main"
           /\ <<m, "JOIN_ROOM">> \in Sends => m = "list"
           /\ <<m, "QUIT_ROOM">> \in Sends \/ <<m, "REQ_GAME_START">> \in Sends
                 \/ <<m, "GAME_READY">> \in Sends => m = "room"
           /\ <<m, "QUIT_GAME_READY">> \in Sends => m = "ready"
BY DEF Sends

LEMMA SockFdIs ==
    ASSUME ServerTypes, OneFdPerPlayer, NEW fd \in DOMAIN online
    PROVE  SockFdOf(online[fd]) = fd
<1>1. fd \in Nat /\ fd <= fd
  BY ServerAssumption DEF ServerTypes
<1>2. \A e \in DOMAIN online : online[e] = online[fd] => e = fd
  BY DEF OneFdPerPlayer
<1>3. IsPlayerOnline(online[fd])
  BY DEF IsPlayerOnline
<1> QED
  BY <1>1, <1>2, <1>3 DEF SockFdOf

\* a handler that takes a request and answers it in one action
LEMMA ServedCalm ==
    ASSUME ServerTypes, ServerTypes', FlowInv, CalmInv,
           NEW type, NextTask(type), type # "GAME_START",
           NEW res \in Int, NEW cid \in Cids, NEW gid \in Words, Serve(res, cid, gid),
           UNCHANGED <<recv, sock, client>>,
           NEW k \in Clients, k = Head(taskQue).req.from,
           FitsIn(After(client[k], res, cid, gid), online', mapGame'),
           \A d : d.fd # client[k].fd /\ FitsIn(d, online, mapGame)
                     => FitsIn(d, online', mapGame'),
           DOMAIN online' \subseteq DOMAIN online \cup {client[k].fd},
           ~alive' => dangling'
    PROVE  CalmInv'
<1> DEFINE r == Head(taskQue).req
<1>1. /\ r = client[k].await /\ r.id # 0 /\ Head(taskQue).fd = client[k].fd /\ ~Told(k)
  BY HeadAsks
<1>2. taskQue # <<>> /\ task.pc = "idle"
  BY DEF NextTask
<1>3. PICK a : a = Answer(Taken("idle"), res, cid, gid)
  OBVIOUS
<1>4. a \in Answers
  BY <1>2, <1>3, TakenTypes, AnswerType
<1>5. sendQue' = Append(sendQue, a) /\ taskQue' = Tail(taskQue) /\ task' = task
  BY <1>3 DEF Serve
<1>6. /\ a.to = k /\ a.id # 0 /\ a.id = client[k].await.id /\ a.fd = client[k].fd
      /\ a.res = res /\ a.cid = cid /\ a.gid = gid
  BY <1>1, <1>3 DEF Answer, Taken
<1>7. ToSet(taskQue') \subseteq ToSet(taskQue)
  BY <1>2, <1>5, QueueHolds DEF ServerTypes
<1>8. InHand'
  BY <1>2, <1>5 DEF InHand, CalmInv, OnTheirWay
<1> QED
  BY <1>1, <1>4, <1>5, <1>6, <1>7, <1>8, AnsweredCalm

\* do_regiser, do_logout
LEMMA AccountsCalm ==
    ASSUME ServerInv, ServerTypes', FlowInv, CalmInv, DoRegist \/ DoLogout
    PROVE  CalmInv'
<1> USE DEF ServerInv
<1> DEFINE r == Head(taskQue).req
<1>0. ~alive => dangling
  BY DEF CalmInv, Undisturbed
<1>1. CASE DoRegist
  <2>1. NextTask("REGIST") /\ UNCHANGED <<mapGame, alive, dangling, online, recv, sock, client>>
    BY <1>1 DEF DoRegist, gameVars, envVars
  <2>2. PICK k \in Clients : k = r.from
    BY <2>1, HeadAsks
  <2>3. /\ FitsIn(client[k], online, mapGame) /\ client[k].menu = "login"
        /\ client[k].await.type = "REGIST"
    BY <2>1, <2>2, HeadAsks, SentFrom
  <2>4. client[k] \in ClientStates /\ 0 \in Cids /\ NoGid \in Words
    BY ServerAssumption DEF ServerTypes, Words
  <2>5. ASSUME NEW res \in Int, NEW cid \in Cids
        PROVE  FitsIn(After(client[k], res, cid, NoGid), online', mapGame')
    <3>1. PICK d : d = After(client[k], res, cid, NoGid)
      OBVIOUS
    <3>2. d.menu = "login" /\ d.fd = client[k].fd
      BY <2>3, <2>4, <3>1, AfterShows
    <3>3. d.fd \notin DOMAIN online'
      BY <2>1, <2>3, <3>2 DEF FitsIn
    <3>4. FitsIn(d, online', mapGame')
      BY <3>2, <3>3 DEF FitsIn, Inside, InRoomMenus
    <3> QED
      BY <3>1, <3>4
  <2>6. PICK res \in Int, cid \in Cids : Serve(res, cid, NoGid)
    <3>1. CASE IsClientExisted(r.name)
      BY <1>1, <2>4, <3>1 DEF DoRegist
    <3>2. CASE ~IsClientExisted(r.name)
      <4>1. Serve(0, Len(clientInfo) + 1, NoGid)
        BY <1>1, <3>2 DEF DoRegist
      <4>2. r.name \in Logins
        <5>1. taskQue # <<>> /\ r.type = "REGIST"
          BY <2>1 DEF NextTask
        <5> QED
          BY <5>1, TakenTypes DEF Requests, WellNamed
      <4>3. Len(clientInfo) + 1 \in Cids
        BY <3>2, <4>2, IdsSuffice
      <4> QED
        BY <4>1, <4>3
    <3> QED
      BY <3>1, <3>2
  <2> HIDE DEF r
  <2>7. FitsIn(After(client[k], res, cid, NoGid), online', mapGame')
    BY <2>5
  <2> QED
    BY <1>0, <2>1, <2>2, <2>4, <2>6, <2>7, ServedCalm DEF r
<1>2. CASE DoLogout
  <2>1. /\ NextTask("LOGOUT") /\ Serve(0, 0, NoGid)
        /\ UNCHANGED <<mapGame, alive, dangling, recv, sock, client>>
    BY <1>2 DEF DoLogout, TaskFrame, gameVars, envVars
  <2>2. PICK k \in Clients : k = r.from
    BY <2>1, HeadAsks
  <2>3. /\ FitsIn(client[k], online, mapGame) /\ client[k].menu = "main"
        /\ client[k].await.type = "LOGOUT" /\ r.cid = client[k].cid
    BY <2>1, <2>2, HeadAsks, SentFrom
  <2>4. client[k] \in ClientStates /\ 0 \in Cids /\ NoGid \in Words /\ 0 \in Int
    BY ServerAssumption DEF ServerTypes, Words
  <2>5. client[k].fd \in DOMAIN online /\ online[client[k].fd] = client[k].cid
    BY <2>3 DEF FitsIn
  <2>6. SockFdOf(r.cid) = client[k].fd /\ client[k].fd # -1
    BY <2>3, <2>5, SockFdIs, ServerAssumption DEF ServerTypes
  <2>7. RemoveFd(client[k].fd)
    BY <1>2, <2>6 DEF DoLogout
  <2>8. /\ DOMAIN online' = DOMAIN online \ {client[k].fd}
        /\ \A e \in DOMAIN online' : online'[e] = online[e]
    BY <2>7 DEF RemoveFd
  <2>9. FitsIn(After(client[k], 0, 0, NoGid), online', mapGame')
    <3>1. PICK d : d = After(client[k], 0, 0, NoGid)
      OBVIOUS
    <3>2. d.menu = "login" /\ d.fd = client[k].fd
      BY <2>3, <2>4, <3>1, AfterShows
    <3>3. FitsIn(d, online', mapGame')
      BY <2>8, <3>2 DEF FitsIn, Inside, InRoomMenus
    <3> QED
      BY <3>1, <3>3
  <2>10. \A y : KeepsSeats(y)
    BY <2>1, SameSeats
  <2>11. \A d : d.fd # client[k].fd /\ FitsIn(d, online, mapGame) => FitsIn(d, online', mapGame')
    BY <2>8, <2>10, FitsKept
  <2> HIDE DEF r
  <2> QED
    BY <1>0, <2>1, <2>2, <2>4, <2>8, <2>9, <2>11, ServedCalm DEF r
<1> QED
  BY <1>1, <1>2

LEMMA AfterKeepsFd ==
    ASSUME ServerTypes, NEW k \in Clients, NEW res, NEW cid, NEW gid
    PROVE  After(client[k], res, cid, gid).fd = client[k].fd
<1>1. client[k] \in ClientStates
  BY DEF ServerTypes
<1> QED
  BY <1>1, AfterKeeps

\* the handlers of rooms leave the online table alone
LEMMA RoomServedCalm ==
    ASSUME ServerInv, ServerTypes', FlowInv, CalmInv,
           NEW type, NextTask(type), type # "GAME_START",
           NEW res \in Int, NEW gid \in Words, Serve(res, 0, gid),
           UNCHANGED <<online, recv, sock, client>>,
           NEW k \in Clients, k = Head(taskQue).req.from, client[k].menu \notin {"off", "login"},
           KeepsSeats(client[k].cid),
           NEW d, d = After(client[k], res, 0, gid),
           d.menu \notin {"off", "login"}, d.fd = client[k].fd, d.cid = client[k].cid,
           Inside(d) => /\ d.gid \in DOMAIN mapGame'
                        /\ d.cid \in mapGame'[d.gid].opt
                        /\ d.menu = "ready" => mapGame'[d.gid].ready[d.cid] = 1,
           ~alive' => dangling'
    PROVE  CalmInv'
<1> USE DEF ServerInv
<1>1. FitsIn(client[k], online, mapGame)
  BY HeadAsks
<1>2. client[k].fd \in DOMAIN online /\ online[client[k].fd] = client[k].cid
  BY <1>1 DEF FitsIn
<1>3. client[k] \in ClientStates /\ 0 \in Cids
  BY ServerAssumption DEF ServerTypes
<1>4. FitsIn(After(client[k], res, 0, gid), online', mapGame')
  <2>1. FitsIn(d, online', mapGame')
    BY <1>2 DEF FitsIn
  <2> QED
    BY <2>1
<1>5. \A e : e.fd # client[k].fd /\ FitsIn(e, online, mapGame) => FitsIn(e, online', mapGame')
  BY <1>2, FitsKept
<1>6. DOMAIN online' \subseteq DOMAIN online \cup {client[k].fd}
  OBVIOUS
<1> QED
  BY <1>3, <1>4, <1>5, <1>6, ServedCalm

LEMMA EntersCalm ==
    ASSUME ServerInv, ServerTypes', RoomInv, FlowInv, CalmInv, DoCreateRoom \/ DoJoinRoom
    PROVE  CalmInv'
<1> DEFINE r == Head(taskQue).req
<1>0. ServerTypes /\ (~alive => dangling)
  BY DEF CalmInv, Undisturbed, ServerInv
<1>1. UNCHANGED <<online, recv, sock, client>> /\ taskQue # <<>>
  BY DEF DoCreateRoom, DoJoinRoom, TaskFrame, envVars, NextTask
<1>2. r \in Requests /\ r.cid \in Cids /\ r.gid \in Words
  BY <1>0, <1>1, TakenTypes DEF Requests
<1>3. CASE DoCreateRoom
  <2>1. NextTask("CREATE_ROOM")
    BY <1>3 DEF DoCreateRoom
  <2>2. PICK k \in Clients : k = r.from
    BY <1>0, <2>1, HeadAsks
  <2>3. /\ client[k].menu = "main" /\ client[k].await.type = "CREATE_ROOM"
        /\ r.cid = client[k].cid /\ client[k] \in ClientStates
    BY <1>0, <2>1, <2>2, HeadAsks, SentFrom DEF ServerTypes
  <2>4. PICK gid \in Gids : /\ CreateGame(r.cid, r.name, gid)
                            /\ Serve(CreateRes(CreateGameResult(r.name, gid)), 0,
                                     CreateGameResult(r.name, gid))
    BY <1>3 DEF DoCreateRoom
  <2>5. PICK g : g = CreateGameResult(r.name, gid)
    OBVIOUS
  <2>6. g \in Words
    BY <2>5 DEF CreateGameResult, Words
  <2>7. PICK res \in {0, -1} : res = CreateRes(g)
    BY DEF CreateRes
  <2>8. r.name \in Names
    BY <1>2, <2>1 DEF NextTask, Requests, WellNamed
  <2>9. /\ \A x : KeepsSeats(x)
        /\ g \in Gids => g \in DOMAIN mapGame' /\ r.cid \in mapGame'[g].opt
    BY <1>2, <2>4, <2>5, <2>8, CreateSeats
  <2>10. PICK d : d = After(client[k], res, 0, g)
    OBVIOUS
  <2>11. /\ d.cid = client[k].cid /\ d.menu \in {"entering", "main"}
         /\ d.menu = "entering" => d.gid = g
    <3>1. /\ res \in Int /\ d = After(client[k], res, 0, g)
          /\ client[k].await.type = "CREATE_ROOM" /\ client[k] \in ClientStates
      BY <2>3, <2>7, <2>10
    <3> HIDE DEF r
    <3>2. /\ d.cid = client[k].cid
          /\ d.menu = IF res = 0 THEN "entering" ELSE "main"
          /\ d.gid = IF res = 0 THEN g ELSE client[k].gid
      BY <3>1, EnteringShows
    <3> QED
      BY <3>2
  <2>12. Serve(res, 0, g) /\ (~alive' => dangling')
    BY <1>0, <2>4, <2>5, <2>7 DEF CreateGame
  <2>13. d.fd = client[k].fd
    BY <1>0, <2>10, AfterKeepsFd
  <2>14. Inside(d) => d.gid \in DOMAIN mapGame' /\ d.cid \in mapGame'[d.gid].opt
    BY <2>3, <2>9, <2>11 DEF Inside, InRoomMenus
  <2> QED
    BY <1>1, <2>1, <2>2, <2>3, <2>6, <2>9, <2>10, <2>11, <2>12, <2>13,
       <2>14, RoomServedCalm
<1>4. CASE DoJoinRoom
  <2>1. NextTask("JOIN_ROOM")
    BY <1>4 DEF DoJoinRoom
  <2>2. PICK k \in Clients : k = r.from
    BY <1>0, <2>1, HeadAsks
  <2>3. /\ client[k].menu = "list" /\ client[k].await.type = "JOIN_ROOM"
        /\ r.cid = client[k].cid /\ client[k] \in ClientStates
    BY <1>0, <2>1, <2>2, HeadAsks, SentFrom DEF ServerTypes
  <2>4. AddGamePlayer(r.gid, r.cid) /\ Serve(AddGamePlayerResult(r.gid), 0, r.gid)
    BY <1>4 DEF DoJoinRoom
  <2>5. PICK res \in {0, -1, -2} : res = AddGamePlayerResult(r.gid)
    BY DEF AddGamePlayerResult
  <2>6. /\ \A x : KeepsSeats(x)
        /\ res = 0 => r.gid \in DOMAIN mapGame' /\ r.cid \in mapGame'[r.gid].opt
    BY <1>2, <2>4, <2>5, JoinSeats
  <2>7. PICK d : d = After(client[k], res, 0, r.gid)
    OBVIOUS
  <2>8. /\ d.cid = client[k].cid /\ d.menu \in {"entering", "main"}
        /\ d.menu = "entering" => d.gid = r.gid /\ res = 0
    <3>1. PICK g : g = r.gid
      OBVIOUS
    <3>2. /\ res \in Int /\ d = After(client[k], res, 0, g)
          /\ client[k].await.type = "JOIN_ROOM" /\ client[k] \in ClientStates
      BY <2>3, <2>5, <2>7, <3>1
    <3> HIDE DEF r
    <3>3. /\ d.cid = client[k].cid
          /\ d.menu = IF res = 0 THEN "entering" ELSE "main"
          /\ d.gid = IF res = 0 THEN g ELSE client[k].gid
      BY <3>2, EnteringShows
    <3> QED
      BY <3>1, <3>3
  <2>9. Serve(res, 0, r.gid) /\ (~alive' => dangling')
    BY <1>0, <2>4, <2>5 DEF AddGamePlayer
  <2>10. Inside(d) => d.gid \in DOMAIN mapGame' /\ d.cid \in mapGame'[d.gid].opt
    BY <2>3, <2>6, <2>8 DEF Inside, InRoomMenus
  <2>11. /\ k = Head(taskQue).req.from /\ client[k].menu \notin {"off", "login"}
         /\ KeepsSeats(client[k].cid) /\ d.menu \notin {"off", "login", "ready"} /\ res \in Int
    BY <2>2, <2>3, <2>5, <2>6, <2>8
  <2>12. PICK g : g = r.gid
    OBVIOUS
  <2>13. g \in Words /\ Serve(res, 0, g) /\ d = After(client[k], res, 0, g)
    BY <1>2, <2>7, <2>9, <2>12
  <2>14. d.fd = client[k].fd
    BY <1>0, <2>13, AfterKeepsFd
  <2> HIDE DEF r
  <2> QED
    BY <1>1, <2>1, <2>8, <2>9, <2>10, <2>11, <2>13, <2>14, RoomServedCalm
<1> QED
  BY <1>3, <1>4

LEMMA MembersCalm ==
    ASSUME ServerInv, ServerTypes', RoomInv, FlowInv, CalmInv,
           DoQuitRoom \/ DoGameReady \/ DoQuitGameReady
    PROVE  CalmInv'
<1> DEFINE r == Head(taskQue).req
<1>0. ServerTypes /\ (~alive => dangling)
  BY DEF CalmInv, Undisturbed, ServerInv
<1>1. UNCHANGED <<online, recv, sock, client>> /\ taskQue # <<>>
  BY DEF DoQuitRoom, DoGameReady, DoQuitGameReady, TaskFrame, envVars, NextTask
<1>2. r \in Requests /\ r.cid \in Cids /\ r.gid \in Words
  BY <1>0, <1>1, TakenTypes DEF Requests
<1>3. PICK type \in {"QUIT_ROOM", "GAME_READY", "QUIT_GAME_READY"} : NextTask(type)
  BY DEF DoQuitRoom, DoGameReady, DoQuitGameReady
<1>4. PICK k \in Clients : k = r.from
  BY <1>0, <1>3, HeadAsks
<1>5. /\ client[k].menu = IF type = "QUIT_GAME_READY" THEN "ready" ELSE "room"
      /\ client[k].await.type = type /\ r.type = type
      /\ r.cid = client[k].cid /\ r.gid = client[k].gid /\ client[k] \in ClientStates
  BY <1>0, <1>3, <1>4, HeadAsks, SentFrom DEF ServerTypes
<1>6. r.gid \in Gids /\ r.gid \in DOMAIN mapGame /\ r.cid \in mapGame[r.gid].opt
  <2>1. Sane(client[k]) /\ FitsIn(client[k], online, mapGame)
    BY <1>0, <1>3, <1>4, HeadAsks
  <2>2. Inside(client[k])
    BY <1>5, <2>1 DEF Sane, InRoomMenus
  <2> QED
    BY <1>5, <2>1, <2>2 DEF FitsIn, Inside
<1>7. CASE DoQuitRoom
  <2>1. type = "QUIT_ROOM" /\ RemovePlayer(r.gid, r.cid) /\ Serve(0, 0, r.gid)
    BY <1>3, <1>7 DEF DoQuitRoom, NextTask
  <2>2. KeepsSeats(r.cid) /\ alive' = alive /\ (dangling => dangling')
    BY <1>6, <2>1, QuitSeats
  <2>3. PICK d : d = After(client[k], 0, 0, r.gid)
    OBVIOUS
  <2>4. d.cid = client[k].cid /\ d.menu = "main"
    BY <1>5, <2>1, <2>3, AfterShows
  <2>5. ~Inside(d)
    BY <2>4 DEF Inside, InRoomMenus
  <2>9. d.fd = client[k].fd
    <3>1. PICK m : m = 0
      OBVIOUS
    <3>2. PICK g : g = r.gid
      OBVIOUS
    <3>3. After(client[k], m, m, g).fd = client[k].fd
      BY <1>0, AfterKeepsFd
    <3> QED
      BY <2>3, <3>1, <3>2, <3>3
  <2> QED
    BY <1>0, <1>1, <1>2, <1>3, <1>4, <1>5, <2>1, <2>2, <2>3, <2>4, <2>5, <2>9, RoomServedCalm,
       SMTT(30)
<1>8. CASE DoGameReady
  <2>1. type = "GAME_READY" /\ GameReady(r.gid, r.cid) /\ Serve(0, 0, r.gid)
    BY <1>3, <1>6, <1>8 DEF DoGameReady, NextTask, ReadyRes
  <2>2. /\ \A x : KeepsSeats(x)
        /\ mapGame'[r.gid].ready[r.cid] = 1
    BY <1>2, <1>6, <2>1, ReadySeats
  <2>3. PICK d : d = After(client[k], 0, 0, r.gid)
    OBVIOUS
  <2>4. d.cid = client[k].cid /\ d.menu = "ready" /\ d.gid = client[k].gid
    <3> HIDE DEF r
    <3>1. client[k].await.type = "GAME_READY" /\ 0 \in Int
      BY <1>5, <2>1
    <3> QED
      BY <1>5, <2>3, <3>1, AfterShows
  <2>5. r.gid \in DOMAIN mapGame' /\ r.cid \in mapGame'[r.gid].opt
    <3>1. PICK x : x # r.cid /\ KeepsSeats(x)
      <4>1. r.cid # 0 \/ r.cid # 1
        OBVIOUS
      <4> QED
        BY <2>2, <4>1
    <3> QED
      BY <1>6, <3>1 DEF KeepsSeats
  <2>6. ~alive' => dangling'
    BY <1>0, <2>1 DEF GameReady
  <2>9. d.fd = client[k].fd
    <3>1. PICK m : m = 0
      OBVIOUS
    <3>2. PICK g : g = r.gid
      OBVIOUS
    <3>3. After(client[k], m, m, g).fd = client[k].fd
      BY <1>0, AfterKeepsFd
    <3> QED
      BY <2>3, <3>1, <3>2, <3>3
  <2> QED
    BY <1>1, <1>2, <1>3, <1>4, <1>5, <2>1, <2>2, <2>3, <2>4, <2>5, <2>6,
       <2>9, RoomServedCalm
<1>9. CASE DoQuitGameReady
  <2>1. type = "QUIT_GAME_READY" /\ QuitGameReady(r.gid, r.cid) /\ Serve(0, 0, r.gid)
    BY <1>3, <1>6, <1>9 DEF DoQuitGameReady, NextTask, ReadyRes
  <2>2. /\ KeepsSeats(r.cid)
        /\ r.gid \in DOMAIN mapGame' /\ r.cid \in mapGame'[r.gid].opt
    BY <1>2, <1>6, <2>1, UnreadySeats
  <2>3. PICK d : d = After(client[k], 0, 0, r.gid)
    OBVIOUS
  <2>4. d.cid = client[k].cid /\ d.menu = "entering" /\ d.gid = client[k].gid
    BY <1>5, <2>1, <2>3, AfterShows
  <2>5. ~alive' => dangling'
    BY <1>0, <2>1 DEF QuitGameReady
  <2>9. d.fd = client[k].fd
    <3>1. PICK m : m = 0
      OBVIOUS
    <3>2. PICK g : g = r.gid
      OBVIOUS
    <3>3. After(client[k], m, m, g).fd = client[k].fd
      BY <1>0, AfterKeepsFd
    <3> QED
      BY <2>3, <3>1, <3>2, <3>3
  <2> QED
    BY <1>1, <1>2, <1>3, <1>4, <1>5, <2>1, <2>2, <2>3, <2>4, <2>5, <2>9,
       RoomServedCalm
<1> QED
  BY <1>7, <1>8, <1>9

\* Steps of the task thread that tell no client anything.
LEMMA WorkingCalm ==
    ASSUME ServerTypes, OneFdPerPlayer, CalmInv, InHand',
           ToSet(taskQue') \subseteq ToSet(taskQue), ToSet(sendQue) \subseteq ToSet(sendQue'),
           \A r \in ToSet(sendQue') \ ToSet(sendQue) : r.to = NoClient /\ r.id = 0,
           UNCHANGED <<online, recv, sock, client>>,
           \A y : KeepsSeats(y), ~alive' => dangling'
    PROVE  CalmInv'
<1>1. Undisturbed'
  BY DEF CalmInv, Undisturbed
<1>2. OnTheirWay'
  <2>1. \A fd, r : Asks(fd, r)' <=> Asks(fd, r)
    BY DEF Asks
  <2>2. \A r : Tells(r)' <=> Tells(r)
    BY DEF Tells
  <2>3. \A r : r.to = NoClient /\ r.id = 0 => Tells(r)
    BY DEF Tells
  <2>4. \A fd \in Fds : \A r \in ToSet(sock'[fd].in) : Asks(fd, r)'
    BY <2>1 DEF CalmInv, OnTheirWay
  <2>5. \A x \in ToSet(taskQue') : Asks(x.fd, x.req)'
    BY <2>1 DEF CalmInv, OnTheirWay
  <2>6. \A r \in ToSet(sendQue') : Tells(r)'
    BY <2>2, <2>3 DEF CalmInv, OnTheirWay
  <2> QED
    BY <2>4, <2>5, <2>6 DEF OnTheirWay
<1>3. ASSUME NEW d, FitsIn(d, online, mapGame)
      PROVE  FitsIn(d, online', mapGame')
  <2>1. PICK fd : d.fd # fd
    <3>1. d.fd # 0 \/ d.fd # 1
      OBVIOUS
    <3> QED
      BY <3>1
  <2> QED
    BY <1>3, <2>1, FitsKept
<1>4. ASSUME NEW j \in Clients
      PROVE  /\ Sane(client'[j])
             /\ ~Told(j)' => FitsIn(client'[j], online', mapGame')
             /\ \A r \in ToSet(sendQue') : r.to = j =>
                   FitsIn(After(client'[j], r.res, r.cid, r.gid), online', mapGame')
  <2>1. Sane(client[j]) /\ client' = client
    BY DEF CalmInv, TablesFit
  <2>2. ~Told(j)' => FitsIn(client[j], online, mapGame)
    BY DEF Told, CalmInv, TablesFit, Fits
  <2>3. \A r \in ToSet(sendQue') : r.to = j => r \in ToSet(sendQue)
    BY ServerAssumption
  <2>4. \A r \in ToSet(sendQue') : r.to = j =>
           FitsIn(After(client[j], r.res, r.cid, r.gid), online, mapGame)
    BY <2>3 DEF CalmInv, TablesFit, Fits
  <2> QED
    BY <1>3, <2>1, <2>2, <2>4
<1>5. TablesFit'
  BY <1>4 DEF TablesFit, Fits, Told, Sane, Inside
<1> QED
  BY <1>1, <1>2, <1>5 DEF CalmInv

LEMMA TakenCalm ==
    ASSUME ServerInv, FlowInv, CalmInv, DoLoginCheck \/ ReqGameStartNums \/ GameStartList
    PROVE  CalmInv'
<1> USE DEF ServerInv
<1> DEFINE r == Head(taskQue).req
<1>1. /\ taskQue # <<>> /\ task.pc = "idle" /\ taskQue' = Tail(taskQue)
      /\ UNCHANGED <<sendQue, online, mapGame, dangling, alive, recv, sock, client>>
  BY DEF DoLoginCheck, ReqGameStartNums, GameStartList, NextTask, TakeTo, TaskFrame, envVars,
     gameVars
<1>2. /\ taskQue \in Seq([fd : Fds, req : Requests]) /\ r \in Requests
  BY <1>1, TakenTypes DEF ServerTypes
<1>3. Head(taskQue) \in ToSet(taskQue) /\ ToSet(taskQue') \subseteq ToSet(taskQue)
  BY <1>1, <1>2, QueueHolds
<1>4. Asks(Head(taskQue).fd, r) /\ (~alive' => dangling')
  BY <1>1, <1>3 DEF CalmInv, OnTheirWay, Undisturbed
<1>5. \A y : KeepsSeats(y)
  BY <1>1, SameSeats
<1>6. CASE DoLoginCheck
  <2>1. r.type = "LOGIN"
    BY <1>6 DEF DoLoginCheck, NextTask
  <2>2. /\ task'.pc = "login" /\ task'.fd = Head(taskQue).fd /\ task'.cids = {}
        /\ task'.req.type = r.type /\ task'.req.id = r.id /\ task'.req.from = r.from
    BY <1>2, <1>6 DEF DoLoginCheck, TakeTo, Found, Taken, Requests
  <2>3. InHand'
    <3> HIDE DEF r
    <3> QED
      BY <1>1, <1>4, <2>1, <2>2 DEF InHand, Asks
  <2> QED
    BY <1>1, <1>3, <1>4, <1>5, <2>3, WorkingCalm
<1>7. CASE ReqGameStartNums
  <2>1. r.type = "REQ_GAME_START"
    BY <1>7 DEF ReqGameStartNums, NextTask
  <2>2. /\ task'.pc = "ready" /\ task'.fd = Head(taskQue).fd /\ task'.cids = {}
        /\ task'.req = r
    BY <1>7 DEF ReqGameStartNums, TakeTo, Taken
  <2>3. InHand'
    <3> HIDE DEF r
    <3> QED
      BY <1>1, <1>4, <2>1, <2>2 DEF InHand, Asks
  <2> QED
    BY <1>1, <1>3, <1>4, <1>5, <2>3, WorkingCalm
<1>8. CASE GameStartList
  <2>1. r.type = "GAME_START"
    BY <1>8 DEF GameStartList, NextTask
  <2>2. task'.pc = "start" /\ task'.req = r
    BY <1>8 DEF GameStartList, TakeTo, Taken
  <2>3. InHand'
    <3> HIDE DEF r
    <3> QED
      BY <1>1, <1>4, <2>1, <2>2 DEF InHand, Asks
  <2> QED
    BY <1>1, <1>3, <1>4, <1>5, <2>3, WorkingCalm
<1> QED
  BY <1>6, <1>7, <1>8

\* The request in hand is its client's, who has not been told.
LEMMA HandAsks ==
    ASSUME ServerTypes, FlowInv, CalmInv, task.pc \in {"login", "ready"}
    PROVE  LET k == task.req.from
           IN  /\ k \in Clients /\ client[k].await.id = task.req.id /\ task.req.id # 0
               /\ client[k].await.type = task.req.type /\ client[k].fd = task.fd
               /\ ~Told(k) /\ FitsIn(client[k], online, mapGame)
               /\ task.pc = "login" => task.req.type = "LOGIN" /\ client[k].menu = "login"
               /\ task.pc = "ready" =>
                     task.req.type = "REQ_GAME_START" /\ client[k].menu = "room"
<1> DEFINE k == task.req.from
<1>1. /\ k \in Clients /\ client[k].await.id = task.req.id /\ task.req.id # 0
      /\ client[k].await.type = task.req.type /\ client[k].fd = task.fd
      /\ task.req.type = IF task.pc = "login" THEN "LOGIN" ELSE "REQ_GAME_START"
  BY DEF CalmInv, OnTheirWay, InHand
<1>2. ~Told(k)
  BY <1>1, ToldHasNoTask DEF CalmInv
<1>3. Sane(client[k]) /\ FitsIn(client[k], online, mapGame)
  BY <1>1, <1>2 DEF CalmInv, TablesFit, Fits
<1>4. client[k].await # NoRequest
  BY <1>1 DEF NoRequest, Request
<1>5. <<client[k].menu, client[k].await.type>> \in Sends
  BY <1>3, <1>4 DEF Sane
<1>6. client[k].menu = IF task.pc = "login" THEN "login" ELSE "room"
  BY <1>1, <1>5, SentFrom
<1> QED
  BY <1>1, <1>2, <1>3, <1>6

\* a handler that answers the request in its hand
LEMMA RepliedCalm ==
    ASSUME ServerTypes, ServerTypes', FlowInv, CalmInv, task.pc \in {"login", "ready"},
           NEW res \in Int, NEW cid \in Cids, NEW gid \in Words, Reply(res, cid, gid),
           UNCHANGED <<mapGame, dangling, alive, recv, sock, client>>,
           NEW k \in Clients, k = task.req.from,
           FitsIn(After(client[k], res, cid, gid), online', mapGame'),
           \A d : d.fd # client[k].fd /\ FitsIn(d, online, mapGame)
                     => FitsIn(d, online', mapGame'),
           DOMAIN online' \subseteq DOMAIN online \cup {client[k].fd}
    PROVE  CalmInv'
<1>1. PICK a : a = Answer(task, res, cid, gid)
  OBVIOUS
<1>2. a \in Answers
  BY <1>1, AnswerType DEF ServerTypes, Tasks
<1>3. sendQue' = Append(sendQue, a) /\ taskQue' = taskQue /\ task' = IdleTask
  BY <1>1 DEF Reply
<1>4. /\ ~Told(k) /\ a.to = k /\ a.id # 0 /\ a.id = client[k].await.id /\ a.fd = client[k].fd
      /\ a.res = res /\ a.cid = cid /\ a.gid = gid
  BY <1>1, HandAsks DEF Answer
<1>5. InHand'
  BY <1>3 DEF InHand, IdleTask
<1>6. ~alive' => dangling'
  BY DEF CalmInv, Undisturbed
<1> QED
  BY <1>2, <1>3, <1>4, <1>5, <1>6, AnsweredCalm

LEMMA LoginCalm ==
    ASSUME ServerInv, ServerTypes', FlowInv, CalmInv, DoLoginAdd
    PROVE  CalmInv'
<1> USE DEF ServerInv
<1>1. task.pc = "login" /\ UNCHANGED <<mapGame, dangling, alive, recv, sock, client>>
  BY DEF DoLoginAdd, TaskFrame, envVars, gameVars
<1>2. PICK k \in Clients : k = task.req.from
  BY <1>1, HandAsks
<1>3. /\ client[k].fd = task.fd /\ client[k].await.type = "LOGIN" /\ client[k].menu = "login"
      /\ FitsIn(client[k], online, mapGame) /\ client[k] \in ClientStates
  BY <1>1, <1>2, HandAsks DEF ServerTypes
<1>4. task.fd \notin DOMAIN online
  BY <1>3 DEF FitsIn
<1>5. /\ ~Inside(client[k]) /\ Sane(client[k])
  BY <1>3 DEF Inside, InRoomMenus, CalmInv, TablesFit
<1>6. task.req.cid \in Cids /\ 0 \in Cids /\ NoGid \in Words /\ 0 \in Int /\ -1 \in Int
  BY ServerAssumption DEF ServerTypes, Tasks, Requests, Words
<1>7. \A y : KeepsSeats(y)
  BY <1>1, SameSeats
<1>8. CASE task.ok
  <2>1. AddPlayer(task.fd, task.req.cid) /\ Reply(0, task.req.cid, NoGid)
    BY <1>8 DEF DoLoginAdd
  <2>2. /\ DOMAIN online' = DOMAIN online \cup {task.fd}
        /\ online'[task.fd] = task.req.cid
        /\ \A e \in DOMAIN online : online'[e] = online[e]
    BY <1>4, <2>1 DEF AddPlayer
  <2>3. PICK d : d = After(client[k], 0, task.req.cid, NoGid)
    OBVIOUS
  <2>4. d.menu = "main" /\ d.fd = task.fd /\ d.cid = task.req.cid
    BY <1>3, <1>6, <2>3, AfterShows
  <2>5. FitsIn(d, online', mapGame')
    BY <2>2, <2>4 DEF FitsIn, Inside, InRoomMenus
  <2>6. \A e : e.fd # client[k].fd /\ FitsIn(e, online, mapGame) => FitsIn(e, online', mapGame')
    BY <1>3, <1>7, <2>2, FitsKept
  <2>7. FitsIn(After(client[k], 0, task.req.cid, NoGid), online', mapGame')
    BY <2>3, <2>5
  <2> QED
    BY <1>1, <1>2, <1>3, <1>6, <2>1, <2>2, <2>6, <2>7, RepliedCalm
<1>9. CASE ~task.ok
  <2>1. online' = online /\ Reply(-1, 0, NoGid)
    BY <1>9 DEF DoLoginAdd
  <2>2. PICK d : d = After(client[k], -1, 0, NoGid)
    OBVIOUS
  <2>3. d.menu = "login" /\ d.fd = task.fd
    BY <1>3, <1>6, <2>2, AfterShows
  <2>4. FitsIn(d, online', mapGame')
    BY <1>4, <2>1, <2>3 DEF FitsIn, Inside, InRoomMenus
  <2>5. \A e : e.fd # client[k].fd /\ FitsIn(e, online, mapGame) => FitsIn(e, online', mapGame')
    BY <1>1, <2>1
  <2>6. FitsIn(After(client[k], -1, 0, NoGid), online', mapGame')
    BY <2>2, <2>4
  <2> QED
    BY <1>1, <1>2, <1>6, <2>1, <2>5, <2>6, RepliedCalm
<1> QED
  BY <1>8, <1>9

LEMMA GrantCalm ==
    ASSUME ServerInv, ServerTypes', FlowInv, CalmInv, ReqGameStartReady
    PROVE  CalmInv'
<1> USE DEF ServerInv
<1>1. task.pc = "ready" /\ UNCHANGED <<online, mapGame, dangling, alive, recv, sock, client>>
  BY DEF ReqGameStartReady, TaskFrame, envVars, gameVars
<1>2. PICK k \in Clients : k = task.req.from
  BY <1>1, HandAsks
<1>3. /\ client[k].await.type = "REQ_GAME_START" /\ client[k].menu = "room"
      /\ FitsIn(client[k], online, mapGame) /\ client[k] \in ClientStates
  BY <1>1, <1>2, HandAsks DEF ServerTypes
<1>4. task.req.gid \in Words /\ 0 \in Cids
  BY ServerAssumption DEF ServerTypes, Tasks, Requests
<1>5. PICK res \in {0, -1} : Reply(res, 0, task.req.gid)
  BY DEF ReqGameStartReady
<1>6. PICK d : d = After(client[k], res, 0, task.req.gid)
  OBVIOUS
<1>7. /\ d.cid = client[k].cid /\ d.gid = client[k].gid /\ d.fd = client[k].fd
      /\ d.menu \in {"granted", "entering"}
  <2>1. res \in Int
    BY <1>5
  <2>2. /\ d.cid = client[k].cid /\ d.gid = client[k].gid /\ d.fd = client[k].fd
        /\ d.menu = IF res = 0 THEN "granted" ELSE "entering"
    BY <1>3, <1>6, <2>1, AfterShows
  <2> QED
    BY <2>2
<1>8. FitsIn(d, online', mapGame')
  BY <1>1, <1>3, <1>7 DEF FitsIn, Inside, InRoomMenus
<1>9. FitsIn(After(client[k], res, 0, task.req.gid), online', mapGame') /\ res \in Int
  BY <1>5, <1>6, <1>8
<1>10. \A e : e.fd # client[k].fd /\ FitsIn(e, online, mapGame) => FitsIn(e, online', mapGame')
  BY <1>1
<1> QED
  BY <1>1, <1>2, <1>4, <1>5, <1>9, <1>10, RepliedCalm

LEMMA StartCalm ==
    ASSUME ServerInv, RoomInv, CalmInv, GameStartFrames \/ GameStartNotify \/ GameStartDone
    PROVE  CalmInv'
<1> USE DEF ServerInv
<1>1. UNCHANGED <<online, taskQue, recv, sock, client>> /\ task \in Tasks
  BY DEF GameStartFrames, GameStartNotify, GameStartDone, TaskFrame, envVars, ServerTypes
<1>2. InHand /\ (~alive => dangling) /\ sendQue \in Seq(Answers)
  BY DEF CalmInv, OnTheirWay, Undisturbed, ServerTypes
<1>3. CASE GameStartFrames
  <2>1. /\ GameStart(task.req.gid) /\ task.pc = "start" /\ sendQue' = sendQue
        /\ task' = [task EXCEPT !.pc = "notify"]
    BY <1>3 DEF GameStartFrames
  <2>2. \A y : KeepsSeats(y)
    BY <2>1, StartSeats
  <2>3. ~alive' => dangling'
    BY <1>2, <2>1 DEF GameStart
  <2>4. task'.pc = "notify" /\ task'.req = task.req
    BY <1>1, <2>1 DEF Tasks
  <2>5. InHand'
    BY <1>1, <1>2, <2>1, <2>4 DEF InHand
  <2> QED
    BY <1>1, <2>1, <2>2, <2>3, <2>5, WorkingCalm
<1>4. CASE GameStartNotify
  <2>1. PICK c \in task.cids :
           /\ task' = [task EXCEPT !.cids = @ \ {c}]
           /\ sendQue' = IF SockFdOf(c) > 0 THEN Append(sendQue, StartNotice(SockFdOf(c)))
                                            ELSE sendQue
    BY <1>4 DEF GameStartNotify
  <2>2. task.pc = "notify" /\ UNCHANGED <<mapGame, dangling, alive>>
    BY <1>4 DEF GameStartNotify, gameVars
  <2>3. task'.pc = "notify" /\ task'.req = task.req
    BY <1>1, <2>1, <2>2 DEF Tasks
  <2>4. InHand'
    BY <1>1, <1>2, <2>2, <2>3 DEF InHand
  <2>5. /\ ToSet(sendQue) \subseteq ToSet(sendQue')
        /\ \A r \in ToSet(sendQue') \ ToSet(sendQue) : r.to = NoClient /\ r.id = 0
    <3>1. CASE sendQue' = sendQue
      BY <3>1
    <3>2. CASE SockFdOf(c) > 0
      <4>1. PICK a : a = StartNotice(SockFdOf(c))
        OBVIOUS
      <4>2. sendQue' = Append(sendQue, a)
        BY <2>1, <3>2, <4>1
      <4>3. a \in Answers
        <5>1. IsPlayerOnline(c)
          <6>1. ~(-1 > 0)
            OBVIOUS
          <6> QED
            BY <3>2, <6>1 DEF SockFdOf
        <5>2. SockFdOf(c) \in Fds /\ 0 \in Cids
          BY <5>1, SockFdType, ServerAssumption
        <5> QED
          BY <4>1, <5>2 DEF StartNotice, Answers, MsgTypes, Words
      <4>4. ToSet(sendQue') = ToSet(sendQue) \cup {a}
        BY <1>2, <4>2, <4>3, QueueHolds
      <4> QED
        BY <4>1, <4>4 DEF StartNotice
    <3> QED
      BY <2>1, <3>1, <3>2
  <2>6. \A y : KeepsSeats(y)
    BY <2>2, SameSeats
  <2> QED
    BY <1>1, <1>2, <2>2, <2>4, <2>5, <2>6, WorkingCalm
<1>5. CASE GameStartDone
  <2>1. task' = IdleTask /\ UNCHANGED <<sendQue, mapGame, dangling, alive>>
    BY <1>5 DEF GameStartDone, gameVars
  <2>2. InHand'
    BY <2>1 DEF InHand, IdleTask
  <2>3. \A y : KeepsSeats(y)
    BY <2>1, SameSeats
  <2> QED
    BY <1>1, <1>2, <2>1, <2>2, <2>3, WorkingCalm
<1> QED
  BY <1>3, <1>4, <1>5

-----------------------------------------------------------------------------
\* The receive thread of an undisturbed server reads, and nothing else.
LEMMA ReadCalm ==
    ASSUME ServerTypes, CalmInv, NEW fd \in Fds, Read(fd)
    PROVE  CalmInv'
<1>1. /\ sock[fd].in # <<>> /\ sock' = [sock EXCEPT ![fd].in = Tail(@)]
      /\ taskQue' = Append(taskQue, [fd |-> fd, req |-> Head(sock[fd].in)])
      /\ UNCHANGED <<mapGame, dangling, alive, online, sendQue, task, recv, client>>
  BY DEF Read, gameVars
<1>2. /\ \A e \in Fds : sock'[e].eof = sock[e].eof
      /\ \A e \in Fds : sock'[e].in = IF e = fd THEN Tail(sock[fd].in) ELSE sock[e].in
  BY <1>1 DEF ServerTypes, Socks
<1>3. sock[fd].in \in Seq(Requests) /\ taskQue \in Seq([fd : Fds, req : Requests])
  BY DEF ServerTypes, Socks
<1>4. PICK r : r = Head(sock[fd].in)
  OBVIOUS
<1>5. r \in ToSet(sock[fd].in) /\ ToSet(Tail(sock[fd].in)) \subseteq ToSet(sock[fd].in)
      /\ r \in Requests
  BY <1>1, <1>3, <1>4, QueueHolds
<1>6. PICK x : x = [fd |-> fd, req |-> r]
  OBVIOUS
<1>7. x \in [fd : Fds, req : Requests] /\ x.fd = fd /\ x.req = r
  BY <1>5, <1>6
<1>8. ToSet(taskQue') = ToSet(taskQue) \cup {x}
  <2>1. taskQue' = Append(taskQue, x)
    BY <1>1, <1>4, <1>6
  <2>2. PICK X : X = [fd : Fds, req : Requests]
    OBVIOUS
  <2>3. taskQue \in Seq(X) /\ x \in X
    BY <1>3, <1>7, <2>2
  <2> QED
    BY <2>1, <2>3, QueueHolds
<1>9. \A e, q : Asks(e, q)' <=> Asks(e, q)
  BY <1>1 DEF Asks
<1>10. OnTheirWay'
  <2>1. \A e \in Fds : \A q \in ToSet(sock'[e].in) : Asks(e, q)'
    BY <1>2, <1>5, <1>9 DEF CalmInv, OnTheirWay
  <2>2. \A y \in ToSet(taskQue') : Asks(y.fd, y.req)'
    <3>1. Asks(x.fd, x.req)
      BY <1>5, <1>7 DEF CalmInv, OnTheirWay
    <3> QED
      BY <1>8, <1>9, <3>1 DEF CalmInv, OnTheirWay
  <2>3. InHand' /\ \A a \in ToSet(sendQue') : Tells(a)'
    BY <1>1 DEF CalmInv, OnTheirWay, InHand, Tells
  <2> QED
    BY <2>1, <2>2, <2>3 DEF OnTheirWay
<1>11. Undisturbed'
  BY <1>1, <1>2 DEF CalmInv, Undisturbed
<1>12. TablesFit'
  <2>1. ASSUME NEW j \in Clients
        PROVE  /\ Sane(client'[j])
               /\ ~Told(j)' => FitsIn(client'[j], online', mapGame')
               /\ \A a \in ToSet(sendQue') : a.to = j =>
                     FitsIn(After(client'[j], a.res, a.cid, a.gid), online', mapGame')
    BY <1>1 DEF CalmInv, TablesFit, Fits, Told
  <2> QED
    BY <2>1 DEF TablesFit, Fits, Told, Sane, Inside
<1> QED
  BY <1>10, <1>11, <1>12 DEF CalmInv

\* Where an answer leads a client that knows where it is.
LEMMA AfterSane ==
    ASSUME NEW c \in ClientStates, Sane(c), c.await # NoRequest,
           NEW res \in Int, NEW cid, NEW gid
    PROVE  Sane(After(c, res, cid, gid))
<1> DEFINE t == c.await.type
<1>1. <<c.menu, t>> \in Sends
  BY DEF Sane
<1>2. PICK d : d = After(c, res, cid, gid)
  OBVIOUS
<1>3. d.await = NoRequest
  BY <1>2, AfterShows
<1>4. c.menu \in {"login", "main", "list"} => c.role = "unknown"
  BY DEF Sane, Inside, InRoomMenus
<1>5. CASE t = "REGIST" \/ t = "LOGIN"
  <2>1. c.menu = "login"
    BY <1>1, <1>5, SentFrom
  <2>2. CASE t = "REGIST"
    <3>1. d.menu = "login" /\ d.role = "unknown"
      BY <1>2, <1>4, <2>1, <2>2, AfterShows
    <3> QED
      BY <1>2, <1>3, <3>1 DEF Sane, InRoomMenus
  <2>3. CASE t = "LOGIN"
    <3>1. d.menu \in {"login", "main"} /\ d.role = "unknown"
      <4>1. (d.menu = IF res = 0 THEN "main" ELSE c.menu) /\ d.role = c.role
        BY <1>2, <2>3, AfterShows
      <4> QED
        BY <1>4, <2>1, <4>1
    <3> QED
      BY <1>2, <1>3, <3>1 DEF Sane, InRoomMenus
  <2> QED
    BY <1>5, <2>2, <2>3
<1>6. CASE t \in {"LOGOUT", "CREATE_ROOM", "JOIN_ROOM"}
  <2>1. c.menu \in {"main", "list"}
    BY <1>1, <1>6, SentFrom
  <2>2. d.role = c.role
    BY <1>2, <1>6, AfterShows
  <2>3. d.menu \in {"login", "main", "entering"}
    <3>1. CASE t = "LOGOUT"
      BY <1>2, <3>1, AfterShows
    <3>2. CASE t \in {"CREATE_ROOM", "JOIN_ROOM"}
      <4>1. d.menu = IF res = 0 THEN "entering" ELSE "main"
        BY <1>2, <3>2, AfterShows
      <4> QED
        BY <4>1
    <3> QED
      BY <1>6, <3>1, <3>2
  <2> QED
    BY <1>2, <1>3, <1>4, <2>1, <2>2, <2>3 DEF Sane, InRoomMenus
<1>7. CASE t = "QUIT_ROOM"
  <2>1. d.menu = "main" /\ d.role = "unknown"
    BY <1>2, <1>7, AfterShows
  <2> QED
    BY <1>2, <1>3, <2>1 DEF Sane, InRoomMenus
<1>8. CASE t \in {"REQ_GAME_START", "GAME_READY", "QUIT_GAME_READY"}
  <2>1. c.menu \in {"room", "ready"}
    BY <1>1, <1>8, SentFrom
  <2>2. c.gid \in Gids
    BY <2>1 DEF Sane, Inside, InRoomMenus
  <2>3. d.gid = c.gid
    BY <1>2, <1>8, AfterShows
  <2>4. d.menu \in InRoomMenus
    <3>1. CASE t = "REQ_GAME_START"
      <4>1. d.menu = IF res = 0 THEN "granted" ELSE "entering"
        BY <1>2, <3>1, AfterShows
      <4> QED
        BY <4>1 DEF InRoomMenus
    <3>2. CASE t = "GAME_READY"
      BY <1>2, <3>2, AfterShows DEF InRoomMenus
    <3>3. CASE t = "QUIT_GAME_READY"
      BY <1>2, <3>3, AfterShows DEF InRoomMenus
    <3> QED
      BY <1>8, <3>1, <3>2, <3>3
  <2>5. Inside(d)
    BY <2>2, <2>3, <2>4 DEF Inside
  <2> QED
    BY <1>2, <1>3, <2>5 DEF Sane
<1>9. t \in {"REGIST", "LOGIN", "LOGOUT", "CREATE_ROOM", "JOIN_ROOM", "QUIT_ROOM",
             "REQ_GAME_START", "GAME_READY", "QUIT_GAME_READY"}
  BY <1>1 DEF Sends
<1> QED
  BY <1>5, <1>6, <1>7, <1>8, <1>9

\* The answer that is written first is the only one of its client.
LEMMA ToldOnce ==
    ASSUME ServerTypes, FlowInv, OnTheirWay, sendQue # <<>>,
           NEW k \in Clients, Head(sendQue).to = k, NEW r \in ToSet(Tail(sendQue))
    PROVE  r.to # k
<1> SUFFICES ASSUME r.to = k PROVE FALSE
  OBVIOUS
<1>1. /\ sendQue \in Seq(Answers) /\ Len(sendQue) \in Nat \ {0}
      /\ DOMAIN sendQue = 1 .. Len(sendQue) /\ Head(sendQue) = sendQue[1]
  BY LenProperties, EmptySeq DEF ServerTypes
<1>2. PICK j \in DOMAIN sendQue : r = sendQue[j] /\ 1 < j
  <2>1. PICK i \in DOMAIN Tail(sendQue) : r = Tail(sendQue)[i]
    BY DEF ToSet
  <2>2. i \in Nat \ {0} /\ i + 1 \in DOMAIN sendQue /\ Tail(sendQue)[i] = sendQue[i + 1]
    BY <1>1, <2>1
  <2> QED
    BY <2>1, <2>2
<1>3. 1 \in DOMAIN sendQue /\ sendQue[1] \in ToSet(sendQue) /\ r \in ToSet(sendQue)
  BY <1>1, <1>2 DEF ToSet
<1>4. k # NoClient
  BY ServerAssumption
<1>5. sendQue[1].id # 0 /\ r.id # 0 /\ sendQue[1].id = r.id
  BY <1>1, <1>3, <1>4 DEF OnTheirWay, Tells
<1>6. /\ 1 \in DOMAIN Answering /\ j \in DOMAIN Answering
      /\ Answering[1] = Ticket(k, r.id) /\ Answering[j] = Ticket(k, r.id)
  BY <1>1, <1>2, <1>3, <1>5 DEF Answering
<1>7. IsCall(k, Ticket(k, r.id)) /\ Ticket(k, r.id).id = r.id
  BY <1>5 DEF IsCall, Ticket
<1>8. Ordered(k, Answering)
  BY DEF FlowInv, Flow, Pipe
<1>9. r.id < r.id
  <2>1. /\ IsCall(k, Answering[1]) /\ IsCall(k, Answering[j])
        /\ Answering[1].id = r.id /\ Answering[j].id = r.id
    BY <1>6, <1>7
  <2>2. Answering[1].id < Answering[j].id
    BY <1>2, <1>6, <1>8, <2>1 DEF Ordered
  <2> QED
    BY <2>1, <2>2
<1>10. r.id \in Nat
  <2>1. sendQue[j] \in Answers
    BY <1>1, <1>2, ElementOfSeq
  <2> QED
    BY <1>2, <2>1 DEF Answers
<1> QED
  BY <1>9, <1>10

\* What is written is the head of the queue, and the rest stays in it.
LEMMA QueueIsHeadAndTail ==
    ASSUME NEW X, NEW w \in Seq(X), w # <<>>, NEW a \in ToSet(w)
    PROVE  a = Head(w) \/ a \in ToSet(Tail(w))
<1> SUFFICES ASSUME a # Head(w) PROVE a \in ToSet(Tail(w))
  OBVIOUS
<1>1. PICK i \in DOMAIN w : a = w[i]
  BY DEF ToSet
<1>2. DOMAIN w = 1 .. Len(w) /\ Len(w) \in Nat /\ Head(w) = w[1]
  BY LenProperties
<1>3. i # 1
  BY <1>1, <1>2
<1>4. i - 1 \in DOMAIN Tail(w) /\ Tail(w)[i - 1] = w[i]
  BY <1>2, <1>3
<1> QED
  BY <1>1, <1>4 DEF ToSet

LEMMA DeliverCalm ==
    ASSUME ServerInv, FlowInv, CalmInv, Deliver
    PROVE  CalmInv'
<1> USE DEF ServerInv
<1> DEFINE r == Head(sendQue)
           p == IF sock[r.fd].eof THEN NoClient ELSE sock[r.fd].peer
<1>1. /\ sendQue # <<>> /\ sendQue' = Tail(sendQue)
      /\ client' = IF Awaited(p, r) THEN [client EXCEPT ![p] = After(@, r.res, r.cid, r.gid)]
                                    ELSE client
      /\ UNCHANGED <<mapGame, dangling, alive, online, taskQue, task, recv, sock>>
  BY DEF Deliver, gameVars
<1>2. /\ r \in ToSet(sendQue) /\ ToSet(sendQue') \subseteq ToSet(sendQue)
      /\ ToSet(sendQue) \subseteq Answers
  <2>1. sendQue \in Seq(Answers)
    BY DEF ServerTypes
  <2> QED
    BY <1>1, <2>1, QueueHolds
<1>3. Tells(r) /\ r \in Answers
  BY <1>2 DEF CalmInv, OnTheirWay
<1>4. CASE r.to = NoClient
  <2>1. \A k \in Clients : client[k].await # NoRequest => client[k].await.id # 0
    BY DEF CalmInv, TablesFit, Sane
  <2>2. ~Awaited(p, r)
    BY <1>3, <1>4, <2>1 DEF Tells, Awaited
  <2>3. client' = client
    BY <1>1, <2>2
  <2> HIDE DEF r, p
  <2>4. OnTheirWay'
    <3>1. \A e, q : Asks(e, q)' <=> Asks(e, q)
      BY <2>3 DEF Asks
    <3>2. \A a : Tells(a)' <=> Tells(a)
      BY <2>3 DEF Tells
    <3>3. InHand'
      BY <1>1, <2>3 DEF CalmInv, OnTheirWay, InHand
    <3>4. \A e \in Fds : \A q \in ToSet(sock'[e].in) : Asks(e, q)'
      BY <1>1, <3>1 DEF CalmInv, OnTheirWay
    <3>5. \A x \in ToSet(taskQue') : Asks(x.fd, x.req)'
      BY <1>1, <3>1 DEF CalmInv, OnTheirWay
    <3>6. \A a \in ToSet(sendQue') : Tells(a)'
      BY <1>2, <3>2 DEF CalmInv, OnTheirWay
    <3> QED
      BY <3>3, <3>4, <3>5, <3>6 DEF OnTheirWay
  <2>5. Undisturbed'
    BY <1>1, <2>3 DEF CalmInv, Undisturbed
  <2>6. ASSUME NEW j \in Clients
        PROVE  /\ Sane(client'[j])
               /\ ~Told(j)' => FitsIn(client'[j], online', mapGame')
               /\ \A a \in ToSet(sendQue') : a.to = j =>
                     FitsIn(After(client'[j], a.res, a.cid, a.gid), online', mapGame')
    <3>1. ToSet(sendQue) \subseteq ToSet(sendQue') \cup {r}
      <4>1. \A a \in ToSet(sendQue) : a = Head(sendQue) \/ a \in ToSet(Tail(sendQue))
        BY <1>1, QueueIsHeadAndTail DEF ServerTypes
      <4> QED
        BY <1>1, <4>1 DEF r
    <3>2. ~Told(j)' => ~Told(j)
      BY <1>4, <3>1, ServerAssumption DEF Told
    <3>3. Sane(client[j]) /\ (~Told(j)' => FitsIn(client[j], online, mapGame))
      BY <3>2 DEF CalmInv, TablesFit, Fits
    <3>4. \A a \in ToSet(sendQue') : a.to = j =>
             FitsIn(After(client[j], a.res, a.cid, a.gid), online, mapGame)
      BY <1>2 DEF CalmInv, TablesFit, Fits
    <3> QED
      BY <1>1, <2>3, <3>3, <3>4
  <2>7. TablesFit'
    BY <2>6 DEF TablesFit, Fits, Told, Sane, Inside
  <2> QED
    BY <2>4, <2>5, <2>7 DEF CalmInv
<1>5. CASE r.to # NoClient
  <2>1. PICK k \in Clients : k = r.to
    BY <1>3, <1>5 DEF Answers
  <2>2. r.id # 0 /\ r.id = client[k].await.id /\ r.fd = client[k].fd /\ client[k].fd \in Fds
    BY <1>3, <1>5, <2>1 DEF Tells, Answers
  <2>3. p = k
    BY <2>2, ServerAssumption DEF FlowInv, Connected
  <2>4. client[k].await # NoRequest /\ client[k] \in ClientStates /\ r.res \in Int
    BY <1>3, <2>2 DEF NoRequest, Request, ServerTypes, Answers
  <2>5. PICK d : d = After(client[k], r.res, r.cid, r.gid)
    OBVIOUS
  <2>6. client' = [client EXCEPT ![k] = d]
    BY <1>1, <2>1, <2>2, <2>3, <2>4, <2>5 DEF Awaited
  <2>7. client'[k] = d /\ \A j \in Clients : j # k => client'[j] = client[j]
    BY <2>6 DEF ServerTypes
  <2>8. d.fd = client[k].fd
    BY <2>4, <2>5, AfterShows
  <2>9. Sane(d)
    BY <2>4, <2>5, AfterSane DEF CalmInv, TablesFit
  <2>10. Told(k)
    BY <1>2, <2>1 DEF Told
  <2>11. /\ \A x \in ToSet(taskQue) : x.req.type # "GAME_START" => x.req.from # k
         /\ task.pc \in {"login", "ready"} => task.req.from # k
         /\ \A fd \in Fds : \A q \in ToSet(sock[fd].in) : q.type # "GAME_START" => q.from # k
    BY <2>10, ToldHasNoTask DEF CalmInv
  <2>12. \A a \in ToSet(sendQue') : a.to # k
    BY <1>1, <2>1, ToldOnce DEF CalmInv
  <2>13. FitsIn(d, online, mapGame)
    BY <1>2, <2>1, <2>5 DEF CalmInv, TablesFit, Fits
  <2> HIDE DEF r, p
  <2>14. OnTheirWay'
    <3>1. \A e, q : Asks(e, q) /\ (q.type # "GAME_START" => q.from # k) => Asks(e, q)'
      BY <2>7 DEF Asks
    <3>2. \A a \in ToSet(sendQue') : Tells(a)'
      <4>1. \A a \in ToSet(sendQue') : Tells(a) /\ (a.to = NoClient \/ a.to \in Clients \ {k})
        BY <1>2, <2>12 DEF CalmInv, OnTheirWay, Answers
      <4> QED
        BY <2>7, <4>1 DEF Tells
    <3>3. InHand'
      BY <1>1, <2>7, <2>11 DEF CalmInv, OnTheirWay, InHand
    <3>4. \A e \in Fds : \A q \in ToSet(sock'[e].in) : Asks(e, q)'
      BY <1>1, <2>11, <3>1 DEF CalmInv, OnTheirWay
    <3>5. \A x \in ToSet(taskQue') : Asks(x.fd, x.req)'
      BY <1>1, <2>11, <3>1 DEF CalmInv, OnTheirWay
    <3> QED
      BY <3>2, <3>3, <3>4, <3>5 DEF OnTheirWay
  <2>15. Undisturbed'
    BY <1>1, <2>7, <2>8 DEF CalmInv, Undisturbed
  <2>16. ASSUME NEW j \in Clients
         PROVE  /\ Sane(client'[j])
                /\ ~Told(j)' => FitsIn(client'[j], online', mapGame')
                /\ \A a \in ToSet(sendQue') : a.to = j =>
                      FitsIn(After(client'[j], a.res, a.cid, a.gid), online', mapGame')
    <3>1. CASE j = k
      BY <1>1, <2>7, <2>9, <2>12, <2>13, <3>1
    <3>2. CASE j # k
      <4>1. ~Told(j)' => ~Told(j)
        <5>1. \A a \in ToSet(sendQue) : a = Head(sendQue) \/ a \in ToSet(Tail(sendQue))
          BY <1>1, QueueIsHeadAndTail DEF ServerTypes
        <5> QED
          BY <1>1, <2>1, <3>2, <5>1 DEF Told, r
      <4>2. Sane(client[j]) /\ (~Told(j)' => FitsIn(client[j], online, mapGame))
        BY <4>1 DEF CalmInv, TablesFit, Fits
      <4>3. \A a \in ToSet(sendQue') : a.to = j =>
               FitsIn(After(client[j], a.res, a.cid, a.gid), online, mapGame)
        BY <1>2 DEF CalmInv, TablesFit, Fits
      <4> QED
        BY <1>1, <2>7, <3>2, <4>2, <4>3
    <3> QED
      BY <3>1, <3>2
  <2>17. TablesFit'
    BY <2>16 DEF TablesFit, Fits, Told, Sane, Inside
  <2> QED
    BY <2>14, <2>15, <2>17 DEF CalmInv
<1> QED
  BY <1>4, <1>5

-----------------------------------------------------------------------------
\* A client that waits for nothing has nothing under way, so its turn is the others'
\* business only if it takes something of theirs.
LEMMA ClientTurnCalm ==
    ASSUME ServerTypes, CalmInv, NEW k \in Clients, client[k].await = NoRequest,
           NEW c, client'[k] = c, \A j \in Clients : j # k => client'[j] = client[j],
           c.fd = client[k].fd \/ client[k].fd = 0,
           UNCHANGED <<mapGame, dangling, alive, online, taskQue, sendQue, task, recv>>,
           \A fd \in Fds : sock'[fd].eof = sock[fd].eof,
           \A fd \in Fds : \A r \in ToSet(sock'[fd].in) : r \in ToSet(sock[fd].in) \/ Asks(fd, r)',
           Sane(c), FitsIn(c, online, mapGame)
    PROVE  CalmInv'
<1>1. client[k].await.id = 0
  BY DEF NoRequest, Request
<1>2. \A fd, r : Asks(fd, r) => Asks(fd, r)'
  BY <1>1 DEF Asks
<1>3. \A r \in ToSet(sendQue) : r.to # k
  BY <1>1, ServerAssumption DEF CalmInv, OnTheirWay, Tells
<1>4. \A r \in ToSet(sendQue') : Tells(r)'
  <2>1. ToSet(sendQue) \subseteq Answers
    BY QueueHolds DEF ServerTypes
  <2>2. \A r \in ToSet(sendQue) : Tells(r) /\ r.to # k /\ r.to \in Clients \cup {NoClient}
    BY <1>3, <2>1 DEF CalmInv, OnTheirWay, Answers
  <2> QED
    BY <2>2 DEF Tells
<1>5. InHand'
  BY <1>1 DEF CalmInv, OnTheirWay, InHand
<1>6. OnTheirWay'
  <2>1. \A fd \in Fds : \A r \in ToSet(sock'[fd].in) : Asks(fd, r)'
    BY <1>2 DEF CalmInv, OnTheirWay
  <2>2. \A x \in ToSet(taskQue') : Asks(x.fd, x.req)'
    BY <1>2 DEF CalmInv, OnTheirWay
  <2> QED
    BY <1>4, <1>5, <2>1, <2>2 DEF OnTheirWay
<1>7. Undisturbed'
  <2>1. \A fd \in DOMAIN online : \E j \in Clients : client'[j].fd = fd
    <3>1. 0 \notin DOMAIN online
      BY ServerAssumption DEF ServerTypes
    <3>2. \A j \in Clients : client'[j].fd = client[j].fd \/ client[j].fd = 0
      OBVIOUS
    <3> QED
      BY <3>1, <3>2 DEF CalmInv, Undisturbed
  <2> QED
    BY <2>1 DEF CalmInv, Undisturbed
<1>8. ASSUME NEW j \in Clients
      PROVE  /\ Sane(client'[j])
             /\ ~Told(j)' => FitsIn(client'[j], online', mapGame')
             /\ \A r \in ToSet(sendQue') : r.to = j =>
                   FitsIn(After(client'[j], r.res, r.cid, r.gid), online', mapGame')
  <2>1. CASE j = k
    BY <1>3, <2>1
  <2>2. CASE j # k
    <3>1. Sane(client[j]) /\ client'[j] = client[j] /\ (~Told(j)' => ~Told(j))
      BY <2>2 DEF CalmInv, TablesFit, Told
    <3>2. ~Told(j) => FitsIn(client[j], online, mapGame)
      BY DEF CalmInv, TablesFit, Fits
    <3>3. \A r \in ToSet(sendQue') : r.to = j =>
             FitsIn(After(client[j], r.res, r.cid, r.gid), online, mapGame)
      BY DEF CalmInv, TablesFit, Fits
    <3> QED
      BY <3>1, <3>2, <3>3
  <2> QED
    BY <2>1, <2>2
<1>9. TablesFit'
  BY <1>8 DEF TablesFit, Fits, Told, Sane, Inside
<1> QED
  BY <1>6, <1>7, <1>9 DEF CalmInv

\* A client with nothing under way is in the tables as it is.
LEMMA FreeFits ==
    ASSUME CalmInv, NEW k \in Clients, client[k].await = NoRequest
    PROVE  ~Told(k) /\ Sane(client[k]) /\ FitsIn(client[k], online, mapGame)
<1>1. client[k].await.id = 0
  BY DEF NoRequest, Request
<1>2. ~Told(k)
  BY <1>1, ServerAssumption DEF CalmInv, OnTheirWay, Tells, Told
<1> QED
  BY <1>2 DEF CalmInv, TablesFit, Fits

\* What a message adds to the sockets.
LEMMA SendHolds ==
    ASSUME ServerTypes, NEW k \in Clients, NEW type \in MsgTypes, NEW id \in Nat,
           NEW cid \in Cids, NEW gid \in Words, NEW name \in Labels, WellNamed(type, name),
           Send(k, type, id, cid, gid, name)
    PROVE  /\ \A fd \in Fds : sock'[fd].eof = sock[fd].eof
           /\ \A fd \in Fds : \A r \in ToSet(sock'[fd].in) :
                 \/ r \in ToSet(sock[fd].in)
                 \/ fd = client[k].fd /\ r = Request(type, id, k, cid, gid, name)
<1>1. PICK r : r = Request(type, id, k, cid, gid, name)
  OBVIOUS
<1>2. /\ \A e \in Fds : sock'[e].eof = sock[e].eof
      /\ \A e \in Fds : sock'[e].in = IF e = client[k].fd THEN Append(sock[e].in, r)
                                                          ELSE sock[e].in
  BY <1>1 DEF Send, ServerTypes, Socks
<1>3. r \in Requests
  BY <1>1, SendTypes
<1>4. ASSUME NEW fd \in Fds, NEW q \in ToSet(sock'[fd].in), q \notin ToSet(sock[fd].in)
      PROVE  fd = client[k].fd /\ q = r
  <2>1. sock[fd].in \in Seq(Requests)
    BY DEF ServerTypes, Socks
  <2>2. ToSet(Append(sock[fd].in, r)) = ToSet(sock[fd].in) \cup {r}
    BY <1>3, <2>1, QueueHolds
  <2> QED
    BY <1>2, <1>4, <2>2
<1> QED
  BY <1>1, <1>2, <1>4

\* A call is what its client waits for.
LEMMA CallCalm ==
    ASSUME ServerTypes, CalmInv, NEW k \in Clients, client[k].await = NoRequest,
           NEW type \in MsgTypes, NEW cid \in Cids, NEW gid \in Words, NEW name \in Labels,
           WellNamed(type, name), Call(k, type, cid, gid, name),
           <<client[k].menu, type>> \in Sends,
           client[k].menu # "login" => cid = client[k].cid,
           client[k].menu \in {"room", "ready"} => gid = client[k].gid
    PROVE  CalmInv'
<1>1. PICK id : id = client[k].sent + 1
  OBVIOUS
<1>2. id \in Nat \ {0} /\ client[k] \in ClientStates
  BY <1>1 DEF ServerTypes, ClientStates
<1>3. PICK r : r = Request(type, id, k, cid, gid, name)
  OBVIOUS
<1>4. r.type = type /\ r.id = id /\ r.from = k /\ r.cid = cid /\ r.gid = gid
  BY <1>3 DEF Request
<1>5. PICK c : c = [client[k] EXCEPT !.sent = id, !.await = r]
  OBVIOUS
<1>6. /\ c.fd = client[k].fd /\ c.menu = client[k].menu /\ c.cid = client[k].cid
      /\ c.gid = client[k].gid /\ c.role = client[k].role /\ c.await = r
  BY <1>2, <1>5 DEF ClientStates
<1>7. /\ client' = [client EXCEPT ![k] = c]
      /\ Send(k, type, id, cid, gid, name)
      /\ UNCHANGED <<mapGame, dangling, alive, online, taskQue, sendQue, task, recv>>
  BY <1>1, <1>3, <1>5 DEF Call, ServerTypes, gameVars, serverVars
<1>8. client'[k] = c /\ \A j \in Clients : j # k => client'[j] = client[j]
  BY <1>7 DEF ServerTypes
<1>9. Sane(c) /\ FitsIn(c, online, mapGame)
  <2>1. Sane(client[k]) /\ FitsIn(client[k], online, mapGame)
    BY FreeFits
  <2>2. Sane(c)
    BY <1>2, <1>4, <1>6, <2>1 DEF Sane, Inside
  <2>3. FitsIn(c, online, mapGame)
    BY <1>6, <2>1 DEF FitsIn, Inside
  <2> QED
    BY <2>2, <2>3
<1>10. type # "GAME_START"
  BY DEF Sends
<1>11. \A fd : fd = client[k].fd => Asks(fd, r)'
  BY <1>2, <1>4, <1>6, <1>8, <1>10 DEF Asks
<1>12. /\ \A fd \in Fds : sock'[fd].eof = sock[fd].eof
       /\ \A fd \in Fds : \A q \in ToSet(sock'[fd].in) :
             q \in ToSet(sock[fd].in) \/ (fd = client[k].fd /\ q = r)
  BY <1>2, <1>3, <1>7, SendHolds
<1>13. \A fd \in Fds : \A q \in ToSet(sock'[fd].in) :
          q \in ToSet(sock[fd].in) \/ Asks(fd, q)'
  <2>1. ASSUME NEW fd \in Fds, NEW q \in ToSet(sock'[fd].in), q \notin ToSet(sock[fd].in)
        PROVE  Asks(fd, q)'
    <3>1. fd = client[k].fd /\ q = r
      BY <1>12, <2>1
    <3> QED
      BY <1>11, <3>1
  <2> QED
    BY <2>1
<1> QED
  BY <1>6, <1>7, <1>8, <1>9, <1>12, <1>13, ClientTurnCalm

\* What a client asks of the server.
LEMMA AskingCalm ==
    ASSUME ServerTypes, CalmInv, NEW k \in Clients,
           \/ Regist(k) \/ Login(k) \/ Logout(k) \/ CreateRoom(k) \/ JoinRoom(k) \/ QuitRoom(k)
           \/ RequestStartGame(k) \/ Ready(k) \/ QuitReady(k)
    PROVE  CalmInv'
<1> DEFINE c == client[k]
<1>1. /\ NoGid \in Words /\ 0 \in Cids /\ c.cid \in Cids
      /\ c.gid \in Words /\ AnyName \in Labels /\ c.list \subseteq Gids
      /\ Names \subseteq Labels /\ Logins \cup {NoLogin} \subseteq Labels
  BY NoRequestType, ServerAssumption DEF ServerTypes, ClientStates, Words, Labels
<1>2. c.await = NoRequest
  BY DEF Regist, Login, Logout, CreateRoom, JoinRoom, QuitRoom, RequestStartGame, Ready,
         QuitReady, Free
<1> HIDE DEF c
<1>3. ASSUME NEW type \in MsgTypes \ {"REGIST", "CREATE_ROOM"}
      PROVE  \A name : WellNamed(type, name)
  BY <1>3 DEF WellNamed
<1>4. CASE Regist(k)
  <2>1. PICK name \in Logins : Call(k, "REGIST", 0, NoGid, name)
    BY <1>4 DEF Regist
  <2>2. c.menu = "login" /\ WellNamed("REGIST", name) /\ "REGIST" \in MsgTypes
    BY <1>4 DEF Regist, Free, WellNamed, MsgTypes, c
  <2> QED
    BY <1>1, <1>2, <2>1, <2>2, CallCalm DEF Sends, c
<1>5. CASE Login(k)
  <2>1. PICK name \in Logins \cup {NoLogin} : Call(k, "LOGIN", 0, NoGid, name)
    BY <1>5 DEF Login
  <2>2. c.menu = "login" /\ "LOGIN" \in MsgTypes
    BY <1>5 DEF Login, Free, MsgTypes, c
  <2> QED
    BY <1>1, <1>2, <1>3, <2>1, <2>2, CallCalm DEF Sends, c
<1>6. CASE Logout(k)
  <2>1. c.menu = "main" /\ "LOGOUT" \in MsgTypes /\ Call(k, "LOGOUT", c.cid, NoGid, AnyName)
    BY <1>6 DEF Logout, Free, MsgTypes, c
  <2> QED
    BY <1>1, <1>2, <1>3, <2>1, CallCalm DEF Sends, c
<1>7. CASE CreateRoom(k)
  <2>1. PICK name \in Names : Call(k, "CREATE_ROOM", c.cid, NoGid, name)
    BY <1>7 DEF CreateRoom, c
  <2>2. c.menu = "main" /\ WellNamed("CREATE_ROOM", name) /\ "CREATE_ROOM" \in MsgTypes
    BY <1>7 DEF CreateRoom, Free, WellNamed, MsgTypes, c
  <2> QED
    BY <1>1, <1>2, <2>1, <2>2, CallCalm DEF Sends, c
<1>8. CASE JoinRoom(k)
  <2>1. PICK gid \in c.list : Call(k, "JOIN_ROOM", c.cid, gid, AnyName)
    BY <1>8 DEF JoinRoom, c
  <2>2. c.menu = "list" /\ "JOIN_ROOM" \in MsgTypes /\ gid \in Words
    BY <1>1, <1>8, <2>1 DEF JoinRoom, Free, MsgTypes, Words, c
  <2> QED
    BY <1>1, <1>2, <1>3, <2>1, <2>2, CallCalm DEF Sends, c
<1>9. CASE QuitRoom(k)
  <2>1. c.menu = "room" /\ "QUIT_ROOM" \in MsgTypes /\ Call(k, "QUIT_ROOM", c.cid, c.gid, AnyName)
    BY <1>9 DEF QuitRoom, Free, MsgTypes, c
  <2> QED
    BY <1>1, <1>2, <1>3, <2>1, CallCalm DEF Sends, c
<1>10. CASE RequestStartGame(k)
  <2>1. /\ c.menu = "room" /\ "REQ_GAME_START" \in MsgTypes
        /\ Call(k, "REQ_GAME_START", c.cid, c.gid, AnyName)
    BY <1>10 DEF RequestStartGame, Free, MsgTypes, c
  <2> QED
    BY <1>1, <1>2, <1>3, <2>1, CallCalm DEF Sends, c
<1>11. CASE Ready(k)
  <2>1. /\ c.menu = "room" /\ "GAME_READY" \in MsgTypes
        /\ Call(k, "GAME_READY", c.cid, c.gid, AnyName)
    BY <1>11 DEF Ready, Free, MsgTypes, c
  <2> QED
    BY <1>1, <1>2, <1>3, <2>1, CallCalm DEF Sends, c
<1>12. CASE QuitReady(k)
  <2>1. /\ c.menu = "ready" /\ "QUIT_GAME_READY" \in MsgTypes
        /\ Call(k, "QUIT_GAME_READY", c.cid, c.gid, AnyName)
    BY <1>12 DEF QuitReady, Free, MsgTypes, c
  <2> QED
    BY <1>1, <1>2, <1>3, <2>1, CallCalm DEF Sends, c
<1> QED
  BY <1>4, <1>5, <1>6, <1>7, <1>8, <1>9, <1>10, <1>11, <1>12

\* the command that nobody answers
LEMMA CommandCalm ==
    ASSUME ServerTypes, CalmInv, NEW k \in Clients, StartCommand(k)
    PROVE  CalmInv'
<1>1. /\ client[k].menu = "granted" /\ client[k].await = NoRequest
      /\ client[k] \in ClientStates
      /\ Send(k, "GAME_START", 0, client[k].cid, client[k].gid, AnyName)
      /\ client' = [client EXCEPT ![k].menu = "entering"]
      /\ UNCHANGED <<mapGame, dangling, alive, online, taskQue, sendQue, task, recv>>
  BY DEF StartCommand, Free, ServerTypes, gameVars, serverVars
<1>2. PICK r : r = Request("GAME_START", 0, k, client[k].cid, client[k].gid, AnyName)
  OBVIOUS
<1>3. r.type = "GAME_START" /\ r.id = 0
  BY <1>2 DEF Request
<1>4. PICK c : c = [client[k] EXCEPT !.menu = "entering"]
  OBVIOUS
<1>5. /\ c.menu = "entering" /\ c.fd = client[k].fd /\ c.cid = client[k].cid
      /\ c.gid = client[k].gid /\ c.role = client[k].role /\ c.await = NoRequest
  BY <1>1, <1>4 DEF ClientStates
<1>6. client'[k] = c /\ \A j \in Clients : j # k => client'[j] = client[j]
  BY <1>1, <1>4 DEF ServerTypes
<1>7. Sane(client[k]) /\ FitsIn(client[k], online, mapGame)
  BY <1>1, FreeFits
<1>8. Sane(c) /\ FitsIn(c, online, mapGame)
  BY <1>1, <1>5, <1>7 DEF Sane, FitsIn, Inside, InRoomMenus
<1>9. /\ \A fd \in Fds : sock'[fd].eof = sock[fd].eof
      /\ \A fd \in Fds : \A q \in ToSet(sock'[fd].in) : q \in ToSet(sock[fd].in) \/ q = r
  <2>1. "GAME_START" \in MsgTypes /\ WellNamed("GAME_START", AnyName) /\ 0 \in Nat
    BY DEF MsgTypes, WellNamed
  <2>2. PICK cid, gid : cid = client[k].cid /\ gid = client[k].gid
    OBVIOUS
  <2>3. cid \in Cids /\ gid \in Words /\ AnyName \in Labels
    BY <1>1, <2>2, NoRequestType DEF ClientStates
  <2>4. Send(k, "GAME_START", 0, cid, gid, AnyName)
    BY <1>1, <2>2
  <2>5. r = Request("GAME_START", 0, k, cid, gid, AnyName)
    BY <1>2, <2>2
  <2> QED
    BY <2>1, <2>3, <2>4, <2>5, SendHolds
<1>10. \A fd : Asks(fd, r)'
  BY <1>3 DEF Asks
<1>11. \A fd \in Fds : \A q \in ToSet(sock'[fd].in) : q \in ToSet(sock[fd].in) \/ Asks(fd, q)'
  BY <1>9, <1>10
<1> QED
  BY <1>1, <1>5, <1>6, <1>8, <1>9, <1>11, ClientTurnCalm

\* What a client does on its own or shows of the tables it sees.
LEMMA LookingCalm ==
    ASSUME Faults = {}, ServerTypes, RoomInv, CalmInv, NEW k \in Clients,
           ShowRooms(k) \/ LeaveRooms(k) \/ ShowRoom(k) \/ ShowOldRoom(k) \/ AbandonRoom(k)
    PROVE  CalmInv'
<1>1. client[k].await = NoRequest /\ client[k] \in ClientStates
  BY DEF ShowRooms, LeaveRooms, ShowRoom, ShowOldRoom, AbandonRoom, Free, ServerTypes
<1>2. Sane(client[k]) /\ FitsIn(client[k], online, mapGame)
  BY <1>1, FreeFits
<1>3. UNCHANGED <<mapGame, dangling, alive, online, taskQue, sendQue, task, recv, sock>>
  BY DEF ShowRooms, LeaveRooms, ShowRoom, ShowOldRoom, AbandonRoom, gameVars, serverVars
<1>4. ASSUME NEW c, client'[k] = c, \A j \in Clients : j # k => client'[j] = client[j],
             c.fd = client[k].fd, Sane(c), FitsIn(c, online, mapGame)
      PROVE  CalmInv'
  BY <1>1, <1>3, <1>4, ClientTurnCalm
<1>5. CASE ShowRooms(k) \/ LeaveRooms(k)
  <2>1. client[k].menu \in {"main", "list"}
    BY <1>5 DEF ShowRooms, LeaveRooms, Free
  <2>2. PICK c : c = client'[k]
    OBVIOUS
  <2>3. /\ c.fd = client[k].fd /\ c.menu \in {"main", "list"} /\ c.cid = client[k].cid
        /\ c.role = client[k].role /\ c.await = NoRequest
        /\ \A j \in Clients : j # k => client'[j] = client[j]
    <3>1. CASE ShowRooms(k)
      BY <1>1, <2>2, <3>1 DEF ShowRooms, ServerTypes, ClientStates
    <3>2. CASE LeaveRooms(k)
      BY <1>1, <2>2, <3>2 DEF LeaveRooms, ServerTypes, ClientStates
    <3> QED
      BY <1>5, <3>1, <3>2
  <2>4. Sane(c) /\ FitsIn(c, online, mapGame)
    BY <1>2, <2>1, <2>3 DEF Sane, FitsIn, Inside, InRoomMenus
  <2> QED
    BY <1>4, <2>2, <2>3, <2>4
<1>6. CASE ShowRoom(k)
  <2>1. PICK role : client' = [client EXCEPT ![k].menu = "room", ![k].role = role]
    BY <1>6 DEF ShowRoom
  <2>2. client[k].menu \in {"entering", "room"} /\ client[k].gid \in DOMAIN mapGame
    BY <1>6 DEF ShowRoom, Free
  <2>3. PICK c : c = client'[k]
    OBVIOUS
  <2>4. /\ c.fd = client[k].fd /\ c.menu = "room" /\ c.cid = client[k].cid
        /\ c.gid = client[k].gid /\ c.await = NoRequest
        /\ \A j \in Clients : j # k => client'[j] = client[j]
    BY <1>1, <2>1, <2>3 DEF ServerTypes, ClientStates
  <2>5. client[k].gid \in Gids
    BY <2>2 DEF RoomInv
  <2>6. Sane(c) /\ FitsIn(c, online, mapGame)
    BY <1>2, <2>2, <2>4, <2>5 DEF Sane, FitsIn, Inside, InRoomMenus
  <2> QED
    BY <1>4, <2>3, <2>4, <2>6
<1>7. CASE AbandonRoom(k)
  <2>1. client' = [client EXCEPT ![k].menu = "main", ![k].gid = NoGid, ![k].role = "unknown"]
    BY <1>7 DEF AbandonRoom
  <2>2. client[k].menu \in {"entering", "room"}
    BY <1>7 DEF AbandonRoom, Free
  <2>3. PICK c : c = client'[k]
    OBVIOUS
  <2>4. /\ c.fd = client[k].fd /\ c.menu = "main" /\ c.cid = client[k].cid
        /\ c.role = "unknown" /\ c.await = NoRequest
        /\ \A j \in Clients : j # k => client'[j] = client[j]
    BY <1>1, <2>1, <2>3 DEF ServerTypes, ClientStates
  <2>5. Sane(c) /\ FitsIn(c, online, mapGame)
    BY <1>2, <2>2, <2>4 DEF Sane, FitsIn, Inside, InRoomMenus
  <2> QED
    BY <1>4, <2>3, <2>4, <2>5
<1>8. ~ShowOldRoom(k)
  BY DEF ShowOldRoom
<1> QED
  BY <1>5, <1>6, <1>7, <1>8

\* A client that connects gets a descriptor nobody is online on.
LEMMA AcceptCalm ==
    ASSUME ServerTypes, FlowInv, CalmInv, NEW k \in Clients, Accept(k)
    PROVE  CalmInv'
<1>1. PICK fd \in Fds :
         /\ sock[fd].peer = NoClient
         /\ sock' = [sock EXCEPT ![fd].peer = k]
         /\ client' = [client EXCEPT ![k] =
                    [client[k] EXCEPT !.menu = "login", !.fd = fd, !.connects = @ + 1]]
  BY DEF Accept
<1>2. /\ UNCHANGED <<mapGame, dangling, alive, online, taskQue, sendQue, task, recv>>
      /\ client[k].menu = "off" /\ client[k] \in ClientStates
  BY DEF Accept, gameVars, serverVars, ServerTypes
<1>3. client[k].await = NoRequest
  BY <1>2 DEF CalmInv, TablesFit, Sane, Sends
<1>4. client[k].fd = 0
  BY <1>2 DEF FlowInv, Connected
<1>5. PICK c : c = [client[k] EXCEPT !.menu = "login", !.fd = fd, !.connects = @ + 1]
  OBVIOUS
<1>6. c.fd = fd /\ c.menu = "login" /\ c.role = client[k].role /\ c.await = NoRequest
  BY <1>2, <1>3, <1>5 DEF ClientStates
<1>7. client'[k] = c /\ \A j \in Clients : j # k => client'[j] = client[j]
  BY <1>1, <1>5 DEF ServerTypes
<1>8. \A e \in Fds : sock'[e].eof = sock[e].eof /\ sock'[e].in = sock[e].in
  BY <1>1 DEF ServerTypes, Socks
<1>9. fd \notin DOMAIN online
  BY <1>1, ServerAssumption DEF CalmInv, Undisturbed, FlowInv, Connected
<1>10. Sane(c)
  BY <1>2, <1>3, <1>6 DEF CalmInv, TablesFit, Sane, Inside, InRoomMenus
<1>11. FitsIn(c, online, mapGame)
  BY <1>6, <1>9 DEF FitsIn, Inside, InRoomMenus
<1> QED
  BY <1>2, <1>3, <1>4, <1>7, <1>8, <1>10, <1>11, ClientTurnCalm

LEMMA ClientCalm ==
    ASSUME Faults = {}, ServerTypes, RoomInv, FlowInv, CalmInv, NEW k \in Clients, Client(k)
    PROVE  CalmInv'
<1>1. ~Timeout(k) /\ ~Exit(k)
  BY DEF Timeout, Exit
<1> QED
  BY <1>1, AskingCalm, CommandCalm, LookingCalm, AcceptCalm DEF Client

\* Nothing else happens to a server nobody disturbs.
LEMMA CalmStep ==
    ASSUME Faults = {}, ServerInv, ServerInv', RoomInv, FlowInv, CalmInv, [Next]_vars
    PROVE  CalmInv'
<1>1. ServerTypes /\ ServerTypes'
  BY DEF ServerInv
<1>2. CASE UNCHANGED vars \/ FrameFault
  <2>1. UNCHANGED <<mapGame, dangling, online, taskQue, sendQue, task, recv, sock, client>>
    BY <1>2 DEF vars, gameVars, FrameFault, DanglingSenderFaults, serverVars, envVars
  <2>2. ~alive' => dangling'
    BY <1>2, <2>1 DEF vars, gameVars, FrameFault, DanglingSenderFaults, CalmInv, Undisturbed
  <2>3. Undisturbed' /\ OnTheirWay'
    BY <2>1, <2>2 DEF CalmInv, Undisturbed, OnTheirWay, Asks, InHand, Tells
  <2>4. ASSUME NEW j \in Clients
        PROVE  /\ Sane(client'[j])
               /\ ~Told(j)' => FitsIn(client'[j], online', mapGame')
               /\ \A r \in ToSet(sendQue') : r.to = j =>
                     FitsIn(After(client'[j], r.res, r.cid, r.gid), online', mapGame')
    BY <2>1 DEF CalmInv, TablesFit, Fits, Told
  <2>5. TablesFit'
    BY <2>4 DEF TablesFit, Fits, Told, Sane, Inside
  <2> QED
    BY <2>3, <2>5 DEF CalmInv
<1>3. CASE RecvThread
  <2>1. /\ \A fd \in Fds : ~ReadPart(fd) /\ ~LostOnline(fd)
        /\ ~LostRooms /\ ~LostClose
    BY DEF ReadPart, ReadnFails, LostOnline, LostRooms, LostClose, CalmInv, Undisturbed
  <2> QED
    BY <1>1, <1>3, <2>1, ReadCalm DEF RecvThread
<1>4. CASE TaskThread
  BY <1>1, <1>4, AccountsCalm, TakenCalm, LoginCalm, EntersCalm, MembersCalm, GrantCalm, StartCalm
  DEF TaskThread
<1>5. ~WriteFaults
  <2>1. sendQue # <<>> => Head(sendQue).fd \in Fds
    <3>1. sendQue # <<>> => Head(sendQue) \in Answers
      BY <1>1 DEF ServerTypes
    <3> QED
      BY <3>1 DEF Answers
  <2> QED
    BY <2>1 DEF WriteFaults, CalmInv, Undisturbed
<1> QED
  BY <1>1, <1>2, <1>3, <1>4, <1>5, DeliverCalm, ClientCalm DEF Next

LEMMA InitCalm == Init => CalmInv
<1> SUFFICES ASSUME Init PROVE CalmInv
  OBVIOUS
<1>1. /\ taskQue = <<>> /\ sendQue = <<>> /\ DOMAIN online = {}
      /\ task.pc = "idle" /\ task.cids = {} /\ recv.pc = "idle" /\ alive
      /\ \A fd \in Fds : ~sock[fd].eof /\ sock[fd].in = <<>>
  BY DEF Init, GameInit, IdleTask, IdleRecv, FreeSock
<1>2. ToSet(<<>>) = {}
  BY DEF ToSet
<1>3. Undisturbed /\ OnTheirWay
  BY <1>1, <1>2 DEF Undisturbed, OnTheirWay, InHand
<1>4. \A k \in Clients : /\ client[k].menu = "off" /\ client[k].role = "unknown"
                         /\ client[k].await = NoRequest
  BY DEF Init, NewClient
<1>5. \A k \in Clients : Sane(client[k]) /\ FitsIn(client[k], online, mapGame)
  BY <1>1, <1>4 DEF Sane, FitsIn, Inside, InRoomMenus
<1> QED
  BY <1>1, <1>2, <1>3, <1>5 DEF CalmInv, TablesFit, Fits

\* With no lost connection and no late answer the tables and the clients' view of them
\* keep pace.
THEOREM CalmHolds ==
    ASSUME Faults = {}
    PROVE  Spec => [](ServerInv /\ FlowInv /\ CalmInv)
<1>1. Init => FlowInv /\ CalmInv
  BY InitFlow, InitCalm
<1>2. ServerInv /\ ServerInv' /\ FlowInv /\ [Next]_vars => FlowInv'
  BY FlowStep DEF ServerInv
<1>3. ServerInv /\ ServerInv' /\ RoomInv /\ FlowInv /\ CalmInv /\ [Next]_vars => CalmInv'
  BY CalmStep
<1> QED
  BY <1>1, <1>2, <1>3, Invariant, PTL DEF Spec

\* Every answer within 10 ms and no connection lost: a client that waits for nothing and is
\* shown a room is online as the player it believes to be and a member of that room, and one
\* that is ready there is so in the table, whatever the others do meanwhile.
THEOREM ViewsAgreeHolds ==
    ASSUME Faults = {}
    PROVE  Spec => []ViewsAgree
<1>1. CalmInv => ViewsAgree
  <2> SUFFICES ASSUME CalmInv, NEW k \in Clients, client[k].await = NoRequest
               PROVE  /\ client[k].role # "unknown" => SeesItsRoom(k)
                      /\ client[k].menu = "ready" =>
                            mapGame[client[k].gid].ready[client[k].cid] = 1
    BY DEF ViewsAgree
  <2>1. Sane(client[k]) /\ FitsIn(client[k], online, mapGame)
    BY FreeFits
  <2>2. client[k].role # "unknown" \/ client[k].menu = "ready" => Inside(client[k])
    BY <2>1 DEF Sane, InRoomMenus
  <2> QED
    BY <2>1, <2>2 DEF FitsIn, Inside, InRoomMenus, SeesItsRoom, GetCidList
<1> QED
  BY <1>1, CalmHolds, PTL

\* ... and only a frame thread that outlived its room ends the process: no handler takes a
\* player out of a room it is not in.
THEOREM OnlyFramesKill ==
    ASSUME Faults = {}
    PROVE  Spec => []DiesOnlyOfFrames
<1>1. CalmInv => DiesOnlyOfFrames
  BY DEF CalmInv, Undisturbed, DiesOnlyOfFrames
<1> QED
  BY <1>1, CalmHolds, PTL

\* A player in a room is online as itself, told or not: what it can ask there keeps it online.
LEMMA PlayerIsOnline ==
    ASSUME ServerTypes, CalmInv, NEW k \in Clients, client[k].role # "unknown"
    PROVE  client[k].fd \in DOMAIN online /\ online[client[k].fd] = client[k].cid
<1>1. Sane(client[k]) /\ client[k] \in ClientStates
  BY DEF CalmInv, TablesFit, ServerTypes
<1>2. client[k].menu \in InRoomMenus
  BY <1>1 DEF Sane, Inside
<1>3. CASE ~Told(k)
  BY <1>2, <1>3 DEF CalmInv, TablesFit, Fits, FitsIn, InRoomMenus
<1>4. CASE Told(k)
  <2>1. PICK r \in ToSet(sendQue) : r.to = k
    BY <1>4 DEF Told
  <2>2. r \in Answers
    BY <2>1, QueueHolds DEF ServerTypes
  <2>3. r.res \in Int
    BY <2>2 DEF Answers
  <2>4. client[k].await.id # 0
    BY <2>1, ServerAssumption DEF CalmInv, OnTheirWay, Tells
  <2>5. client[k].await # NoRequest
    BY <2>4 DEF NoRequest, Request
  <2>6. PICK d : d = After(client[k], r.res, r.cid, r.gid)
    OBVIOUS
  <2>7. FitsIn(d, online, mapGame)
    BY <2>1, <2>6 DEF CalmInv, TablesFit, Fits
  <2>8. client[k].await.type \in
           {"QUIT_ROOM", "REQ_GAME_START", "GAME_READY", "QUIT_GAME_READY"}
    BY <1>1, <1>2, <2>5 DEF Sane, Sends, InRoomMenus
  <2>9. d.fd = client[k].fd
    BY <1>1, <2>3, <2>6, AfterShows
  <2>10. d.cid = client[k].cid /\ d.menu \notin {"off", "login"}
    <3>1. CASE client[k].await.type = "QUIT_ROOM"
      BY <1>1, <2>3, <2>6, <3>1, AfterShows
    <3>2. CASE client[k].await.type = "REQ_GAME_START"
      <4>1. d.menu = IF r.res = 0 THEN "granted" ELSE "entering"
        BY <1>1, <2>3, <2>6, <3>2, AfterShows
      <4>2. d.cid = client[k].cid
        BY <1>1, <2>3, <2>6, <3>2, AfterShows
      <4> QED
        BY <4>1, <4>2
    <3>3. CASE client[k].await.type = "GAME_READY"
      BY <1>1, <2>3, <2>6, <3>3, AfterShows
    <3>4. CASE client[k].await.type = "QUIT_GAME_READY"
      BY <1>1, <2>3, <2>6, <3>4, AfterShows
    <3> QED
      BY <2>8, <3>1, <3>2, <3>3, <3>4
  <2> QED
    BY <2>7, <2>9, <2>10 DEF FitsIn
<1> QED
  BY <1>3, <1>4

\* do_game_start tells every client that plays as the player whose turn it is and is in that
\* room, although it lists the players under one lock and looks for their descriptors under
\* another.
THEOREM NotifiesPlayersHolds ==
    ASSUME Faults = {}
    PROVE  Spec => NotifiesPlayers
<1>1. ASSUME ServerInv, CalmInv, [Next]_vars, NEW c \in task.cids \ task'.cids,
             NEW k \in Clients, PlaysIn(k, c, task.req.gid)
      PROVE  \E i \in DOMAIN sendQue' : sendQue'[i] = StartNotice(client[k].fd)
  <2>1. ServerTypes /\ OneFdPerPlayer /\ task.cids # {} /\ task.cids # task'.cids
    BY <1>1 DEF ServerInv
  <2>2. task.pc \in {"start", "notify"}
    BY <1>1, <2>1 DEF CalmInv, OnTheirWay, InHand
  <2>3. task' # task
    BY <2>1
  <2>4. TaskThread
    <3>1. ~UNCHANGED vars /\ ~Deliver /\ ~WriteFaults /\ ~FrameFault
      BY <2>3 DEF vars, serverVars, Deliver, WriteFaults, FrameFault
    <3>2. ~RecvThread
      BY <2>3 DEF serverVars, RecvThread, Read, ReadPart, LostOnline, LostRooms, LostClose
    <3>3. ASSUME NEW j \in Clients PROVE ~Client(j)
      <4>1. /\ ~Regist(j) /\ ~Login(j) /\ ~Logout(j) /\ ~CreateRoom(j) /\ ~JoinRoom(j)
            /\ ~QuitRoom(j) /\ ~RequestStartGame(j) /\ ~Ready(j) /\ ~QuitReady(j)
        BY <2>3 DEF serverVars, Call, Regist, Login, Logout, CreateRoom, JoinRoom, QuitRoom,
           RequestStartGame, Ready, QuitReady
      <4>2. /\ ~Accept(j) /\ ~ShowRooms(j) /\ ~LeaveRooms(j) /\ ~StartCommand(j)
            /\ ~ShowRoom(j) /\ ~ShowOldRoom(j) /\ ~AbandonRoom(j) /\ ~Timeout(j) /\ ~Exit(j)
        BY <2>3 DEF serverVars, Accept, ShowRooms, LeaveRooms, StartCommand, ShowRoom,
           ShowOldRoom, AbandonRoom, Timeout, Exit
      <4> QED
        BY <4>1, <4>2 DEF Client
    <3> QED
      BY <1>1, <3>1, <3>2, <3>3 DEF Next
  <2>5. GameStartNotify
    <3>1. GameStartFrames \/ GameStartNotify \/ GameStartDone
      BY <2>2, <2>4 DEF TaskThread, NextTask, DoRegist, DoLoginCheck, DoLoginAdd, DoLogout,
         DoCreateRoom, DoJoinRoom, DoQuitRoom, DoGameReady, DoQuitGameReady, ReqGameStartNums,
         ReqGameStartReady, GameStartList
    <3>2. ~GameStartFrames
      BY <2>1 DEF GameStartFrames, ServerTypes, Tasks
    <3>3. ~GameStartDone
      BY <2>1 DEF GameStartDone
    <3> QED
      BY <3>1, <3>2, <3>3
  <2>6. sendQue' = IF SockFdOf(c) > 0 THEN Append(sendQue, StartNotice(SockFdOf(c)))
                                      ELSE sendQue
    BY <1>1, <2>1, <2>5 DEF GameStartNotify, ServerTypes, Tasks
  <2>7. client[k].fd \in DOMAIN online /\ online[client[k].fd] = c
    BY <1>1, <2>1, PlayerIsOnline DEF PlaysIn
  <2>8. SockFdOf(c) = client[k].fd /\ client[k].fd > 0
    BY <2>1, <2>7, SockFdIs, ServerAssumption DEF ServerTypes
  <2>9. sendQue' = Append(sendQue, StartNotice(client[k].fd)) /\ sendQue \in Seq(Answers)
    BY <2>1, <2>6, <2>8 DEF ServerTypes
  <2>10. PICK n : n = StartNotice(client[k].fd)
    OBVIOUS
  <2>11. Len(sendQue) + 1 \in DOMAIN Append(sendQue, n) /\ Append(sendQue, n)[Len(sendQue) + 1] = n
    BY <2>9
  <2> QED
    BY <2>9, <2>10, <2>11
<1>2. ServerInv /\ CalmInv /\ [Next]_vars =>
         [\A c \in task.cids \ task'.cids : \A k \in Clients :
             PlaysIn(k, c, task.req.gid) =>
                 \E i \in DOMAIN sendQue' : sendQue'[i] = StartNotice(client[k].fd)]_vars
  BY <1>1
<1> QED
  BY <1>2, CalmHolds, PTL DEF Spec, NotifiesPlayers

=============================================================================
