------------------------------ MODULE MCServer ------------------------------
(***************************************************************************)
(* Instances of Server for TLC.                                            *)
(***************************************************************************)
EXTENDS Server, TLC

CONSTANTS k1, k2

MCCids     == {0, 1, 2}
MCGids     == {1, 2}
MCOneGid   == {1}
MCNames    == {"a"}
MCLogins   == {"p", "q"}
MCAccounts == <<"p">>
MCFds      == {1, 2}
MCClients  == {k1, k2}

RoomKinds  == {"CREATE_ROOM", "JOIN_ROOM", "QUIT_ROOM"}
PlayKinds  == RoomKinds \cup {"GAME_READY", "QUIT_GAME_READY", "REQ_GAME_START"}
AllKinds   == PlayKinds \cup {"REGIST", "LOGIN", "LOGOUT"}
AllFaults  == {"EXIT", "TIMEOUT", "SPLIT"}
NoFaults   == {}

\* The clients in `in' have logged in, k1 with the test account as player 1, k2 as
\* player 2, whose account it has registered; the other one has connected.  Nothing is
\* under way: states the server reaches from Init when nobody disturbs the logins.
MCLoggedIn(in) ==
    LET number(k) == IF k = k1 THEN 1 ELSE 2
    IN  /\ GameInit
        /\ clientInfo = SubSeq(<<"p", "q">>, 1, Cardinality(in))
        /\ online = [fd \in {number(k) : k \in in} |-> fd]
        /\ taskQue = <<>> /\ sendQue = <<>>
        /\ task = IdleTask /\ recv = IdleRecv
        /\ sock = [fd \in Fds |-> [FreeSock EXCEPT !.peer = IF fd = 1 THEN k1 ELSE k2]]
        /\ client = [k \in Clients |->
                [NewClient EXCEPT !.menu = IF k \in in THEN "main" ELSE "login",
                                  !.fd = number(k), !.connects = 1,
                                  !.cid = IF k \in in THEN number(k) ELSE 0]]

MCRoomSpec == MCLoggedIn({k1, k2}) /\ [][Next]_vars
MCFairSpec == (MCLoggedIn({k1}) \/ MCLoggedIn({k1, k2})) /\ [][Next]_vars /\ Fairness
=============================================================================
