--------------------------- MODULE ClientMngProofs ---------------------------
(***************************************************************************)
(* The table of awaited answers (CEventNotice) and the socket of a client  *)
(* process, for any number of calls, games and wake-ups: an id is on its   *)
(* way once, from the request to Notice, so only an answer that comes late *)
(* finds the table in a state the caller does not expect.                  *)
(***************************************************************************)
EXTENDS ClientMng, DataLemmas

Messages == {m \in [pc : {"idle"}, id : Nat, res : {"yes", "no", "start"}] :
                m.res = "start" <=> m.id = 0}
Requests == {r \in [type : Types \cup {"GAME_START"}, id : Nat] :
                r.type = "GAME_START" <=> r.id = 0}

\* the calls of which a sequence holds a request or an answer
Ids(s) == {s[i].id : i \in 1..Len(s)} \ {0}
Distinct(s) == \A i, j \in 1..Len(s) : s[i].id = s[j].id /\ s[i].id # 0 => i = j

TaskIds == IF NoticeHolds THEN {task.id} ELSE {}
Pending == TaskIds \cup Ids(inbox) \cup Ids(wire) \cup Ids(requests)

Counts == [calls : Nat, starts : Nat, wakes : Nat, plays : Nat]

Types2 ==
    /\ TypeOK
    /\ count \in Counts
    /\ wire \in Seq(Messages) /\ inbox \in Seq(Messages) /\ requests \in Seq(Requests)
    /\ menu.id = count.calls
    /\ menu.pc \in {"sent", "waiting", "erase"} => menu.id \in 1..count.calls
    /\ NoticeHolds => task.id \in 1..count.calls /\ task.res \in {"yes", "no"}

\* each id is in one place
Once ==
    /\ Distinct(inbox) /\ Distinct(wire) /\ Distinct(requests)
    /\ TaskIds \cap (Ids(inbox) \cup Ids(wire) \cup Ids(requests)) = {}
    /\ Ids(inbox) \cap (Ids(wire) \cup Ids(requests)) = {}
    /\ Ids(wire) \cap Ids(requests) = {}

\* what is on its way is owed to the call in progress, or late
Current(pcs) == IF menu.pc \in pcs THEN {menu.id} ELSE {}
Owed ==
    /\ Pending \subseteq late \cup Current({"sent", "waiting"})
    /\ Pending \subseteq 1..count.calls
    /\ task.pc \in {"index", "set"} => task.id \in late \cup Current({"waiting"})

Promised ==
    /\ \A id \in DOMAIN promises : promises[id] # "unset" => id \notin Pending
    /\ menu.pc = "waiting" => menu.id \in DOMAIN promises
    /\ task.pc = "set" => task.id \in DOMAIN promises \cup late
    /\ OnlyLatePromisesStay

Unread ==
    /\ (\E i \in 1..Len(wire) : wire[i].id = 0) => count.starts > 0
    /\ UnreadNeedsOverlap

ClientInv == Types2 /\ Once /\ Owed /\ Promised /\ RaceNeedsTimeout /\ Unread

-----------------------------------------------------------------------------
LEMMA TailIds ==
    ASSUME NEW S, NEW s \in Seq(S), s # <<>>, Distinct(s)
    PROVE  /\ Distinct(Tail(s)) /\ Tail(s) \in Seq(S) /\ Head(s) \in S
           /\ Ids(Tail(s)) = Ids(s) \ {Head(s).id}
<1>1. /\ Tail(s) \in Seq(S) /\ Len(Tail(s)) = Len(s) - 1 /\ Head(s) = s[1] /\ Head(s) \in S
      /\ \A i \in 1..Len(Tail(s)) : Tail(s)[i] = s[i + 1]
      /\ Len(s) \in Nat \ {0}
  BY HeadTailProperties
<1>2. Distinct(Tail(s))
  <2>1. \A i \in 1..Len(Tail(s)) : i + 1 \in 1..Len(s)
    BY <1>1
  <2> SUFFICES ASSUME NEW i \in 1..Len(Tail(s)), NEW j \in 1..Len(Tail(s)),
                      Tail(s)[i].id = Tail(s)[j].id, Tail(s)[i].id # 0
               PROVE  i = j
    BY DEF Distinct
  <2>2. i + 1 = j + 1
    BY <1>1, <2>1 DEF Distinct
  <2> QED
    BY <2>2
<1>3. ASSUME NEW x PROVE x \in Ids(Tail(s)) <=> x \in Ids(s) \ {Head(s).id}
  <2>1. ASSUME x \in Ids(Tail(s)) PROVE x \in Ids(s) \ {Head(s).id}
    <3>1. PICK i \in 1..Len(Tail(s)) : x = Tail(s)[i].id
      BY <2>1 DEF Ids
    <3>2. i + 1 \in 1..Len(s) /\ x = s[i + 1].id /\ x # 0 /\ i + 1 # 1 /\ 1 \in 1..Len(s)
      BY <1>1, <2>1, <3>1 DEF Ids
    <3>3. x # s[1].id
      BY <3>2 DEF Distinct
    <3> QED
      BY <1>1, <3>2, <3>3 DEF Ids
  <2>2. ASSUME x \in Ids(s) \ {Head(s).id} PROVE x \in Ids(Tail(s))
    <3>1. PICK i \in 1..Len(s) : x = s[i].id
      BY <2>2 DEF Ids
    <3>2. i # 1
      BY <1>1, <2>2, <3>1
    <3>3. i - 1 \in 1..Len(Tail(s)) /\ Tail(s)[i - 1] = s[i]
      BY <1>1, <3>2
    <3> QED
      BY <2>2, <3>1, <3>3 DEF Ids
  <2> QED
    BY <2>1, <2>2
<1> QED
  BY <1>1, <1>2, <1>3

LEMMA AppendIds ==
    ASSUME NEW S, NEW s \in Seq(S), NEW m \in S, Distinct(s), m.id \notin Ids(s)
    PROVE  /\ Distinct(Append(s, m)) /\ Append(s, m) \in Seq(S)
           /\ Ids(Append(s, m)) = Ids(s) \cup ({m.id} \ {0})
<1>1. /\ Append(s, m) \in Seq(S) /\ Len(Append(s, m)) = Len(s) + 1 /\ Len(s) \in Nat
      /\ \A i \in 1..Len(s) : Append(s, m)[i] = s[i]
      /\ Append(s, m)[Len(s) + 1] = m
  OBVIOUS
<1>2. \A i \in 1..Len(s) : s[i].id # 0 => s[i].id # m.id
  BY DEF Ids
<1>3. Distinct(Append(s, m))
  <2> SUFFICES ASSUME NEW i \in 1..(Len(s) + 1), NEW j \in 1..(Len(s) + 1),
                      Append(s, m)[i].id = Append(s, m)[j].id, Append(s, m)[i].id # 0
               PROVE  i = j
    BY <1>1 DEF Distinct
  <2>1. CASE i \in 1..Len(s) /\ j \in 1..Len(s)
    BY <1>1, <2>1 DEF Distinct
  <2>2. CASE i = Len(s) + 1 /\ j \in 1..Len(s)
    BY <1>1, <1>2, <2>2
  <2>3. CASE j = Len(s) + 1 /\ i \in 1..Len(s)
    BY <1>1, <1>2, <2>3
  <2> QED
    BY <1>1, <2>1, <2>2, <2>3
<1>4. ASSUME NEW x PROVE x \in Ids(Append(s, m)) <=> x \in Ids(s) \cup ({m.id} \ {0})
  <2>1. x \in Ids(Append(s, m)) <=>
           x # 0 /\ \E i \in 1..(Len(s) + 1) : x = Append(s, m)[i].id
    BY <1>1 DEF Ids
  <2>2. (\E i \in 1..(Len(s) + 1) : x = Append(s, m)[i].id) <=>
           (\E i \in 1..Len(s) : x = s[i].id) \/ x = m.id
    BY <1>1
  <2> QED
    BY <2>1, <2>2 DEF Ids
<1> QED
  BY <1>1, <1>3, <1>4
-----------------------------------------------------------------------------
LEMMA InitClient == Init => ClientInv
<1> SUFFICES ASSUME Init PROVE ClientInv
  OBVIOUS
<1>1. /\ Len(wire) = 0 /\ Len(inbox) = 0 /\ Len(requests) = 0
      /\ wire = <<>> /\ inbox = <<>> /\ requests = <<>>
      /\ wire \in Seq(Messages) /\ inbox \in Seq(Messages) /\ requests \in Seq(Requests)
  BY DEF Init, Connected
<1>2. DOMAIN promises = {}
  BY DEF Init
<1>3. ~NoticeHolds /\ menu.pc = "menu" /\ menu.id = 0 /\ task.pc = "idle"
  BY DEF Init, NoticeHolds, IdleTask, AtMenu
<1>4. Ids(inbox) = {} /\ Ids(wire) = {} /\ Ids(requests) = {} /\ Pending = {}
  BY <1>1, <1>3 DEF Ids, Pending, TaskIds
<1>5. TypeOK
  BY <1>2, ClientAssumption DEF Init, TypeOK, AtMenu, IdleTask, Types, Results, Connected
<1>6. Types2
  BY <1>1, <1>3, <1>5 DEF Types2, Init, Counts
<1>7. Once
  BY <1>1, <1>3, <1>4 DEF Once, Distinct, TaskIds
<1>8. Owed /\ Promised
  BY <1>2, <1>3, <1>4 DEF Owed, Promised, OnlyLatePromisesStay
<1>9. RaceNeedsTimeout /\ Unread
  BY <1>1 DEF Init, RaceNeedsTimeout, Unread, UnreadNeedsOverlap
<1> QED
  BY <1>6, <1>7, <1>8, <1>9 DEF ClientInv

NoCall == {"menu", "clear", "polling", "quit", "command", "enter", "asleep", "playing"}

LEMMA CountUp ==
    ASSUME NEW c \in Counts
    PROVE  /\ [c EXCEPT !.calls = c.calls + 1] \in Counts
           /\ [c EXCEPT !.calls = c.calls + 1].calls = c.calls + 1
           /\ [c EXCEPT !.calls = c.calls + 1].starts = c.starts
           /\ [c EXCEPT !.starts = c.starts + 1] \in Counts
           /\ [c EXCEPT !.starts = c.starts + 1].calls = c.calls
           /\ [c EXCEPT !.starts = c.starts + 1].starts = c.starts + 1
           /\ \A x \in Nat : /\ [c EXCEPT !.plays = x] \in Counts
                             /\ [c EXCEPT !.plays = x].calls = c.calls
                             /\ [c EXCEPT !.plays = x].starts = c.starts
           /\ [c EXCEPT !.wakes = c.wakes + 1] \in Counts
           /\ [c EXCEPT !.wakes = c.wakes + 1].calls = c.calls
           /\ [c EXCEPT !.wakes = c.wakes + 1].starts = c.starts
           /\ c.plays + 1 \in Nat
  BY DEF Counts

\* steps outside a call that send nothing and take no answer
LEMMA Quiet ==
    ASSUME ClientInv,
           menu.pc \in NoCall, menu'.pc \in NoCall, menu'.id = menu.id,
           task' = task \/ (task.pc \in {"idle", "countdown"} /\ task'.pc \in {"idle", "countdown"}),
           UNCHANGED <<promises, requests, net, corrupt, late>>,
           inbox' \in Seq(Messages), Distinct(inbox'), Ids(inbox') = Ids(inbox),
           count'.calls = count.calls, count'.starts = count.starts,
           count' \in Counts,
           TypeOK'
    PROVE  ClientInv'
<1> USE DEF ClientInv, net
<1>1. (NoticeHolds' <=> NoticeHolds) /\ TaskIds' = TaskIds
  <2>1. CASE task' = task
    BY <2>1 DEF NoticeHolds, TaskIds
  <2>2. CASE task.pc \in {"idle", "countdown"} /\ task'.pc \in {"idle", "countdown"}
    <3>1. ~NoticeHolds /\ ~NoticeHolds'
      BY <2>2 DEF NoticeHolds
    <3> QED
      BY <3>1 DEF TaskIds
  <2> QED
    BY <2>1, <2>2
<1>2. Pending' = Pending
  BY <1>1 DEF Pending, Ids
<1>3. Types2'
  <2>1. NoticeHolds => task' = task
    BY DEF NoticeHolds
  <2> QED
    BY <1>1, <2>1 DEF Types2, NoCall
<1>4. Once'
  <2>1. Ids(wire)' = Ids(wire) /\ Ids(requests)' = Ids(requests)
    BY DEF Ids
  <2>2. Distinct(wire)' /\ Distinct(requests)'
    BY DEF Once, Distinct
  <2> QED
    BY <1>1, <2>1, <2>2 DEF Once
<1>5. \A pcs \in {{"sent", "waiting"}, {"waiting"}, {"waiting", "erase"}} :
         Current(pcs) = {} /\ Current(pcs)' = {}
  BY DEF Current, NoCall
<1>6. Owed'
  BY <1>2, <1>5 DEF Owed
<1>7. Promised'
  <2>1. OnlyLatePromisesStay'
    BY DEF Promised, OnlyLatePromisesStay, NoCall
  <2> QED
    BY <1>2, <2>1 DEF Promised, NoCall
<1>8. RaceNeedsTimeout' /\ Unread'
  BY DEF RaceNeedsTimeout, Unread, UnreadNeedsOverlap
<1> QED
  BY <1>3, <1>4, <1>6, <1>7, <1>8

LEMMA QuietMenu ==
    ASSUME ClientInv, Clear \/ SeeStart \/ Cancel \/ Enter \/ WakeSpuriously \/ EndGame
    PROVE  ClientInv'
<1> USE DEF ClientInv
<1>1. /\ menu.pc \in NoCall /\ menu'.pc \in NoCall /\ menu'.id = menu.id
      /\ menu' = [menu EXCEPT !.pc = menu'.pc]
  BY DEF Clear, SeeStart, Cancel, Enter, WakeSpuriously, EndGame, MenuAt, NoCall, Types2, TypeOK
<1>2. /\ UNCHANGED <<promises, requests, net, corrupt, late, inbox, task>>
      /\ started' \in BOOLEAN
      /\ count' \in Counts
      /\ count'.calls = count.calls /\ count'.starts = count.starts
  <2>2. CASE count' = count
    BY <2>2 DEF Clear, SeeStart, Cancel, Enter, WakeSpuriously, EndGame, Types2, TypeOK
  <2>3. CASE WakeSpuriously
    <3>1. count' = [[count EXCEPT !.wakes = count.wakes + 1] EXCEPT !.plays = count.plays + 1]
      BY <2>3 DEF WakeSpuriously
    <3>2. count' \in Counts
          /\ count'.calls = count.calls /\ count'.starts = count.starts
      BY <3>1, CountUp DEF Types2
    <3> QED
      BY <2>3, <3>2 DEF WakeSpuriously, Types2, TypeOK
  <2> QED
    BY <2>2, <2>3 DEF Clear, SeeStart, Cancel, Enter, EndGame
<1>3. menu' \in [pc : {"menu", "sent", "waiting", "erase", "clear", "polling", "quit",
                       "command", "enter", "asleep", "playing"},
                 type : Types, id : Nat, res : Results]
  BY <1>1 DEF Types2, TypeOK, NoCall
<1>4. TypeOK'
  BY <1>2, <1>3 DEF Types2, TypeOK, net
<1> QED
  BY <1>1, <1>2, <1>4, Quiet DEF Types2, Once


MenuPcs == {"menu", "sent", "waiting", "erase", "clear", "polling", "quit",
            "command", "enter", "asleep", "playing"}
MenuStates == [pc : MenuPcs, type : Types, id : Nat, res : Results]

\* the types stay when the menu goes on and what is on its way stays as it is
LEMMA MenuTypes ==
    ASSUME Types2, menu' \in MenuStates, menu'.id = count.calls,
           UNCHANGED <<task, requests, net, started, inbox, count>>,
           corrupt' \in BOOLEAN, late' \subseteq 1..count.calls,
           DOMAIN promises' \subseteq 1..count.calls,
           \A id \in DOMAIN promises' : promises'[id] \in {"unset", "yes", "no"},
           menu'.pc \in {"sent", "waiting", "erase"} => menu'.id \in 1..count.calls
    PROVE  Types2'
<1>1. TypeOK'
  BY DEF Types2, TypeOK, MenuStates, MenuPcs, net
<1> QED
  BY <1>1 DEF Types2, net, NoticeHolds

LEMMA SamePending ==
    ASSUME Once, UNCHANGED <<task, inbox, wire, requests>>
    PROVE  /\ Once' /\ Pending' = Pending /\ TaskIds' = TaskIds
           /\ (NoticeHolds' <=> NoticeHolds)
<1>1. /\ Ids(inbox)' = Ids(inbox) /\ Ids(wire)' = Ids(wire) /\ Ids(requests)' = Ids(requests)
      /\ Distinct(inbox)' /\ Distinct(wire)' /\ Distinct(requests)'
  BY DEF Once, Ids, Distinct
<1>2. TaskIds' = TaskIds /\ (NoticeHolds' <=> NoticeHolds)
  BY DEF TaskIds, NoticeHolds
<1> QED
  BY <1>1, <1>2 DEF Once, Pending

LEMMA SameUnread ==
    ASSUME Unread, UNCHANGED <<wire, event, watch, count>>, late \subseteq late'
    PROVE  Unread'
BY DEF Unread, UnreadNeedsOverlap

LEMMA RegisterInv == ASSUME ClientInv, Register PROVE ClientInv'
<1> USE DEF ClientInv
<1>1. /\ menu.pc = "sent" /\ ~NoticeHolds
      /\ UNCHANGED <<net, task, started, requests, inbox, corrupt, late, count>>
      /\ promises' = [i \in DOMAIN promises \cup {menu.id} |->
                          IF i \in DOMAIN promises THEN promises[i] ELSE "unset"]
  BY DEF Register, MenuAt, WithPromise
<1>2. menu' \in MenuStates /\ menu'.pc = "waiting" /\ menu'.id = menu.id
  BY DEF Register, Types2, TypeOK, MenuStates, MenuPcs
<1>3. Types2'
  <2>1. menu.id \in 1..count.calls /\ menu.id = count.calls
    BY <1>1 DEF Types2
  <2>2. /\ DOMAIN promises' \subseteq 1..count.calls
        /\ \A id \in DOMAIN promises' : promises'[id] \in {"unset", "yes", "no"}
    BY <1>1, <2>1 DEF Types2, TypeOK
  <2>3. corrupt' \in BOOLEAN /\ late' \subseteq 1..count.calls
    BY <1>1 DEF Types2, TypeOK
  <2> QED
    BY <1>1, <1>2, <2>1, <2>2, <2>3, MenuTypes
<1>4. Once' /\ Pending' = Pending
  BY <1>1, SamePending DEF net
<1>5. Owed'
  <2>1. task.pc \notin {"index", "set"}
    BY <1>1 DEF NoticeHolds
  <2> QED
    BY <1>1, <1>2, <1>4, <2>1 DEF Owed, Current
<1>6. Promised'
  <2>1. DOMAIN promises \subseteq late
    BY <1>1 DEF Promised, OnlyLatePromisesStay
  <2>2. OnlyLatePromisesStay'
    BY <1>1, <1>2, <2>1 DEF OnlyLatePromisesStay
  <2>3. \A id \in DOMAIN promises' : promises'[id] # "unset" =>
            id \in DOMAIN promises /\ promises[id] # "unset"
    BY <1>1
  <2>4. menu'.id \in DOMAIN promises' /\ task'.pc # "set"
    BY <1>1, <1>2 DEF NoticeHolds
  <2> QED
    BY <1>1, <1>4, <2>2, <2>3, <2>4 DEF Promised
<1>7. RaceNeedsTimeout' /\ Unread'
  BY <1>1, SameUnread DEF RaceNeedsTimeout, net
<1> QED
  BY <1>3, <1>4, <1>5, <1>6, <1>7

LEMMA AnsweredInv == ASSUME ClientInv, Answered PROVE ClientInv'
<1> USE DEF ClientInv
<1>1. /\ menu.pc = "waiting" /\ promises[menu.id] # "unset"
      /\ UNCHANGED <<net, task, promises, started, requests, inbox, corrupt, late, count>>
  BY DEF Answered, MenuAt
<1>2. menu.id \in DOMAIN promises /\ promises[menu.id] \in {"yes", "no"} /\ menu.id \notin Pending
  BY <1>1 DEF Promised, Types2, TypeOK
<1>3. menu' \in MenuStates /\ menu'.pc = "erase" /\ menu'.id = menu.id
  <2>1. menu' = [[menu EXCEPT !.pc = "erase"] EXCEPT !.res = promises[menu.id]]
    BY DEF Answered
  <2>2. menu \in MenuStates
    BY DEF Types2, TypeOK, MenuStates, MenuPcs
  <2>3. /\ [menu EXCEPT !.pc = "erase"] \in MenuStates
        /\ [menu EXCEPT !.pc = "erase"].id = menu.id
        /\ [menu EXCEPT !.pc = "erase"].pc = "erase"
    BY <2>2 DEF MenuStates, MenuPcs
  <2>4. ASSUME NEW m \in MenuStates, NEW r \in Results
        PROVE  /\ [m EXCEPT !.res = r] \in MenuStates
               /\ [m EXCEPT !.res = r].id = m.id /\ [m EXCEPT !.res = r].pc = m.pc
    BY DEF MenuStates
  <2>5. promises[menu.id] \in Results
    BY <1>2 DEF Results
  <2> QED
    BY <2>1, <2>3, <2>4, <2>5
<1>4. Types2'
  <2>1. menu.id \in 1..count.calls /\ menu.id = count.calls
    BY <1>1 DEF Types2
  <2>2. /\ corrupt' \in BOOLEAN /\ late' \subseteq 1..count.calls
        /\ DOMAIN promises' \subseteq 1..count.calls
        /\ \A id \in DOMAIN promises' : promises'[id] \in {"unset", "yes", "no"}
    BY <1>1 DEF Types2, TypeOK
  <2> QED
    BY <1>1, <1>3, <2>1, <2>2, MenuTypes
<1>5. Once' /\ Pending' = Pending /\ TaskIds' = TaskIds
  BY <1>1, SamePending DEF net
<1>6. Owed'
  <2>1. task.pc \in {"index", "set"} => task.id \in Pending
    BY DEF Pending, TaskIds, NoticeHolds
  <2> QED
    BY <1>1, <1>2, <1>3, <1>5, <2>1 DEF Owed, Current
<1>7. Promised'
  BY <1>1, <1>3, <1>5 DEF Promised, OnlyLatePromisesStay
<1>8. RaceNeedsTimeout' /\ Unread'
  BY <1>1, SameUnread DEF RaceNeedsTimeout, net
<1> QED
  BY <1>4, <1>5, <1>6, <1>7, <1>8

LEMMA TimeoutInv == ASSUME ClientInv, Timeout PROVE ClientInv'
<1> USE DEF ClientInv
<1>1. /\ menu.pc = "waiting" /\ late' = late \cup {menu.id}
      /\ UNCHANGED <<net, task, promises, started, requests, inbox, corrupt, count>>
  BY DEF Timeout, MenuAt
<1>3. menu' \in MenuStates /\ menu'.pc = "erase" /\ menu'.id = menu.id
  <2>1. menu' = [[menu EXCEPT !.pc = "erase"] EXCEPT !.res = "timeout"]
    BY DEF Timeout
  <2>2. menu \in MenuStates
    BY DEF Types2, TypeOK, MenuStates, MenuPcs
  <2>3. /\ [menu EXCEPT !.pc = "erase"] \in MenuStates
        /\ [menu EXCEPT !.pc = "erase"].id = menu.id
        /\ [menu EXCEPT !.pc = "erase"].pc = "erase"
    BY <2>2 DEF MenuStates, MenuPcs
  <2>4. ASSUME NEW m \in MenuStates
        PROVE  /\ [m EXCEPT !.res = "timeout"] \in MenuStates
               /\ [m EXCEPT !.res = "timeout"].id = m.id
               /\ [m EXCEPT !.res = "timeout"].pc = m.pc
    BY DEF MenuStates, Results
  <2> QED
    BY <2>1, <2>3, <2>4
<1>4. Types2'
  <2>1. menu.id \in 1..count.calls /\ menu.id = count.calls
    BY <1>1 DEF Types2
  <2>2. /\ corrupt' \in BOOLEAN /\ late' \subseteq 1..count.calls
        /\ DOMAIN promises' \subseteq 1..count.calls
        /\ \A id \in DOMAIN promises' : promises'[id] \in {"unset", "yes", "no"}
    BY <1>1, <2>1 DEF Types2, TypeOK
  <2> QED
    BY <1>1, <1>3, <2>1, <2>2, MenuTypes
<1>5. Once' /\ Pending' = Pending /\ TaskIds' = TaskIds
  BY <1>1, SamePending DEF net
<1>6. Owed'
  BY <1>1, <1>3, <1>5 DEF Owed, Current
<1>7. Promised'
  BY <1>1, <1>3, <1>5 DEF Promised, OnlyLatePromisesStay
<1>8. RaceNeedsTimeout' /\ Unread'
  BY <1>1, SameUnread DEF RaceNeedsTimeout, net
<1> QED
  BY <1>4, <1>5, <1>6, <1>7, <1>8

\* an erasure while Notice uses the map meets an answer that is late
LEMMA EraseInv == ASSUME ClientInv, Erase PROVE ClientInv'
<1> USE DEF ClientInv
<1>1. /\ menu.pc = "erase" /\ corrupt' \in {corrupt, NoticeHolds}
      /\ DOMAIN promises' = DOMAIN promises \ {menu.id}
      /\ \A id \in DOMAIN promises' : promises'[id] = promises[id]
      /\ UNCHANGED <<net, task, started, requests, inbox, late, count>>
  BY DEF Erase, MenuAt, Restrict
<1>2. menu' \in MenuStates /\ menu'.pc \in {"menu", "quit", "clear", "command"} /\ menu'.id = menu.id
  <2>1. NextPc \in {"menu", "quit", "clear", "command"}
    BY DEF NextPc
  <2> QED
    BY <2>1 DEF Erase, Types2, TypeOK, MenuStates, MenuPcs
<1>3. Types2'
  <2>1. menu.id = count.calls
    BY DEF Types2
  <2>2. corrupt' \in BOOLEAN
    <3>1. corrupt \in BOOLEAN
      BY DEF Types2, TypeOK
    <3>2. NoticeHolds \in BOOLEAN
      BY DEF NoticeHolds
    <3>3. corrupt' = corrupt \/ corrupt' = NoticeHolds
      BY <1>1
    <3> QED
      BY <3>1, <3>2, <3>3, Zenon
  <2>3. /\ late' \subseteq 1..count.calls /\ DOMAIN promises' \subseteq 1..count.calls
        /\ \A id \in DOMAIN promises' : promises'[id] \in {"unset", "yes", "no"}
    BY <1>1 DEF Types2, TypeOK
  <2> QED
    BY <1>1, <1>2, <2>1, <2>2, <2>3, MenuTypes
<1>4. Once' /\ Pending' = Pending /\ TaskIds' = TaskIds
  BY <1>1, SamePending DEF net
<1>5. Pending \subseteq late
  BY <1>1 DEF Owed, Current
<1>6. task.pc \in {"find", "index", "set"} => task.id \in late
  BY <1>5 DEF Pending, TaskIds, NoticeHolds
<1>7. Owed'
  BY <1>1, <1>2, <1>4, <1>5, <1>6 DEF Owed
<1>8. Promised'
  <2>1. OnlyLatePromisesStay'
    BY <1>1, <1>2 DEF Promised, OnlyLatePromisesStay
  <2> QED
    BY <1>1, <1>2, <1>4, <1>6, <2>1 DEF Promised
<1>9. RaceNeedsTimeout'
  <2>1. NoticeHolds => late # {}
    BY <1>6 DEF NoticeHolds
  <2> QED
    BY <1>1, <2>1 DEF RaceNeedsTimeout
<1>10. Unread'
  BY <1>1, SameUnread DEF net
<1> QED
  BY <1>3, <1>4, <1>7, <1>8, <1>9, <1>10


\* a request gets an id of its own
LEMMA CallInv ==
    ASSUME ClientInv, menu.pc \in {"menu", "quit"}, NEW type \in Types, Call(type)
    PROVE  ClientInv'
<1> USE DEF ClientInv
<1> DEFINE req == [type |-> type, id |-> count.calls + 1]
<1>1. /\ count' = [count EXCEPT !.calls = count.calls + 1]
      /\ requests' = Append(requests, [type |-> type, id |-> count'.calls])
      /\ menu' = [pc |-> "sent", type |-> type, id |-> count'.calls, res |-> "none"]
      /\ UNCHANGED <<net, task, promises, started, inbox, corrupt, late>>
  BY DEF Call
<1>2. /\ count' \in Counts /\ count'.calls = count.calls + 1 /\ count'.starts = count.starts
      /\ count.calls \in Nat
  BY <1>1, CountUp DEF Types2, Counts
<1>3. /\ requests' = Append(requests, req)
      /\ menu' = [pc |-> "sent", type |-> type, id |-> count.calls + 1, res |-> "none"]
  BY <1>1, <1>2
<1>4. req \in Requests /\ req.id = count.calls + 1
  BY <1>2 DEF Requests, Types
<1>5. Pending \subseteq 1..count.calls /\ count.calls + 1 \notin Pending
  BY <1>2 DEF Owed
<1> HIDE DEF req
<1>6. /\ requests' \in Seq(Requests) /\ Distinct(requests')
      /\ Ids(requests') = Ids(requests) \cup {count.calls + 1}
  BY <1>2, <1>3, <1>4, <1>5, AppendIds DEF Types2, Once, Pending
<1>7. /\ Ids(inbox)' = Ids(inbox) /\ Ids(wire)' = Ids(wire)
      /\ Distinct(inbox)' /\ Distinct(wire)'
      /\ TaskIds' = TaskIds /\ (NoticeHolds' <=> NoticeHolds)
  BY <1>1 DEF Once, Ids, Distinct, TaskIds, NoticeHolds, net
<1>8. Once'
  BY <1>5, <1>6, <1>7 DEF Once, Pending
<1>9. Pending' = Pending \cup {count.calls + 1}
  BY <1>6, <1>7 DEF Pending
<1>10. menu' \in MenuStates /\ menu'.pc = "sent" /\ menu'.id = count.calls + 1
  BY <1>2, <1>3 DEF MenuStates, MenuPcs, Results
<1>11. Types2'
  <2>1. 1..count.calls \subseteq 1..count'.calls
    BY <1>2
  <2>2. TypeOK'
    BY <1>1, <1>10, <2>1 DEF Types2, TypeOK, MenuStates, MenuPcs, net
  <2> QED
    BY <1>1, <1>2, <1>6, <1>7, <1>10, <2>1, <2>2 DEF Types2, net
<1>12. Owed'
  <2>1. Pending \subseteq late /\ (task.pc \in {"index", "set"} => task.id \in late)
    BY DEF Owed, Current
  <2> QED
    BY <1>1, <1>2, <1>5, <1>9, <1>10, <2>1 DEF Owed, Current
<1>13. Promised'
  <2>1. DOMAIN promises \subseteq late /\ DOMAIN promises \subseteq 1..count.calls
    BY DEF Promised, OnlyLatePromisesStay, Types2, TypeOK
  <2>2. OnlyLatePromisesStay'
    BY <1>1, <1>10, <2>1 DEF OnlyLatePromisesStay
  <2>3. \A id \in DOMAIN promises : id # count.calls + 1
    BY <1>2, <2>1
  <2> QED
    BY <1>1, <1>9, <1>10, <2>2, <2>3 DEF Promised
<1>14. RaceNeedsTimeout' /\ Unread'
  BY <1>1, <1>2 DEF RaceNeedsTimeout, Unread, UnreadNeedsOverlap, net
<1> QED
  BY <1>8, <1>11, <1>12, <1>13, <1>14

\* the command to start has no answer and no id
LEMMA CommandInv == ASSUME ClientInv, Command PROVE ClientInv'
<1> USE DEF ClientInv
<1> DEFINE req == [type |-> "GAME_START", id |-> 0]
<1>1. /\ menu.pc = "command" /\ requests' = Append(requests, req)
      /\ menu' = [menu EXCEPT !.pc = "enter"]
      /\ UNCHANGED <<net, task, promises, started, inbox, corrupt, late, count>>
  BY DEF Command, MenuAt
<1>2. req \in Requests /\ req.id = 0 /\ 0 \notin Ids(requests)
  BY DEF Requests, Types, Ids
<1> HIDE DEF req
<1>3. /\ requests' \in Seq(Requests) /\ Distinct(requests') /\ Ids(requests') = Ids(requests)
  <2>1. /\ requests' \in Seq(Requests) /\ Distinct(requests')
        /\ Ids(requests') = Ids(requests) \cup ({req.id} \ {0})
    BY <1>1, <1>2, AppendIds DEF Types2, Once
  <2> QED
    BY <1>2, <2>1
<1>4. /\ Ids(inbox)' = Ids(inbox) /\ Ids(wire)' = Ids(wire)
      /\ Distinct(inbox)' /\ Distinct(wire)'
      /\ TaskIds' = TaskIds /\ (NoticeHolds' <=> NoticeHolds)
  BY <1>1 DEF Once, Ids, Distinct, TaskIds, NoticeHolds, net
<1>5. Once' /\ Pending' = Pending
  BY <1>3, <1>4 DEF Once, Pending
<1>6. menu' \in MenuStates /\ menu'.pc = "enter" /\ menu'.id = menu.id
  BY <1>1 DEF Types2, TypeOK, MenuStates, MenuPcs
<1>7. Types2'
  <2>1. TypeOK'
    BY <1>1, <1>6 DEF Types2, TypeOK, MenuStates, MenuPcs, net
  <2> QED
    BY <1>1, <1>3, <1>4, <1>6, <2>1 DEF Types2, net
<1>8. Owed'
  BY <1>1, <1>5, <1>6 DEF Owed, Current
<1>9. Promised'
  BY <1>1, <1>5, <1>6 DEF Promised, OnlyLatePromisesStay
<1>10. RaceNeedsTimeout' /\ Unread'
  BY <1>1, SameUnread DEF RaceNeedsTimeout, net
<1> QED
  BY <1>5, <1>7, <1>8, <1>9, <1>10

-----------------------------------------------------------------------------
TaskStates == [pc : {"idle", "find", "index", "set", "countdown"}, id : Nat, res : Results]

\* the head of the inbox goes to the task thread
LEMMA TakeAnswerInv == ASSUME ClientInv, TakeAnswer PROVE ClientInv'
<1> USE DEF ClientInv
<1> DEFINE m == Head(inbox)
<1>1. /\ task.pc = "idle" /\ inbox # <<>> /\ m.res # "start" /\ inbox' = Tail(inbox)
      /\ task' = [m EXCEPT !.pc = "find"]
      /\ UNCHANGED <<net, menu, promises, started, requests, corrupt, late, count>>
  BY DEF TakeAnswer, TaskAt
<1> HIDE DEF m
<1>2. /\ Distinct(inbox') /\ inbox' \in Seq(Messages) /\ m \in Messages
      /\ Ids(inbox') = Ids(inbox) \ {m.id}
  BY <1>1, TailIds DEF Types2, Once, m
<1>3. /\ task'.pc = "find" /\ task'.id = m.id /\ task'.res = m.res
      /\ m.id \in Nat \ {0} /\ m.res \in {"yes", "no"} /\ task' \in TaskStates
  BY <1>1, <1>2 DEF Messages, TaskStates, Results
<1>4. m.id \in Ids(inbox)
  <2>1. m = inbox[1] /\ 1 \in 1..Len(inbox)
    BY <1>1 DEF m, Types2
  <2> QED
    BY <1>3, <2>1 DEF Ids
<1>5. /\ Ids(wire)' = Ids(wire) /\ Ids(requests)' = Ids(requests)
      /\ Distinct(wire)' /\ Distinct(requests)'
  BY <1>1 DEF Once, Ids, Distinct, net
<1>6. NoticeHolds' /\ TaskIds' = {m.id} /\ ~NoticeHolds /\ TaskIds = {}
  BY <1>1, <1>3 DEF TaskIds, NoticeHolds
<1>7. Once' /\ Pending' = Pending
  BY <1>2, <1>4, <1>5, <1>6 DEF Once, Pending
<1>8. Types2'
  <2>1. m.id \in 1..count.calls
    BY <1>4 DEF Owed, Pending
  <2>2. TypeOK'
    BY <1>1, <1>3 DEF Types2, TypeOK, TaskStates, net
  <2> QED
    BY <1>1, <1>2, <1>3, <2>1, <2>2 DEF Types2, net
<1>9. Owed'
  BY <1>1, <1>3, <1>7 DEF Owed, Current
<1>10. Promised'
  BY <1>1, <1>3, <1>7 DEF Promised, OnlyLatePromisesStay
<1>11. RaceNeedsTimeout' /\ Unread'
  BY <1>1, SameUnread DEF RaceNeedsTimeout, net
<1> QED
  BY <1>7, <1>8, <1>9, <1>10, <1>11

\* the task thread goes on with the answer, or is done with it
LEMMA TaskKeeps ==
    ASSUME ClientInv, NoticeHolds, task' \in TaskStates,
           \/ task'.pc \in {"index", "set"} /\ task'.id = task.id /\ task'.res = task.res
           \/ task'.pc = "idle",
           UNCHANGED <<net, menu, started, requests, inbox, late, count>>
    PROVE  /\ Once' /\ Pending' \subseteq Pending
           /\ (task'.pc = "idle" => task.id \notin Pending')
           /\ (TypeOK' => Types2') /\ Unread'
<1> USE DEF ClientInv
<1>1. /\ Ids(inbox)' = Ids(inbox) /\ Ids(wire)' = Ids(wire) /\ Ids(requests)' = Ids(requests)
      /\ Distinct(inbox)' /\ Distinct(wire)' /\ Distinct(requests)'
  BY DEF Once, Ids, Distinct, net
<1>2. /\ TaskIds = {task.id} /\ TaskIds' \subseteq TaskIds
      /\ (task'.pc = "idle" => TaskIds' = {})
  BY DEF TaskIds, NoticeHolds
<1>3. Once' /\ Pending' \subseteq Pending /\ (task'.pc = "idle" => task.id \notin Pending')
  BY <1>1, <1>2 DEF Once, Pending
<1>4. TypeOK' => Types2'
  BY DEF Types2, NoticeHolds, net
<1> QED
  BY <1>3, <1>4, SameUnread DEF net

LEMMA FindInv == ASSUME ClientInv, Find PROVE ClientInv'
<1> USE DEF ClientInv
<1>1. /\ task.pc = "find" /\ NoticeHolds
      /\ task' = IF task.id \in DOMAIN promises THEN [task EXCEPT !.pc = "index"] ELSE IdleTask
      /\ UNCHANGED <<net, menu, promises, started, requests, inbox, corrupt, late, count>>
  BY DEF Find, TaskAt, NoticeHolds
<1>2. /\ task' \in TaskStates
      /\ \/ task'.pc = "index" /\ task'.id = task.id /\ task'.res = task.res
            /\ task.id \in DOMAIN promises
         \/ task'.pc = "idle"
  BY <1>1 DEF Types2, TypeOK, TaskStates, IdleTask, Results
<1>3. TypeOK'
  BY <1>1, <1>2 DEF Types2, TypeOK, TaskStates, net
<1>4. /\ Once' /\ Types2' /\ Unread' /\ Pending' \subseteq Pending
  BY <1>1, <1>2, <1>3, TaskKeeps
<1>5. Owed'
  <2>1. task.id \in DOMAIN promises => task.id \in late \cup Current({"waiting"})
    <3>1. task.id \in late \cup Current({"sent", "waiting"})
      BY <1>1 DEF Owed, Pending, TaskIds
    <3>2. menu.pc = "sent" => DOMAIN promises \subseteq late
      BY DEF Promised, OnlyLatePromisesStay
    <3> QED
      BY <3>1, <3>2 DEF Current
  <2> QED
    BY <1>1, <1>2, <1>4, <2>1 DEF Owed, Current
<1>6. Promised'
  BY <1>1, <1>2, <1>4 DEF Promised, OnlyLatePromisesStay
<1>7. RaceNeedsTimeout'
  BY <1>1 DEF RaceNeedsTimeout
<1> QED
  BY <1>4, <1>5, <1>6, <1>7

LEMMA IndexInv == ASSUME ClientInv, Index PROVE ClientInv'
<1> USE DEF ClientInv
<1>1. /\ task.pc = "index" /\ NoticeHolds /\ task' = [task EXCEPT !.pc = "set"]
      /\ promises' = [i \in DOMAIN promises \cup {task.id} |->
                          IF i \in DOMAIN promises THEN promises[i] ELSE "unset"]
      /\ UNCHANGED <<net, menu, started, requests, inbox, corrupt, late, count>>
  BY DEF Index, TaskAt, NoticeHolds, WithPromise
<1>2. task' \in TaskStates /\ task'.pc = "set" /\ task'.id = task.id /\ task'.res = task.res
  BY <1>1 DEF Types2, TypeOK, TaskStates
<1>3. TypeOK'
  <2>1. task.id \in 1..count.calls
    BY <1>1 DEF Types2
  <2>2. /\ DOMAIN promises' \subseteq 1..count.calls
        /\ \A id \in DOMAIN promises' : promises'[id] \in {"unset", "yes", "no"}
    BY <1>1, <2>1 DEF Types2, TypeOK
  <2> QED
    BY <1>1, <1>2, <2>2 DEF Types2, TypeOK, TaskStates, net
<1>4. /\ Once' /\ Types2' /\ Unread' /\ Pending' \subseteq Pending
  BY <1>1, <1>2, <1>3, TaskKeeps
<1>5. task.id \in late \cup Current({"waiting"})
  BY <1>1 DEF Owed
<1>6. Owed'
  BY <1>1, <1>2, <1>4, <1>5 DEF Owed, Current
<1>7. Promised'
  <2>1. OnlyLatePromisesStay'
    BY <1>1, <1>5 DEF Promised, OnlyLatePromisesStay, Current
  <2>2. \A id \in DOMAIN promises' : promises'[id] # "unset" =>
            id \in DOMAIN promises /\ promises[id] # "unset"
    BY <1>1
  <2>3. task'.id \in DOMAIN promises' /\ DOMAIN promises \subseteq DOMAIN promises'
    BY <1>1, <1>2
  <2> QED
    BY <1>1, <1>4, <2>1, <2>2, <2>3 DEF Promised
<1>8. RaceNeedsTimeout'
  BY <1>1 DEF RaceNeedsTimeout
<1> QED
  BY <1>4, <1>6, <1>7, <1>8

\* the promise Notice sets is gone only if the call has timed out
LEMMA SetValueInv == ASSUME ClientInv, SetValue PROVE ClientInv'
<1> USE DEF ClientInv
<1>1. /\ task.pc = "set" /\ NoticeHolds /\ task' = IdleTask
      /\ UNCHANGED <<net, menu, started, requests, inbox, late, count>>
  BY DEF SetValue, TaskAt, NoticeHolds
<1>2. task' \in TaskStates /\ task'.pc = "idle" /\ task.res \in {"yes", "no"}
  BY <1>1 DEF TaskStates, IdleTask, Results, Types2
<1>3. /\ DOMAIN promises' = DOMAIN promises
      /\ \A id \in DOMAIN promises : id # task.id => promises'[id] = promises[id]
      /\ task.id \in DOMAIN promises => promises'[task.id] = task.res /\ corrupt' = corrupt
      /\ corrupt' \in BOOLEAN
  BY DEF SetValue, Types2, TypeOK
<1>4. TypeOK'
  <2>1. \A id \in DOMAIN promises' : promises'[id] \in {"unset", "yes", "no"}
    BY <1>2, <1>3 DEF Types2, TypeOK
  <2> QED
    BY <1>1, <1>2, <1>3, <2>1 DEF Types2, TypeOK, TaskStates, net
<1>5. /\ Once' /\ Types2' /\ Unread' /\ Pending' \subseteq Pending /\ task.id \notin Pending'
  BY <1>1, <1>2, <1>4, TaskKeeps
<1>6. Owed'
  BY <1>1, <1>2, <1>5 DEF Owed, Current
<1>7. Promised'
  BY <1>1, <1>2, <1>3, <1>5 DEF Promised, OnlyLatePromisesStay
<1>8. RaceNeedsTimeout'
  <2>1. task.id \in DOMAIN promises \cup late
    BY <1>1 DEF Promised
  <2> QED
    BY <1>1, <1>3, <2>1 DEF RaceNeedsTimeout
<1> QED
  BY <1>5, <1>6, <1>7, <1>8


\* steps around the start of a game: no id comes or goes
LEMMA StartKeeps ==
    ASSUME ClientInv,
           task.pc \in {"idle", "countdown"}, task'.pc \in {"idle", "countdown"},
           menu' = menu \/ (menu.pc \in NoCall /\ menu'.pc \in NoCall /\ menu'.id = menu.id),
           UNCHANGED <<promises, requests, net, corrupt, late>>,
           inbox' \in Seq(Messages), Distinct(inbox'), Ids(inbox') = Ids(inbox),
           count'.calls = count.calls, count'.starts = count.starts,
           count' \in Counts,
           TypeOK'
    PROVE  ClientInv'
<1>1. CASE menu.pc \in NoCall /\ menu'.pc \in NoCall /\ menu'.id = menu.id
  BY <1>1, Quiet
<1>2. CASE menu' = menu
  <2> USE DEF ClientInv, net
  <2>1. ~NoticeHolds /\ ~NoticeHolds' /\ TaskIds = {} /\ TaskIds' = {}
    BY DEF NoticeHolds, TaskIds
  <2>2. /\ Ids(wire)' = Ids(wire) /\ Ids(requests)' = Ids(requests)
        /\ Distinct(wire)' /\ Distinct(requests)'
    BY DEF Once, Ids, Distinct
  <2>3. Once' /\ Pending' = Pending
    BY <2>1, <2>2 DEF Once, Pending
  <2>4. Types2'
    BY <1>2, <2>1 DEF Types2
  <2>5. Owed'
    BY <1>2, <2>3 DEF Owed, Current
  <2>6. Promised'
    BY <1>2, <2>3 DEF Promised, OnlyLatePromisesStay
  <2>7. RaceNeedsTimeout' /\ Unread'
    BY DEF RaceNeedsTimeout, Unread, UnreadNeedsOverlap
  <2> QED
    BY <2>3, <2>4, <2>5, <2>6, <2>7
<1> QED
  BY <1>1, <1>2

LEMMA TakeStartInv == ASSUME ClientInv, TakeStart PROVE ClientInv'
<1> USE DEF ClientInv
<1> DEFINE m == Head(inbox)
<1>1. /\ task.pc = "idle" /\ inbox # <<>> /\ m.res = "start" /\ inbox' = Tail(inbox)
      /\ task' = [task EXCEPT !.pc = "countdown"] /\ started' = TRUE
      /\ UNCHANGED <<net, menu, promises, requests, corrupt, late, count>>
  BY DEF TakeStart, TaskAt
<1> HIDE DEF m
<1>2. /\ Distinct(inbox') /\ inbox' \in Seq(Messages) /\ m \in Messages
      /\ Ids(inbox') = Ids(inbox) \ {m.id}
  BY <1>1, TailIds DEF Types2, Once, m
<1>3. Ids(inbox') = Ids(inbox)
  <2>1. m.id = 0 /\ 0 \notin Ids(inbox)
    BY <1>1, <1>2 DEF Messages, Ids
  <2> QED
    BY <1>2, <2>1
<1>4. task' \in TaskStates /\ task'.pc = "countdown"
  BY <1>1 DEF Types2, TypeOK, TaskStates
<1>5. TypeOK'
  BY <1>1, <1>4 DEF Types2, TypeOK, TaskStates, net
<1>6. count' \in Counts
  BY <1>1 DEF Types2
<1> QED
  BY <1>1, <1>2, <1>3, <1>4, <1>5, <1>6, StartKeeps

LEMMA NotifyInv == ASSUME ClientInv, Notify PROVE ClientInv'
<1> USE DEF ClientInv
<1>1. /\ task.pc = "countdown" /\ task' = IdleTask
      /\ UNCHANGED <<net, promises, started, requests, inbox, corrupt, late>>
  BY DEF Notify, TaskAt
<1>2. task' \in TaskStates /\ task'.pc = "idle"
  BY <1>1 DEF TaskStates, IdleTask, Results
<1>3. /\ menu' = menu \/ (menu.pc \in NoCall /\ menu'.pc \in NoCall /\ menu'.id = menu.id)
      /\ menu' \in MenuStates
  BY DEF Notify, NoCall, Types2, TypeOK, MenuStates, MenuPcs
<1>4. /\ count' \in Counts
      /\ count'.calls = count.calls /\ count'.starts = count.starts
  <2>1. count' = count \/ count' = [count EXCEPT !.plays = count.plays + 1]
    BY DEF Notify
  <2>2. count \in Counts /\ count.plays + 1 \in Nat
    BY CountUp DEF Types2
  <2>3. /\ [count EXCEPT !.plays = count.plays + 1] \in Counts
        /\ [count EXCEPT !.plays = count.plays + 1].calls = count.calls
        /\ [count EXCEPT !.plays = count.plays + 1].starts = count.starts
    BY <2>2, CountUp
  <2> QED
    BY <2>1, <2>2, <2>3
<1>5. TypeOK'
  BY <1>1, <1>2, <1>3, <1>4 DEF Types2, TypeOK, TaskStates, MenuStates, MenuPcs, net
<1>6. inbox' \in Seq(Messages) /\ Distinct(inbox') /\ Ids(inbox') = Ids(inbox)
  BY <1>1 DEF Types2, Once
<1> QED
  BY <1>1, <1>2, <1>3, <1>4, <1>5, <1>6, StartKeeps

-----------------------------------------------------------------------------
\* As long as no answer is late and no game has started there is at most one
\* message in the socket: the answer to the call in progress.
LEMMA OneMessage ==
    ASSUME ClientInv, late = {}, ~(count.starts > 0), wire # <<>>
    PROVE  Tail(wire) = <<>>
<1> USE DEF ClientInv
<1>1. \A i \in 1..Len(wire) : wire[i].id # 0 /\ wire[i].id = menu.id
  <2> SUFFICES ASSUME NEW i \in 1..Len(wire)
               PROVE  wire[i].id # 0 /\ wire[i].id = menu.id
    OBVIOUS
  <2>1. wire[i].id # 0
    BY DEF Unread
  <2>2. wire[i].id \in Pending
    BY <2>1 DEF Pending, Ids
  <2> QED
    BY <2>1, <2>2 DEF Owed, Current
<1>2. Distinct(wire) /\ wire \in Seq(Messages)
  BY DEF Once, Types2
<1>3. Len(wire) = 1
  <2>1. Len(wire) \in Nat \ {0}
    BY <1>2
  <2>2. ~(Len(wire) >= 2)
    <3> SUFFICES ASSUME Len(wire) >= 2 PROVE FALSE
      OBVIOUS
    <3>1. 1 \in 1..Len(wire) /\ 2 \in 1..Len(wire)
      BY <2>1
    <3>2. wire[1].id = wire[2].id /\ wire[1].id # 0
      BY <1>1, <3>1
    <3> QED
      BY <1>2, <3>1, <3>2 DEF Distinct
  <2> QED
    BY <2>1, <2>2
<1>4. Tail(wire) \in Seq(Messages) /\ Len(Tail(wire)) = 0
  BY <1>2, <1>3, HeadTailProperties
<1> QED
  BY <1>4, EmptySeq

\* a message goes from the socket to the inbox
LEMMA ReadInv ==
    ASSUME ClientInv, ReadMessage, watch' \in Watches \cup {"off"},
           watch' = "edge" => watch = "edge"
    PROVE  ClientInv'
<1> USE DEF ClientInv
<1> DEFINE m == Head(wire)
<1>1. /\ wire # <<>> /\ wire' = Tail(wire) /\ inbox' = Append(inbox, m) /\ event' = FALSE
      /\ UNCHANGED <<menu, task, promises, started, requests, corrupt, late, count>>
  BY DEF ReadMessage
<1> HIDE DEF m
<1>2. /\ Distinct(wire') /\ wire' \in Seq(Messages) /\ m \in Messages
      /\ Ids(wire') = Ids(wire) \ {m.id}
  BY <1>1, TailIds DEF Types2, Once, m
<1>3. m.id = 0 \/ m.id \in Ids(wire)
  <2>1. m = wire[1] /\ 1 \in 1..Len(wire)
    BY <1>1 DEF m, Types2
  <2> QED
    BY <2>1 DEF Ids
<1>4. m.id \notin Ids(inbox)
  <2>1. 0 \notin Ids(inbox)
    BY DEF Ids
  <2> QED
    BY <1>3, <2>1 DEF Once
<1>5. /\ Distinct(inbox') /\ inbox' \in Seq(Messages)
      /\ Ids(inbox') = Ids(inbox) \cup ({m.id} \ {0})
  <2>1. inbox \in Seq(Messages) /\ Distinct(inbox)
    BY DEF Types2, Once
  <2> QED
    BY <1>1, <1>2, <1>4, <2>1, AppendIds
<1>6. /\ Ids(requests)' = Ids(requests) /\ Distinct(requests)'
      /\ TaskIds' = TaskIds /\ (NoticeHolds' <=> NoticeHolds)
  BY <1>1 DEF Once, Ids, Distinct, TaskIds, NoticeHolds
<1>7. 0 \notin Ids(wire)
  BY DEF Ids
<1>8. Pending' = Pending
  BY <1>2, <1>3, <1>5, <1>6, <1>7 DEF Pending
<1>9. Once'
  BY <1>2, <1>3, <1>5, <1>6 DEF Once
<1>10. Types2'
  <2>1. TypeOK'
    BY <1>1 DEF Types2, TypeOK
  <2> QED
    BY <1>1, <1>2, <1>5, <1>6, <2>1 DEF Types2
<1>11. Owed'
  BY <1>1, <1>8 DEF Owed, Current
<1>12. Promised'
  BY <1>1, <1>8 DEF Promised, OnlyLatePromisesStay
<1>13. RaceNeedsTimeout'
  BY <1>1 DEF RaceNeedsTimeout
<1>14. Unread'
  <2>1. (\E i \in 1..Len(wire') : wire'[i].id = 0) => count.starts > 0
    <3>1. /\ \A i \in 1..Len(wire') : wire'[i] = wire[i + 1] /\ i + 1 \in 1..Len(wire)
      BY <1>1, HeadTailProperties DEF Types2
    <3> QED
      BY <3>1 DEF Unread
  <2>2. UnreadNeedsOverlap'
    BY <1>1, OneMessage DEF UnreadNeedsOverlap
  <2> QED
    BY <1>1, <2>1, <2>2 DEF Unread
<1> QED
  BY <1>9, <1>10, <1>11, <1>12, <1>13, <1>14

\* an unasked start comes
LEMMA OtherStartsInv == ASSUME ClientInv, OtherStarts PROVE ClientInv'
<1> USE DEF ClientInv
<1> DEFINE m == [pc |-> "idle", id |-> 0, res |-> "start"]
<1>1. /\ wire' = Append(wire, m) /\ event' = TRUE
      /\ count' = [count EXCEPT !.starts = count.starts + 1]
      /\ UNCHANGED <<watch, menu, task, promises, started, requests, inbox, corrupt, late>>
  BY DEF OtherStarts, Receive
<1>2. m \in Messages /\ m.id = 0 /\ 0 \notin Ids(wire)
  BY DEF Messages, Ids
<1> HIDE DEF m
<1>3. /\ Distinct(wire') /\ wire' \in Seq(Messages) /\ Ids(wire') = Ids(wire)
  <2>1. wire \in Seq(Messages) /\ Distinct(wire)
    BY DEF Types2, Once
  <2>2. /\ Distinct(wire') /\ wire' \in Seq(Messages)
        /\ Ids(wire') = Ids(wire) \cup ({m.id} \ {0})
    BY <1>1, <1>2, <2>1, AppendIds
  <2> QED
    BY <1>2, <2>2
<1>4. count' \in Counts /\ count'.calls = count.calls /\ count'.starts > 0
  <2>1. count' \in Counts /\ count'.calls = count.calls /\ count'.starts = count.starts + 1
    BY <1>1, CountUp DEF Types2
  <2> QED
    BY <2>1 DEF Types2, Counts
<1>5. /\ Ids(requests)' = Ids(requests) /\ Distinct(requests)'
      /\ Ids(inbox)' = Ids(inbox) /\ Distinct(inbox)'
      /\ TaskIds' = TaskIds /\ (NoticeHolds' <=> NoticeHolds)
  BY <1>1 DEF Once, Ids, Distinct, TaskIds, NoticeHolds
<1>6. Once' /\ Pending' = Pending
  BY <1>3, <1>5 DEF Once, Pending
<1>7. Types2'
  <2>1. TypeOK'
    BY <1>1, <1>4 DEF Types2, TypeOK
  <2> QED
    BY <1>1, <1>3, <1>4, <1>5, <2>1 DEF Types2
<1>8. Owed'
  BY <1>1, <1>4, <1>6 DEF Owed, Current
<1>9. Promised'
  BY <1>1, <1>6 DEF Promised, OnlyLatePromisesStay
<1>10. RaceNeedsTimeout' /\ Unread'
  BY <1>1, <1>4 DEF RaceNeedsTimeout, Unread, UnreadNeedsOverlap
<1> QED
  BY <1>6, <1>7, <1>8, <1>9, <1>10

\* the server answers the oldest request
LEMMA ServeInv == ASSUME ClientInv, Serve PROVE ClientInv'
<1> USE DEF ClientInv
<1> DEFINE r == Head(requests)
<1>1. /\ requests # <<>> /\ requests' = Tail(requests)
      /\ UNCHANGED <<menu, task, promises, started, watch, inbox, corrupt, late>>
  BY DEF Serve
<1>2. /\ Distinct(requests') /\ requests' \in Seq(Requests) /\ r \in Requests
      /\ Ids(requests') = Ids(requests) \ {r.id}
  BY <1>1, TailIds DEF Types2, Once
<1>3. r.id = 0 \/ r.id \in Ids(requests)
  <2>1. r = requests[1] /\ 1 \in 1..Len(requests)
    BY <1>1 DEF Types2
  <2> QED
    BY <2>1 DEF Ids
<1>4. \E m \in Messages :
        /\ m.id = r.id /\ wire' = Append(wire, m) /\ event' = TRUE
        /\ count' = IF m.id = 0 THEN [count EXCEPT !.starts = count.starts + 1] ELSE count
  <2>1. CASE r.type = "GAME_START"
    <3> DEFINE m == [pc |-> "idle", id |-> 0, res |-> "start"]
    <3>1. /\ wire' = Append(wire, m) /\ event' = TRUE
          /\ count' = [count EXCEPT !.starts = count.starts + 1]
      BY <2>1 DEF Serve, Receive
    <3>2. m \in Messages /\ m.id = r.id /\ m.id = 0
      BY <1>2, <2>1 DEF Messages, Requests
    <3> HIDE DEF m
    <3> QED
      BY <3>1, <3>2
  <2>2. CASE r.type # "GAME_START"
    <3>1. PICK res \in {"yes", "no"} :
             /\ wire' = Append(wire, [pc |-> "idle", id |-> r.id, res |-> res])
             /\ event' = TRUE /\ count' = count
      BY <2>2 DEF Serve, Receive
    <3> DEFINE m == [pc |-> "idle", id |-> r.id, res |-> res]
    <3>2. m \in Messages /\ m.id = r.id /\ m.id # 0
      BY <1>2, <2>2 DEF Messages, Requests
    <3>3. wire' = Append(wire, m)
      BY <3>1
    <3> HIDE DEF m
    <3> QED
      BY <3>1, <3>2, <3>3
  <2> QED
    BY <2>1, <2>2
<1>5. PICK m \in Messages :
        /\ m.id = r.id /\ wire' = Append(wire, m) /\ event' = TRUE
        /\ count' = IF m.id = 0 THEN [count EXCEPT !.starts = count.starts + 1] ELSE count
  BY <1>4
<1> HIDE DEF r
<1>6. 0 \notin Ids(wire) /\ 0 \notin Ids(requests)
  BY DEF Ids
<1>7. m.id \notin Ids(wire)
  BY <1>3, <1>5, <1>6 DEF Once
<1>8. /\ Distinct(wire') /\ wire' \in Seq(Messages)
      /\ Ids(wire') = Ids(wire) \cup ({m.id} \ {0})
  <2>1. wire \in Seq(Messages) /\ Distinct(wire)
    BY DEF Types2, Once
  <2> QED
    BY <1>5, <1>7, <2>1, AppendIds
<1>9. /\ count' \in Counts /\ count'.calls = count.calls
      /\ count'.starts = (IF m.id = 0 THEN count.starts + 1 ELSE count.starts)
      /\ count.starts \in Nat
  <2>1. count \in Counts /\ count.starts \in Nat
    BY DEF Types2, Counts
  <2> QED
    BY <1>5, <2>1, CountUp
<1>10. /\ Ids(inbox)' = Ids(inbox) /\ Distinct(inbox)'
       /\ TaskIds' = TaskIds /\ (NoticeHolds' <=> NoticeHolds)
  BY <1>1 DEF Once, Ids, Distinct, TaskIds, NoticeHolds
<1>11. Pending' = Pending
  BY <1>2, <1>3, <1>5, <1>6, <1>8, <1>10 DEF Pending
<1>12. Once'
  BY <1>2, <1>3, <1>5, <1>6, <1>8, <1>10 DEF Once
<1>13. Types2'
  <2>1. TypeOK'
    BY <1>1, <1>5, <1>9 DEF Types2, TypeOK
  <2> QED
    BY <1>1, <1>2, <1>8, <1>9, <1>10, <2>1 DEF Types2
<1>14. Owed'
  BY <1>1, <1>9, <1>11 DEF Owed, Current
<1>15. Promised'
  BY <1>1, <1>11 DEF Promised, OnlyLatePromisesStay
<1>16. RaceNeedsTimeout'
  BY <1>1 DEF RaceNeedsTimeout
<1>17. Unread'
  <2>1. (\E i \in 1..Len(wire') : wire'[i].id = 0) => count'.starts > 0
    <3> SUFFICES ASSUME NEW i \in 1..Len(wire'), wire'[i].id = 0
                 PROVE  count'.starts > 0
      OBVIOUS
    <3>1. /\ Len(wire') = Len(wire) + 1 /\ Len(wire) \in Nat
          /\ \A k \in 1..Len(wire) : wire'[k] = wire[k]
          /\ wire'[Len(wire) + 1] = m
      BY <1>5 DEF Types2
    <3>2. CASE i \in 1..Len(wire)
      <4>1. count.starts > 0
        BY <3>1, <3>2 DEF Unread
      <4> QED
        BY <1>9, <4>1
    <3>3. CASE i = Len(wire) + 1
      BY <1>9, <3>1, <3>3
    <3> QED
      BY <3>1, <3>2, <3>3
  <2>2. UnreadNeedsOverlap'
    BY <1>5 DEF UnreadNeedsOverlap
  <2> QED
    BY <2>1, <2>2 DEF Unread
<1> QED
  BY <1>12, <1>13, <1>14, <1>15, <1>16, <1>17
-----------------------------------------------------------------------------
LEMMA StillClient == ASSUME ClientInv, UNCHANGED vars PROVE ClientInv'
<1> USE DEF ClientInv, vars, net
<1>1. Once' /\ Pending' = Pending /\ (NoticeHolds' <=> NoticeHolds)
  BY SamePending
<1>2. Types2'
  BY <1>1 DEF Types2, TypeOK
<1>3. Owed' /\ Promised'
  BY <1>1 DEF Owed, Promised, OnlyLatePromisesStay, Current
<1> QED
  BY <1>1, <1>2, <1>3, SameUnread DEF RaceNeedsTimeout

LEMMA StepClient == ClientInv /\ [Next]_vars => ClientInv'
<1> SUFFICES ASSUME ClientInv, [Next]_vars PROVE ClientInv'
  OBVIOUS
<1>1. CASE Choose
  <2>1. PICK type \in {"QUERY", "GAME_READY", "REQ_GAME_START"} : Call(type)
    BY <1>1 DEF Choose
  <2>2. menu.pc = "menu" /\ type \in Types
    BY <1>1 DEF Choose, MenuAt, Types
  <2> QED
    BY <2>1, <2>2, CallInv
<1>2. CASE QuitReady
  <2>1. menu.pc = "quit" /\ Call("QUIT_GAME_READY") /\ "QUIT_GAME_READY" \in Types
    BY <1>2 DEF QuitReady, MenuAt, Types
  <2> QED
    BY <2>1, CallInv
<1>3. CASE Register
  BY <1>3, RegisterInv
<1>4. CASE Answered
  BY <1>4, AnsweredInv
<1>5. CASE Timeout
  BY <1>5, TimeoutInv
<1>6. CASE Erase
  BY <1>6, EraseInv
<1>7. CASE Clear \/ SeeStart \/ Cancel \/ Enter \/ WakeSpuriously \/ EndGame
  BY <1>7, QuietMenu
<1>8. CASE Command
  BY <1>8, CommandInv
<1>9. CASE TakeAnswer
  BY <1>9, TakeAnswerInv
<1>10. CASE Find
  BY <1>10, FindInv
<1>11. CASE Index
  BY <1>11, IndexInv
<1>12. CASE SetValue
  BY <1>12, SetValueInv
<1>13. CASE TakeStart
  BY <1>13, TakeStartInv
<1>14. CASE Notify
  BY <1>14, NotifyInv
<1>15. CASE ReceiveThread
  <2>1. /\ ReadMessage /\ watch' \in Watches \cup {"off"}
        /\ watch' = "edge" => watch = "edge"
    BY <1>15 DEF ReceiveThread, ReadLevel, ReadEdge, ReadOnce, ClientInv, Types2, TypeOK
  <2> QED
    BY <2>1, ReadInv
<1>16. CASE Serve
  BY <1>16, ServeInv
<1>17. CASE OtherStarts
  BY <1>17, OtherStartsInv
<1>18. CASE UNCHANGED vars
  BY <1>18, StillClient
<1> QED
  BY <1>1, <1>2, <1>3, <1>4, <1>5, <1>6, <1>7, <1>8, <1>9, <1>10, <1>11, <1>12, <1>13,
     <1>14, <1>15, <1>16, <1>17, <1>18 DEF Next, MenuThread, User, TaskThread

\* ClientInv holds in every state a client process can reach.
THEOREM ClientInvariant == Spec => []ClientInv
  BY InitClient, StepClient, PTL DEF Spec

\* The state of the four threads of a client and of the messages between them
\* stays well formed (class CClientMng).
THEOREM ClientTypeCorrect == Spec => []TypeOK
<1>1. ClientInv => TypeOK
  BY DEF ClientInv, Types2
<1> QED
  BY <1>1, ClientInvariant, PTL

\* However many calls are made, the table of awaited answers (CEventNotice) holds
\* no promise but those of calls that timed out and of the call in progress.
THEOREM PromisesStayLate == Spec => []OnlyLatePromisesStay
<1>1. ClientInv => OnlyLatePromisesStay
  BY DEF ClientInv, Promised
<1> QED
  BY <1>1, ClientInvariant, PTL

\* WaitNoticeFor erases without the mutex, and yet the two threads are never in the
\* table at once unless a call has timed out.
THEOREM RacesNeedTimeouts == Spec => []RaceNeedsTimeout
<1>1. ClientInv => RaceNeedsTimeout
  BY DEF ClientInv
<1> QED
  BY <1>1, ClientInvariant, PTL

\* With an edge-triggered socket a message is left behind only after an answer came
\* late or a game started.
THEOREM UnreadNeedOverlaps == Spec => []UnreadNeedsOverlap
<1>1. ClientInv => UnreadNeedsOverlap
  BY DEF ClientInv, Unread
<1> QED
  BY <1>1, ClientInvariant, PTL

-----------------------------------------------------------------------------
(* Games and starts.                                                       *)

StartMessages == {m \in Messages : m.res = "start"}

\* the starts that may still wake the menu thread
Coming == Cardinality(Places(wire, StartMessages)) + Cardinality(Places(inbox, StartMessages))
              + (IF task.pc = "countdown" THEN 1 ELSE 0)
PlaysInv == count.plays + Coming <= count.starts + count.wakes

LEMMA ComingType == ASSUME ClientInv PROVE Coming \in Nat
BY PlacesFinite DEF ClientInv, Types2, Coming

\* steps that touch no message and wake nobody
LEMMA SamePlays ==
    ASSUME ClientInv, PlaysInv, UNCHANGED <<wire, inbox>>,
           task'.pc = "countdown" => task.pc = "countdown",
           count' = count \/ count' = [count EXCEPT !.calls = @ + 1]
    PROVE  PlaysInv'
<1>1. UNCHANGED <<count.plays, count.starts, count.wakes>>
  BY DEF ClientInv, Types2, Counts
<1>2. Coming \in Nat /\ Coming' \in Nat /\ Coming' <= Coming
  <2>1. /\ Cardinality(Places(wire, StartMessages)) \in Nat
        /\ Cardinality(Places(inbox, StartMessages)) \in Nat
    BY PlacesFinite DEF ClientInv, Types2
  <2> QED
    BY <2>1 DEF Coming, Places, StartMessages, Messages
<1> QED
  BY <1>1, <1>2 DEF PlaysInv, ClientInv, Types2, Counts

LEMMA StepPlays == ClientInv /\ ClientInv' /\ PlaysInv /\ [Next]_vars => PlaysInv'
<1> SUFFICES ASSUME ClientInv, ClientInv', PlaysInv, [Next]_vars PROVE PlaysInv'
  OBVIOUS
<1> DEFINE inWire == Cardinality(Places(wire, StartMessages))
           inInbox == Cardinality(Places(inbox, StartMessages))
           counting == IF task.pc = "countdown" THEN 1 ELSE 0
<1>0. /\ wire \in Seq(Messages) /\ inbox \in Seq(Messages)
      /\ count \in Counts /\ count' \in Counts
      /\ inWire \in Nat /\ inInbox \in Nat /\ counting \in Nat
  BY PlacesFinite DEF ClientInv, Types2
<1>1. CASE Register \/ Answered \/ Timeout \/ Erase \/ Clear \/ SeeStart \/ Command \/ Enter
           \/ Cancel \/ EndGame \/ Find \/ Index \/ SetValue \/ UNCHANGED vars
  <2>1. UNCHANGED <<wire, inbox, count>>
    BY <1>1 DEF Register, Answered, Timeout, Erase, Clear, SeeStart, Command, Enter,
                Cancel, EndGame, Find, Index, SetValue, vars, net
  <2>2. task'.pc = "countdown" => task.pc = "countdown"
    BY <1>1 DEF Register, Answered, Timeout, Erase, Clear, SeeStart, Command, Enter,
                Cancel, EndGame, Find, Index, SetValue, vars, IdleTask, ClientInv, Types2, TypeOK
  <2> QED
    BY <2>1, <2>2, SamePlays
<1>2. CASE QuitReady \/ Choose
  <2>1. PICK type \in Types : Call(type)
    BY <1>2 DEF QuitReady, Choose, Types
  <2>2. UNCHANGED <<wire, inbox, task>> /\ count' = [count EXCEPT !.calls = count.calls + 1]
    BY <2>1 DEF Call, net
  <2> QED
    BY <2>2, SamePlays
<1>3. CASE WakeSpuriously
  <2>1. /\ UNCHANGED <<wire, inbox, task>>
        /\ count'.plays = count.plays + 1 /\ count'.wakes = count.wakes + 1
        /\ count'.starts = count.starts
    BY <1>0, <1>3 DEF WakeSpuriously, net, Counts
  <2>2. Coming' = Coming
    BY <2>1 DEF Coming, Places, StartMessages, Messages
  <2> QED
    BY <1>0, <2>1, <2>2, ComingType DEF PlaysInv, Counts
<1>4. CASE TakeAnswer
  <2>1. /\ task.pc = "idle" /\ task'.pc = "find" /\ UNCHANGED <<wire, count>>
        /\ inbox # <<>> /\ Head(inbox) \notin StartMessages /\ inbox' = Tail(inbox)
    <3>1. Head(inbox) \in Messages
      BY <1>0, <1>4, HeadTailProperties DEF TakeAnswer
    <3> QED
      BY <1>4, <3>1 DEF TakeAnswer, TaskAt, net, StartMessages, Messages
  <2>2. inInbox = Cardinality(Places(Tail(inbox), StartMessages))
    <3>1. inInbox = Cardinality(Places(Tail(inbox), StartMessages)) + 0
      BY <1>0, <2>1, CountTail
    <3>2. Cardinality(Places(Tail(inbox), StartMessages)) \in Nat
      BY <1>0, <2>1, PlacesFinite, HeadTailProperties
    <3> QED
      BY <3>1, <3>2
  <2>3. Coming' = Coming
    BY <2>1, <2>2 DEF Coming, Places, StartMessages, Messages
  <2> QED
    BY <2>1, <2>3 DEF PlaysInv
<1>5. CASE TakeStart
  <2>1. /\ task.pc = "idle" /\ task'.pc = "countdown" /\ UNCHANGED <<wire, count>>
        /\ inbox # <<>> /\ Head(inbox) \in StartMessages /\ inbox' = Tail(inbox)
    <3>1. Head(inbox) \in Messages
      BY <1>0, <1>5, HeadTailProperties DEF TakeStart
    <3> QED
      BY <1>5, <3>1 DEF TakeStart, TaskAt, net, StartMessages, ClientInv, Types2, TypeOK
  <2>2. inInbox = Cardinality(Places(Tail(inbox), StartMessages)) + 1
    BY <1>0, <2>1, CountTail
  <2>3. Cardinality(Places(Tail(inbox), StartMessages)) \in Nat
    BY <1>0, <2>1, PlacesFinite, HeadTailProperties
  <2>4. Coming' = Coming
    <3>1. Coming' = inWire + Cardinality(Places(Tail(inbox), StartMessages)) + 1
      BY <2>1 DEF Coming, Places, StartMessages, Messages
    <3>2. Coming = inWire + inInbox + 0
      BY <2>1 DEF Coming
    <3> QED
      BY <1>0, <2>2, <2>3, <3>1, <3>2
  <2> QED
    BY <2>1, <2>4 DEF PlaysInv
<1>6. CASE Notify
  <2>1. /\ task.pc = "countdown" /\ task'.pc = "idle" /\ UNCHANGED <<wire, inbox>>
        /\ count'.plays \in {count.plays, count.plays + 1}
        /\ count'.starts = count.starts /\ count'.wakes = count.wakes
    BY <1>0, <1>6 DEF Notify, TaskAt, IdleTask, net, Counts
  <2>2. Coming' = Coming - 1
    <3>1. Coming = inWire + inInbox + 1 /\ Coming' = inWire + inInbox + 0
      BY <2>1 DEF Coming, Places, StartMessages, Messages
    <3> QED
      BY <1>0, <3>1
  <2> QED
    BY <1>0, <2>1, <2>2, ComingType DEF PlaysInv, Counts
<1>7. CASE ReadLevel \/ ReadEdge \/ ReadOnce
  <2>1. /\ wire # <<>> /\ wire' = Tail(wire) /\ inbox' = Append(inbox, Head(wire))
        /\ UNCHANGED <<task, count>>
    BY <1>7 DEF ReadLevel, ReadEdge, ReadOnce, ReadMessage
  <2>2. Head(wire) \in Messages /\ Tail(wire) \in Seq(Messages)
    BY <1>0, <2>1, HeadTailProperties
  <2>3. inWire = Cardinality(Places(Tail(wire), StartMessages))
                     + (IF Head(wire) \in StartMessages THEN 1 ELSE 0)
    BY <1>0, <2>1, CountTail
  <2>4. Cardinality(Places(Append(inbox, Head(wire)), StartMessages)) =
            inInbox + (IF Head(wire) \in StartMessages THEN 1 ELSE 0)
    BY <1>0, <2>2, CountAppend
  <2>5. Cardinality(Places(Tail(wire), StartMessages)) \in Nat
    BY <2>2, PlacesFinite
  <2>6. Coming' = Coming
    <3>1. Coming' = Cardinality(Places(Tail(wire), StartMessages))
                        + Cardinality(Places(Append(inbox, Head(wire)), StartMessages)) + counting
      BY <2>1 DEF Coming, Places, StartMessages, Messages
    <3> QED
      BY <1>0, <2>3, <2>4, <2>5, <3>1 DEF Coming
  <2> QED
    BY <2>1, <2>6 DEF PlaysInv
<1>8. CASE Serve \/ OtherStarts
  <2>1. PICK id, res : Receive(id, res) /\ (res = "start" => count'.starts = count.starts + 1)
    BY <1>0, <1>8 DEF Serve, OtherStarts, Counts
  <2>2. /\ UNCHANGED <<task, inbox>>
        /\ count'.plays = count.plays /\ count'.wakes = count.wakes
        /\ count'.starts \in {count.starts, count.starts + 1}
    BY <1>0, <1>8 DEF Serve, OtherStarts, Counts
  <2> DEFINE m == [pc |-> "idle", id |-> id, res |-> res]
  <2>3. wire' = Append(wire, m)
    BY <2>1 DEF Receive
  <2>4. m \in Messages
    <3>1. wire' \in Seq(Messages) /\ Len(wire') = Len(wire) + 1 /\ wire'[Len(wire) + 1] = m
          /\ Len(wire) \in Nat
      BY <1>0, <2>3 DEF ClientInv, Types2
    <3> HIDE DEF m
    <3> QED
      BY <3>1, ElementOfSeq
  <2>5. Cardinality(Places(Append(wire, m), StartMessages)) =
            inWire + (IF m \in StartMessages THEN 1 ELSE 0)
    BY <1>0, <2>4, CountAppend
  <2>6. m \in StartMessages => res = "start"
    BY DEF StartMessages
  <2> HIDE DEF m
  <2>7. Coming' = Coming + (IF m \in StartMessages THEN 1 ELSE 0)
    <3>1. Coming' = Cardinality(Places(Append(wire, m), StartMessages)) + inInbox + counting
      BY <2>2, <2>3 DEF Coming, Places, StartMessages, Messages
    <3> QED
      BY <1>0, <2>5, <3>1 DEF Coming
  <2> QED
    BY <1>0, <2>1, <2>2, <2>6, <2>7, ComingType DEF PlaysInv, Counts
<1> QED
  BY <1>1, <1>2, <1>3, <1>4, <1>5, <1>6, <1>7, <1>8 DEF Next, MenuThread, User, TaskThread, ReceiveThread

\* m_cv.wait has no condition, yet every game that is entered has a start of its
\* own that the server sent, or a wake-up for no reason (game_start, set_start).
THEOREM PlaysNeedStart == Spec => []PlaysNeedStarts
<1>1. Init => PlaysInv
  BY CountEmpty DEF Init, Connected, IdleTask, PlaysInv, Coming
<1>2. ClientInv /\ PlaysInv => PlaysNeedStarts
  BY ComingType DEF PlaysInv, PlaysNeedStarts, ClientInv, Types2, Counts
<1> QED
  BY <1>1, <1>2, ClientInvariant, StepPlays, PTL DEF Spec

=============================================================================
