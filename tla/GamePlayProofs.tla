--------------------------- MODULE GamePlayProofs ---------------------------
(***************************************************************************)
(* What holds of a game however many players, clients, frames and games    *)
(* there are and however large the board is.  The first part is about the  *)
(* threads of a client: when two refresh threads cannot meet on one map,   *)
(* and that in a first game no frame is skipped or played twice on its way *)
(* to the map.                                                             *)
(* The second is about the board: what each operator of CMap and CSnake    *)
(* makes of one, and that the maps of all clients stay sound.  The third   *)
(* follows the commands of the players into the frames.                    *)
(***************************************************************************)
EXTENDS GamePlay, DataLemmas

Records(B) ==
    [invited : BOOLEAN, on : BOOLEAN, games : Nat, seed : B, binding : BOOLEAN,
     recv : {"none", "bound", "receiving", "queued"}, hasty : BOOLEAN,
     refresh : Seq({"waiting", "asleep"}), que : Seq(Nat), seen : Seq(Nat),
     board : B, exited : BOOLEAN]

IsClient(r) == \E B : r \in Records(B)

Shape ==
    /\ DOMAIN client = Clients /\ client = [c \in Clients |-> client[c]]
    /\ net \in [Clients -> Seq(Nat)]
    /\ faults \in Nat
    /\ \E S : log \in Seq(S)
    /\ \A c \in Clients : IsClient(client[c])

\* While a new receive thread has yet to find the port held, there may be two
\* refresh threads; else there is one at most.  One that outlived its game, its
\* receive thread gone or about to go, sleeps or has the frame that will make
\* it end.
Lone(r) == ~(r.binding /\ r.recv # "none") => Len(r.refresh) <= 1
Ends(r) ==
    ~r.on /\ r.recv \in {"none", "queued"} /\ r.refresh # <<>> =>
        r.refresh[1] = "asleep" \/ r.que # <<>>

OneThread(r) ==
    ~r.exited /\ ~r.hasty =>
        /\ r.binding \/ r.recv = "bound" => r.on
        /\ Lone(r) /\ Ends(r)

\* the frames a client has had, in the order in which they reach its map
Way(r, n) == r.seen \o r.que \o n
Consecutive(w) == \A i \in 1 .. Len(w) - 1 : w[i + 1] = w[i] + 1

Fresh(r, n) ==
    /\ r.games = 0 => ~r.binding /\ ~r.on /\ r.refresh = <<>>
    /\ r.games = 0 \/ (r.games = 1 /\ r.binding) =>
          r.seen = <<>> /\ r.que = <<>> /\ n = <<>> /\ r.recv = "none"

\* While the receive thread lives, the last of them is the last one sent.
UpToDate(r, n) ==
    r.games = 1 /\ r.board.state = "ok" /\ faults = 0 =>
        /\ Consecutive(Way(r, n))
        /\ r.recv # "none" /\ Way(r, n) # <<>> => Way(r, n)[Len(Way(r, n))] = Len(log)

Good(c) ==
    /\ OneThread(client[c])
    /\ Fresh(client[c], net[c])
    /\ UpToDate(client[c], net[c])

PlayInv == Shape /\ \A c \in Clients : Good(c)

-----------------------------------------------------------------------------
(* Sequences of frames.                                                      *)

LEMMA TakeHead ==
  ASSUME NEW S, NEW s \in Seq(S), NEW t \in Seq(S), t # <<>>
  PROVE  /\ Append(s, Head(t)) \in Seq(S) /\ Tail(t) \in Seq(S)
         /\ Append(s, Head(t)) \o Tail(t) = s \o t
<1>1. Head(t) \in S /\ Tail(t) \in Seq(S) /\ t = <<Head(t)>> \o Tail(t)
  <2>1. Head(t) \in S /\ Tail(t) \in Seq(S)
    BY HeadTailProperties
  <2>2. Len(t) \in Nat \ {0} /\ Len(Tail(t)) = Len(t) - 1
        /\ \A i \in 1 .. Len(Tail(t)) : Tail(t)[i] = t[i + 1]
    BY HeadTailProperties, EmptySeq
  <2>3. \A i \in 1 .. Len(t) : (<<Head(t)>> \o Tail(t))[i] = t[i]
    BY <2>1, <2>2
  <2>4. <<Head(t)>> \o Tail(t) \in Seq(S) /\ Len(<<Head(t)>> \o Tail(t)) = Len(t)
    BY <2>1, <2>2
  <2> QED
    BY <2>1, <2>3, <2>4, SeqEqual
<1>2. Append(s, Head(t)) = s \o <<Head(t)>> /\ Append(s, Head(t)) \in Seq(S)
  BY <1>1, AppendIsConcat
<1>3. <<Head(t)>> \in Seq(S)
  BY <1>1
<1>4. (s \o <<Head(t)>>) \o Tail(t) = s \o (<<Head(t)>> \o Tail(t))
  BY <1>1, <1>3, ConcatAssociative
<1> QED
  BY <1>1, <1>2, <1>4

\* A datagram that is sent comes last.
LEMMA WayGrows ==
  ASSUME NEW s \in Seq(Nat), NEW q \in Seq(Nat), NEW n \in Seq(Nat), NEW e \in Nat
  PROVE  s \o q \o Append(n, e) = Append(s \o q \o n, e)
<1>1. s \o q \in Seq(Nat) /\ (s \o q) \o n \in Seq(Nat) /\ <<e>> \in Seq(Nat)
  BY ConcatProperties
<1>2. (s \o q) \o (n \o <<e>>) = ((s \o q) \o n) \o <<e>>
  BY <1>1, ConcatAssociative
<1> QED
  BY <1>1, <1>2, AppendIsConcat

\* The receive thread and the refresh thread move a frame along its way.
LEMMA WayStays ==
  ASSUME NEW s \in Seq(Nat), NEW q \in Seq(Nat), NEW n \in Seq(Nat)
  PROVE  /\ n # <<>> => s \o Append(q, Head(n)) \o Tail(n) = s \o q \o n
         /\ q # <<>> => Append(s, Head(q)) \o Tail(q) \o n = s \o q \o n
<1>1. ASSUME NEW u \in Seq(Nat), NEW v \in Seq(Nat) PROVE (s \o u) \o v = s \o (u \o v)
  BY ConcatAssociative
<1>2. \A u, v \in Seq(Nat) : v # <<>> =>
        /\ Append(u, Head(v)) \in Seq(Nat) /\ Tail(v) \in Seq(Nat)
        /\ Append(u, Head(v)) \o Tail(v) = u \o v
  BY TakeHead
<1>3. ASSUME n # <<>> PROVE s \o Append(q, Head(n)) \o Tail(n) = s \o q \o n
  <2>1. /\ Append(q, Head(n)) \in Seq(Nat) /\ Tail(n) \in Seq(Nat)
        /\ Append(q, Head(n)) \o Tail(n) = q \o n
    BY <1>2, <1>3
  <2>2. (s \o q) \o n = s \o (q \o n)
    BY <1>1
  <2>3. \A u, v \in Seq(Nat) : u \o v = q \o n => (s \o u) \o v = (s \o q) \o n
    BY <1>1, <2>2
  <2> QED
    BY <2>1, <2>3
<1> QED
  BY <1>2, <1>3

LEMMA ConsecutiveAppend ==
  ASSUME NEW w \in Seq(Nat), Consecutive(w), NEW k \in Nat,
         w # <<>> => w[Len(w)] = k
  PROVE  /\ Consecutive(Append(w, k + 1))
         /\ Append(w, k + 1)[Len(Append(w, k + 1))] = k + 1
<1>1. /\ Len(w) \in Nat /\ Len(Append(w, k + 1)) = Len(w) + 1
      /\ \A i \in 1 .. Len(w) : Append(w, k + 1)[i] = w[i]
      /\ Append(w, k + 1)[Len(w) + 1] = k + 1
  BY AppendProperties, LenProperties
<1>2. Len(w) > 0 => w[Len(w)] = k
  BY EmptySeq
<1>3. ASSUME NEW i \in 1 .. Len(w)
      PROVE  Append(w, k + 1)[i + 1] = Append(w, k + 1)[i] + 1
  <2>1. CASE i = Len(w)
    BY <1>1, <1>2, <1>3, <2>1
  <2>2. CASE i < Len(w)
    BY <1>1, <1>3, <2>2 DEF Consecutive
  <2> QED
    BY <1>1, <1>3, <2>1, <2>2
<1> QED
  BY <1>1, <1>3 DEF Consecutive

\* what is left of the way when the thread closes its socket
LEMMA ConsecutivePart ==
  ASSUME NEW w \in Seq(Nat), NEW m \in Seq(Nat), Consecutive(w \o m)
  PROVE  Consecutive(w)
<1>1. /\ Len(w) \in Nat /\ Len(m) \in Nat /\ Len(w \o m) = Len(w) + Len(m)
      /\ \A i \in 1 .. Len(w) : (w \o m)[i] = w[i]
  BY ConcatProperties, LenProperties
<1>2. \A i \in 1 .. Len(w) - 1 : (w \o m)[i + 1] = (w \o m)[i] + 1
  BY <1>1 DEF Consecutive
<1> QED
  BY <1>1, <1>2 DEF Consecutive

-----------------------------------------------------------------------------
LEMMA InitInv == Init => PlayInv
<1> SUFFICES ASSUME Init PROVE PlayInv
  OBVIOUS
<1>1. IsClient(NoClient)
  <2>1. NoClient \in Records({0, NoGame})
    BY EmptySeq DEF NoClient, Records
  <2> QED
    BY <2>1 DEF IsClient
<1>2. Shape
  <2>1. log \in Seq({})
    BY EmptySeq DEF Init
  <2> QED
    BY <1>1, <2>1, EmptySeq DEF Init, Shape
<1>3. ASSUME NEW c \in Clients PROVE Good(c)
  <2>1. client[c] = NoClient /\ net[c] = <<>>
    BY DEF Init
  <2> QED
    BY <2>1, EmptySeq DEF Good, OneThread, Lone, Ends, Fresh, UpToDate, NoClient
<1> QED
  BY <1>2, <1>3 DEF PlayInv

-----------------------------------------------------------------------------
(* The steps of a client.                                                    *)

\* A step of one client keeps the invariant if what it makes of that client
\* is good.
LEMMA Moves ==
  ASSUME PlayInv, NEW c \in Clients, NEW now, NEW n \in Seq(Nat),
         Becomes(c, now), net' = [net EXCEPT ![c] = n],
         IsClient(now), OneThread(now), Fresh(now, n), UpToDate(now, n)
  PROVE  PlayInv'
<1>1. client' = [client EXCEPT ![c] = now] /\ log' = log /\ faults' = faults
  BY DEF Becomes
<1>2. /\ DOMAIN client = Clients /\ net \in [Clients -> Seq(Nat)]
      /\ client = [d \in Clients |-> client[d]]
  BY DEF PlayInv, Shape
<1>3. \A d \in Clients : /\ client'[d] = IF d = c THEN now ELSE client[d]
                         /\ net'[d] = IF d = c THEN n ELSE net[d]
  BY <1>1, <1>2
<1>4. Shape'
  <2>1. DOMAIN client' = Clients /\ client' = [d \in Clients |-> client'[d]]
    BY <1>1, <1>2
  <2>2. net' \in [Clients -> Seq(Nat)]
    BY <1>2
  <2>3. \A d \in Clients : IsClient(client[d])
    BY DEF PlayInv, Shape
  <2>4. \A d \in Clients : IsClient(client'[d])
    BY <1>3, <2>3
  <2>5. faults' \in Nat /\ \E S : log' \in Seq(S)
    BY <1>1 DEF PlayInv, Shape
  <2> QED
    BY <2>1, <2>2, <2>4, <2>5 DEF Shape
<1>5. ASSUME NEW d \in Clients PROVE Good(d)'
  <2>1. CASE d = c
    BY <1>1, <1>3, <2>1 DEF Good, UpToDate
  <2>2. CASE d # c
    <3>1. Good(d) /\ client'[d] = client[d] /\ net'[d] = net[d]
      BY <1>3, <2>2 DEF PlayInv
    <3> QED
      BY <1>1, <3>1 DEF Good, UpToDate
  <2> QED
    BY <2>1, <2>2
<1> QED
  BY <1>4, <1>5 DEF PlayInv

LEMMA StopInv ==
  ASSUME PlayInv, NEW c \in Clients, Stop(c)
  PROVE  PlayInv'
<1> DEFINE me == client[c]
           now == [me EXCEPT !.on = FALSE,
                             !.hasty = @ \/ me.binding \/ me.recv # "receiving"]
<1>1. IsClient(me) /\ Good(c) /\ net \in [Clients -> Seq(Nat)]
  BY DEF PlayInv, Shape
<1>2. /\ IsClient(now)
      /\ now.on = FALSE /\ now.games = me.games /\ now.recv = me.recv
      /\ now.hasty = (me.hasty \/ me.binding \/ me.recv # "receiving")
      /\ now.binding = me.binding
      /\ now.refresh = me.refresh /\ now.que = me.que /\ now.seen = me.seen
      /\ now.board = me.board /\ now.exited = me.exited
  <2>1. PICK B : me \in Records(B)
    BY <1>1 DEF IsClient
  <2>2. now \in Records(B)
    BY <2>1 DEF Records
  <2> QED
    BY <2>1, <2>2 DEF IsClient, Records
<1>3. Becomes(c, now) /\ net' = [net EXCEPT ![c] = net[c]] /\ me.on
  BY <1>1 DEF Stop
<1>4. OneThread(now)
  BY <1>1, <1>2, <1>3 DEF Good, OneThread, Lone, Ends
<1>5. Fresh(now, net[c]) /\ UpToDate(now, net[c])
  BY <1>1, <1>2 DEF Good, Fresh, UpToDate, Way
<1> QED
  BY <1>1, <1>2, <1>3, <1>4, <1>5, Moves

\* A new receive thread finds the port held, and the process ends, or is the
\* only one; until then no frame of a first game was heard.
LEMMA BindInv ==
  ASSUME PlayInv, NEW c \in Clients, Bind(c)
  PROVE  PlayInv'
<1> DEFINE me == client[c]
           now == IF me.recv = "none" THEN [me EXCEPT !.binding = FALSE, !.recv = "bound"]
                  ELSE [me EXCEPT !.binding = FALSE, !.recv = "none", !.exited = TRUE]
<1>1. IsClient(me) /\ Good(c) /\ net \in [Clients -> Seq(Nat)] /\ net[c] \in Seq(Nat)
  BY DEF PlayInv, Shape
<1>2. Becomes(c, now) /\ net' = [net EXCEPT ![c] = net[c]] /\ me.binding /\ ~me.exited
  BY <1>1 DEF Bind, Becomes
<1>3. PICK B : me \in Records(B)
  BY <1>1 DEF IsClient
<1>4. CASE me.recv = "none"
  <2>1. now = [me EXCEPT !.binding = FALSE, !.recv = "bound"]
    BY <1>4
  <2> HIDE DEF now
  <2>2. /\ now \in Records(B) /\ ~now.binding /\ now.recv = "bound" /\ now.on = me.on
        /\ now.hasty = me.hasty /\ now.exited = me.exited /\ now.refresh = me.refresh
        /\ now.games = me.games /\ now.seen = me.seen /\ now.que = me.que
        /\ now.board = me.board
    BY <1>3, <2>1 DEF Records
  <2>3. OneThread(now)
    BY <1>1, <1>2, <1>4, <2>2 DEF Good, OneThread, Lone, Ends
  <2>4. now.games # 0 /\ Fresh(now, net[c])
    BY <1>1, <1>2, <2>2 DEF Good, Fresh
  <2>5. me.games = 1 => me.seen = <<>> /\ me.que = <<>> /\ net[c] = <<>>
    BY <1>1, <1>2 DEF Good, Fresh
  <2>6. now.games = 1 => Way(now, net[c]) = <<>>
    BY <2>2, <2>5 DEF Way
  <2>7. UpToDate(now, net[c])
    BY <2>6, EmptySeq DEF UpToDate, Consecutive
  <2> QED
    BY <1>1, <1>2, <2>2, <2>3, <2>4, <2>7, Moves DEF IsClient
<1>5. CASE me.recv # "none"
  <2>1. now = [me EXCEPT !.binding = FALSE, !.recv = "none", !.exited = TRUE]
    BY <1>5
  <2> HIDE DEF now
  <2>2. /\ now \in Records(B) /\ ~now.binding /\ now.recv = "none" /\ now.exited
        /\ now.games = me.games /\ now.seen = me.seen /\ now.que = me.que
        /\ now.board = me.board
    BY <1>3, <2>1 DEF Records
  <2>3. OneThread(now) /\ now.games # 0 /\ Fresh(now, net[c])
    BY <1>1, <1>2, <2>2 DEF Good, OneThread, Fresh
  <2>4. UpToDate(now, net[c])
    BY <1>1, <2>2 DEF Good, UpToDate, Way
  <2> QED
    BY <1>1, <1>2, <2>2, <2>3, <2>4, Moves DEF IsClient
<1> QED
  BY <1>4, <1>5

\* A receive thread that ends leaves what is in its socket.
LEMMA TestExitInv ==
  ASSUME PlayInv, NEW c \in Clients, TestExit(c)
  PROVE  PlayInv'
<1> DEFINE me == client[c]
           now == [me EXCEPT !.recv = IF me.on THEN "receiving" ELSE "none"]
           n == IF me.on THEN net[c] ELSE <<>>
<1>1. IsClient(me) /\ Good(c) /\ net \in [Clients -> Seq(Nat)] /\ net[c] \in Seq(Nat)
  BY DEF PlayInv, Shape
<1>2. /\ Becomes(c, now) /\ net' = [net EXCEPT ![c] = n] /\ n \in Seq(Nat)
      /\ me.recv \in {"bound", "queued"} /\ ~me.exited
  BY <1>1, EmptySeq DEF TestExit, Becomes
<1>3. PICK B : me \in Records(B)
  BY <1>1 DEF IsClient
<1>4. /\ now \in Records(B) /\ now.recv = (IF me.on THEN "receiving" ELSE "none")
      /\ now.binding = me.binding /\ now.on = me.on
      /\ now.hasty = me.hasty /\ now.exited = me.exited /\ now.refresh = me.refresh
      /\ now.games = me.games /\ now.seen = me.seen /\ now.que = me.que
      /\ now.board = me.board
  BY <1>3 DEF Records
<1> HIDE DEF now
<1>5. OneThread(now)
  <2>1. SUFFICES ASSUME ~me.exited, ~me.hasty
                 PROVE  /\ now.binding \/ now.recv = "bound" => now.on
                        /\ Lone(now) /\ Ends(now)
    BY <1>4 DEF OneThread
  <2>2. /\ me.binding \/ me.recv = "bound" => me.on
        /\ Lone(me) /\ Ends(me)
    BY <1>1, <2>1 DEF Good, OneThread
  <2>3. now.binding \/ now.recv = "bound" => now.on
    BY <1>4, <2>2
  <2>4. Lone(now)
    BY <1>2, <1>4, <2>2 DEF Lone
  <2>5. Ends(now)
    BY <1>2, <1>4, <2>2 DEF Ends
  <2> QED
    BY <2>3, <2>4, <2>5
<1>6. me.games # 0 /\ (me.games = 1 => ~me.binding)
  BY <1>1, <1>2 DEF Good, Fresh
<1>7. Fresh(now, n)
  BY <1>4, <1>6 DEF Fresh
<1>8. UpToDate(now, n)
  <2>1. CASE me.on
    BY <1>1, <1>2, <1>4, <2>1 DEF Good, UpToDate, Way
  <2>2. CASE ~me.on
    <3>1. me.seen \in Seq(Nat) /\ me.que \in Seq(Nat)
      BY <1>3 DEF Records
    <3>2. Way(now, <<>>) \in Seq(Nat) /\ Way(now, <<>>) \o net[c] = Way(me, net[c])
      BY <1>1, <1>4, <3>1, ConcatProperties, ConcatEmptySeq DEF Way
    <3>3. Consecutive(Way(me, net[c])) => Consecutive(Way(now, <<>>))
      BY <1>1, <3>2, ConsecutivePart
    <3> QED
      BY <1>1, <1>4, <2>2, <3>3 DEF Good, UpToDate
  <2> QED
    BY <1>3, <2>1, <2>2 DEF Records
<1> QED
  BY <1>2, <1>4, <1>5, <1>7, <1>8, Moves DEF IsClient

LEMMA ReceiveInv ==
  ASSUME PlayInv, NEW c \in Clients, Receive(c)
  PROVE  PlayInv'
<1> DEFINE me == client[c]
           now == [me EXCEPT !.que = Append(@, Head(net[c])), !.recv = "queued"]
           n == Tail(net[c])
<1>1. IsClient(me) /\ Good(c) /\ net \in [Clients -> Seq(Nat)] /\ net[c] \in Seq(Nat)
  BY DEF PlayInv, Shape
<1>2. /\ Becomes(c, now) /\ net' = [net EXCEPT ![c] = n]
      /\ me.recv = "receiving" /\ net[c] # <<>> /\ ~me.exited
  BY <1>1 DEF Receive, Becomes
<1>3. /\ Append(me.que, Head(net[c])) \in Seq(Nat) /\ Append(me.que, Head(net[c])) # <<>>
      /\ n \in Seq(Nat)
  <2>1. Head(net[c]) \in Nat /\ Tail(net[c]) \in Seq(Nat)
    BY <1>1, <1>2, HeadTailProperties
  <2>2. me.que \in Seq(Nat)
    BY <1>1 DEF IsClient, Records
  <2> QED
    BY <2>1, <2>2, AppendProperties, EmptySeq
<1>4. /\ IsClient(now)
      /\ now.on = me.on /\ now.games = me.games /\ now.recv = "queued"
      /\ now.binding = me.binding /\ now.hasty = me.hasty
      /\ now.refresh = me.refresh /\ now.que = Append(me.que, Head(net[c]))
      /\ now.seen = me.seen /\ now.board = me.board /\ now.exited = me.exited
  <2>1. PICK B : me \in Records(B)
    BY <1>1 DEF IsClient
  <2>2. now \in Records(B)
    BY <1>3, <2>1 DEF Records
  <2> QED
    BY <2>1, <2>2 DEF IsClient, Records
<1>5. OneThread(now)
  BY <1>1, <1>2, <1>3, <1>4 DEF Good, OneThread, Lone, Ends
<1>6. Fresh(now, n)
  BY <1>1, <1>2, <1>4 DEF Good, Fresh
<1>7. UpToDate(now, n)
  <2>1. me.seen \in Seq(Nat) /\ me.que \in Seq(Nat)
    BY <1>1 DEF IsClient, Records
  <2>2. Way(now, Tail(net[c])) = Way(me, net[c])
    <3>1. me.seen \o Append(me.que, Head(net[c])) \o Tail(net[c])
          = me.seen \o me.que \o net[c]
      BY <1>1, <1>2, <2>1, WayStays
    <3> QED
      BY <1>4, <3>1 DEF Way
  <2> QED
    BY <1>1, <1>2, <1>4, <2>2 DEF Good, UpToDate
<1> QED
  BY <1>2, <1>3, <1>4, <1>5, <1>6, <1>7, Moves

\* If no receive thread is left, no refresh thread is, for those that are do
\* not wait in vain.
LEMMA BeginInv ==
  ASSUME PlayInv, NEW c \in Clients, Begin(c)
  PROVE  PlayInv'
<1> DEFINE me  == client[c]
           b   == NewGame(me.board, me.seed)
           new == [me EXCEPT !.invited = FALSE, !.games = @ + 1, !.seen = <<>>,
                             !.board = b]
           now == IF b.state # "ok" THEN new
                  ELSE [new EXCEPT !.on = TRUE, !.binding = TRUE,
                                   !.refresh = Append(@, "asleep")]
<1>1. IsClient(me) /\ Good(c) /\ net \in [Clients -> Seq(Nat)] /\ net[c] \in Seq(Nat)
  BY DEF PlayInv, Shape
<1>2. PICK B : me \in Records(B)
  BY <1>1 DEF IsClient
<1>3. /\ new \in Records(B \cup {b})
      /\ new.on = me.on /\ new.games = me.games + 1 /\ new.recv = me.recv
      /\ new.binding = me.binding /\ new.hasty = me.hasty
      /\ new.refresh = me.refresh /\ new.que = me.que /\ new.seen = <<>>
      /\ new.board = b /\ new.exited = me.exited
  <2>1. <<>> \in Seq(Nat)
    BY EmptySeq
  <2>2. me.games + 1 \in Nat
    BY <1>2 DEF Records
  <2>3. new \in Records(B \cup {b})
    BY <1>2, <2>1, <2>2 DEF Records
  <2> QED
    BY <1>2, <2>3 DEF Records
<1>4. /\ ~me.on /\ Rested(me, c) /\ ~me.exited
      /\ ~me.binding /\ me.recv \in {"none", "receiving"}
  BY DEF Begin, Becomes, Rested
<1>5. Becomes(c, now) /\ net' = [net EXCEPT ![c] = net[c]]
  BY <1>1, <1>3 DEF Begin
<1>6. me.games \in Nat /\ me.refresh \in Seq({"waiting", "asleep"})
  BY <1>2 DEF Records
<1>7. CASE b.state # "ok"
  <2>1. now = new
    BY <1>7
  <2>2. OneThread(new)
    BY <1>1, <1>3, <1>4 DEF Good, OneThread, Lone, Ends
  <2>3. Fresh(new, net[c]) /\ UpToDate(new, net[c])
    BY <1>3, <1>4, <1>6, <1>7 DEF Fresh, UpToDate
  <2> QED
    BY <1>1, <1>3, <1>5, <2>1, <2>2, <2>3, Moves DEF IsClient
<1>8. CASE b.state = "ok"
  <2>1. now = [new EXCEPT !.on = TRUE, !.binding = TRUE, !.refresh = Append(@, "asleep")]
    BY <1>8
  <2>2. me.refresh = <<>> \/ me.recv # "none" \/ me.hasty
    <3>1. ASSUME me.refresh # <<>>, me.recv = "none", ~me.hasty PROVE FALSE
      <4>1. 1 \in DOMAIN me.refresh
        BY <1>6, <3>1, EmptySeq, LenProperties
      <4>2. me.refresh[1] = "waiting" /\ me.que = <<>>
        BY <1>4, <4>1 DEF Rested
      <4> QED
        BY <1>1, <1>4, <3>1, <4>2 DEF Good, OneThread, Ends
    <3> QED
      BY <3>1
  <2>3. Append(me.refresh, "asleep") \in Seq({"waiting", "asleep"})
    BY <1>6, AppendProperties
  <2>4. me.refresh = <<>> => Len(Append(me.refresh, "asleep")) = 1
    OBVIOUS
  <2>5. /\ now \in Records(B \cup {b}) /\ now.games = me.games + 1
        /\ now.on /\ now.binding /\ now.refresh = Append(me.refresh, "asleep")
        /\ now.recv = me.recv /\ now.hasty = me.hasty
        /\ now.que = me.que /\ now.seen = <<>>
    BY <1>3, <2>1, <2>3 DEF Records
  <2> HIDE DEF now
  <2>6. OneThread(now)
    BY <2>2, <2>4, <2>5 DEF OneThread, Lone, Ends
  <2>7. me.games = 0 => /\ me.seen = <<>> /\ me.que = <<>> /\ net[c] = <<>>
                        /\ me.recv = "none"
    BY <1>1 DEF Good, Fresh
  <2>8. now.games # 0 /\ (now.games = 1 => me.games = 0)
    BY <1>6, <2>5
  <2>9. Fresh(now, net[c])
    BY <2>5, <2>7, <2>8 DEF Fresh
  <2>10. ASSUME now.games = 1
         PROVE  Way(now, net[c]) = <<>> /\ Consecutive(Way(now, net[c]))
    <3>1. now.seen = <<>> /\ now.que = <<>> /\ net[c] = <<>>
      BY <2>5, <2>7, <2>8, <2>10
    <3>2. Way(now, net[c]) = <<>>
      BY <3>1 DEF Way
    <3>3. Consecutive(<<>>)
      BY DEF Consecutive
    <3> QED
      BY <3>2, <3>3
  <2>11. UpToDate(now, net[c])
    BY <2>10 DEF UpToDate
  <2> QED
    BY <1>1, <1>5, <2>5, <2>6, <2>9, <2>11, Moves DEF IsClient
<1> QED
  BY <1>7, <1>8

LEMMA RefreshInv ==
  ASSUME PlayInv, NEW c \in Clients, NEW t \in DOMAIN client[c].refresh, Refresh(c, t)
  PROVE  PlayInv'
<1> DEFINE me  == client[c]
           b   == ApplyFrame(me.board, log[Head(me.que)])
           now == [me EXCEPT !.que = Tail(@), !.refresh[t] = "asleep",
                             !.seen = Append(@, Head(me.que)), !.board = b]
<1>1. IsClient(me) /\ Good(c) /\ net \in [Clients -> Seq(Nat)] /\ net[c] \in Seq(Nat)
  BY DEF PlayInv, Shape
<1>2. PICK B : me \in Records(B)
  BY <1>1 DEF IsClient
<1>3. /\ me.refresh \in Seq({"waiting", "asleep"})
      /\ me.que \in Seq(Nat) /\ me.seen \in Seq(Nat) /\ me.games \in Nat
  BY <1>2 DEF Records
<1>4. me.que # <<>> /\ me.board.state = "ok" /\ ~me.exited
  BY DEF Refresh, Becomes
<1>5. Becomes(c, now) /\ net' = [net EXCEPT ![c] = net[c]]
  BY <1>1 DEF Refresh
<1>6. /\ Tail(me.que) \in Seq(Nat)
      /\ Append(me.seen, Head(me.que)) \in Seq(Nat)
  BY <1>3, <1>4, HeadTailProperties, AppendProperties
<1>7. t \in 1 .. Len(me.refresh) /\ Len(me.refresh) \in Nat
  BY <1>3, LenProperties
<1>8. /\ [me.refresh EXCEPT ![t] = "asleep"] \in Seq({"waiting", "asleep"})
      /\ Len([me.refresh EXCEPT ![t] = "asleep"]) = Len(me.refresh)
      /\ [me.refresh EXCEPT ![t] = "asleep"][t] = "asleep"
  BY <1>3, <1>7, ExceptSeq
<1>9. /\ now \in Records(B \cup {b})
      /\ now.on = me.on /\ now.games = me.games /\ now.recv = me.recv
      /\ now.binding = me.binding /\ now.hasty = me.hasty /\ now.exited = me.exited
      /\ now.refresh = [me.refresh EXCEPT ![t] = "asleep"]
      /\ now.que = Tail(me.que) /\ now.seen = Append(me.seen, Head(me.que))
  BY <1>2, <1>6, <1>8 DEF Records
<1> HIDE DEF now
<1>10. OneThread(now)
  <2>1. SUFFICES ASSUME ~me.hasty
                 PROVE  /\ now.binding \/ now.recv = "bound" => now.on
                        /\ Lone(now) /\ Ends(now)
    BY <1>9 DEF OneThread
  <2>2. /\ me.binding \/ me.recv = "bound" => me.on
        /\ Lone(me)
    BY <1>1, <1>4, <2>1 DEF Good, OneThread
  <2>3. Lone(now)
    BY <1>8, <1>9, <2>2 DEF Lone
  <2>4. ASSUME ~me.on PROVE now.refresh[1] = "asleep"
    <3>1. Len(me.refresh) <= 1
      BY <2>2, <2>4 DEF Lone
    <3>2. t = 1
      BY <1>7, <3>1
    <3> QED
      BY <1>8, <1>9, <3>2
  <2>5. Ends(now)
    BY <1>9, <2>4 DEF Ends
  <2> QED
    BY <1>9, <2>2, <2>3, <2>5
<1>11. Fresh(now, net[c])
  BY <1>1, <1>4, <1>7, <1>9, EmptySeq DEF Good, Fresh
<1>12. UpToDate(now, net[c])
  <2>1. Append(me.seen, Head(me.que)) \o Tail(me.que) \o net[c]
        = me.seen \o me.que \o net[c]
    BY <1>1, <1>3, <1>4, WayStays
  <2>2. Way(now, net[c]) = Way(me, net[c])
    BY <1>9, <2>1 DEF Way
  <2> QED
    BY <1>1, <1>4, <1>9, <2>2 DEF Good, UpToDate
<1> QED
  BY <1>1, <1>5, <1>9, <1>10, <1>11, <1>12, Moves DEF IsClient

LEMMA WakeInv ==
  ASSUME PlayInv, NEW c \in Clients, NEW t \in DOMAIN client[c].refresh, Wake(c, t)
  PROVE  PlayInv'
<1> DEFINE me  == client[c]
           awake == IF me.on THEN [me.refresh EXCEPT ![t] = "waiting"]
                    ELSE RemoveAt(me.refresh, t)
           now == [me EXCEPT !.refresh = IF me.on THEN [@ EXCEPT ![t] = "waiting"]
                                         ELSE RemoveAt(@, t)]
<1>1. IsClient(me) /\ Good(c) /\ net \in [Clients -> Seq(Nat)] /\ net[c] \in Seq(Nat)
  BY DEF PlayInv, Shape
<1>2. PICK B : me \in Records(B)
  BY <1>1 DEF IsClient
<1>3. me.refresh \in Seq({"waiting", "asleep"}) /\ me.on \in BOOLEAN
  BY <1>2 DEF Records
<1>4. ~me.exited
  BY DEF Wake, Becomes
<1>5. Becomes(c, now) /\ net' = [net EXCEPT ![c] = net[c]]
  BY <1>1 DEF Wake
<1>6. t \in 1 .. Len(me.refresh) /\ Len(me.refresh) \in Nat
  BY <1>3, LenProperties
<1>7. awake \in Seq({"waiting", "asleep"}) /\ Len(awake) <= Len(me.refresh)
      /\ (~me.on => Len(awake) = Len(me.refresh) - 1)
  <2>1. CASE me.on
    BY <1>3, <1>6, <2>1, ExceptSeq
  <2>2. CASE ~me.on
    <3>1. awake = SubSeq(me.refresh, 1, t - 1) \o SubSeq(me.refresh, t + 1, Len(me.refresh))
      BY <2>2 DEF RemoveAt
    <3>2. PICK u, v : /\ u = SubSeq(me.refresh, 1, t - 1)
                      /\ v = SubSeq(me.refresh, t + 1, Len(me.refresh))
      OBVIOUS
    <3>3. u \in Seq({"waiting", "asleep"}) /\ Len(u) = t - 1
      <4>1. 1 \in Int /\ t - 1 \in Int /\ 1 <= t - 1 + 1
            /\ 1 .. t - 1 \subseteq DOMAIN me.refresh
        BY <1>3, <1>6
      <4> QED
        BY <1>3, <1>6, <3>2, <4>1, SubSeqProperties
    <3>5. v \in Seq({"waiting", "asleep"}) /\ Len(v) = Len(me.refresh) - t
      <4>1. t + 1 \in Int /\ Len(me.refresh) \in Int
            /\ t + 1 .. Len(me.refresh) \subseteq DOMAIN me.refresh
        BY <1>3, <1>6
      <4> QED
        BY <1>3, <1>6, <3>2, <4>1, SubSeqProperties
    <3>6. awake = u \o v
      BY <3>1, <3>2
    <3>7. awake \in Seq({"waiting", "asleep"}) /\ Len(awake) = Len(u) + Len(v)
      <4>1. /\ u \o v \in Seq({"waiting", "asleep"})
            /\ Len(u \o v) = Len(u) + Len(v)
        BY <3>3, <3>5, ConcatProperties, ZenonT(30)
      <4> QED
        BY <3>6, <4>1
    <3>8. Len(awake) = (t - 1) + (Len(me.refresh) - t)
      BY <3>3, <3>5, <3>7
    <3>4. Len(awake) = Len(me.refresh) - 1
      BY <1>6, <3>8
    <3> QED
      BY <1>6, <3>4, <3>7
  <2> QED
    BY <1>3, <2>1, <2>2
<1>8. /\ now \in Records(B)
      /\ now.on = me.on /\ now.games = me.games /\ now.recv = me.recv
      /\ now.binding = me.binding /\ now.hasty = me.hasty /\ now.exited = me.exited
      /\ now.refresh = awake /\ now.que = me.que /\ now.seen = me.seen
      /\ now.board = me.board
  BY <1>2, <1>7 DEF Records
<1> HIDE DEF now, awake
<1>9. OneThread(now)
  <2>1. SUFFICES ASSUME ~me.hasty
                 PROVE  /\ now.binding \/ now.recv = "bound" => now.on
                        /\ Lone(now) /\ Ends(now)
    BY <1>8 DEF OneThread
  <2>2. /\ me.binding \/ me.recv = "bound" => me.on
        /\ Lone(me)
    BY <1>1, <1>4, <2>1 DEF Good, OneThread
  <2>3. Lone(now)
    BY <1>6, <1>7, <1>8, <2>2, LenProperties DEF Lone
  <2>4. ASSUME ~me.on PROVE now.refresh = <<>>
    <3>1. Len(me.refresh) <= 1
      BY <2>2, <2>4 DEF Lone
    <3>2. Len(awake) = 0
      BY <1>6, <1>7, <2>4, <3>1
    <3> QED
      BY <1>7, <1>8, <3>2, EmptySeq
  <2>5. Ends(now)
    BY <1>8, <2>4 DEF Ends
  <2> QED
    BY <1>8, <2>2, <2>3, <2>5
<1>10. Fresh(now, net[c])
  BY <1>1, <1>6, <1>8, EmptySeq DEF Good, Fresh
<1>11. UpToDate(now, net[c])
  BY <1>1, <1>8 DEF Good, UpToDate, Way
<1> QED
  BY <1>1, <1>5, <1>8, <1>9, <1>10, <1>11, Moves DEF IsClient


-----------------------------------------------------------------------------
(* The steps of the server and of the network.                               *)

LEMMA GameStartInv ==
  ASSUME PlayInv, GameStart
  PROVE  PlayInv'
<1>1. PICK s \in Seeds :
        client' = [c \in Clients |->
             IF client[c].exited THEN client[c]
             ELSE [client[c] EXCEPT !.seed = s, !.invited = ~client[c].on]]
  BY DEF GameStart
<1>2. log' = log /\ net' = net /\ faults' = faults
  BY DEF GameStart
<1>3. ASSUME NEW c \in Clients
      PROVE  /\ IsClient(client'[c])
             /\ client'[c].on = client[c].on /\ client'[c].games = client[c].games
             /\ client'[c].recv = client[c].recv /\ client'[c].refresh = client[c].refresh
             /\ client'[c].binding = client[c].binding /\ client'[c].hasty = client[c].hasty
             /\ client'[c].que = client[c].que /\ client'[c].seen = client[c].seen
             /\ client'[c].board = client[c].board /\ client'[c].exited = client[c].exited
  <2>1. PICK B : client[c] \in Records(B)
    BY DEF PlayInv, Shape, IsClient
  <2>2. CASE client[c].exited
    BY <1>1, <2>1, <2>2 DEF IsClient
  <2>3. CASE ~client[c].exited
    <3>1. client'[c] = [client[c] EXCEPT !.seed = s, !.invited = ~client[c].on]
      BY <1>1, <2>3
    <3>2. client'[c] \in Records(B \cup {s})
      BY <2>1, <3>1 DEF Records
    <3> QED
      BY <2>1, <3>1, <3>2 DEF IsClient, Records
  <2> QED
    BY <2>2, <2>3
<1>4. Shape'
  <2>1. DOMAIN client' = Clients /\ client' = [c \in Clients |-> client'[c]]
    BY <1>1
  <2> QED
    BY <1>2, <1>3, <2>1 DEF PlayInv, Shape
<1>5. ASSUME NEW c \in Clients PROVE Good(c)'
  <2>1. Good(c)
    BY DEF PlayInv
  <2>2. OneThread(client'[c])
    BY <1>3, <2>1 DEF Good, OneThread, Lone, Ends
  <2>3. Fresh(client'[c], net'[c])
    BY <1>2, <1>3, <2>1 DEF Good, Fresh
  <2>4. UpToDate(client[c], net[c])'
    BY <1>2, <1>3, <2>1 DEF Good, UpToDate, Way
  <2> QED
    BY <2>2, <2>3, <2>4 DEF Good
<1> QED
  BY <1>4, <1>5 DEF PlayInv

\* A client whose receive thread lives hears every frame.
LEMMA SendToInv ==
  ASSUME PlayInv, NEW t, SendTo(t)
  PROVE  PlayInv'
<1>0. PICK frame : frame = threads[t]
  OBVIOUS
<1>1. /\ log' = Append(log, frame) /\ client' = client /\ faults' = faults
      /\ net' = [c \in Clients |-> IF Hears(c) THEN Append(net[c], Len(log')) ELSE net[c]]
  BY <1>0 DEF SendTo
<1>2. PICK S : log \in Seq(S)
  BY DEF PlayInv, Shape
<1>3. log' \in Seq(S \cup {frame}) /\ Len(log) \in Nat /\ Len(log') = Len(log) + 1
  <2>1. log \in Seq(S \cup {frame})
    BY <1>2, SeqMonotonic
  <2>2. frame \in S \cup {frame}
    OBVIOUS
  <2> QED
    BY <1>1, <2>1, <2>2, AppendProperties, LenProperties
<1>4. \A c \in Clients : net[c] \in Seq(Nat) /\ net'[c] \in Seq(Nat)
  <2>1. net \in [Clients -> Seq(Nat)]
    BY DEF PlayInv, Shape
  <2>2. \A c \in Clients : Append(net[c], Len(log')) \in Seq(Nat)
    BY <1>3, <2>1, AppendProperties
  <2> QED
    BY <1>1, <2>1, <2>2
<1>5. Shape'
  <2>1. net' \in [Clients -> Seq(Nat)]
    BY <1>1, <1>4
  <2> QED
    BY <1>1, <1>3, <2>1 DEF PlayInv, Shape
<1>6. ASSUME NEW c \in Clients PROVE Good(c)'
  <2>1. Good(c) /\ client'[c] = client[c]
    BY <1>1 DEF PlayInv
  <2>2. net'[c] = IF Hears(c) THEN Append(net[c], Len(log) + 1) ELSE net[c]
    BY <1>1, <1>3
  <2>3. OneThread(client'[c])
    BY <2>1 DEF Good
  <2>4. Fresh(client'[c], net'[c])
    BY <2>1, <2>2 DEF Good, Fresh, Hears
  <2>5. UpToDate(client[c], net[c])'
    <3> SUFFICES ASSUME client[c].games = 1, client[c].board.state = "ok", faults = 0
        PROVE  /\ Consecutive(Way(client[c], net'[c]))
               /\ client[c].recv # "none" /\ Way(client[c], net'[c]) # <<>>
                  => Way(client[c], net'[c])[Len(Way(client[c], net'[c]))] = Len(log')
      BY <1>1 DEF UpToDate
    <3> DEFINE w == Way(client[c], net[c])
    <3>1. /\ Consecutive(w)
          /\ client[c].recv # "none" /\ w # <<>> => w[Len(w)] = Len(log)
      BY <2>1 DEF Good, UpToDate
    <3>2. CASE client[c].recv # "none"
      <4>1. client[c].seen \in Seq(Nat) /\ client[c].que \in Seq(Nat)
        BY DEF PlayInv, Shape, IsClient, Records
      <4>2. w \in Seq(Nat)
        BY <1>4, <4>1, ConcatProperties DEF Way
      <4>3. Way(client[c], net'[c]) = Append(w, Len(log) + 1)
        <5>1. net'[c] = Append(net[c], Len(log) + 1)
          BY <2>2, <3>2 DEF Hears
        <5>2. client[c].seen \o client[c].que \o Append(net[c], Len(log) + 1)
              = Append(client[c].seen \o client[c].que \o net[c], Len(log) + 1)
          <6>1. Len(log) + 1 \in Nat /\ net[c] \in Seq(Nat)
            BY <1>3, <1>4
          <6> QED
            BY <4>1, <6>1, WayGrows
        <5> QED
          BY <5>1, <5>2 DEF Way
      <4> HIDE DEF w
      <4>4. /\ Consecutive(Append(w, Len(log) + 1))
            /\ Append(w, Len(log) + 1)[Len(Append(w, Len(log) + 1))] = Len(log) + 1
        BY <1>3, <3>1, <3>2, <4>2, ConsecutiveAppend
      <4> QED
        BY <1>3, <4>3, <4>4
    <3>3. CASE client[c].recv = "none"
      BY <2>2, <3>1, <3>3 DEF Hears
    <3> QED
      BY <3>2, <3>3
  <2> QED
    BY <2>3, <2>4, <2>5 DEF Good
<1> QED
  BY <1>5, <1>6 DEF PlayInv

\* Once a datagram was lost or overtaken nothing is promised of the way.
LEMMA FaultInv ==
  ASSUME PlayInv, NEW c \in Clients, NEW i \in 1 .. MaxPending,
         Lose(c, i) \/ Overtake(c, i)
  PROVE  PlayInv'
<1>1. client' = client /\ log' = log /\ faults' = faults + 1
  BY DEF Lose, Overtake
<1>2. net \in [Clients -> Seq(Nat)] /\ net[c] \in Seq(Nat) /\ faults \in Nat
  BY DEF PlayInv, Shape
<1>3. net[c] # <<>> /\ \E n \in Seq(Nat) : net' = [net EXCEPT ![c] = n]
  <2>1. Len(net[c]) \in Nat /\ \A j \in 1 .. Len(net[c]) : net[c][j] \in Nat
    BY <1>2, LenProperties, ElementOfSeq
  <2>2. CASE Lose(c, i)
    <3>1. i \in 1 .. Len(net[c]) /\ net' = [net EXCEPT ![c] = RemoveAt(@, i)]
      BY <2>2 DEF Lose
    <3>2. SubSeq(net[c], 1, i - 1) \in Seq(Nat)
          /\ SubSeq(net[c], i + 1, Len(net[c])) \in Seq(Nat)
      BY <2>1, <3>1, SubSeqProperties
    <3>3. RemoveAt(net[c], i) \in Seq(Nat)
      BY <3>2, ConcatProperties DEF RemoveAt
    <3>4. net[c] # <<>>
      BY <2>1, <3>1
    <3>5. net' = [net EXCEPT ![c] = RemoveAt(net[c], i)]
      BY <3>1
    <3> QED
      BY <3>3, <3>4, <3>5
  <2>3. CASE Overtake(c, i)
    <3> DEFINE n == [[net[c] EXCEPT ![i] = net[c][i + 1]] EXCEPT ![i + 1] = net[c][i]]
    <3>1. i \in 1 .. Len(net[c]) - 1
      BY <2>3 DEF Overtake
    <3>2. net' = [net EXCEPT ![c] = n]
      BY <1>2, <2>3 DEF Overtake
    <3>3. i \in 1 .. Len(net[c]) /\ i + 1 \in 1 .. Len(net[c])
          /\ net[c][i + 1] \in Nat /\ net[c][i] \in Nat
      BY <2>1, <3>1
    <3>4. /\ [net[c] EXCEPT ![i] = net[c][i + 1]] \in Seq(Nat)
          /\ Len([net[c] EXCEPT ![i] = net[c][i + 1]]) = Len(net[c])
      BY <1>2, <3>3, ExceptSeq
    <3>5. n \in Seq(Nat)
      BY <3>3, <3>4, ExceptSeq
    <3>6. net[c] # <<>>
      BY <2>1, <3>1
    <3> QED
      BY <3>2, <3>5, <3>6
  <2> QED
    BY <2>2, <2>3
<1>4. Shape'
  <2>1. net' \in [Clients -> Seq(Nat)]
    BY <1>2, <1>3
  <2> QED
    BY <1>1, <1>2, <2>1 DEF PlayInv, Shape
<1>5. ASSUME NEW d \in Clients PROVE Good(d)'
  <2>1. Good(d) /\ client'[d] = client[d]
    BY <1>1 DEF PlayInv
  <2>2. Fresh(client[d], net'[d])
    BY <1>2, <1>3, <2>1 DEF Good, Fresh
  <2>3. UpToDate(client[d], net[d])'
    BY <1>1, <1>2 DEF UpToDate
  <2> QED
    BY <2>1, <2>2, <2>3 DEF Good
<1> QED
  BY <1>4, <1>5 DEF PlayInv

-----------------------------------------------------------------------------
LEMMA StepInv == PlayInv /\ [Next]_vars => PlayInv'
<1> SUFFICES ASSUME PlayInv, [Next]_vars PROVE PlayInv'
  OBVIOUS
<1>1. CASE GameStart
  BY <1>1, GameStartInv
<1>2. ASSUME NEW t \in DOMAIN threads, SendTo(t) PROVE PlayInv'
  BY <1>2, SendToInv
<1>3. ASSUME client' = client, net' = net, log' = log, faults' = faults PROVE PlayInv'
  BY <1>3 DEF PlayInv, Shape, Good, UpToDate
<1>4. ASSUME NEW t \in DOMAIN threads, PopCommand(t) PROVE PlayInv'
  BY <1>3, <1>4 DEF PopCommand
<1>5. ASSUME NEW p \in Players, NEW o \in Commands, AddGameopt(p, o) PROVE PlayInv'
  BY <1>3, <1>5 DEF AddGameopt
<1>6. CASE Network
  BY <1>6, FaultInv DEF Network
<1>7. ASSUME NEW c \in Clients, Process(c) PROVE PlayInv'
  BY <1>7, BeginInv, StopInv, BindInv, TestExitInv, ReceiveInv, RefreshInv, WakeInv
     DEF Process
<1>8. CASE UNCHANGED vars
  BY <1>3, <1>8 DEF vars
<1> QED
  BY <1>1, <1>2, <1>4, <1>5, <1>6, <1>7, <1>8 DEF Next, Server

LEMMA PlayInvHolds == Spec => []PlayInv
  BY InitInv, StepInv, PTL DEF Spec

\* However often games are started and left, whenever the new receive thread
\* gets to bind the port, and wherever the threads of a client are when the next
\* game begins: as long as no start() left its loop while the receive thread was
\* elsewhere than in recvfrom, no map has two refresh threads, unless the process
\* is about to end because the port is held (start, recv_frame_thread_func,
\* refresh_thread_func).
THEOREM OneRefresherHolds == Spec => []OneRefresher
<1>1. PlayInv => OneRefresher
  BY DEF PlayInv, Good, OneThread, Lone, OneRefresher
<1> QED
  BY <1>1, PlayInvHolds, PTL

\* The socket, the queue of frames and the two threads between them skip no
\* frame and play none twice, for any number of clients, frames and commands.
THEOREM NoGapsHolds == Spec => []NoGaps
<1>1. PlayInv => NoGaps
  BY DEF PlayInv, Good, UpToDate, NoGaps, FirstGame, Consecutive, Way
<1> QED
  BY <1>1, PlayInvHolds, PTL

-----------------------------------------------------------------------------
(* Cells, the order of the players and the cells rand() gives.              *)

LEMMA SomeOrder ==
    ASSUME NEW n \in Nat, NEW P \in SUBSET Nat, IsFiniteSet(P), Cardinality(P) = n
    PROVE  \E s \in [1..n -> P] : \A i, j \in DOMAIN s : i < j => s[i] < s[j]
<1> DEFINE Ordered(k, Q) == \E s \in [1..k -> Q] : \A i, j \in DOMAIN s : i < j => s[i] < s[j]
           T == {k \in Nat : \A Q \in SUBSET Nat : IsFiniteSet(Q) /\ Cardinality(Q) = k => Ordered(k, Q)}
<1>1. 0 \in T
  <2>1. ASSUME NEW Q PROVE Ordered(0, Q)
    <3>1. 1..0 = {}
      OBVIOUS
    <3>2. [i \in {} |-> 0] \in [{} -> Q] /\ DOMAIN [i \in {} |-> 0] = {}
      OBVIOUS
    <3>3. PICK e \in [{} -> Q] : DOMAIN e = {}
      BY <3>2
    <3> QED
      BY <3>1, <3>3
  <2> QED
    BY <2>1
<1>2. ASSUME NEW k \in T PROVE k + 1 \in T
  <2> SUFFICES ASSUME NEW Q \in SUBSET Nat, IsFiniteSet(Q), Cardinality(Q) = k + 1
               PROVE  Ordered(k + 1, Q)
    OBVIOUS
  <2>0. k \in Nat
    OBVIOUS
  <2>1. Q # {}
    BY <2>0, FS_EmptySet
  <2>2. PICK m \in Q : \A q \in Q : m <= q
    BY <2>1, LeastNumber
  <2>3. IsFiniteSet(Q \ {m}) /\ Cardinality(Q \ {m}) = k
    BY <2>0, FS_RemoveElement
  <2>4. Ordered(k, Q \ {m})
    BY <2>3
  <2>5. PICK s \in [1..k -> Q \ {m}] : \A i, j \in DOMAIN s : i < j => s[i] < s[j]
    BY <2>4
  <2> HIDE DEF T, Ordered
  <2>6. PICK r : r = [i \in 1..(k + 1) |-> IF i = 1 THEN m ELSE s[i - 1]]
    OBVIOUS
  <2>7. \A i \in 1..(k + 1) : i # 1 => i - 1 \in 1..k
    BY <2>0
  <2>8. r \in [1..(k + 1) -> Q]
    BY <2>6, <2>7
  <2>9. ASSUME NEW i \in 1..(k + 1), NEW j \in 1..(k + 1), i < j PROVE r[i] < r[j]
    <3>1. j # 1 /\ j - 1 \in 1..k /\ r[j] = s[j - 1] /\ s[j - 1] \in Q \ {m}
      BY <2>0, <2>6, <2>7, <2>9
    <3>2. CASE i = 1
      <4>1. r[i] = m /\ m <= s[j - 1] /\ m # s[j - 1] /\ m \in Nat /\ s[j - 1] \in Nat
        BY <2>2, <2>6, <3>1, <3>2
      <4> QED
        BY <3>1, <4>1
    <3>3. CASE i # 1
      <4>1. i - 1 \in 1..k /\ r[i] = s[i - 1] /\ i - 1 < j - 1
        BY <2>0, <2>6, <2>7, <2>9, <3>3
      <4> QED
        BY <2>5, <3>1, <4>1
    <3> QED
      BY <3>2, <3>3
  <2> QED
    BY <2>8, <2>9 DEF Ordered
<1>3. T = Nat
  <2>1. T \in SUBSET Nat
    OBVIOUS
  <2> HIDE DEF T
  <2> QED
    BY <1>1, <1>2, <2>1, Induction
<1> QED
  BY <1>3

\* every place is a player's own
LEMMA SlotsAre ==
    /\ Slots \in Seq(Players) /\ Len(Slots) \in Nat
    /\ \A i \in 1..Len(Slots) : Slots[i] \in Players
    /\ \A i, j \in 1..Len(Slots) : Slots[i] = Slots[j] => i = j
<1>1. PICK n \in Nat : n = Cardinality(Players)
  BY BoardAssumption, FS_CardinalityType
<1>2. \E s \in [1..n -> Players] : \A i, j \in DOMAIN s : i < j => s[i] < s[j]
  <2>1. Players \in SUBSET Nat
    BY BoardAssumption
  <2> QED
    BY <1>1, <2>1, SomeOrder, BoardAssumption
<1>3. Slots \in [1..n -> Players] /\ \A i, j \in DOMAIN Slots : i < j => Slots[i] < Slots[j]
  BY <1>1, <1>2 DEF Slots
<1>4. Slots \in Seq(Players) /\ Len(Slots) = n
  BY <1>3
<1>5. ASSUME NEW i \in 1..n, NEW j \in 1..n, Slots[i] = Slots[j] PROVE i = j
  <2>1. Slots[i] \in Nat /\ Slots[j] \in Nat
    BY <1>3, BoardAssumption
  <2> QED
    BY <1>1, <1>3, <1>5, <2>1
<1> QED
  BY <1>1, <1>3, <1>4, <1>5

LEMMA FirstIs ==
    ASSUME NEW N \in SUBSET Nat, N # {}
    PROVE  First(N) \in N
<1>1. \E n \in N : \A m \in N : n <= m
  BY LeastNumber
<1> QED
  BY <1>1 DEF First

Dirs == Opts \ {"FORWARD"}

LEMMA NeighbourIs ==
    ASSUME NEW c \in Cells, NEW o \in Dirs
    PROVE  /\ Neighbour(c, o) # c
           /\ c \in Interior => Neighbour(c, o) \in Cells
<1>1. /\ c[1] \in 0..(H - 1) /\ c[2] \in 0..(W - 1) /\ c = <<c[1], c[2]>>
      /\ H \in Nat /\ W \in Nat
  BY BoardAssumption DEF Cells
<1>2. c \in Interior => c[1] \in 1..(H - 2) /\ c[2] \in 1..(W - 2)
  BY DEF Interior
<1>3. CASE o = "UP"
  BY <1>1, <1>2, <1>3 DEF Neighbour, Step, Cells
<1>4. CASE o = "DOWN"
  BY <1>1, <1>2, <1>4 DEF Neighbour, Step, Cells
<1>5. CASE o = "LEFT"
  BY <1>1, <1>2, <1>5 DEF Neighbour, Step, Cells
<1>6. CASE o = "RIGHT"
  BY <1>1, <1>2, <1>6 DEF Neighbour, Step, Cells
<1> QED
  BY <1>3, <1>4, <1>5, <1>6 DEF Dirs, Opts

LEMMA InteriorIn == Interior \subseteq Cells /\ Border \subseteq Cells
BY BoardAssumption DEF Interior, Cells, Border

LEMMA AroundIs == \A i \in 1..4 : Around[i] \in Dirs
BY DEF Around, Dirs, Opts

\* a snake that holds together: it goes on, and not back
Together(s) ==
    /\ \A i \in 1 .. Len(s) - 1 : \E o \in Dirs : s[i] = Neighbour(s[i + 1], o)
    /\ \A i \in 1 .. Len(s) - 2 : s[i] # s[i + 2]

LEMMA CourseIs ==
    ASSUME NEW s, NEW o, o = Course(s)
    PROVE  o \in Dirs
BY DEF Course, Dirs, Opts

\* the next cell is not the second node's
LEMMA NotBack ==
    ASSUME NEW s \in Seq(Cells), Len(s) >= 2, NEW a \in Dirs, s[1] = Neighbour(s[2], a),
           NEW o \in Dirs, o = Course(s) \/ ~TurnsBack(s, o)
    PROVE  Neighbour(s[1], o) # s[2]
<1>1. PICK y \in Int, x \in Int : s[2] = <<y, x>>
  <2>1. s[2] \in Cells
    <3>1. Len(s) \in Nat /\ 2 \in 1..Len(s)
      OBVIOUS
    <3> QED
      BY <3>1, ElementOfSeq
  <2>2. s[2] = <<s[2][1], s[2][2]>> /\ s[2][1] \in 0..(H - 1) /\ s[2][2] \in 0..(W - 1)
    BY <2>1 DEF Cells
  <2>3. s[2][1] \in Int /\ s[2][2] \in Int
    BY <2>2, BoardAssumption
  <2> QED
    BY <2>2, <2>3
<1>2. s[1] = <<y + Step(a)[1], x + Step(a)[2]>>
  BY <1>1 DEF Neighbour
<1>3. CASE a = "UP"
  <2>1. s[1] = <<y - 1, x>>
    BY <1>2, <1>3 DEF Step
  <2>2. o # "DOWN"
    BY <1>1, <2>1 DEF Course, TurnsBack, Step
  <2> QED
    BY <1>1, <2>1, <2>2 DEF Neighbour, Step, Dirs, Opts
<1>4. CASE a = "DOWN"
  <2>1. s[1] = <<y + 1, x>>
    BY <1>2, <1>4 DEF Step
  <2>2. o # "UP"
    BY <1>1, <2>1 DEF Course, TurnsBack, Step
  <2> QED
    BY <1>1, <2>1, <2>2 DEF Neighbour, Step, Dirs, Opts
<1>5. CASE a = "LEFT"
  <2>1. s[1] = <<y, x - 1>>
    BY <1>2, <1>5 DEF Step
  <2>2. o # "RIGHT"
    BY <1>1, <2>1 DEF Course, TurnsBack, Step
  <2> QED
    BY <1>1, <2>1, <2>2 DEF Neighbour, Step, Dirs, Opts
<1>6. CASE a = "RIGHT"
  <2>1. s[1] = <<y, x + 1>>
    BY <1>2, <1>6 DEF Step
  <2>2. o # "LEFT"
    BY <1>1, <2>1 DEF Course, TurnsBack, Step
  <2> QED
    BY <1>1, <2>1, <2>2 DEF Neighbour, Step, Dirs, Opts
<1> QED
  BY <1>3, <1>4, <1>5, <1>6 DEF Dirs, Opts

-----------------------------------------------------------------------------
(* What each operator makes of a board.                                      *)

States == {"ok", "hung", "wild"}
Shown  == [Cells -> Kinds]
Counts == [Cells -> Int]
Nodes  == [Players -> Seq(Cells)]
Given0 == Seeds \cup {0}

Boards == [map : Shown, over : Counts, snakes : Nodes, seed : Given0, drawn : Nat, state : States]

Brd(m, o, k, s, d, t) ==
    [map |-> m, over |-> o, snakes |-> k, seed |-> s, drawn |-> d, state |-> t]

LEMMA BoardIs ==
    ASSUME NEW b \in Boards
    PROVE  /\ b.map \in Shown /\ b.over \in Counts /\ b.snakes \in Nodes /\ b.seed \in Given0
           /\ b.drawn \in Nat /\ b.state \in States
           /\ b = Brd(b.map, b.over, b.snakes, b.seed, b.drawn, b.state)
BY DEF Boards, Brd

LEMMA BrdIs ==
    ASSUME NEW m \in Shown, NEW o \in Counts, NEW k \in Nodes, NEW s \in Given0, NEW d \in Nat,
           NEW t \in States
    PROVE  /\ Brd(m, o, k, s, d, t) \in Boards
           /\ Brd(m, o, k, s, d, t).map = m /\ Brd(m, o, k, s, d, t).over = o
           /\ Brd(m, o, k, s, d, t).snakes = k /\ Brd(m, o, k, s, d, t).seed = s
           /\ Brd(m, o, k, s, d, t).drawn = d /\ Brd(m, o, k, s, d, t).state = t
BY DEF Boards, Brd

\* what changes of a map, of m_overlap and of the snakes
Show(m, c, kind) == [m EXCEPT ![c] = kind]
Add(o, c, n)     == [o EXCEPT ![c] = @ + n]
Lay(k, p, s)     == [k EXCEPT ![p] = s]

LEMMA Shown1 ==
    ASSUME NEW m \in Shown, NEW c \in Cells, NEW kind \in Kinds
    PROVE  /\ Show(m, c, kind) \in Shown /\ Show(m, c, kind)[c] = kind
           /\ \A e \in Cells : e # c => Show(m, c, kind)[e] = m[e]
BY DEF Shown, Show

LEMMA Added1 ==
    ASSUME NEW o \in Counts, NEW c \in Cells, NEW n \in Int
    PROVE  /\ Add(o, c, n) \in Counts /\ Add(o, c, n)[c] = o[c] + n /\ o[c] \in Int
           /\ \A e \in Cells : e # c => Add(o, c, n)[e] = o[e]
<1>1. o \in [Cells -> Int] /\ o[c] + n \in Int
  BY DEF Counts
<1>2. Add(o, c, n) = [o EXCEPT ![c] = o[c] + n]
  BY DEF Add
<1> QED
  BY <1>1, <1>2 DEF Counts

LEMMA Laid1 ==
    ASSUME NEW k \in Nodes, NEW p \in Players, NEW s \in Seq(Cells)
    PROVE  /\ Lay(k, p, s) \in Nodes /\ Lay(k, p, s)[p] = s /\ k[p] \in Seq(Cells)
           /\ \A q \in Players : q # p => Lay(k, p, s)[q] = k[q]
BY DEF Nodes, Lay

LEMMA PutIs ==
    ASSUME NEW b \in Boards, NEW c \in Cells, NEW y, y = Put(b, c)
    PROVE  /\ y \in Boards /\ y.map = Show(b.map, c, "SNAKE") /\ y.over = Add(b.over, c, 1)
           /\ y.snakes = b.snakes /\ y.seed = b.seed /\ y.drawn = b.drawn /\ y.state = b.state
<1>1. PICK m \in Shown : m = Show(b.map, c, "SNAKE")
  BY BoardIs, Shown1 DEF Kinds
<1>2. PICK o \in Counts : o = Add(b.over, c, 1)
  BY BoardIs, Added1
<1>3. y = Brd(m, o, b.snakes, b.seed, b.drawn, b.state)
  <2>1. PICK x \in Boards : x = Brd(m, b.over, b.snakes, b.seed, b.drawn, b.state)
    BY BoardIs, BrdIs
  <2>2. x = [b EXCEPT !.map[c] = "SNAKE"]
    BY <1>1, <2>1 DEF Boards, Brd, Show
  <2>3. x.over = b.over
    BY <2>1 DEF Brd
  <2>4. y = [x EXCEPT !.over[c] = x.over[c] + 1]
    BY <2>2 DEF Put
  <2>5. y = [x EXCEPT !.over = o]
    BY <1>2, <2>3, <2>4 DEF Add
  <2> QED
    BY <2>1, <2>5 DEF Brd
<1> QED
  BY <1>1, <1>2, <1>3, BoardIs, BrdIs

LEMMA FoodIs ==
    ASSUME NEW b \in Boards, b.seed \in Seeds, NEW r, r = RandomMakeFood(b)
    PROVE  /\ r \in Boards /\ r.over = b.over /\ r.snakes = b.snakes /\ r.seed = b.seed
           /\ \/ r.map = b.map /\ r.state = "hung"
              \/ /\ r.state = b.state
                 /\ \E f \in Interior : /\ b.map[f] # "SNAKE"
                                        /\ r.map = Show(b.map, f, "FOOD")
<1> DEFINE good == {c \in Interior : b.map[c] # "SNAKE"}
<1>1. PICK N : N = Rounds(b, good)
  OBVIOUS
<1>2. CASE N = {}
  <2>1. r = Brd(b.map, b.over, b.snakes, b.seed, b.drawn, "hung")
    <3>1. r = [b EXCEPT !.state = "hung"]
      BY <1>1, <1>2 DEF RandomMakeFood
    <3> QED
      BY <3>1 DEF Brd, Boards
  <2>2. "hung" \in States
    BY DEF States
  <2> QED
    BY <2>1, <2>2, BoardIs, BrdIs
<1>3. CASE N # {}
  <2>1. PICK n \in N : n = First(N)
    <3>1. N \in SUBSET Nat
      BY <1>1 DEF Rounds
    <3> QED
      BY <1>3, <3>1, FirstIs
  <2>2. n \in 1..Len(Rand[b.seed]) /\ Draw(b, n) \in good
    BY <1>1, <2>1 DEF Rounds
  <2>3. PICK f \in good : f = Draw(b, n)
    BY <2>2
  <2>4. PICK d : d = (b.drawn + n) % Len(Rand[b.seed])
    OBVIOUS
  <2>5. d \in Nat
    <3>1. Len(Rand[b.seed]) \in Nat
      BY BoardAssumption, LenProperties DEF Seeds
    <3> QED
      BY <2>2, <2>4, <3>1, BoardIs
  <2>6. r = Brd(Show(b.map, f, "FOOD"), b.over, b.snakes, b.seed, d, b.state)
    <3>1. r = [b EXCEPT !.map[f] = "FOOD", !.drawn = d]
      BY <1>1, <1>3, <2>1, <2>3, <2>4 DEF RandomMakeFood
    <3> QED
      BY <3>1 DEF Brd, Boards, Show
  <2>7. f \in Interior /\ b.map[f] # "SNAKE"
    BY <2>3
  <2>8. PICK m \in Shown : m = Show(b.map, f, "FOOD")
    BY <2>7, InteriorIn, BoardIs, Shown1 DEF Kinds
  <2>9. /\ r \in Boards /\ r.over = b.over /\ r.snakes = b.snakes /\ r.seed = b.seed
        /\ r.map = m /\ r.state = b.state
    BY <2>5, <2>6, <2>8, BoardIs, BrdIs
  <2> QED
    BY <2>7, <2>8, <2>9
<1> QED
  BY <1>2, <1>3

\* two nodes are put on cells that show no snake, the first inside the border
Grows(b, p, r, c, o, d) ==
    /\ d = Neighbour(c, o) /\ b.map[c] # "SNAKE" /\ b.map[d] # "SNAKE"
    /\ r.map = Show(Show(b.map, c, "SNAKE"), d, "SNAKE")
    /\ r.over = Add(Add(b.over, c, 1), d, 1)
    /\ r.snakes = Lay(b.snakes, p, b.snakes[p] \o <<c, d>>)

LEMMA SnakeIs ==
    ASSUME NEW b \in Boards, b.seed \in Seeds, NEW p \in Players,
           NEW r, r = RandomMakeSnake(b, p)
    PROVE  /\ r \in Boards /\ r.seed = b.seed
           /\ \/ b.state # "ok" /\ r = b
              \/ /\ b.state = "ok" /\ r.state = "hung"
                 /\ r.map = b.map /\ r.over = b.over /\ r.snakes = b.snakes
              \/ /\ b.state = "ok" /\ r.state = "ok"
                 /\ \E c \in Interior, o \in Dirs, d \in Cells : Grows(b, p, r, c, o, d)
<1> DEFINE good == {e \in Interior : b.map[e] # "SNAKE" /\ Beside(b, e) # {}}
<1>1. PICK N : N = Rounds(b, good)
  OBVIOUS
<1>2. CASE b.state # "ok"
  BY <1>2 DEF RandomMakeSnake
<1>3. CASE b.state = "ok" /\ N = {}
  <2>1. r = Brd(b.map, b.over, b.snakes, b.seed, b.drawn, "hung")
    <3>1. r = [b EXCEPT !.state = "hung"]
      BY <1>1, <1>3 DEF RandomMakeSnake
    <3> QED
      BY <3>1 DEF Brd, Boards
  <2>2. "hung" \in States
    BY DEF States
  <2> QED
    BY <1>3, <2>1, <2>2, BoardIs, BrdIs
<1>4. CASE b.state = "ok" /\ N # {}
  <2>1. PICK n \in N : n = First(N)
    <3>1. N \in SUBSET Nat
      BY <1>1 DEF Rounds
    <3> QED
      BY <1>4, <3>1, FirstIs
  <2>2. n \in 1..Len(Rand[b.seed]) /\ Draw(b, n) \in good
    BY <1>1, <2>1 DEF Rounds
  <2>3. PICK c \in good : c = Draw(b, n)
    BY <2>2
  <2>4. PICK k : k = (b.drawn + n) % Len(Rand[b.seed])
    OBVIOUS
  <2>5. k \in Nat
    <3>1. Len(Rand[b.seed]) \in Nat
      BY BoardAssumption, LenProperties DEF Seeds
    <3> QED
      BY <2>2, <2>4, <3>1, BoardIs
  <2>6. c \in Interior /\ c \in Cells /\ b.map[c] # "SNAKE" /\ Beside(b, c) # {}
    BY <2>3, InteriorIn
  <2>7. PICK i \in Beside(b, c) : i = First(Beside(b, c))
    <3>1. Beside(b, c) \in SUBSET Nat
      BY DEF Beside
    <3> QED
      BY <2>6, <3>1, FirstIs
  <2>8. PICK o \in Dirs : o = Around[i]
    BY <2>7, AroundIs DEF Beside
  <2>9. PICK d \in Cells : d = Neighbour(c, o)
    BY <2>6, NeighbourIs
  <2>10. b.map[d] # "SNAKE"
    BY <2>7, <2>8, <2>9 DEF Beside
  <2>11. PICK x \in Boards :
            x = Put(Put(b, c), d)
    BY <2>6, PutIs
  <2>12. /\ x.map = Show(Show(b.map, c, "SNAKE"), d, "SNAKE")
         /\ x.over = Add(Add(b.over, c, 1), d, 1)
         /\ x.snakes = b.snakes /\ x.seed = b.seed /\ x.state = b.state /\ x.drawn = b.drawn
    <3>1. PICK y \in Boards : y = Put(b, c)
      BY <2>6, PutIs
    <3>2. /\ y.map = Show(b.map, c, "SNAKE") /\ y.over = Add(b.over, c, 1)
          /\ y.snakes = b.snakes /\ y.seed = b.seed /\ y.state = b.state /\ y.drawn = b.drawn
      BY <2>6, <3>1, PutIs
    <3>3. /\ x.map = Show(y.map, d, "SNAKE") /\ x.over = Add(y.over, d, 1)
          /\ x.snakes = y.snakes /\ x.seed = y.seed /\ x.state = y.state /\ x.drawn = y.drawn
      BY <2>11, <3>1, PutIs
    <3> QED
      BY <3>2, <3>3
  <2>13. PICK z \in Nodes : z = Lay(b.snakes, p, b.snakes[p] \o <<c, d>>)
    <3>1. b.snakes \in Nodes /\ b.snakes[p] \in Seq(Cells)
      BY BoardIs DEF Nodes
    <3>2. <<c, d>> \in Seq(Cells)
      BY <2>6
    <3>3. b.snakes[p] \o <<c, d>> \in Seq(Cells)
      BY <3>1, <3>2, ConcatProperties
    <3> QED
      BY <3>1, <3>3, Laid1
  <2>14. r = Brd(x.map, x.over, z, b.seed, k, "ok")
    <3>1. r = [Put(Put(b, c), d) EXCEPT !.snakes[p] = @ \o <<c, d>>,
                                        !.drawn = (@ + n) % Len(Rand[b.seed])]
      BY <1>1, <1>4, <2>1, <2>3, <2>7, <2>8, <2>9 DEF RandomMakeSnake
    <3>2. PICK y \in Boards : y = Brd(x.map, x.over, z, b.seed, b.drawn, "ok")
      <4>1. "ok" \in States
        BY DEF States
      <4> QED
        BY <4>1, BoardIs, BrdIs
    <3>3. y = [x EXCEPT !.snakes[p] = x.snakes[p] \o <<c, d>>]
      <4>1. y = [x EXCEPT !.snakes = z]
        BY <1>4, <2>12, <3>2 DEF Brd, Boards
      <4> QED
        BY <2>12, <2>13, <4>1 DEF Lay
    <3>4. r = [y EXCEPT !.drawn = (y.drawn + n) % Len(Rand[b.seed])]
      BY <2>11, <3>1, <3>3
    <3>5. y.drawn = b.drawn
      BY <3>2 DEF Brd
    <3> QED
      BY <2>4, <3>2, <3>4, <3>5 DEF Brd
  <2>15. "ok" \in States
    BY DEF States
  <2>16. /\ r \in Boards /\ r.seed = b.seed /\ r.map = x.map /\ r.over = x.over
         /\ r.snakes = z /\ r.state = "ok"
    BY <2>5, <2>14, <2>15, BoardIs, BrdIs
  <2> HIDE DEF good
  <2>17. Grows(b, p, r, c, o, d)
    BY <2>6, <2>9, <2>10, <2>12, <2>13, <2>16 DEF Grows
  <2> QED
    BY <1>4, <2>6, <2>16, <2>17
<1> QED
  BY <1>2, <1>3, <1>4

LEMMA AdvanceIs ==
    ASSUME NEW b \in Boards, NEW p \in Players, NEW to \in Cells, b.snakes[p] # <<>>,
           NEW last, last = Last(b.snakes[p]), NEW r, r = Advance(b, p, to)
    PROVE  /\ r \in Boards /\ last \in Cells /\ r.seed = b.seed /\ r.state = b.state
           /\ r.over = Add(Add(b.over, to, 1), last, -1)
           /\ r.over[last] < 1 =>
                 r.map = Show(Show(b.map, to, "SNAKE"), last, "BLANK")
           /\ ~(r.over[last] < 1) => r.map = Show(b.map, to, "SNAKE")
           /\ r.snakes = Lay(b.snakes, p, <<to>> \o Front(b.snakes[p]))
           /\ <<to>> \o Front(b.snakes[p]) \in Seq(Cells)
<1>1. b.snakes \in Nodes /\ b.snakes[p] \in Seq(Cells)
  BY BoardIs DEF Nodes
<1>2. last \in Cells /\ Front(b.snakes[p]) \in Seq(Cells)
  BY <1>1, FrontLast
<1>3. <<to>> \o Front(b.snakes[p]) \in Seq(Cells)
  <2>1. <<to>> \in Seq(Cells)
    OBVIOUS
  <2> QED
    BY <1>2, <2>1, ConcatProperties
<1>4. PICK z \in Nodes : z = Lay(b.snakes, p, <<to>> \o Front(b.snakes[p]))
  BY <1>1, <1>3, Laid1
<1>5. PICK m \in Shown : m = Show(b.map, to, "SNAKE")
  BY BoardIs, Shown1 DEF Kinds
<1>6. PICK o1 \in Counts, o \in Counts : o1 = Add(b.over, to, 1) /\ o = Add(o1, last, -1)
  <2>1. -1 \in Int /\ 1 \in Int
    OBVIOUS
  <2> QED
    BY <1>2, <2>1, BoardIs, Added1
<1>7. PICK m2 \in Shown : m2 = Show(m, last, "BLANK")
  BY <1>2, Shown1 DEF Kinds
<1>8. PICK x \in Boards : x = Put(b, to)
  BY PutIs
<1>9. /\ x.map = m /\ x.over = o1 /\ x.snakes = b.snakes /\ x.seed = b.seed
      /\ x.drawn = b.drawn /\ x.state = b.state
  BY <1>5, <1>6, <1>8, PutIs
<1>10. PICK y \in Boards : y = Brd(m, o, b.snakes, b.seed, b.drawn, b.state)
  BY BoardIs, BrdIs
<1>11. y = [x EXCEPT !.over[last] = @ - 1]
  <2>1. y = [x EXCEPT !.over = o]
    BY <1>9, <1>10 DEF Brd, Boards
  <2>2. o = [x.over EXCEPT ![last] = @ - 1]
    <3>1. o1 \in [Cells -> Int]
      BY DEF Counts
    <3>2. o1[last] + (-1) = o1[last] - 1
      BY <1>2, <3>1
    <3> QED
      BY <1>6, <1>9, <3>2 DEF Add
  <2> QED
    BY <2>1, <2>2
<1>12. PICK w \in Boards : w = Brd(m, o, z, b.seed, b.drawn, b.state)
  BY BoardIs, BrdIs
<1>13. w = [y EXCEPT !.snakes[p] = <<to>> \o Front(b.snakes[p])]
  <2>1. w = [y EXCEPT !.snakes = z] /\ y.snakes = b.snakes
    BY <1>10, <1>12 DEF Brd
  <2> QED
    BY <1>4, <2>1 DEF Lay
<1>14. PICK v \in Boards : v = Brd(m2, o, z, b.seed, b.drawn, b.state)
  BY BoardIs, BrdIs
<1>15. v = [w EXCEPT !.map[last] = "BLANK"]
  <2>1. v = [w EXCEPT !.map = m2] /\ w.map = m
    BY <1>12, <1>14 DEF Brd
  <2> QED
    BY <1>7, <2>1 DEF Show
<1>16. y.over = o
  BY <1>10 DEF Brd
<1>17. r = IF o[last] < 1 THEN v ELSE w
  BY <1>8, <1>11, <1>13, <1>15, <1>16 DEF Advance
<1>18. /\ v.map = m2 /\ v.over = o /\ v.snakes = z /\ v.seed = b.seed /\ v.state = b.state
       /\ w.map = m /\ w.over = o /\ w.snakes = z /\ w.seed = b.seed /\ w.state = b.state
  BY <1>12, <1>14 DEF Brd
<1>19. CASE o[last] < 1
  BY <1>2, <1>3, <1>4, <1>5, <1>6, <1>7, <1>17, <1>18, <1>19
<1>20. CASE ~(o[last] < 1)
  BY <1>2, <1>3, <1>4, <1>5, <1>6, <1>7, <1>17, <1>18, <1>20
<1> QED
  BY <1>19, <1>20

LEMMA EatIs ==
    ASSUME NEW b \in Boards, b.seed \in Seeds, NEW p \in Players, NEW to \in Cells,
           NEW r, r = Eat(b, p, to)
    PROVE  /\ r \in Boards /\ r.seed = b.seed /\ r.over = Add(b.over, to, 1)
           /\ r.snakes = Lay(b.snakes, p, <<to>> \o b.snakes[p])
           /\ <<to>> \o b.snakes[p] \in Seq(Cells)
           /\ \/ r.map = Show(b.map, to, "SNAKE") /\ r.state = "hung"
              \/ /\ r.state = b.state
                 /\ \E f \in Interior : /\ Show(b.map, to, "SNAKE")[f] # "SNAKE"
                                        /\ r.map = Show(Show(b.map, to, "SNAKE"), f, "FOOD")
<1>1. b.snakes \in Nodes /\ b.snakes[p] \in Seq(Cells)
  BY BoardIs DEF Nodes
<1>2. <<to>> \o b.snakes[p] \in Seq(Cells)
  <2>1. <<to>> \in Seq(Cells)
    OBVIOUS
  <2> QED
    BY <1>1, <2>1, ConcatProperties
<1>3. PICK z \in Nodes : z = Lay(b.snakes, p, <<to>> \o b.snakes[p])
  BY <1>1, <1>2, Laid1
<1>4. PICK x \in Boards : x = Put(b, to)
  BY PutIs
<1>5. /\ x.map = Show(b.map, to, "SNAKE") /\ x.over = Add(b.over, to, 1)
      /\ x.snakes = b.snakes /\ x.seed = b.seed
      /\ x.drawn = b.drawn /\ x.state = b.state
  BY <1>4, PutIs
<1>6. PICK y \in Boards : y = Brd(x.map, x.over, z, x.seed, x.drawn, x.state)
  BY BoardIs, BrdIs
<1>7. /\ y.map = x.map /\ y.over = x.over /\ y.snakes = z /\ y.seed = x.seed /\ y.state = x.state
  BY <1>6 DEF Brd
<1>8. r = RandomMakeFood(y)
  <2>1. y = [x EXCEPT !.snakes = z]
    BY <1>6 DEF Brd, Boards
  <2>2. y = [x EXCEPT !.snakes[p] = <<to>> \o x.snakes[p]]
    BY <1>3, <1>5, <2>1 DEF Lay
  <2> QED
    BY <1>4, <2>2 DEF Eat
<1>9. /\ r \in Boards /\ r.over = y.over /\ r.snakes = y.snakes /\ r.seed = y.seed
      /\ \/ r.map = y.map /\ r.state = "hung"
         \/ /\ r.state = y.state
            /\ \E f \in Interior : /\ y.map[f] # "SNAKE" /\ r.map = Show(y.map, f, "FOOD")
  BY <1>5, <1>7, <1>8, FoodIs
<1> QED
  BY <1>2, <1>3, <1>5, <1>7, <1>9

\* what a snake does at its turn
LEMMA MoveIs ==
    ASSUME NEW b \in Boards, b.seed \in Seeds, NEW p \in Players, NEW s, s = b.snakes[p],
           Len(s) >= 2, NEW o, NEW r, r = Move(b, p, o)
    PROVE  \/ r = b
           \/ \E a \in Dirs :
                 /\ b.state = "ok" /\ (a = Course(s) \/ ~TurnsBack(s, a))
                 /\ \/ /\ Neighbour(s[1], a) \notin Cells /\ r = [b EXCEPT !.state = "wild"]
                    \/ \E to \in Cells :
                          /\ to = Neighbour(s[1], a) /\ b.map[to] # "BORDER"
                          /\ \/ b.map[to] # "FOOD" /\ r = Advance(b, p, to)
                             \/ b.map[to] = "FOOD" /\ r = Eat(b, p, to)
<1>1. CASE r = b
  BY <1>1
<1>2. CASE r # b
  <2>1. b.state = "ok" /\ o \in Opts
    BY <1>2 DEF Move
  <2>2. PICK a \in Dirs : (a = Course(s) \/ ~TurnsBack(s, a)) /\ r = MoveCore(b, p, a)
    <3>1. CASE o = "FORWARD"
      BY <2>1, <3>1, CourseIs DEF Move
    <3>2. CASE o # "FORWARD"
      <4>1. o \in Dirs
        BY <2>1, <3>2 DEF Dirs
      <4> QED
        BY <1>2, <2>1, <3>2, <4>1 DEF Move
    <3> QED
      BY <3>1, <3>2
  <2>3. Head(s) = s[1]
    <3>1. s \in Seq(Cells)
      BY BoardIs DEF Nodes
    <3> QED
      BY <3>1, HeadTailProperties
  <2>4. PICK to : to = Neighbour(s[1], a)
    OBVIOUS
  <2>5. CASE to \notin Cells
    BY <2>1, <2>2, <2>3, <2>4, <2>5 DEF MoveCore
  <2>6. CASE to \in Cells
    BY <1>2, <2>1, <2>2, <2>3, <2>4, <2>6 DEF MoveCore
  <2> QED
    BY <2>5, <2>6
<1> QED
  BY <1>1, <1>2

-----------------------------------------------------------------------------
(* Snakes: sequences of cells with the head first.                           *)

LEMMA ConsIs ==
    ASSUME NEW S, NEW s \in Seq(S), NEW e \in S
    PROVE  /\ <<e>> \o s \in Seq(S) /\ Len(<<e>> \o s) = Len(s) + 1 /\ (<<e>> \o s)[1] = e
           /\ \A i \in 1..Len(s) : (<<e>> \o s)[i + 1] = s[i]
           /\ Head(<<e>> \o s) = e /\ Tail(<<e>> \o s) = s
<1>1. <<e>> \in Seq(S) /\ Len(<<e>>) = 1 /\ <<e>>[1] = e /\ Len(s) \in Nat
  OBVIOUS
<1>2. PICK w \in Seq(S) : w = <<e>> \o s
  BY <1>1, ConcatProperties
<1>3. Len(w) = Len(s) + 1 /\ w[1] = e /\ \A i \in 1..Len(s) : w[i + 1] = s[i]
  <2>1. /\ Len(<<e>> \o s) = 1 + Len(s)
        /\ \A i \in 1..(1 + Len(s)) : (<<e>> \o s)[i] = IF i <= 1 THEN <<e>>[i] ELSE s[i - 1]
    BY <1>1, ConcatProperties
  <2> QED
    BY <1>1, <1>2, <2>1
<1>4. Len(w) \in Nat \ {0} /\ w # <<>>
  BY <1>1, <1>3
<1>5. /\ Head(w) = w[1] /\ Tail(w) \in Seq(S) /\ Len(Tail(w)) = Len(w) - 1
      /\ \A i \in 1..Len(Tail(w)) : Tail(w)[i] = w[i + 1]
  BY <1>4, HeadTailProperties
<1>6. Len(Tail(w)) = Len(s)
  BY <1>1, <1>3, <1>5
<1>7. Tail(w) = s
  <2>1. \A i \in 1..Len(s) : Tail(w)[i] = s[i]
    BY <1>3, <1>5, <1>6
  <2> QED
    BY <1>5, <1>6, <2>1, SeqEqual
<1> QED
  BY <1>2, <1>3, <1>5, <1>7

LEMMA CountCons ==
    ASSUME NEW S, NEW s \in Seq(S), NEW e \in S, NEW M
    PROVE  Cardinality(Places(<<e>> \o s, M)) =
               Cardinality(Places(s, M)) + (IF e \in M THEN 1 ELSE 0)
<1>1. PICK w \in Seq(S) : w = <<e>> \o s
  BY ConsIs
<1>2. Head(w) = e /\ Tail(w) = s /\ Len(w) = Len(s) + 1 /\ Len(s) \in Nat
  BY <1>1, ConsIs
<1>3. w # <<>>
  BY <1>2
<1>4. Cardinality(Places(w, M)) =
         Cardinality(Places(Tail(w), M)) + (IF Head(w) \in M THEN 1 ELSE 0)
  BY <1>3, CountTail
<1> QED
  BY <1>1, <1>2, <1>4

LEMMA CountFront ==
    ASSUME NEW S, NEW s \in Seq(S), s # <<>>, NEW M
    PROVE  Cardinality(Places(s, M)) =
               Cardinality(Places(Front(s), M)) + (IF Last(s) \in M THEN 1 ELSE 0)
<1>1. PICK f \in Seq(S), e \in S :
         /\ f = Front(s) /\ e = Last(s) /\ Len(f) = Len(s) - 1 /\ Len(s) \in Nat \ {0}
         /\ e = s[Len(s)] /\ \A i \in 1..(Len(s) - 1) : f[i] = s[i]
  BY FrontLast
<1>2. /\ Append(f, e) \in Seq(S) /\ Len(Append(f, e)) = Len(f) + 1
      /\ \A i \in 1..Len(f) : Append(f, e)[i] = f[i]
      /\ Append(f, e)[Len(f) + 1] = e
  BY AppendProperties
<1>3. Append(f, e) = s
  <2>1. Len(Append(f, e)) = Len(s)
    BY <1>1, <1>2
  <2>2. \A i \in 1..Len(s) : Append(f, e)[i] = s[i]
    BY <1>1, <1>2
  <2> QED
    BY <1>2, <2>1, <2>2, SeqEqual
<1>4. Cardinality(Places(Append(f, e), M)) =
         Cardinality(Places(f, M)) + (IF e \in M THEN 1 ELSE 0)
  BY CountAppend
<1> QED
  BY <1>1, <1>3, <1>4

LEMMA TogetherFront ==
    ASSUME NEW s \in Seq(Cells), s # <<>>, Together(s)
    PROVE  Together(Front(s))
<1>1. PICK f \in Seq(Cells), n \in Nat :
         /\ f = Front(s) /\ n = Len(f) /\ n = Len(s) - 1 /\ Len(s) \in Nat
         /\ \A i \in 1..n : f[i] = s[i]
  BY FrontLast
<1>2. \A i \in 1..(n - 1) : \E o \in Dirs : f[i] = Neighbour(f[i + 1], o)
  <2> SUFFICES ASSUME NEW i \in 1..(n - 1)
               PROVE  \E o \in Dirs : f[i] = Neighbour(f[i + 1], o)
    OBVIOUS
  <2>1. i \in 1..(Len(s) - 1) /\ i \in 1..n /\ i + 1 \in 1..n
    BY <1>1
  <2>2. f[i] = s[i] /\ f[i + 1] = s[i + 1]
    BY <1>1, <2>1
  <2> QED
    BY <2>1, <2>2 DEF Together
<1>3. \A i \in 1..(n - 2) : f[i] # f[i + 2]
  <2> SUFFICES ASSUME NEW i \in 1..(n - 2) PROVE f[i] # f[i + 2]
    OBVIOUS
  <2>1. i \in 1..(Len(s) - 2) /\ i \in 1..n /\ i + 2 \in 1..n
    BY <1>1
  <2> QED
    BY <1>1, <2>1 DEF Together
<1> QED
  BY <1>1, <1>2, <1>3 DEF Together

LEMMA TogetherCons ==
    ASSUME NEW t \in Seq(Cells), Len(t) >= 1, Together(t), NEW a \in Dirs, NEW to \in Cells,
           to = Neighbour(t[1], a), Len(t) >= 2 => to # t[2]
    PROVE  Together(<<to>> \o t)
<1>0. PICK n \in Nat : n = Len(t)
  BY LenProperties
<1>1. PICK w \in Seq(Cells) :
         /\ w = <<to>> \o t /\ n = Len(t) /\ Len(w) = n + 1 /\ w[1] = to
         /\ \A i \in 1..n : w[i + 1] = t[i]
  <2>1. /\ <<to>> \o t \in Seq(Cells) /\ Len(<<to>> \o t) = Len(t) + 1 /\ (<<to>> \o t)[1] = to
        /\ \A i \in 1..Len(t) : (<<to>> \o t)[i + 1] = t[i]
    BY ConsIs
  <2> QED
    BY <1>0, <2>1
<1>2. ASSUME NEW i \in 1..n PROVE \E o \in Dirs : w[i] = Neighbour(w[i + 1], o)
  <2>1. CASE i = 1
    BY <1>1, <2>1
  <2>2. CASE i # 1
    <3>1. i - 1 \in 1..(n - 1) /\ (i - 1) + 1 = i /\ i - 1 \in 1..n
      BY <1>1, <2>2
    <3>2. w[i] = t[i - 1] /\ w[i + 1] = t[i]
      BY <1>1, <3>1
    <3>3. \E o \in Dirs : t[i - 1] = Neighbour(t[(i - 1) + 1], o)
      BY <1>1, <3>1 DEF Together
    <3> QED
      BY <3>1, <3>2, <3>3
  <2> QED
    BY <2>1, <2>2
<1>3. ASSUME NEW i \in 1..(n - 1) PROVE w[i] # w[i + 2]
  <2>1. i + 1 \in 1..n /\ (i + 1) + 1 = i + 2 /\ w[i + 2] = t[i + 1]
    BY <1>1
  <2>2. CASE i = 1
    BY <1>1, <1>3, <2>1, <2>2
  <2>3. CASE i # 1
    <3>1. i - 1 \in 1..(n - 2) /\ (i - 1) + 1 = i /\ (i - 1) + 2 = i + 1 /\ i - 1 \in 1..n
      BY <1>1, <2>3
    <3>2. w[i] = t[i - 1]
      BY <1>1, <3>1
    <3>3. t[i - 1] # t[(i - 1) + 2]
      BY <1>1, <3>1 DEF Together
    <3> QED
      BY <2>1, <3>1, <3>2, <3>3
  <2> QED
    BY <2>2, <2>3
<1>4. Len(w) - 1 = n /\ Len(w) - 2 = n - 1
  BY <1>1
<1> QED
  BY <1>1, <1>2, <1>3, <1>4 DEF Together

-----------------------------------------------------------------------------
(* The nodes on a cell: those of one player's snake and those of the others. *)

Short(s) == Len(s) <= MaxFrames + 2
OthersOn(b, p, cell) == {n \in NodesOn(b, cell) : n[1] # p}

LEMMA NodesSplit ==
    ASSUME NEW b \in Boards, NEW p \in Players, Short(b.snakes[p]), NEW cell
    PROVE  /\ IsFiniteSet(NodesOn(b, cell)) /\ Cardinality(NodesOn(b, cell)) \in Nat
           /\ Cardinality(OthersOn(b, p, cell)) \in Nat
           /\ Cardinality(Places(b.snakes[p], {cell})) \in Nat
           /\ Cardinality(NodesOn(b, cell)) =
                 Cardinality(OthersOn(b, p, cell)) + Cardinality(Places(b.snakes[p], {cell}))
<1>1. PICK s \in Seq(Cells) : s = b.snakes[p]
  BY BoardIs DEF Nodes
<1>2. MaxFrames + 2 \in Nat /\ Len(s) \in Nat /\ Len(s) <= MaxFrames + 2
  BY <1>1, GamePlayAssumption DEF Short
<1>3. IsFiniteSet(NodesOn(b, cell)) /\ Cardinality(NodesOn(b, cell)) \in Nat
  <2>1. IsFiniteSet(1..(MaxFrames + 2))
    BY <1>2, FS_Interval
  <2>2. IsFiniteSet(Players \X (1..(MaxFrames + 2)))
    BY <2>1, BoardAssumption, FS_Product
  <2>3. NodesOn(b, cell) \in SUBSET (Players \X (1..(MaxFrames + 2)))
    BY DEF NodesOn
  <2> QED
    BY <2>2, <2>3, FS_Subset, FS_CardinalityType
<1> DEFINE mine == {n \in NodesOn(b, cell) : n[1] = p}
           f == [i \in Places(s, {cell}) |-> <<p, i>>]
<1>4. f \in Bijection(Places(s, {cell}), mine)
  <2>1. ASSUME NEW i \in Places(s, {cell}) PROVE <<p, i>> \in mine
    <3>1. i \in 1..Len(s) /\ s[i] = cell /\ i \in 1..(MaxFrames + 2) /\ i <= Len(s)
      BY <1>2 DEF Places
    <3> QED
      BY <1>1, <3>1 DEF NodesOn
  <2>2. ASSUME NEW n \in mine PROVE n[2] \in Places(s, {cell}) /\ n = <<p, n[2]>>
    <3>1. /\ n \in Players \X (1..(MaxFrames + 2)) /\ n[2] <= Len(b.snakes[n[1]])
          /\ b.snakes[n[1]][n[2]] = cell /\ n[1] = p
      BY DEF NodesOn
    <3>2. n = <<n[1], n[2]>> /\ n[2] \in 1..(MaxFrames + 2)
      BY <3>1
    <3> QED
      BY <1>1, <1>2, <3>1, <3>2 DEF Places
  <2>3. f \in Injection(Places(s, {cell}), mine)
    BY <2>1 DEF Injection, IsInjective
  <2>4. f \in Surjection(Places(s, {cell}), mine)
    BY <2>1, <2>2 DEF Surjection
  <2> QED
    BY <2>3, <2>4 DEF Bijection
<1>5. IsFiniteSet(Places(s, {cell})) /\ Cardinality(Places(s, {cell})) \in Nat
  BY PlacesFinite
<1>6. IsFiniteSet(mine) /\ Cardinality(mine) = Cardinality(Places(s, {cell}))
  <2>1. ExistsBijection(Places(s, {cell}), mine)
    BY <1>4 DEF ExistsBijection
  <2> HIDE DEF mine
  <2> QED
    BY <1>5, <2>1, FS_Bijection
<1>7. /\ IsFiniteSet(OthersOn(b, p, cell)) /\ Cardinality(OthersOn(b, p, cell)) \in Nat
  <2>1. OthersOn(b, p, cell) \in SUBSET NodesOn(b, cell)
    BY DEF OthersOn
  <2> QED
    BY <1>3, <2>1, FS_Subset, FS_CardinalityType
<1>8. /\ NodesOn(b, cell) = OthersOn(b, p, cell) \cup mine
      /\ OthersOn(b, p, cell) \cap mine = {}
  BY DEF OthersOn
<1> HIDE DEF mine
<1>9. Cardinality(NodesOn(b, cell)) = Cardinality(OthersOn(b, p, cell)) + Cardinality(mine)
                                         - Cardinality(OthersOn(b, p, cell) \cap mine)
  BY <1>6, <1>7, <1>8, FS_Union
<1>10. Cardinality(OthersOn(b, p, cell) \cap mine) = 0
  BY <1>8, FS_EmptySet
<1> QED
  BY <1>1, <1>3, <1>5, <1>6, <1>7, <1>9, <1>10

LEMMA OthersStay ==
    ASSUME NEW b, NEW r, NEW p, \A q \in Players : q # p => r.snakes[q] = b.snakes[q],
           NEW cell
    PROVE  OthersOn(r, p, cell) = OthersOn(b, p, cell)
<1>1. \A n \in Players \X (1..(MaxFrames + 2)) : n[1] # p => r.snakes[n[1]] = b.snakes[n[1]]
  OBVIOUS
<1> QED
  BY <1>1 DEF OthersOn, NodesOn

Counted(b) ==
    \A cell \in Cells : /\ b.over[cell] = Cardinality(NodesOn(b, cell))
                        /\ b.map[cell] = "SNAKE" <=> b.over[cell] > 0
OneFood(m) == \E f \in Cells : \A c \in Cells : m[c] = "FOOD" <=> c = f

Sound(b) == /\ Counted(b) /\ OneFood(b.map) /\ \A p \in Players : Together(b.snakes[p])

LEMMA OneMore ==
    ASSUME NEW o \in Counts, NEW c \in Cells, NEW x, x = Add(o, c, 1)
    PROVE  x \in Counts /\ x[c] = o[c] + 1 /\ \A e \in Cells : e # c => x[e] = o[e]
<1>1. o \in [Cells -> Int]
  BY DEF Counts
<1>2. PICK k \in Int : k = o[c] + 1
  BY <1>1
<1>3. x = [o EXCEPT ![c] = k]
  BY <1>2 DEF Add
<1> QED
  BY <1>1, <1>2, <1>3 DEF Counts

LEMMA OneLess ==
    ASSUME NEW o \in Counts, NEW c \in Cells, NEW x, x = Add(o, c, -1)
    PROVE  x \in Counts /\ x[c] = o[c] - 1 /\ \A e \in Cells : e # c => x[e] = o[e]
<1>1. o \in [Cells -> Int]
  BY DEF Counts
<1>2. PICK k \in Int : k = o[c] + (-1)
  BY <1>1
<1>3. x = [o EXCEPT ![c] = k]
  BY <1>2 DEF Add
<1>4. k = o[c] - 1
  BY <1>1, <1>2
<1> QED
  BY <1>1, <1>2, <1>3, <1>4 DEF Counts

LEMMA ShowIs ==
    ASSUME NEW m \in Shown, NEW c \in Cells, NEW kind \in Kinds, NEW x, x = Show(m, c, kind)
    PROVE  x \in Shown /\ x[c] = kind /\ \A e \in Cells : e # c => x[e] = m[e]
BY Shown1

\* A snake that goes on leaves one cell and takes one.
LEMMA AdvanceSound ==
    ASSUME NEW b \in Boards, NEW p \in Players, NEW to \in Cells, NEW s, s = b.snakes[p],
           Len(s) >= 2, Short(s), Sound(b), NEW a \in Dirs, to = Neighbour(s[1], a),
           a = Course(s) \/ ~TurnsBack(s, a), b.map[to] # "FOOD",
           NEW r, r = Advance(b, p, to)
    PROVE  Sound(r) /\ Len(r.snakes[p]) = Len(s)
<1>1. s \in Seq(Cells) /\ b.snakes \in Nodes /\ b.over \in Counts /\ b.map \in Shown
  BY BoardIs DEF Nodes
<1>2. s # <<>> /\ Len(s) \in Nat
  BY <1>1
<1>3. PICK last, t : last = Last(s) /\ t = Front(s)
  OBVIOUS
<1>4. /\ t \in Seq(Cells) /\ Len(t) = Len(s) - 1 /\ last \in Cells
      /\ \A i \in 1..(Len(s) - 1) : t[i] = s[i]
  BY <1>1, <1>2, <1>3, FrontLast
<1>5. /\ r \in Boards /\ r.over = Add(Add(b.over, to, 1), last, -1)
      /\ r.over[last] < 1 => r.map = Show(Show(b.map, to, "SNAKE"), last, "BLANK")
      /\ ~(r.over[last] < 1) => r.map = Show(b.map, to, "SNAKE")
      /\ r.snakes = Lay(b.snakes, p, <<to>> \o t) /\ <<to>> \o t \in Seq(Cells)
  BY <1>2, <1>3, AdvanceIs
<1>6. /\ r.snakes[p] = <<to>> \o t
      /\ \A q \in Players : q # p => r.snakes[q] = b.snakes[q]
  <2>1. PICK w \in Seq(Cells), k \in Nodes : w = <<to>> \o t /\ k = b.snakes
    BY <1>1, <1>5
  <2>2. r.snakes = Lay(k, p, w)
    BY <1>5, <2>1
  <2>3. Lay(k, p, w)[p] = w /\ \A q \in Players : q # p => Lay(k, p, w)[q] = k[q]
    BY Laid1
  <2> QED
    BY <2>1, <2>2, <2>3
<1>7. Len(<<to>> \o t) = Len(s)
  BY <1>2, <1>4, ConsIs
<1>8. Together(<<to>> \o t)
  <2>1. Together(s)
    BY DEF Sound
  <2>2. Together(t)
    BY <1>1, <1>2, <1>3, <2>1, TogetherFront
  <2>3. t[1] = s[1] /\ (Len(t) >= 2 => t[2] = s[2]) /\ Len(t) >= 1
    BY <1>2, <1>4
  <2>4. to # s[2]
    <3>1. 1 \in 1..(Len(s) - 1)
      BY <1>2
    <3>2. PICK o \in Dirs : s[1] = Neighbour(s[1 + 1], o)
      BY <2>1, <3>1 DEF Together
    <3> QED
      BY <1>1, <3>2, NotBack
  <2> QED
    BY <1>4, <2>2, <2>3, <2>4, TogetherCons
<1>20. PICK o0 \in Counts, m0 \in Shown : o0 = b.over /\ m0 = b.map
  BY <1>1
<1>21. PICK o1 \in Counts : o1 = Add(o0, to, 1)
  <2>1. 1 \in Int
    OBVIOUS
  <2> QED
    BY <2>1, Added1
<1>22. PICK o2 \in Counts : o2 = Add(o1, last, -1)
  <2>1. -1 \in Int
    OBVIOUS
  <2> QED
    BY <1>4, <2>1, Added1
<1>23. r.over = o2
  BY <1>5, <1>20, <1>21, <1>22
<1>24. \A e \in Cells : o0[e] \in Int /\ o1[e] \in Int /\ o2[e] \in Int
  BY DEF Counts
<1>25. o1[to] = o0[to] + 1 /\ \A e \in Cells : e # to => o1[e] = o0[e]
  BY <1>21, OneMore
<1>26. o2[last] = o1[last] - 1 /\ \A e \in Cells : e # last => o2[e] = o1[e]
  <2>1. last \in Cells /\ o1 \in Counts /\ o2 = Add(o1, last, -1)
    BY <1>4, <1>22
  <2> HIDE <1>4, <1>22
  <2> QED
    BY <2>1, OneLess
<1>9. \A e \in Cells : o2[e] = o0[e] + (IF e = to THEN 1 ELSE 0) - (IF e = last THEN 1 ELSE 0)
  BY <1>4, <1>24, <1>25, <1>26
<1>10. ASSUME NEW e \in Cells
       PROVE  /\ o2[e] = Cardinality(NodesOn(r, e)) /\ o2[e] \in Nat
              /\ o0[e] \in Nat /\ (e = last => o0[e] > 0)
  <2>1. /\ Cardinality(Places(<<to>> \o t, {e})) =
              Cardinality(Places(t, {e})) + (IF to = e THEN 1 ELSE 0)
        /\ Cardinality(Places(s, {e})) =
              Cardinality(Places(t, {e})) + (IF last = e THEN 1 ELSE 0)
        /\ Cardinality(Places(t, {e})) \in Nat
    <3>1. Cardinality(Places(<<to>> \o t, {e})) =
              Cardinality(Places(t, {e})) + (IF to \in {e} THEN 1 ELSE 0)
      BY <1>4, CountCons
    <3>2. Cardinality(Places(s, {e})) =
              Cardinality(Places(t, {e})) + (IF last \in {e} THEN 1 ELSE 0)
      BY <1>1, <1>2, <1>3, CountFront
    <3>3. Cardinality(Places(t, {e})) \in Nat
      BY <1>4, PlacesFinite
    <3> QED
      BY <3>1, <3>2, <3>3
  <2>2. PICK n \in Int : n = (IF e = to THEN 1 ELSE 0) - (IF e = last THEN 1 ELSE 0)
    <3>1. (IF e = to THEN 1 ELSE 0) \in Int /\ (IF e = last THEN 1 ELSE 0) \in Int
      OBVIOUS
    <3>2. (IF e = to THEN 1 ELSE 0) - (IF e = last THEN 1 ELSE 0) \in Int
      BY <3>1
    <3> QED
      BY <3>2
  <2>3. Cardinality(Places(r.snakes[p], {e})) = Cardinality(Places(b.snakes[p], {e})) + n
    <3>1. PICK x \in Nat, y \in Nat, z \in Nat :
                                 /\ x = Cardinality(Places(<<to>> \o t, {e}))
                                 /\ y = Cardinality(Places(t, {e}))
                                 /\ z = Cardinality(Places(s, {e}))
      BY <2>1
    <3>2. x = y + (IF to = e THEN 1 ELSE 0) /\ z = y + (IF last = e THEN 1 ELSE 0)
      BY <2>1, <3>1
    <3>3. x = z + n
      BY <2>2, <3>2
    <3>4. x = Cardinality(Places(r.snakes[p], {e})) /\ z = Cardinality(Places(b.snakes[p], {e}))
      BY <1>6, <3>1
    <3> QED
      BY <3>3, <3>4
  <2>4. Cardinality(NodesOn(r, e)) = Cardinality(NodesOn(b, e)) + n
    <3>1. Short(b.snakes[p]) /\ Short(r.snakes[p])
      BY <1>6, <1>7 DEF Short
    <3>2. r \in Boards /\ \A q \in Players : q # p => r.snakes[q] = b.snakes[q]
      BY <1>5, <1>6
    <3>3. Cardinality(OthersOn(r, p, e)) = Cardinality(OthersOn(b, p, e))
      BY <3>2, OthersStay
    <3>4. /\ Cardinality(NodesOn(r, e)) =
                Cardinality(OthersOn(r, p, e)) + Cardinality(Places(r.snakes[p], {e}))
          /\ Cardinality(NodesOn(b, e)) =
                Cardinality(OthersOn(b, p, e)) + Cardinality(Places(b.snakes[p], {e}))
          /\ Cardinality(OthersOn(b, p, e)) \in Nat
          /\ Cardinality(Places(b.snakes[p], {e})) \in Nat
      BY <3>1, <3>2, NodesSplit
    <3> QED
      BY <2>3, <3>3, <3>4
  <2>5. /\ Cardinality(NodesOn(b, e)) \in Nat
        /\ Cardinality(NodesOn(b, e)) =
              Cardinality(OthersOn(b, p, e)) + Cardinality(Places(s, {e}))
        /\ Cardinality(OthersOn(b, p, e)) \in Nat
    BY NodesSplit
  <2>6. Cardinality(NodesOn(r, e)) \in Nat
    <3>1. Short(r.snakes[p]) /\ r \in Boards
      BY <1>5, <1>6, <1>7 DEF Short
    <3> QED
      BY <3>1, NodesSplit
  <2>7. o0[e] = Cardinality(NodesOn(b, e))
    BY <1>20 DEF Sound, Counted
  <2>8. o2[e] = o0[e] + n
    BY <1>9, <1>24, <2>2
  <2> QED
    BY <2>1, <2>4, <2>5, <2>6, <2>7, <2>8
<1>27. PICK m1 \in Shown : m1 = Show(m0, to, "SNAKE")
  BY Shown1 DEF Kinds
<1>28. m1[to] = "SNAKE" /\ \A e \in Cells : e # to => m1[e] = m0[e]
  <2>1. PICK kind \in Kinds : kind = "SNAKE"
    BY DEF Kinds
  <2>2. m1 = Show(m0, to, kind)
    BY <1>27, <2>1
  <2> QED
    BY <2>1, <2>2, ShowIs
<1>29. PICK m2 \in Shown : m2 = Show(m1, last, "BLANK")
  BY <1>4, Shown1 DEF Kinds
<1>30. m2[last] = "BLANK" /\ \A e \in Cells : e # last => m2[e] = m1[e]
  <2>1. PICK kind \in Kinds : kind = "BLANK"
    BY DEF Kinds
  <2>2. m2 = Show(m1, last, kind)
    BY <1>29, <2>1
  <2> QED
    BY <1>4, <2>1, <2>2, ShowIs
<1>31. (o2[last] < 1 => r.map = m2) /\ (~(o2[last] < 1) => r.map = m1)
  BY <1>5, <1>20, <1>23, <1>27, <1>29
<1>11. /\ o2[last] < 1 => \A e \in Cells :
             r.map[e] = IF e = last THEN "BLANK" ELSE IF e = to THEN "SNAKE" ELSE m0[e]
       /\ ~(o2[last] < 1) => \A e \in Cells : r.map[e] = IF e = to THEN "SNAKE" ELSE m0[e]
  BY <1>28, <1>30, <1>31
<1>12. ASSUME NEW e \in Cells PROVE r.map[e] = "SNAKE" <=> o2[e] > 0
  <2>1. m0[e] = "SNAKE" <=> o0[e] > 0
    BY <1>20 DEF Sound, Counted
  <2>2. o2[e] \in Nat /\ o0[e] \in Nat /\ (e = last => o0[e] > 0)
    BY <1>10
  <2>3. o2[e] = o0[e] + (IF e = to THEN 1 ELSE 0) - (IF e = last THEN 1 ELSE 0)
    BY <1>9
  <2>4. CASE e = last /\ o2[last] < 1
    <3>1. r.map[e] = "BLANK"
      BY <1>11, <2>4
    <3>2. ~(o2[e] > 0)
      BY <2>2, <2>4
    <3> QED
      BY <3>1, <3>2
  <2>5. CASE e = last /\ ~(o2[last] < 1)
    BY <1>11, <2>1, <2>2, <2>5
  <2>6. CASE e # last
    <3>1. r.map[e] = IF e = to THEN "SNAKE" ELSE m0[e]
      BY <1>11, <2>6
    <3> QED
      BY <2>1, <2>2, <2>3, <2>6, <3>1
  <2> QED
    BY <2>4, <2>5, <2>6
<1>13. OneFood(r.map)
  <2>1. PICK f \in Cells : \A c \in Cells : b.map[c] = "FOOD" <=> c = f
    BY DEF Sound, OneFood
  <2>2. m0[last] = "SNAKE"
    <3>1. o0[last] > 0
      BY <1>4, <1>10
    <3> QED
      BY <1>4, <1>20, <3>1 DEF Sound, Counted
  <2>3. last # f /\ to # f
    BY <1>4, <1>20, <2>1, <2>2
  <2>4. \A c \in Cells : r.map[c] = "FOOD" <=> c = f
    BY <1>11, <1>20, <2>1, <2>3
  <2> QED
    BY <2>4 DEF OneFood
<1>14. \A q \in Players : Together(r.snakes[q])
  BY <1>6, <1>8 DEF Sound
<1>15. Counted(r)
  BY <1>10, <1>12, <1>23 DEF Counted
<1> QED
  BY <1>6, <1>7, <1>13, <1>14, <1>15 DEF Sound

\* A snake that eats takes one cell more; the food is put where no snake is.
LEMMA EatSound ==
    ASSUME NEW b \in Boards, b.seed \in Seeds, NEW p \in Players, NEW to \in Cells,
           NEW s, s = b.snakes[p], Len(s) >= 2, Len(s) + 1 <= MaxFrames + 2, Sound(b),
           NEW a \in Dirs, to = Neighbour(s[1], a), a = Course(s) \/ ~TurnsBack(s, a),
           b.map[to] = "FOOD", NEW r, r = Eat(b, p, to), r.state # "hung"
    PROVE  Sound(r)
<1>1. s \in Seq(Cells) /\ b.snakes \in Nodes /\ b.over \in Counts /\ b.map \in Shown
  BY BoardIs DEF Nodes
<1>2. s # <<>> /\ Len(s) \in Nat
  BY <1>1
<1>3. PICK o0 \in Counts, m0 \in Shown, k0 \in Nodes :
         o0 = b.over /\ m0 = b.map /\ k0 = b.snakes
  BY <1>1
<1>4. PICK w \in Seq(Cells) : w = <<to>> \o s /\ Len(w) = Len(s) + 1
  <2>1. <<to>> \o s \in Seq(Cells) /\ Len(<<to>> \o s) = Len(s) + 1
    BY <1>1, ConsIs
  <2> QED
    BY <2>1
<1>5. /\ r \in Boards /\ r.over = Add(o0, to, 1) /\ r.snakes = Lay(k0, p, w)
      /\ \E f \in Interior : /\ Show(m0, to, "SNAKE")[f] # "SNAKE"
                             /\ r.map = Show(Show(m0, to, "SNAKE"), f, "FOOD")
  BY <1>3, <1>4, EatIs
<1>6. r.snakes[p] = w /\ \A q \in Players : q # p => r.snakes[q] = b.snakes[q]
  BY <1>3, <1>5, Laid1
<1>7. Together(w)
  <2>1. Together(s)
    BY DEF Sound
  <2>2. to # s[2]
    <3>1. 1 \in 1..(Len(s) - 1)
      BY <1>2
    <3>2. PICK o \in Dirs : s[1] = Neighbour(s[1 + 1], o)
      BY <2>1, <3>1 DEF Together
    <3> QED
      BY <1>1, <3>2, NotBack
  <2> QED
    BY <1>1, <1>2, <1>4, <2>1, <2>2, TogetherCons
<1>8. PICK o1 \in Counts : o1 = r.over
  BY <1>5, BoardIs
<1>9. o1[to] = o0[to] + 1 /\ \A e \in Cells : e # to => o1[e] = o0[e]
  BY <1>5, <1>8, OneMore
<1>10. \A e \in Cells : o0[e] \in Int /\ o1[e] \in Int
  BY DEF Counts
<1>11. ASSUME NEW e \in Cells
       PROVE  o1[e] = Cardinality(NodesOn(r, e)) /\ o0[e] \in Nat
  <2>1. PICK n \in Int : n = IF e = to THEN 1 ELSE 0
    OBVIOUS
  <2>2. Cardinality(Places(r.snakes[p], {e})) = Cardinality(Places(b.snakes[p], {e})) + n
    <3>1. Cardinality(Places(<<to>> \o s, {e})) =
              Cardinality(Places(s, {e})) + (IF to \in {e} THEN 1 ELSE 0)
      BY <1>1, CountCons
    <3> QED
      BY <1>4, <1>6, <2>1, <3>1
  <2>3. Short(b.snakes[p]) /\ Short(r.snakes[p])
    BY <1>2, <1>4, <1>6, GamePlayAssumption DEF Short
  <2>4. r \in Boards /\ \A q \in Players : q # p => r.snakes[q] = b.snakes[q]
    BY <1>5, <1>6
  <2>5. Cardinality(OthersOn(r, p, e)) = Cardinality(OthersOn(b, p, e))
    BY <2>4, OthersStay
  <2>6. /\ Cardinality(NodesOn(r, e)) =
              Cardinality(OthersOn(r, p, e)) + Cardinality(Places(r.snakes[p], {e}))
        /\ Cardinality(NodesOn(b, e)) =
              Cardinality(OthersOn(b, p, e)) + Cardinality(Places(b.snakes[p], {e}))
        /\ Cardinality(OthersOn(b, p, e)) \in Nat /\ Cardinality(NodesOn(b, e)) \in Nat
        /\ Cardinality(Places(b.snakes[p], {e})) \in Nat
    BY <2>3, <2>4, NodesSplit
  <2>7. o0[e] = Cardinality(NodesOn(b, e))
    BY <1>3 DEF Sound, Counted
  <2>8. o1[e] = o0[e] + n
    BY <1>9, <1>10, <2>1
  <2> QED
    BY <2>2, <2>5, <2>6, <2>7, <2>8
<1>12. PICK m1 \in Shown : m1 = Show(m0, to, "SNAKE")
  BY Shown1 DEF Kinds
<1>13. m1[to] = "SNAKE" /\ \A e \in Cells : e # to => m1[e] = m0[e]
  <2>1. PICK kind \in Kinds : kind = "SNAKE"
    BY DEF Kinds
  <2>2. m1 = Show(m0, to, kind)
    BY <1>12, <2>1
  <2> QED
    BY <2>1, <2>2, ShowIs
<1>14. PICK f \in Cells : m1[f] # "SNAKE" /\ r.map = Show(m1, f, "FOOD")
  BY <1>5, <1>12, InteriorIn
<1>15. r.map[f] = "FOOD" /\ \A e \in Cells : e # f => r.map[e] = m1[e]
  <2>1. PICK kind \in Kinds : kind = "FOOD"
    BY DEF Kinds
  <2>2. r.map = Show(m1, f, kind)
    BY <1>14, <2>1
  <2> QED
    BY <2>1, <2>2, ShowIs
<1>16. OneFood(r.map)
  <2>1. \A e \in Cells : m0[e] = "FOOD" => e = to
    BY <1>3 DEF Sound, OneFood
  <2>2. \A e \in Cells : r.map[e] = "FOOD" <=> e = f
    BY <1>13, <1>15, <2>1
  <2> QED
    BY <2>2 DEF OneFood
<1>17. ASSUME NEW e \in Cells PROVE r.map[e] = "SNAKE" <=> o1[e] > 0
  <2>1. (m0[e] = "SNAKE" <=> o0[e] > 0) /\ o0[e] \in Nat
    BY <1>3, <1>11 DEF Sound, Counted
  <2>2. CASE e = to
    <3>1. o1[e] > 0
      BY <1>9, <2>1, <2>2
    <3>2. r.map[e] = "SNAKE"
      BY <1>13, <1>14, <1>15, <2>2
    <3> QED
      BY <3>1, <3>2
  <2>3. CASE e # to
    <3>1. o1[e] = o0[e] /\ m1[e] = m0[e]
      BY <1>9, <1>13, <2>3
    <3> QED
      BY <1>14, <1>15, <2>1, <3>1
  <2> QED
    BY <2>2, <2>3
<1>18. \A q \in Players : Together(r.snakes[q])
  BY <1>6, <1>7 DEF Sound
<1>19. Counted(r)
  BY <1>8, <1>11, <1>17 DEF Counted
<1> QED
  BY <1>16, <1>18, <1>19 DEF Sound

\* what a turn does to the snakes: only one of them changes, by at most one node
LEMMA MoveKept ==
    ASSUME NEW b \in Boards, b.seed \in Seeds, NEW p \in Players, NEW s, s = b.snakes[p],
           Len(s) >= 2, NEW o, NEW r, r = Move(b, p, o)
    PROVE  /\ r \in Boards /\ r.seed = b.seed /\ (b.state # "ok" => r.state = b.state)
           /\ Len(r.snakes[p]) >= Len(s) /\ Len(r.snakes[p]) <= Len(s) + 1
           /\ \A q \in Players : q # p => r.snakes[q] = b.snakes[q]
<1>1. s \in Seq(Cells) /\ b.snakes \in Nodes /\ Len(s) \in Nat /\ s # <<>>
  BY BoardIs DEF Nodes
<1>2. PICK k0 \in Nodes : k0 = b.snakes
  BY <1>1
<1>3. ASSUME NEW w \in Seq(Cells), r.snakes = Lay(b.snakes, p, w)
      PROVE  r.snakes[p] = w /\ \A q \in Players : q # p => r.snakes[q] = b.snakes[q]
  BY <1>2, <1>3, Laid1
<1>4. CASE r = b
  BY <1>1, <1>4
<1>5. CASE b.state = "ok" /\ r = [b EXCEPT !.state = "wild"]
  <2>1. r = Brd(b.map, b.over, b.snakes, b.seed, b.drawn, "wild")
    BY <1>5 DEF Brd, Boards
  <2>2. "wild" \in States
    BY DEF States
  <2>3. r \in Boards /\ r.seed = b.seed /\ r.snakes = b.snakes
    BY <2>1, <2>2, BoardIs, BrdIs
  <2> QED
    BY <1>1, <1>5, <2>3
<1>6. ASSUME NEW to \in Cells, b.state = "ok", r = Advance(b, p, to)
      PROVE  /\ r \in Boards /\ r.seed = b.seed
             /\ \E w \in Seq(Cells) : r.snakes = Lay(b.snakes, p, w) /\ Len(w) = Len(s)
  <2>1. PICK t, last : t = Front(s) /\ last = Last(s)
    OBVIOUS
  <2>2. t \in Seq(Cells) /\ Len(t) = Len(s) - 1
    BY <1>1, <2>1, FrontLast
  <2>3. Len(<<to>> \o t) = Len(t) + 1
    BY <2>2, ConsIs
  <2>4. /\ r \in Boards /\ r.seed = b.seed /\ r.snakes = Lay(b.snakes, p, <<to>> \o t)
        /\ <<to>> \o t \in Seq(Cells)
    BY <1>1, <1>6, <2>1, AdvanceIs
  <2>5. PICK w \in Seq(Cells) : w = <<to>> \o t
    BY <2>4
  <2>6. r.snakes = Lay(b.snakes, p, w) /\ Len(w) = Len(s)
    BY <1>1, <2>2, <2>3, <2>4, <2>5
  <2> QED
    BY <2>4, <2>6
<1>7. ASSUME NEW to \in Cells, b.state = "ok", r = Eat(b, p, to)
      PROVE  /\ r \in Boards /\ r.seed = b.seed
             /\ \E w \in Seq(Cells) : r.snakes = Lay(b.snakes, p, w) /\ Len(w) = Len(s) + 1
  <2>1. Len(<<to>> \o s) = Len(s) + 1
    BY <1>1, ConsIs
  <2>2. /\ r \in Boards /\ r.seed = b.seed /\ r.snakes = Lay(b.snakes, p, <<to>> \o s)
        /\ <<to>> \o s \in Seq(Cells)
    BY <1>7, EatIs
  <2> QED
    BY <2>1, <2>2
<1>8. CASE /\ b.state = "ok"
           /\ \E to \in Cells : r = Advance(b, p, to) \/ r = Eat(b, p, to)
  <2>1. PICK w \in Seq(Cells), n \in 0..1 :
           r \in Boards /\ r.seed = b.seed /\ r.snakes = Lay(b.snakes, p, w) /\ Len(w) = Len(s) + n
    BY <1>1, <1>6, <1>7, <1>8
  <2> QED
    BY <1>1, <1>3, <1>8, <2>1
<1> QED
  BY <1>4, <1>5, <1>8, MoveIs

\* what a turn leaves of a sound board
LEMMA MoveSound ==
    ASSUME NEW b \in Boards, b.seed \in Seeds, NEW p \in Players, NEW s, s = b.snakes[p],
           Len(s) >= 2, Len(s) + 1 <= MaxFrames + 2, Sound(b), NEW o,
           NEW r, r = Move(b, p, o), r.state = "ok"
    PROVE  Sound(r)
<1>1. CASE r = b
  BY <1>1
<1>2. CASE r # b
  <2>1. s \in Seq(Cells) /\ Len(s) \in Nat
    BY BoardIs DEF Nodes
  <2>2. Short(s)
    BY <2>1, GamePlayAssumption DEF Short
  <2>3. r # [b EXCEPT !.state = "wild"]
    <3>1. [b EXCEPT !.state = "wild"].state = "wild"
      BY DEF Boards
    <3> QED
      BY <3>1
  <2>4. PICK a \in Dirs, to \in Cells :
           /\ to = Neighbour(s[1], a) /\ (a = Course(s) \/ ~TurnsBack(s, a))
           /\ \/ b.map[to] # "FOOD" /\ r = Advance(b, p, to)
              \/ b.map[to] = "FOOD" /\ r = Eat(b, p, to)
    BY <1>2, <2>3, MoveIs
  <2>5. CASE b.map[to] # "FOOD" /\ r = Advance(b, p, to)
    BY <2>2, <2>4, <2>5, AdvanceSound
  <2>6. CASE b.map[to] = "FOOD" /\ r = Eat(b, p, to)
    BY <2>4, <2>6, EatSound
  <2> QED
    BY <2>4, <2>5, <2>6
<1> QED
  BY <1>1, <1>2

\* the border is whole and every snake inside it
Inside(b) ==
    /\ b.state # "wild"
    /\ \A cell \in Border : b.map[cell] = "BORDER"
    /\ \A p \in Players : b.snakes[p] \in Seq(Interior)

LEMMA MoveInside ==
    ASSUME NEW b \in Boards, b.seed \in Seeds, NEW p \in Players, NEW s, s = b.snakes[p],
           Len(s) >= 2, Inside(b), NEW o, NEW r, r = Move(b, p, o)
    PROVE  Inside(r)
<1>1. s \in Seq(Interior) /\ Len(s) \in Nat /\ s # <<>> /\ s[1] \in Interior
  BY DEF Inside
<1>2. PICK k0 \in Nodes, m0 \in Shown : k0 = b.snakes /\ m0 = b.map
  BY BoardIs
<1>3. ASSUME NEW w \in Seq(Interior), r.snakes = Lay(b.snakes, p, w)
      PROVE  \A q \in Players : r.snakes[q] \in Seq(Interior)
  <2>1. w \in Seq(Cells)
    BY InteriorIn
  <2>2. r.snakes[p] = w /\ \A q \in Players : q # p => r.snakes[q] = b.snakes[q]
    BY <1>2, <1>3, <2>1, Laid1
  <2> QED
    BY <2>2 DEF Inside
<1>4. CASE r = b
  BY <1>4
<1>5. CASE r # b
  <2>1. PICK a \in Dirs :
           /\ b.state = "ok"
           /\ \/ /\ Neighbour(s[1], a) \notin Cells /\ r = [b EXCEPT !.state = "wild"]
              \/ \E to \in Cells :
                    /\ to = Neighbour(s[1], a) /\ b.map[to] # "BORDER"
                    /\ r = Advance(b, p, to) \/ r = Eat(b, p, to)
    BY <1>5, MoveIs
  <2>2. PICK to \in Cells : /\ to = Neighbour(s[1], a) /\ b.map[to] # "BORDER"
                            /\ r = Advance(b, p, to) \/ r = Eat(b, p, to)
    <3>1. Neighbour(s[1], a) \in Cells
      BY <1>1, InteriorIn, NeighbourIs
    <3> QED
      BY <2>1, <3>1
  <2>3. to \in Interior
    BY <2>2 DEF Inside, Border
  <2>4. PICK m1 \in Shown : m1 = Show(m0, to, "SNAKE")
    BY Shown1 DEF Kinds
  <2>5. \A e \in Cells : e # to => m1[e] = m0[e]
    <3>1. PICK kind \in Kinds : kind = "SNAKE"
      BY DEF Kinds
    <3>2. m1 = Show(m0, to, kind)
      BY <2>4, <3>1
    <3> QED
      BY <3>2, ShowIs
  <2>6. \A e \in Border : m1[e] = "BORDER"
    BY <1>2, <2>3, <2>5, InteriorIn DEF Inside, Border
  <2>7. ASSUME NEW f \in Interior, NEW kind \in Kinds, r.map = Show(m1, f, kind)
        PROVE  \A e \in Border : r.map[e] = "BORDER"
    <3>1. \A e \in Cells : e # f => r.map[e] = m1[e]
      BY <2>7, InteriorIn, ShowIs
    <3> QED
      BY <2>6, <3>1, InteriorIn DEF Border
  <2>8. CASE r = Advance(b, p, to)
    <3>1. PICK t, last : t = Front(s) /\ last = Last(s)
      OBVIOUS
    <3>2. t \in Seq(Interior) /\ last \in Interior
      BY <1>1, <3>1, FrontLast
    <3>3. <<to>> \o t \in Seq(Interior)
      BY <2>3, <3>2, ConsIs
    <3>4. /\ r.state = b.state /\ r.snakes = Lay(b.snakes, p, <<to>> \o t)
          /\ \/ r.map = Show(m1, last, "BLANK")
             \/ r.map = m1
      BY <1>1, <1>2, <2>4, <2>8, <3>1, AdvanceIs
    <3>5. "BLANK" \in Kinds
      BY DEF Kinds
    <3>6. \A e \in Border : r.map[e] = "BORDER"
      BY <2>6, <2>7, <3>2, <3>4, <3>5
    <3> QED
      BY <1>3, <3>3, <3>4, <3>6 DEF Inside
  <2>9. CASE r = Eat(b, p, to)
    <3>1. <<to>> \o s \in Seq(Interior)
      BY <1>1, <2>3, ConsIs
    <3>2. /\ (r.state = b.state \/ r.state = "hung") /\ r.snakes = Lay(b.snakes, p, <<to>> \o s)
          /\ \/ r.map = m1
             \/ \E f \in Interior : r.map = Show(m1, f, "FOOD")
      BY <1>2, <2>4, <2>9, EatIs
    <3>3. "FOOD" \in Kinds
      BY DEF Kinds
    <3>4. \A e \in Border : r.map[e] = "BORDER"
      BY <2>6, <2>7, <3>2, <3>3
    <3> QED
      BY <1>3, <3>1, <3>2, <3>4 DEF Inside
  <2> QED
    BY <2>2, <2>8, <2>9
<1> QED
  BY <1>4, <1>5

LEMMA MovedIs ==
    ASSUME NEW b, NEW slots
    PROVE  \E g : /\ DOMAIN g = 0..Len(Slots) /\ g[0] = b
                  /\ \A i \in 1..Len(Slots) : g[i] = Move(g[i - 1], Slots[i], slots[i])
                  /\ ApplyFrame(b, slots) = g[Len(Slots)]
<1> DEFINE Turned(g, k) == g = [i \in 0..k |-> IF i = 0 THEN b
                                              ELSE Move(g[i - 1], Slots[i], slots[i])]
           T == {k \in Nat : \E g : Turned(g, k)}
<1>1. 0 \in T
  <2>1. PICK g : g = [i \in 0..0 |-> b]
    OBVIOUS
  <2>2. Turned(g, 0)
    BY <2>1
  <2> QED
    BY <2>2
<1>2. ASSUME NEW k \in T PROVE k + 1 \in T
  <2>1. PICK g : Turned(g, k)
    OBVIOUS
  <2>2. k \in Nat
    OBVIOUS
  <2>3. PICK x : x = Move(g[k], Slots[k + 1], slots[k + 1])
    OBVIOUS
  <2>4. PICK h : h = [i \in 0..(k + 1) |-> IF i <= k THEN g[i] ELSE x]
    OBVIOUS
  <2>5. ASSUME NEW i \in 0..(k + 1)
        PROVE  h[i] = IF i = 0 THEN b ELSE Move(h[i - 1], Slots[i], slots[i])
    <3>1. CASE i = 0
      BY <2>1, <2>2, <2>4, <3>1
    <3>2. CASE i # 0 /\ i <= k
      <4>1. i \in 0..k /\ i - 1 \in 0..k /\ i - 1 \in 0..(k + 1) /\ i - 1 <= k
        BY <2>2, <3>2
      <4> QED
        BY <2>1, <2>4, <3>2, <4>1
    <3>3. CASE i = k + 1
      <4>1. i - 1 = k /\ k \in 0..(k + 1) /\ ~(i <= k) /\ i # 0
        BY <2>2, <3>3
      <4> QED
        BY <2>3, <2>4, <3>3, <4>1
    <3> QED
      BY <2>2, <3>1, <3>2, <3>3
  <2>6. Turned(h, k + 1)
    BY <2>4, <2>5
  <2> QED
    BY <2>2, <2>6
<1>3. T = Nat
  <2>1. T \in SUBSET Nat
    OBVIOUS
  <2> HIDE DEF T
  <2> QED
    BY <1>1, <1>2, <2>1, Induction
<1>4. PICK n \in Nat : n = Len(Slots)
  BY SlotsAre
<1>5. \E g : Turned(g, n)
  BY <1>3
<1>6. PICK m : m = CHOOSE g : Turned(g, n)
  OBVIOUS
<1>7. Turned(m, n)
  BY <1>5, <1>6
<1>8. ApplyFrame(b, slots) = m[n]
  BY <1>4, <1>6 DEF ApplyFrame
<1>9. DOMAIN m = 0..n /\ m[0] = b
  BY <1>7
<1>10. \A i \in 1..n : m[i] = Move(m[i - 1], Slots[i], slots[i])
  BY <1>7
<1> QED
  BY <1>4, <1>8, <1>9, <1>10

\* the boards between the turns of a frame
Turns(g, b, slots) ==
    /\ g[0] = b /\ ApplyFrame(b, slots) = g[Len(Slots)]
    /\ \A i \in 1..Len(Slots) : g[i] = Move(g[i - 1], Slots[i], slots[i])
    /\ \A i \in 0..Len(Slots) :
          /\ g[i] \in Boards /\ g[i].seed = b.seed
          /\ \A j \in 1..Len(Slots) :
                /\ Len(g[i].snakes[Slots[j]]) >= 2
                /\ j > i => g[i].snakes[Slots[j]] = b.snakes[Slots[j]]
          /\ \A q \in Players : Len(g[i].snakes[q]) <= Len(b.snakes[q]) + 1

LEMMA FrameMoves ==
    ASSUME NEW b \in Boards, b.seed \in Seeds, NEW slots,
           \A j \in 1..Len(Slots) : Len(b.snakes[Slots[j]]) >= 2
    PROVE  \E g : Turns(g, b, slots)
<1>1. PICK g : /\ DOMAIN g = 0..Len(Slots) /\ g[0] = b
               /\ \A i \in 1..Len(Slots) : g[i] = Move(g[i - 1], Slots[i], slots[i])
               /\ ApplyFrame(b, slots) = g[Len(Slots)]
  BY MovedIs
<1>2. PICK n \in Nat : n = Len(Slots)
  BY SlotsAre
<1> DEFINE Kept(i) == /\ g[i] \in Boards /\ g[i].seed = b.seed
                      /\ \A j \in 1..n : /\ Len(g[i].snakes[Slots[j]]) >= 2
                                         /\ j > i => g[i].snakes[Slots[j]] = b.snakes[Slots[j]]
                      /\ \A q \in Players : Len(g[i].snakes[q]) <= Len(b.snakes[q]) + 1
           T == {i \in 0..n : Kept(i)}
<1>3. \A q \in Players : Len(b.snakes[q]) \in Nat
  BY BoardIs DEF Nodes
<1>4. 0 \in T
  BY <1>1, <1>2, <1>3
<1>5. ASSUME NEW i \in 0..(n - 1), i \in T PROVE i + 1 \in T
  <2>1. i + 1 \in 1..n /\ (i + 1) - 1 = i /\ Kept(i)
    BY <1>2, <1>5
  <2>20. PICK x \in Boards, p \in Players : x = g[i] /\ p = Slots[i + 1]
    BY <1>2, <2>1, SlotsAre
  <2>21. PICK o : o = slots[i + 1]
    OBVIOUS
  <2>2. /\ x \in Boards /\ p \in Players
        /\ x = g[i] /\ p = Slots[i + 1] /\ o = slots[i + 1]
    BY <2>20, <2>21
  <2>3. PICK r : r = g[i + 1] /\ r = Move(x, p, o)
    BY <1>1, <1>2, <2>1, <2>2
  <2>4. x.seed \in Seeds /\ Len(x.snakes[p]) >= 2
    BY <2>1, <2>2
  <2>5. /\ r \in Boards /\ r.seed = x.seed
        /\ Len(r.snakes[p]) >= Len(x.snakes[p]) /\ Len(r.snakes[p]) <= Len(x.snakes[p]) + 1
        /\ \A q \in Players : q # p => r.snakes[q] = x.snakes[q]
    BY <2>3, <2>4, MoveKept
  <2>6. x.snakes[p] = b.snakes[p] /\ Len(b.snakes[p]) \in Nat /\ Len(r.snakes[p]) \in Nat
    <3>1. i + 1 > i
      BY <1>2
    <3>2. r.snakes[p] \in Seq(Cells)
      BY <2>5, BoardIs DEF Nodes
    <3> QED
      BY <1>3, <2>1, <2>2, <3>1, <3>2
  <2>7. ASSUME NEW j \in 1..n
        PROVE  /\ Len(r.snakes[Slots[j]]) >= 2
               /\ j > i + 1 => r.snakes[Slots[j]] = b.snakes[Slots[j]]
    <3>1. CASE j = i + 1
      <4>1. Slots[j] = p /\ ~(j > i + 1)
        BY <1>2, <2>2, <3>1
      <4> QED
        BY <2>4, <2>5, <2>6, <4>1
    <3>2. CASE j # i + 1
      <4>1. Slots[j] \in Players /\ Slots[j] # p
        BY <1>2, <2>1, <2>2, <3>2, SlotsAre
      <4>2. r.snakes[Slots[j]] = x.snakes[Slots[j]]
        BY <2>5, <4>1
      <4>3. j > i + 1 => j > i
        BY <1>2
      <4> QED
        BY <2>1, <2>2, <4>2, <4>3
    <3> QED
      BY <3>1, <3>2
  <2>8. ASSUME NEW q \in Players PROVE Len(r.snakes[q]) <= Len(b.snakes[q]) + 1
    BY <2>1, <2>2, <2>5, <2>6
  <2>9. Kept(i + 1)
    BY <2>1, <2>2, <2>3, <2>5, <2>7, <2>8
  <2> QED
    BY <2>1, <2>9
<1> HIDE DEF T
<1>6. 0..n \subseteq T
  BY <1>4, <1>5, InductionTo
<1>7. \A i \in 0..n : Kept(i)
  BY <1>6 DEF T
<1> HIDE DEF Kept
<1>8. /\ g[0] = b /\ ApplyFrame(b, slots) = g[Len(Slots)]
      /\ \A i \in 1..Len(Slots) : g[i] = Move(g[i - 1], Slots[i], slots[i])
  BY <1>1
<1>9. Turns(g, b, slots)
  BY <1>2, <1>7, <1>8 DEF Kept, Turns
<1> QED
  BY <1>9

\* what a frame does to a board, and what it leaves of a sound one
LEMMA FrameKept ==
    ASSUME NEW b \in Boards, b.seed \in Seeds, NEW slots,
           \A j \in 1..Len(Slots) : Len(b.snakes[Slots[j]]) >= 2,
           NEW r, r = ApplyFrame(b, slots)
    PROVE  /\ r \in Boards /\ r.seed = b.seed
           /\ \A j \in 1..Len(Slots) : Len(r.snakes[Slots[j]]) >= 2
           /\ \A q \in Players : Len(r.snakes[q]) <= Len(b.snakes[q]) + 1
<1>1. Len(Slots) \in 0..Len(Slots)
  BY SlotsAre
<1> QED
  BY <1>1, FrameMoves DEF Turns

LEMMA FrameSound ==
    ASSUME NEW b \in Boards, b.seed \in Seeds, NEW slots,
           \A j \in 1..Len(Slots) : Len(b.snakes[Slots[j]]) >= 2,
           \A q \in Players : Len(b.snakes[q]) + 1 <= MaxFrames + 2, Sound(b),
           NEW r, r = ApplyFrame(b, slots), r.state = "ok"
    PROVE  Sound(r)
<1>1. PICK n \in Nat : n = Len(Slots)
  BY SlotsAre
<1>0. PICK g : Turns(g, b, slots)
  BY FrameMoves
<1>2. /\ g[0] = b /\ r = g[n]
      /\ \A i \in 1..n : g[i] = Move(g[i - 1], Slots[i], slots[i])
      /\ \A i \in 0..n :
            /\ g[i] \in Boards /\ g[i].seed = b.seed
            /\ \A j \in 1..n :
                     /\ Len(g[i].snakes[Slots[j]]) >= 2
                     /\ j > i => g[i].snakes[Slots[j]] = b.snakes[Slots[j]]
  BY <1>0, <1>1 DEF Turns
<1> DEFINE T == {i \in 0..n : g[i].state = "ok" => Sound(g[i])}
<1>3. 0 \in T
  BY <1>1, <1>2
<1>4. ASSUME NEW i \in 0..(n - 1), i \in T PROVE i + 1 \in T
  <2>1. i + 1 \in 1..n /\ (i + 1) - 1 = i /\ i + 1 > i /\ i \in 0..n
    BY <1>1
  <2>20. PICK x \in Boards, p \in Players : x = g[i] /\ p = Slots[i + 1]
    BY <1>1, <1>2, <2>1, SlotsAre
  <2>21. PICK o, y : o = slots[i + 1] /\ y = g[i + 1]
    OBVIOUS
  <2>2. /\ x \in Boards /\ p \in Players
        /\ x = g[i] /\ p = Slots[i + 1] /\ o = slots[i + 1] /\ y = g[i + 1]
    BY <2>20, <2>21
  <2>3. y = Move(x, p, o)
    BY <1>2, <2>1, <2>2
  <2>4. /\ x.seed \in Seeds /\ Len(x.snakes[p]) >= 2 /\ x.snakes[p] = b.snakes[p]
        /\ Len(x.snakes[p]) + 1 <= MaxFrames + 2
    BY <1>2, <2>1, <2>2
  <2>5. y.state = "ok" => x.state = "ok"
    BY <2>3, <2>4, MoveKept
  <2>6. y.state = "ok" => Sound(y)
    <3>1. x.state = "ok" => Sound(x)
      BY <1>4, <2>2
    <3> QED
      BY <2>3, <2>4, <2>5, <3>1, MoveSound
  <2> QED
    BY <2>1, <2>2, <2>6
<1> HIDE DEF T
<1>5. 0..n \subseteq T
  BY <1>3, <1>4, InductionTo
<1> QED
  BY <1>1, <1>2, <1>5 DEF T

LEMMA FrameInside ==
    ASSUME NEW b \in Boards, b.seed \in Seeds, NEW slots,
           \A j \in 1..Len(Slots) : Len(b.snakes[Slots[j]]) >= 2, Inside(b),
           NEW r, r = ApplyFrame(b, slots)
    PROVE  Inside(r)
<1>1. PICK n \in Nat : n = Len(Slots)
  BY SlotsAre
<1>0. PICK g : Turns(g, b, slots)
  BY FrameMoves
<1>2. /\ g[0] = b /\ r = g[n]
      /\ \A i \in 1..n : g[i] = Move(g[i - 1], Slots[i], slots[i])
      /\ \A i \in 0..n :
            /\ g[i] \in Boards /\ g[i].seed = b.seed
            /\ \A j \in 1..n : Len(g[i].snakes[Slots[j]]) >= 2
  BY <1>0, <1>1 DEF Turns
<1> DEFINE T == {i \in 0..n : Inside(g[i])}
<1>3. 0 \in T
  BY <1>1, <1>2
<1>4. ASSUME NEW i \in 0..(n - 1), i \in T PROVE i + 1 \in T
  <2>1. i + 1 \in 1..n /\ (i + 1) - 1 = i /\ i \in 0..n
    BY <1>1
  <2>20. PICK x \in Boards, p \in Players : x = g[i] /\ p = Slots[i + 1]
    BY <1>1, <1>2, <2>1, SlotsAre
  <2>21. PICK o, y : o = slots[i + 1] /\ y = g[i + 1]
    OBVIOUS
  <2>2. /\ x \in Boards /\ p \in Players
        /\ x = g[i] /\ p = Slots[i + 1] /\ o = slots[i + 1] /\ y = g[i + 1]
    BY <2>20, <2>21
  <2>3. y = Move(x, p, o) /\ x.seed \in Seeds /\ Len(x.snakes[p]) >= 2 /\ Inside(x)
    BY <1>2, <1>4, <2>1, <2>2
  <2>4. Inside(y)
    BY <2>3, MoveInside
  <2> QED
    BY <2>1, <2>2, <2>4
<1> HIDE DEF T
<1>5. 0..n \subseteq T
  BY <1>3, <1>4, InductionTo
<1> QED
  BY <1>1, <1>2, <1>5 DEF T

-----------------------------------------------------------------------------
(* The board a game begins with.                                             *)

LEMMA Opposite ==
    ASSUME NEW c \in Cells, NEW o \in Dirs
    PROVE  \E a \in Dirs : c = Neighbour(Neighbour(c, o), a)
<1>1. PICK y \in Int, x \in Int : c = <<y, x>>
  <2>1. c = <<c[1], c[2]>> /\ c[1] \in 0..(H - 1) /\ c[2] \in 0..(W - 1)
    BY DEF Cells
  <2>2. c[1] \in Int /\ c[2] \in Int
    BY <2>1, BoardAssumption
  <2> QED
    BY <2>1, <2>2
<1>2. "UP" \in Dirs /\ "DOWN" \in Dirs /\ "LEFT" \in Dirs /\ "RIGHT" \in Dirs
  BY DEF Dirs, Opts
<1>3. CASE o = "UP"
  <2>1. c = Neighbour(Neighbour(c, o), "DOWN")
    BY <1>1, <1>3 DEF Neighbour, Step
  <2> QED
    BY <1>2, <2>1
<1>4. CASE o = "DOWN"
  <2>1. c = Neighbour(Neighbour(c, o), "UP")
    BY <1>1, <1>4 DEF Neighbour, Step
  <2> QED
    BY <1>2, <2>1
<1>5. CASE o = "LEFT"
  <2>1. c = Neighbour(Neighbour(c, o), "RIGHT")
    BY <1>1, <1>5 DEF Neighbour, Step
  <2> QED
    BY <1>2, <2>1
<1>6. CASE o = "RIGHT"
  <2>1. c = Neighbour(Neighbour(c, o), "LEFT")
    BY <1>1, <1>6 DEF Neighbour, Step
  <2> QED
    BY <1>2, <2>1
<1> QED
  BY <1>3, <1>4, <1>5, <1>6 DEF Dirs, Opts

LEMMA PlacedIs ==
    ASSUME NEW b, NEW seed
    PROVE  \E g : /\ DOMAIN g = 0..Len(Slots) /\ g[0] = Clear(b, seed)
                  /\ \A i \in 1..Len(Slots) : g[i] = RandomMakeSnake(g[i - 1], Slots[i])
                  /\ NewGame(b, seed) = IF g[Len(Slots)].state # "ok" THEN g[Len(Slots)]
                                        ELSE RandomMakeFood(g[Len(Slots)])
<1> DEFINE Placing(g, k) == g = [i \in 0..k |-> IF i = 0 THEN Clear(b, seed)
                                                ELSE RandomMakeSnake(g[i - 1], Slots[i])]
           T == {k \in Nat : \E g : Placing(g, k)}
<1>1. 0 \in T
  <2>1. PICK g : g = [i \in 0..0 |-> Clear(b, seed)]
    OBVIOUS
  <2>2. Placing(g, 0)
    BY <2>1
  <2> QED
    BY <2>2
<1>2. ASSUME NEW k \in T PROVE k + 1 \in T
  <2>1. PICK g : Placing(g, k)
    OBVIOUS
  <2>2. k \in Nat
    OBVIOUS
  <2>3. PICK x : x = RandomMakeSnake(g[k], Slots[k + 1])
    OBVIOUS
  <2>4. PICK h : h = [i \in 0..(k + 1) |-> IF i <= k THEN g[i] ELSE x]
    OBVIOUS
  <2>5. ASSUME NEW i \in 0..(k + 1)
        PROVE  h[i] = IF i = 0 THEN Clear(b, seed) ELSE RandomMakeSnake(h[i - 1], Slots[i])
    <3>1. CASE i = 0
      BY <2>1, <2>2, <2>4, <3>1
    <3>2. CASE i # 0 /\ i <= k
      <4>1. i \in 0..k /\ i - 1 \in 0..k /\ i - 1 \in 0..(k + 1) /\ i - 1 <= k
        BY <2>2, <3>2
      <4> QED
        BY <2>1, <2>4, <3>2, <4>1
    <3>3. CASE i = k + 1
      <4>1. i - 1 = k /\ k \in 0..(k + 1) /\ ~(i <= k) /\ i # 0
        BY <2>2, <3>3
      <4> QED
        BY <2>3, <2>4, <3>3, <4>1
    <3> QED
      BY <2>2, <3>1, <3>2, <3>3
  <2>6. Placing(h, k + 1)
    BY <2>4, <2>5
  <2> QED
    BY <2>2, <2>6
<1>3. T = Nat
  <2>1. T \in SUBSET Nat
    OBVIOUS
  <2> HIDE DEF T
  <2> QED
    BY <1>1, <1>2, <2>1, Induction
<1>4. PICK n \in Nat : n = Len(Slots)
  BY SlotsAre
<1>5. \E g : Placing(g, n)
  BY <1>3
<1>6. PICK m : m = CHOOSE g : Placing(g, n)
  OBVIOUS
<1>7. Placing(m, n)
  BY <1>5, <1>6
<1>8. NewGame(b, seed) = IF m[n].state # "ok" THEN m[n] ELSE RandomMakeFood(m[n])
  BY <1>4, <1>6 DEF NewGame
<1>9. DOMAIN m = 0..n /\ m[0] = Clear(b, seed)
  BY <1>7
<1>10. \A i \in 1..n : m[i] = RandomMakeSnake(m[i - 1], Slots[i])
  BY <1>7
<1> QED
  BY <1>4, <1>8, <1>9, <1>10

LEMMA ClearIs ==
    ASSUME NEW b \in Boards, NEW seed \in Seeds, NEW r, r = Clear(b, seed)
    PROVE  /\ r \in Boards /\ r.seed = seed /\ r.snakes = b.snakes /\ r.state = b.state
           /\ \A e \in Cells : /\ r.map[e] = IF e \in Border THEN "BORDER" ELSE "BLANK"
                               /\ r.over[e] = 0
<1>1. PICK m, o : /\ m = [c \in Cells |-> IF c \in Border THEN "BORDER" ELSE "BLANK"]
                  /\ o = [c \in Cells |-> 0]
  OBVIOUS
<1>2. m \in Shown /\ o \in Counts
  BY <1>1 DEF Shown, Counts, Kinds
<1>3. r = Brd(m, o, b.snakes, seed, 0, b.state)
  BY <1>1 DEF Clear, Brd, Boards
<1>4. seed \in Given0 /\ 0 \in Nat
  BY DEF Given0
<1>5. /\ r \in Boards /\ r.seed = seed /\ r.snakes = b.snakes /\ r.state = b.state
      /\ r.map = m /\ r.over = o
  BY <1>2, <1>3, <1>4, BoardIs, BrdIs
<1> QED
  BY <1>1, <1>5

\* two nodes at the end of a snake
LEMMA Longer ==
    ASSUME NEW s \in Seq(Cells), NEW c \in Cells, NEW d \in Cells, NEW w, w = s \o <<c, d>>
    PROVE  /\ w \in Seq(Cells) /\ Len(w) = Len(s) + 2
           /\ s = <<>> => w = <<c, d>>
<1>1. <<c, d>> \in Seq(Cells) /\ Len(<<c, d>>) = 2
  OBVIOUS
<1>2. w \in Seq(Cells) /\ Len(w) = Len(s) + 2
  BY <1>1, ConcatProperties
<1>3. ASSUME s = <<>> PROVE w = <<c, d>>
  BY <1>1, <1>3, ConcatEmptySeq
<1> QED
  BY <1>2, <1>3

OnSnake(b, e) == \E q \in Players : \E k \in 1..Len(b.snakes[q]) : b.snakes[q][k] = e
\* the border is whole where no snake lies
Bordered(b) == \A e \in Border : b.map[e] = "BORDER" \/ OnSnake(b, e)

LEMMA SnakeKept ==
    ASSUME NEW b \in Boards, b.seed \in Seeds, NEW p \in Players, NEW s, s = b.snakes[p],
           NEW r, r = RandomMakeSnake(b, p)
    PROVE  /\ r \in Boards /\ r.seed = b.seed /\ (r.state = b.state \/ r.state = "hung")
           /\ r.state = "ok" => b.state = "ok" /\ Len(r.snakes[p]) = Len(s) + 2
           /\ r.snakes[p] = s \/ Len(r.snakes[p]) = Len(s) + 2
           /\ \A q \in Players : q # p => r.snakes[q] = b.snakes[q]
<1>1. s \in Seq(Cells) /\ b.snakes \in Nodes /\ Len(s) \in Nat
  BY BoardIs DEF Nodes
<1>2. r \in Boards /\ r.seed = b.seed
  BY SnakeIs
<1>3. CASE b.state # "ok" /\ r = b
  BY <1>1, <1>2, <1>3
<1>4. CASE b.state = "ok" /\ r.state = "hung" /\ r.snakes = b.snakes
  BY <1>1, <1>2, <1>4
<1>5. CASE /\ b.state = "ok" /\ r.state = "ok"
           /\ \E c \in Interior, o \in Dirs, d \in Cells : Grows(b, p, r, c, o, d)
  <2>1. PICK c \in Cells, d \in Cells : r.snakes = Lay(b.snakes, p, s \o <<c, d>>)
    BY <1>5, InteriorIn DEF Grows
  <2>2. PICK w \in Seq(Cells), k0 \in Nodes : /\ w = s \o <<c, d>> /\ Len(w) = Len(s) + 2
                                              /\ k0 = b.snakes
    <3>1. s \o <<c, d>> \in Seq(Cells) /\ Len(s \o <<c, d>>) = Len(s) + 2
      BY <1>1, Longer
    <3> QED
      BY <1>1, <3>1
  <2>3. r.snakes = Lay(k0, p, w)
    BY <2>1, <2>2
  <2>4. r.snakes[p] = w /\ \A q \in Players : q # p => r.snakes[q] = k0[q]
    BY <2>3, Laid1
  <2> QED
    BY <1>2, <1>5, <2>2, <2>4
<1> QED
  BY <1>3, <1>4, <1>5, SnakeIs

LEMMA SnakeBordered ==
    ASSUME NEW b \in Boards, b.seed \in Seeds, NEW p \in Players, b.snakes[p] = <<>>,
           Bordered(b), NEW r, r = RandomMakeSnake(b, p)
    PROVE  Bordered(r)
<1>1. CASE r.map = b.map /\ r.snakes = b.snakes
  BY <1>1 DEF Bordered, OnSnake
<1>2. CASE ~(r.map = b.map /\ r.snakes = b.snakes)
  <2>1. PICK c \in Interior, d \in Cells :
           /\ r.map = Show(Show(b.map, c, "SNAKE"), d, "SNAKE")
           /\ r.snakes = Lay(b.snakes, p, b.snakes[p] \o <<c, d>>)
    <3>1. PICK c \in Interior, o \in Dirs, d \in Cells : Grows(b, p, r, c, o, d)
      BY <1>2, SnakeIs
    <3> QED
      BY <3>1 DEF Grows
  <2>2. c \in Cells
    BY InteriorIn
  <2>3. PICK w \in Seq(Cells) : w = b.snakes[p] \o <<c, d>> /\ w = <<c, d>>
    <3>1. b.snakes[p] \in Seq(Cells)
      BY BoardIs DEF Nodes
    <3>2. /\ b.snakes[p] \o <<c, d>> \in Seq(Cells)
          /\ b.snakes[p] \o <<c, d>> = <<c, d>>
      BY <2>1, <2>2, <3>1, Longer
    <3> QED
      BY <3>2
  <2>4. PICK k0 \in Nodes, m0 \in Shown, kind \in Kinds :
           k0 = b.snakes /\ m0 = b.map /\ kind = "SNAKE"
    BY BoardIs DEF Kinds
  <2>5. PICK m1 \in Shown : m1 = Show(m0, c, kind) /\ \A e \in Cells : e # c => m1[e] = m0[e]
    BY <2>2, ShowIs
  <2>6. r.map = Show(m1, d, kind)
    BY <2>1, <2>4, <2>5
  <2>7. \A e \in Cells : e # d => r.map[e] = m1[e]
    BY <2>6, ShowIs
  <2>8. r.snakes = Lay(k0, p, w)
    BY <2>1, <2>3, <2>4
  <2>9. r.snakes[p] = w /\ \A q \in Players : q # p => r.snakes[q] = b.snakes[q]
    BY <2>4, <2>8, Laid1
  <2>10. ASSUME NEW e \in Border PROVE r.map[e] = "BORDER" \/ OnSnake(r, e)
    <3>1. e \in Cells /\ e # c
      BY InteriorIn DEF Border
    <3>2. CASE e = d
      <4>1. 2 \in 1..Len(r.snakes[p]) /\ r.snakes[p][2] = e
        BY <2>3, <2>9, <3>2
      <4> QED
        BY <4>1 DEF OnSnake
    <3>3. CASE e # d /\ b.map[e] = "BORDER"
      BY <2>4, <2>5, <2>7, <3>1, <3>3
    <3>4. CASE OnSnake(b, e)
      <4>1. PICK q \in Players : \E k \in 1..Len(b.snakes[q]) : b.snakes[q][k] = e
        BY <3>4 DEF OnSnake
      <4>2. q # p
        <5>1. Len(b.snakes[p]) = 0
          OBVIOUS
        <5> QED
          BY <4>1, <5>1
      <4> QED
        BY <2>9, <4>1, <4>2 DEF OnSnake
    <3> QED
      BY <3>2, <3>3, <3>4 DEF Bordered
  <2> QED
    BY <2>10 DEF Bordered
<1> QED
  BY <1>1, <1>2

\* as Sound, before there is food
Placed(b) ==
    /\ Counted(b) /\ \A q \in Players : Together(b.snakes[q])
    /\ \A e \in Cells : b.map[e] # "FOOD"

LEMMA SnakePlaced ==
    ASSUME NEW b \in Boards, b.seed \in Seeds, NEW p \in Players, b.snakes[p] = <<>>,
           Placed(b), NEW r, r = RandomMakeSnake(b, p), r.state = "ok"
    PROVE  Placed(r)
<1>1. PICK o0 \in Counts, m0 \in Shown, k0 \in Nodes, kind \in Kinds :
         o0 = b.over /\ m0 = b.map /\ k0 = b.snakes /\ kind = "SNAKE"
  BY BoardIs DEF Kinds
<1>2. r \in Boards /\ r.state # "hung"
  BY SnakeIs
<1>3. b.state = "ok"
  BY SnakeKept
<1>4. PICK c \in Cells, o \in Dirs, d \in Cells :
         /\ d = Neighbour(c, o) /\ b.map[c] # "SNAKE" /\ b.map[d] # "SNAKE"
         /\ r.map = Show(Show(b.map, c, "SNAKE"), d, "SNAKE")
         /\ r.over = Add(Add(b.over, c, 1), d, 1)
         /\ r.snakes = Lay(b.snakes, p, b.snakes[p] \o <<c, d>>)
  <2>1. PICK c \in Interior, o \in Dirs, d \in Cells : Grows(b, p, r, c, o, d)
    BY <1>2, <1>3, SnakeIs
  <2> QED
    BY <2>1, InteriorIn DEF Grows
<1>5. c # d
  BY <1>4, NeighbourIs
<1>6. PICK w \in Seq(Cells) : w = b.snakes[p] \o <<c, d>> /\ w = <<c, d>>
  <2>1. b.snakes[p] \in Seq(Cells)
    BY BoardIs DEF Nodes
  <2>2. /\ b.snakes[p] \o <<c, d>> \in Seq(Cells)
        /\ b.snakes[p] \o <<c, d>> = <<c, d>>
    BY <1>4, <2>1, Longer
  <2> QED
    BY <2>2
<1>7. r.snakes[p] = <<c, d>> /\ \A q \in Players : q # p => r.snakes[q] = b.snakes[q]
  <2>1. r.snakes = Lay(k0, p, w)
    BY <1>1, <1>4, <1>6
  <2>2. r.snakes[p] = w /\ \A q \in Players : q # p => r.snakes[q] = k0[q]
    BY <2>1, Laid1
  <2> QED
    BY <1>1, <1>6, <2>2
<1>8. PICK m1 \in Shown : m1 = Show(m0, c, kind) /\ m1[c] = kind
                          /\ \A e \in Cells : e # c => m1[e] = m0[e]
  BY ShowIs
<1>9. r.map[d] = kind /\ \A e \in Cells : e # d => r.map[e] = m1[e]
  <2>1. r.map = Show(m1, d, kind)
    BY <1>1, <1>4, <1>8
  <2> QED
    BY <2>1, ShowIs
<1>10. PICK o1 : o1 = Add(o0, c, 1)
  OBVIOUS
<1>11. o1 \in Counts /\ o1[c] = o0[c] + 1 /\ \A e \in Cells : e # c => o1[e] = o0[e]
  BY <1>10, OneMore
<1>12. PICK o2 : o2 = r.over /\ o2 = Add(o1, d, 1)
  BY <1>1, <1>4, <1>10
<1>13. o2 \in Counts /\ o2[d] = o1[d] + 1 /\ \A e \in Cells : e # d => o2[e] = o1[e]
  BY <1>11, <1>12, OneMore
<1>14. Together(<<c, d>>)
  BY <1>4, Opposite DEF Together
<1>15. ASSUME NEW e \in Cells
       PROVE  /\ o2[e] = Cardinality(NodesOn(r, e))
              /\ r.map[e] = "SNAKE" <=> o2[e] > 0
  <2>1. PICK n \in Nat : n = IF e = c \/ e = d THEN 1 ELSE 0
    OBVIOUS
  <2>2. Cardinality(Places(r.snakes[p], {e})) = n
    <3>0. c \in Cells /\ d \in Cells /\ <<d>> \in Seq(Cells)
      BY <1>4
    <3>8. <<>> \in Seq(Cells)
      BY EmptySeq
    <3>20. PICK s0 \in Seq(Cells), s1 \in Seq(Cells) : s0 = <<>> /\ s1 = <<d>>
      BY <3>0, <3>8
    <3>21. PICK s2 : s2 = <<c, d>>
      OBVIOUS
    <3>1. s0 \in Seq(Cells) /\ s1 \in Seq(Cells) /\ s0 = <<>> /\ s1 = <<d>> /\ s2 = <<c, d>>
      BY <3>20, <3>21
    <3>2. s2 = <<c>> \o s1 /\ s1 = <<d>> \o s0
      BY <3>1
    <3>9. s0 \in Seq(Cells) /\ s1 \in Seq(Cells)
      BY <3>1
    <3>3. Cardinality(Places(<<c>> \o s1, {e})) =
              Cardinality(Places(s1, {e})) + (IF c \in {e} THEN 1 ELSE 0)
      BY <3>0, <3>9, CountCons
    <3>4. Cardinality(Places(<<d>> \o s0, {e})) =
              Cardinality(Places(s0, {e})) + (IF d \in {e} THEN 1 ELSE 0)
      BY <3>0, <3>9, CountCons
    <3>5. Cardinality(Places(s0, {e})) = 0
      BY <3>1, CountEmpty
    <3>6. Cardinality(Places(s1, {e})) = IF d = e THEN 1 ELSE 0
      BY <3>2, <3>4, <3>5
    <3>7. Cardinality(Places(s2, {e})) = (IF d = e THEN 1 ELSE 0) + (IF c = e THEN 1 ELSE 0)
      BY <3>2, <3>3, <3>6
    <3> QED
      BY <1>5, <1>7, <2>1, <3>1, <3>7
  <2>3. Cardinality(Places(b.snakes[p], {e})) = 0
    BY CountEmpty
  <2>4. Short(b.snakes[p]) /\ Short(r.snakes[p])
    BY <1>7, GamePlayAssumption DEF Short
  <2>5. Cardinality(OthersOn(r, p, e)) = Cardinality(OthersOn(b, p, e))
    BY <1>7, OthersStay
  <2>6. /\ Cardinality(NodesOn(r, e)) =
              Cardinality(OthersOn(r, p, e)) + Cardinality(Places(r.snakes[p], {e}))
        /\ Cardinality(NodesOn(b, e)) =
              Cardinality(OthersOn(b, p, e)) + Cardinality(Places(b.snakes[p], {e}))
        /\ Cardinality(OthersOn(b, p, e)) \in Nat
    BY <1>2, <2>4, NodesSplit
  <2>7. o0[e] = Cardinality(NodesOn(b, e)) /\ (m0[e] = "SNAKE" <=> o0[e] > 0)
    BY <1>1 DEF Placed, Counted
  <2>8. o0[e] \in Nat /\ Cardinality(NodesOn(r, e)) = o0[e] + n
    BY <2>2, <2>3, <2>5, <2>6, <2>7
  <2>9. o2[e] = o0[e] + n
    <3>1. CASE e = c
      BY <1>5, <1>11, <1>13, <2>1, <3>1
    <3>2. CASE e = d
      BY <1>5, <1>11, <1>13, <2>1, <3>2
    <3>3. CASE e # c /\ e # d
      BY <1>11, <1>13, <2>1, <2>8, <3>3
    <3> QED
      BY <3>1, <3>2, <3>3
  <2>10. r.map[e] = IF e = c \/ e = d THEN "SNAKE" ELSE m0[e]
    BY <1>1, <1>8, <1>9
  <2> QED
    BY <2>1, <2>7, <2>8, <2>9, <2>10
<1>16. Counted(r)
  BY <1>12, <1>15 DEF Counted
<1>17. \A e \in Cells : r.map[e] # "FOOD"
  BY <1>1, <1>8, <1>9 DEF Placed
<1> QED
  BY <1>7, <1>14, <1>16, <1>17 DEF Placed

LEMMA FoodSound ==
    ASSUME NEW b \in Boards, b.seed \in Seeds, Placed(b), NEW r, r = RandomMakeFood(b),
           r.state = "ok"
    PROVE  Sound(r)
<1>1. /\ r \in Boards /\ r.over = b.over /\ r.snakes = b.snakes
      /\ \E f \in Interior : b.map[f] # "SNAKE" /\ r.map = Show(b.map, f, "FOOD")
  BY FoodIs
<1>2. PICK f \in Cells : b.map[f] # "SNAKE" /\ r.map = Show(b.map, f, "FOOD")
  BY <1>1, InteriorIn
<1>3. PICK m0 \in Shown, kind \in Kinds : m0 = b.map /\ kind = "FOOD"
  BY BoardIs DEF Kinds
<1>4. r.map[f] = "FOOD" /\ \A e \in Cells : e # f => r.map[e] = b.map[e]
  <2>1. r.map = Show(m0, f, kind)
    BY <1>2, <1>3
  <2>2. r.map[f] = kind /\ \A e \in Cells : e # f => r.map[e] = m0[e]
    BY <2>1, ShowIs
  <2> QED
    BY <1>3, <2>2
<1>5. OneFood(r.map)
  <2>1. \A e \in Cells : r.map[e] = "FOOD" <=> e = f
    BY <1>4 DEF Placed
  <2> QED
    BY <2>1 DEF OneFood
<1>6. Counted(r)
  <2>1. \A e \in Cells : NodesOn(r, e) = NodesOn(b, e)
    BY <1>1 DEF NodesOn
  <2>2. \A e \in Cells : r.map[e] = "SNAKE" <=> b.map[e] = "SNAKE"
    BY <1>2, <1>4
  <2> QED
    BY <1>1, <2>1, <2>2 DEF Placed, Counted
<1>7. \A q \in Players : Together(r.snakes[q])
  BY <1>1 DEF Placed
<1> QED
  BY <1>5, <1>6, <1>7 DEF Sound

LEMMA FoodBordered ==
    ASSUME NEW b \in Boards, b.seed \in Seeds, Bordered(b), NEW r, r = RandomMakeFood(b)
    PROVE  Bordered(r)
<1>1. r.snakes = b.snakes
  BY FoodIs
<1>2. CASE r.map = b.map
  BY <1>1, <1>2 DEF Bordered, OnSnake
<1>3. ASSUME NEW f \in Interior, r.map = Show(b.map, f, "FOOD") PROVE Bordered(r)
  <2>1. PICK m0 \in Shown, kind \in Kinds : m0 = b.map /\ kind = "FOOD"
    BY BoardIs DEF Kinds
  <2>2. f \in Cells /\ r.map = Show(m0, f, kind)
    BY <1>3, <2>1, InteriorIn
  <2>3. \A e \in Cells : e # f => r.map[e] = m0[e]
    BY <2>2, ShowIs
  <2>4. \A e \in Border : r.map[e] = b.map[e]
    BY <2>1, <2>3 DEF Border
  <2> QED
    BY <1>1, <2>4 DEF Bordered, OnSnake
<1> QED
  BY <1>2, <1>3, FoodIs

LEMMA NoGameIs ==
    /\ NoGame \in Boards /\ NoGame.state = "ok" /\ \A q \in Players : NoGame.snakes[q] = <<>>
<1>1. PICK m, o, k : /\ m = [c \in Cells |-> "BLANK"] /\ o = [c \in Cells |-> 0]
                     /\ k = [p \in Players |-> <<>>]
  OBVIOUS
<1>2. m \in Shown /\ o \in Counts
  BY <1>1 DEF Shown, Counts, Kinds
<1>3. k \in Nodes
  <2>1. <<>> \in Seq(Cells)
    BY EmptySeq
  <2> QED
    BY <1>1, <2>1 DEF Nodes
<1>4. NoGame = Brd(m, o, k, 0, 0, "ok")
  BY <1>1 DEF NoGame, Brd
<1>5. 0 \in Given0 /\ "ok" \in States /\ 0 \in Nat
  BY DEF Given0, States
<1>6. NoGame \in Boards /\ NoGame.state = "ok" /\ NoGame.snakes = k
  BY <1>2, <1>3, <1>4, <1>5, BrdIs
<1> QED
  BY <1>1, <1>6

LEMMA GameKept ==
    ASSUME NEW b \in Boards, NEW seed \in Seeds, NEW r, r = NewGame(b, seed)
    PROVE  /\ r \in Boards /\ r.seed = seed
           /\ r.state = "ok" => \A j \in 1..Len(Slots) : Len(r.snakes[Slots[j]]) >= 2
<1>1. PICK g : /\ g[0] = Clear(b, seed)
               /\ \A i \in 1..Len(Slots) : g[i] = RandomMakeSnake(g[i - 1], Slots[i])
               /\ NewGame(b, seed) = IF g[Len(Slots)].state # "ok" THEN g[Len(Slots)]
                                     ELSE RandomMakeFood(g[Len(Slots)])
  BY PlacedIs
<1>2. PICK n \in Nat : n = Len(Slots)
  BY SlotsAre
<1> DEFINE T == {i \in 0..n :
                    /\ g[i] \in Boards /\ g[i].seed = seed
                    /\ g[i].state = "ok" => \A j \in 1..i : Len(g[i].snakes[Slots[j]]) >= 2}
<1>3. 0 \in T
  BY <1>1, ClearIs
<1>4. ASSUME NEW i \in 0..(n - 1), i \in T PROVE i + 1 \in T
  <2>1. i + 1 \in 1..n /\ (i + 1) - 1 = i /\ i + 1 \in 0..n
    BY <1>2
  <2>20. PICK x \in Boards, p \in Players : x = g[i] /\ p = Slots[i + 1]
    BY <1>1, <1>2, <1>4, <2>1, SlotsAre
  <2>21. PICK y : y = g[i + 1]
    OBVIOUS
  <2>2. /\ x \in Boards /\ p \in Players
        /\ x = g[i] /\ p = Slots[i + 1] /\ y = g[i + 1] /\ y = RandomMakeSnake(x, p)
    BY <1>1, <1>2, <1>4, <2>1, <2>20, <2>21
  <2>3. x.seed = seed /\ x.seed \in Seeds
    BY <1>4, <2>2
  <2>4. /\ y \in Boards /\ y.seed = seed
        /\ y.state = "ok" => x.state = "ok" /\ Len(y.snakes[p]) = Len(x.snakes[p]) + 2
        /\ \A q \in Players : q # p => y.snakes[q] = x.snakes[q]
    <3>1. PICK s : s = x.snakes[p]
      OBVIOUS
    <3>3. x \in Boards /\ p \in Players /\ y = RandomMakeSnake(x, p)
      BY <2>2
    <3>2. /\ y \in Boards /\ y.seed = x.seed /\ (y.state = x.state \/ y.state = "hung")
          /\ y.state = "ok" => x.state = "ok" /\ Len(y.snakes[p]) = Len(s) + 2
          /\ y.snakes[p] = s \/ Len(y.snakes[p]) = Len(s) + 2
          /\ \A q \in Players : q # p => y.snakes[q] = x.snakes[q]
      BY <2>3, <3>1, <3>3, SnakeKept
    <3> QED
      BY <2>3, <3>1, <3>2
  <2>5. ASSUME y.state = "ok", NEW j \in 1..(i + 1)
        PROVE  Len(y.snakes[Slots[j]]) >= 2
    <3>1. CASE j = i + 1
      <4>1. Len(x.snakes[p]) \in Nat
        BY BoardIs DEF Nodes
      <4>2. Slots[j] = p
        BY <2>2, <3>1
      <4> QED
        BY <2>4, <2>5, <4>1, <4>2
    <3>2. CASE j # i + 1
      <4>1. j \in 1..i /\ j \in 1..n
        BY <1>2, <2>1, <3>2
      <4>2. Slots[j] \in Players /\ Slots[j] # p
        BY <1>2, <2>1, <2>2, <3>2, <4>1, SlotsAre
      <4>3. Len(x.snakes[Slots[j]]) >= 2
        BY <1>4, <2>2, <2>4, <2>5, <4>1
      <4> QED
        BY <2>4, <4>2, <4>3
    <3> QED
      BY <3>1, <3>2
  <2> QED
    BY <2>1, <2>2, <2>4, <2>5
<1> HIDE DEF T
<1>5. 0..n \subseteq T
  BY <1>3, <1>4, InductionTo
<1>6. PICK x \in Boards : x = g[n] /\ x.seed = seed /\ x.seed \in Seeds
                 /\ (x.state = "ok" => \A j \in 1..n : Len(x.snakes[Slots[j]]) >= 2)
  BY <1>2, <1>5 DEF T
<1>7. CASE x.state # "ok"
  <2>1. r = x
    BY <1>1, <1>2, <1>6, <1>7
  <2> QED
    BY <1>6, <1>7, <2>1
<1>8. CASE x.state = "ok"
  <2>1. r = RandomMakeFood(x)
    BY <1>1, <1>2, <1>6, <1>8
  <2>2. r \in Boards /\ r.seed = x.seed /\ r.snakes = x.snakes
    BY <1>6, <2>1, FoodIs
  <2> QED
    BY <1>2, <1>6, <1>8, <2>2
<1> QED
  BY <1>7, <1>8

\* the board of a first game while the snakes are made
Making(b, seed) ==
    /\ b \in Boards /\ b.seed = seed /\ (b.state = "ok" \/ b.state = "hung")
    /\ \A q \in Players : b.snakes[q] = <<>> \/ Len(b.snakes[q]) = 2
    /\ Bordered(b)
    /\ b.state = "ok" => Placed(b)

LEMMA MakingBegins ==
    ASSUME NEW seed \in Seeds, NEW r, r = Clear(NoGame, seed)
    PROVE  Making(r, seed) /\ \A q \in Players : r.snakes[q] = <<>>
<1>1. /\ r \in Boards /\ r.seed = seed /\ r.snakes = NoGame.snakes /\ r.state = NoGame.state
      /\ \A e \in Cells : /\ r.map[e] = IF e \in Border THEN "BORDER" ELSE "BLANK"
                          /\ r.over[e] = 0
  BY NoGameIs, ClearIs
<1>2. r.state = "ok" /\ \A q \in Players : r.snakes[q] = <<>>
  BY <1>1, NoGameIs
<1>3. ASSUME NEW e \in Cells
      PROVE  r.over[e] = Cardinality(NodesOn(r, e)) /\ (r.map[e] = "SNAKE" <=> r.over[e] > 0)
  <2>1. NodesOn(r, e) = {}
    <3>1. ASSUME NEW n \in Players \X (1..(MaxFrames + 2)), n[2] <= Len(r.snakes[n[1]])
          PROVE  FALSE
      <4>1. n[1] \in Players /\ n[2] \in 1..(MaxFrames + 2)
        OBVIOUS
      <4>2. Len(r.snakes[n[1]]) = 0
        BY <1>2, <4>1
      <4> QED
        BY <3>1, <4>1, <4>2, GamePlayAssumption
    <3> QED
      BY <3>1 DEF NodesOn
  <2>2. Cardinality(NodesOn(r, e)) = 0
    BY <2>1, FS_EmptySet
  <2> QED
    BY <1>1, <2>2
<1>4. \A q \in Players : Together(r.snakes[q])
  <2>1. Together(<<>>)
    BY DEF Together
  <2> QED
    BY <1>2, <2>1
<1>5. \A e \in Cells : r.map[e] # "FOOD"
  BY <1>1
<1>6. Placed(r)
  BY <1>3, <1>4, <1>5 DEF Placed, Counted
<1>7. Bordered(r)
  BY <1>1, InteriorIn DEF Bordered
<1> QED
  BY <1>1, <1>2, <1>6, <1>7 DEF Making

LEMMA SnakeMade ==
    ASSUME NEW b \in Boards, b.seed \in Seeds, NEW p \in Players,
           NEW r, r = RandomMakeSnake(b, p)
    PROVE  /\ r \in Boards /\ r.seed = b.seed /\ (r.state = b.state \/ r.state = "hung")
           /\ r.state = "ok" => b.state = "ok"
           /\ b.snakes[p] = <<>> => r.snakes[p] = <<>> \/ Len(r.snakes[p]) = 2
           /\ \A q \in Players : q # p => r.snakes[q] = b.snakes[q]
<1>1. PICK s : s = b.snakes[p]
  OBVIOUS
<1>2. /\ r \in Boards /\ r.seed = b.seed /\ (r.state = b.state \/ r.state = "hung")
      /\ r.state = "ok" => b.state = "ok" /\ Len(r.snakes[p]) = Len(s) + 2
      /\ r.snakes[p] = s \/ Len(r.snakes[p]) = Len(s) + 2
      /\ \A q \in Players : q # p => r.snakes[q] = b.snakes[q]
  BY <1>1, SnakeKept
<1>3. b.snakes[p] = <<>> => r.snakes[p] = <<>> \/ Len(r.snakes[p]) = 2
  <2>1. s = <<>> => Len(s) = 0
    OBVIOUS
  <2> QED
    BY <1>1, <1>2, <2>1
<1>4. r.state = "ok" => b.state = "ok"
  BY <1>2
<1> QED
  BY <1>2, <1>3, <1>4

LEMMA MakingGoesOn ==
    ASSUME NEW seed \in Seeds, NEW x, Making(x, seed), NEW p \in Players, x.snakes[p] = <<>>,
           NEW y, y = RandomMakeSnake(x, p)
    PROVE  Making(y, seed) /\ \A q \in Players : q # p => y.snakes[q] = x.snakes[q]
<1>1. x \in Boards /\ x.seed = seed /\ x.seed \in Seeds
  BY DEF Making
<1>3. /\ y \in Boards /\ y.seed = x.seed /\ (y.state = x.state \/ y.state = "hung")
      /\ y.state = "ok" => x.state = "ok"
      /\ x.snakes[p] = <<>> => y.snakes[p] = <<>> \/ Len(y.snakes[p]) = 2
      /\ \A q \in Players : q # p => y.snakes[q] = x.snakes[q]
  BY <1>1, SnakeMade
<1>5. \A q \in Players : y.snakes[q] = <<>> \/ Len(y.snakes[q]) = 2
  BY <1>3 DEF Making
<1>6. Bordered(y)
  BY <1>1, SnakeBordered DEF Making
<1>7. y.state = "ok" => Placed(y)
  BY <1>1, <1>3, SnakePlaced DEF Making
<1> QED
  BY <1>1, <1>3, <1>5, <1>6, <1>7 DEF Making

LEMMA FirstGameIs ==
    ASSUME NEW seed \in Seeds, NEW r, r = NewGame(NoGame, seed)
    PROVE  /\ \A q \in Players : Len(r.snakes[q]) <= 2
           /\ r.state = "ok" \/ r.state = "hung"
           /\ r.state = "ok" => Sound(r)
           /\ Bordered(r)
<1>1. PICK g : /\ g[0] = Clear(NoGame, seed)
               /\ \A i \in 1..Len(Slots) : g[i] = RandomMakeSnake(g[i - 1], Slots[i])
               /\ NewGame(NoGame, seed) = IF g[Len(Slots)].state # "ok" THEN g[Len(Slots)]
                                          ELSE RandomMakeFood(g[Len(Slots)])
  BY PlacedIs
<1>2. PICK n \in Nat : n = Len(Slots)
  BY SlotsAre
<1> DEFINE T == {i \in 0..n : /\ Making(g[i], seed)
                              /\ \A j \in 1..n : j > i => g[i].snakes[Slots[j]] = <<>>}
<1>3. 0 \in T
  <2>1. Making(g[0], seed) /\ \A q \in Players : g[0].snakes[q] = <<>>
    BY <1>1, MakingBegins
  <2> QED
    BY <1>2, <2>1, SlotsAre
<1>4. ASSUME NEW i \in 0..(n - 1), i \in T PROVE i + 1 \in T
  <2>1. i + 1 \in 1..n /\ (i + 1) - 1 = i /\ i + 1 \in 0..n /\ i + 1 > i
    BY <1>2
  <2>6. Slots[i + 1] \in Players /\ g[i + 1] = RandomMakeSnake(g[i], Slots[i + 1])
    BY <1>1, <1>2, <2>1, SlotsAre
  <2>7. PICK x, y : x = g[i] /\ y = g[i + 1]
    OBVIOUS
  <2>8. PICK p \in Players : p = Slots[i + 1]
    BY <2>6
  <2>2. x = g[i] /\ p = Slots[i + 1] /\ y = g[i + 1] /\ y = RandomMakeSnake(x, p)
    BY <2>6, <2>7, <2>8
  <2>3. Making(x, seed) /\ x.snakes[p] = <<>>
    BY <1>4, <2>1, <2>2
  <2>4. Making(y, seed) /\ \A q \in Players : q # p => y.snakes[q] = x.snakes[q]
    BY <2>2, <2>3, MakingGoesOn
  <2>5. ASSUME NEW j \in 1..n, j > i + 1 PROVE y.snakes[Slots[j]] = <<>>
    <3>1. j > i /\ j # i + 1
      BY <2>1, <2>5
    <3>2. Slots[j] \in Players /\ Slots[j] # p
      BY <1>2, <2>1, <2>2, <3>1, SlotsAre
    <3>3. x.snakes[Slots[j]] = <<>>
      BY <1>4, <2>2, <3>1
    <3> QED
      BY <2>4, <3>2, <3>3
  <2> QED
    BY <2>1, <2>2, <2>4, <2>5
<1> HIDE DEF T
<1>5. 0..n \subseteq T
  BY <1>3, <1>4, InductionTo
<1>6. PICK x : x = g[n] /\ Making(x, seed)
  BY <1>2, <1>5 DEF T
<1>7. x \in Boards /\ x.seed \in Seeds /\ \A q \in Players : Len(x.snakes[q]) <= 2
  <2>1. Len(<<>>) = 0
    OBVIOUS
  <2>2. /\ \A q \in Players : x.snakes[q] = <<>> \/ Len(x.snakes[q]) = 2
        /\ x \in Boards /\ x.seed = seed
    BY <1>6 DEF Making
  <2>3. ASSUME NEW q \in Players PROVE Len(x.snakes[q]) <= 2
    <3>1. CASE x.snakes[q] = <<>>
      BY <3>1
    <3>2. CASE Len(x.snakes[q]) = 2
      BY <3>2
    <3> QED
      BY <2>2, <3>1, <3>2
  <2> QED
    BY <2>2, <2>3
<1>8. CASE x.state # "ok"
  <2>1. r = x
    BY <1>1, <1>2, <1>6, <1>8
  <2> QED
    BY <1>6, <1>7, <1>8, <2>1 DEF Making
<1>9. CASE x.state = "ok"
  <2>1. r = RandomMakeFood(x)
    BY <1>1, <1>2, <1>6, <1>9
  <2>2. r.snakes = x.snakes /\ (r.state = "hung" \/ r.state = x.state)
    BY <1>7, <2>1, FoodIs
  <2>3. r.state = "ok" => Sound(r)
    BY <1>6, <1>7, <1>9, <2>1, FoodSound DEF Making
  <2>4. Bordered(r)
    BY <1>6, <1>7, <2>1, FoodBordered DEF Making
  <2> QED
    BY <1>7, <1>9, <2>2, <2>3, <2>4
<1> QED
  BY <1>8, <1>9

\* when no snake is put on the border, the border is whole
LEMMA FirstGameInside ==
    ASSUME NEW seed \in SeedsInside, NEW r, r = NewGame(NoGame, seed)
    PROVE  Inside(r)
<1>1. seed \in Seeds /\ \A p \in Players : ToSet(r.snakes[p]) \subseteq Interior
  BY DEF SeedsInside
<1>2. /\ r \in Boards /\ (r.state = "ok" \/ r.state = "hung") /\ Bordered(r)
  BY <1>1, FirstGameIs, GameKept, NoGameIs
<1>3. ASSUME NEW p \in Players, NEW k \in 1..Len(r.snakes[p])
      PROVE  r.snakes[p][k] \in Interior
  <2>1. r.snakes[p] \in Seq(Cells)
    BY <1>2, BoardIs DEF Nodes
  <2>2. r.snakes[p][k] \in ToSet(r.snakes[p])
    BY <2>1 DEF ToSet
  <2> QED
    BY <1>1, <2>2
<1>4. \A p \in Players : r.snakes[p] \in Seq(Interior)
  <2>1. ASSUME NEW p \in Players PROVE r.snakes[p] \in Seq(Interior)
    <3>1. r.snakes[p] \in Seq(Cells)
      BY <1>2, BoardIs DEF Nodes
    <3> QED
      BY <1>3, <3>1
  <2> QED
    BY <2>1
<1>5. \A e \in Border : ~OnSnake(r, e)
  BY <1>3 DEF OnSnake, Border
<1> QED
  BY <1>2, <1>4, <1>5 DEF Inside, Bordered

-----------------------------------------------------------------------------
(* The boards of the clients.                                                *)

\* what holds of a client's board, in any game and in the first
HeldBoard(r) ==
    /\ r.board \in Boards
    /\ r.invited => r.seed \in Seeds
    /\ r.games = 0 => r.board = NoGame
    /\ r.games > 0 => r.board.seed \in Seeds
    /\ r.games > 0 /\ r.board.state = "ok" =>
          \A j \in 1..Len(Slots) : Len(r.board.snakes[Slots[j]]) >= 2
    /\ r.games = 1 => \A q \in Players : Len(r.board.snakes[q]) <= Len(r.seen) + 2
    /\ r.games = 1 /\ r.board.state = "ok" => Sound(r.board)
    /\ r.games = 1 /\ r.board.seed \in SeedsInside => Inside(r.board)

\* the frames under way to a client, and those of its first game
HeldWay(r, n) ==
    /\ r.que \in Seq(Frames) /\ n \in Seq(Frames)
    /\ Len(n) + Len(r.que) <= MaxPending
    /\ r.games <= 1 => Len(r.seen) + Len(r.que) + Len(n) <= Len(log)

BoardInv ==
    /\ Len(log) <= MaxFrames
    /\ \A c \in Clients : HeldBoard(client[c]) /\ HeldWay(client[c], net[c])

LEMMA BoardInit == Init => BoardInv
<1> SUFFICES ASSUME Init PROVE BoardInv
  OBVIOUS
<1>1. Len(log) = 0
  BY DEF Init
<1>2. ASSUME NEW c \in Clients PROVE HeldBoard(client[c]) /\ HeldWay(client[c], net[c])
  <2>1. client[c] = NoClient /\ net[c] = <<>>
    BY DEF Init
  <2>2. /\ NoClient.invited = FALSE /\ NoClient.games = 0 /\ NoClient.board = NoGame
        /\ NoClient.que = <<>> /\ NoClient.seen = <<>>
    BY DEF NoClient
  <2>3. HeldBoard(NoClient)
    BY <2>2, NoGameIs DEF HeldBoard
  <2>4. <<>> \in Seq(Frames) /\ Len(<<>>) = 0
    BY EmptySeq
  <2>5. HeldWay(NoClient, <<>>)
    BY <1>1, <2>2, <2>4, GamePlayAssumption DEF HeldWay
  <2> QED
    BY <2>1, <2>3, <2>5
<1> QED
  BY <1>1, <1>2, GamePlayAssumption DEF BoardInv

\* a step of one client
LEMMA BoardMoves ==
    ASSUME PlayInv, BoardInv, NEW c \in Clients, NEW now, NEW n,
           Becomes(c, now), net' = [net EXCEPT ![c] = n], HeldBoard(now), HeldWay(now, n)
    PROVE  BoardInv'
<1>1. client' = [client EXCEPT ![c] = now] /\ log' = log
  BY DEF Becomes
<1>2. /\ DOMAIN client = Clients /\ net \in [Clients -> Seq(Nat)]
      /\ client = [d \in Clients |-> client[d]]
  BY DEF PlayInv, Shape
<1>3. \A d \in Clients : /\ client'[d] = IF d = c THEN now ELSE client[d]
                         /\ net'[d] = IF d = c THEN n ELSE net[d]
  BY <1>1, <1>2
<1>4. ASSUME NEW d \in Clients PROVE HeldBoard(client'[d]) /\ HeldWay(client'[d], net'[d])
  BY <1>3 DEF BoardInv
<1>5. ASSUME NEW d \in Clients PROVE HeldWay(client[d], net[d])'
  BY <1>1, <1>4 DEF HeldWay, Frames
<1>6. ASSUME NEW d \in Clients PROVE HeldBoard(client[d])'
  BY <1>4 DEF HeldBoard, Sound, Counted, OneFood, NodesOn, Inside
<1>7. (Len(log) <= MaxFrames)'
  BY <1>1 DEF BoardInv
<1> QED
  BY <1>5, <1>6, <1>7 DEF BoardInv

\* a step that leaves the board, the seed and the frames played alone
LEMMA BoardStays ==
    ASSUME NEW r, NEW now, HeldBoard(r), now.board = r.board, now.games = r.games,
           now.seen = r.seen, now.invited = r.invited, now.seed = r.seed
    PROVE  HeldBoard(now)
BY DEF HeldBoard

LEMMA StopBoard ==
    ASSUME PlayInv, BoardInv, NEW c \in Clients, Stop(c)
    PROVE  BoardInv'
<1> DEFINE me == client[c]
           now == [me EXCEPT !.on = FALSE,
                             !.hasty = @ \/ me.binding \/ me.recv # "receiving"]
<1>1. PICK B : me \in Records(B)
  BY DEF PlayInv, Shape, IsClient
<1>2. /\ now.board = me.board /\ now.games = me.games /\ now.seen = me.seen
      /\ now.invited = me.invited /\ now.seed = me.seed /\ now.que = me.que
  BY <1>1 DEF Records
<1>3. HeldBoard(me) /\ HeldWay(me, net[c]) /\ net \in [Clients -> Seq(Nat)]
  BY DEF PlayInv, Shape, BoardInv
<1>4. Becomes(c, now) /\ net' = [net EXCEPT ![c] = net[c]]
  BY <1>3 DEF Stop
<1> HIDE DEF now, me
<1>5. HeldBoard(now)
  BY <1>2, <1>3, BoardStays
<1>6. HeldWay(now, net[c])
  BY <1>2, <1>3 DEF HeldWay
<1> QED
  BY <1>4, <1>5, <1>6, BoardMoves

LEMMA BindBoard ==
    ASSUME PlayInv, BoardInv, NEW c \in Clients, Bind(c)
    PROVE  BoardInv'
<1> DEFINE me == client[c]
           now == IF me.recv = "none" THEN [me EXCEPT !.binding = FALSE, !.recv = "bound"]
                  ELSE [me EXCEPT !.binding = FALSE, !.recv = "none", !.exited = TRUE]
<1>1. PICK B : me \in Records(B)
  BY DEF PlayInv, Shape, IsClient
<1>2. /\ now.board = me.board /\ now.games = me.games /\ now.seen = me.seen
      /\ now.invited = me.invited /\ now.seed = me.seed /\ now.que = me.que
  BY <1>1 DEF Records
<1>3. HeldBoard(me) /\ HeldWay(me, net[c]) /\ net \in [Clients -> Seq(Nat)]
  BY DEF PlayInv, Shape, BoardInv
<1>4. Becomes(c, now) /\ net' = [net EXCEPT ![c] = net[c]]
  BY <1>3 DEF Bind
<1> HIDE DEF now, me
<1>5. HeldBoard(now)
  BY <1>2, <1>3, BoardStays
<1>6. HeldWay(now, net[c])
  BY <1>2, <1>3 DEF HeldWay
<1> QED
  BY <1>4, <1>5, <1>6, BoardMoves

LEMMA TestExitBoard ==
    ASSUME PlayInv, BoardInv, NEW c \in Clients, TestExit(c)
    PROVE  BoardInv'
<1> DEFINE me == client[c]
           now == [me EXCEPT !.recv = IF me.on THEN "receiving" ELSE "none"]
           n == IF me.on THEN net[c] ELSE <<>>
<1>1. PICK B : me \in Records(B)
  BY DEF PlayInv, Shape, IsClient
<1>2. /\ now.board = me.board /\ now.games = me.games /\ now.seen = me.seen
      /\ now.invited = me.invited /\ now.seed = me.seed /\ now.que = me.que
  BY <1>1 DEF Records
<1>3. HeldBoard(me) /\ HeldWay(me, net[c]) /\ net \in [Clients -> Seq(Nat)]
  BY DEF PlayInv, Shape, BoardInv
<1>4. Becomes(c, now) /\ net' = [net EXCEPT ![c] = n]
  BY <1>3 DEF TestExit
<1> HIDE DEF now, me, n
<1>5. HeldBoard(now)
  BY <1>2, <1>3, BoardStays
<1>7. HeldWay(now, net[c])
  BY <1>2, <1>3 DEF HeldWay
<1>8. HeldWay(now, <<>>)
  <2>1. PICK q \in Nat : q = Len(now.que)
    BY <1>7, LenProperties DEF HeldWay
  <2>2. PICK m \in Nat : m = Len(net[c])
    BY <1>7, LenProperties DEF HeldWay
  <2>3. PICK e \in Nat : e = Len(now.seen)
    BY <1>1, <1>2, LenProperties DEF Records, me
  <2>4. PICK h \in Nat : h = Len(log)
    BY LenProperties DEF PlayInv, Shape
  <2>5. m + q <= MaxPending /\ MaxPending \in Nat /\ (now.games <= 1 => e + q + m <= h)
    BY <1>7, <2>1, <2>2, <2>3, <2>4, GamePlayAssumption DEF HeldWay
  <2>6. q <= MaxPending
    BY <2>5
  <2>7. (now.games <= 1) => e + q <= h
    <3>1. SUFFICES ASSUME e + q + m <= h PROVE e + q <= h
      BY <2>5
    <3> QED
      BY <3>1
  <2>8. <<>> \in Seq(Frames) /\ Len(<<>>) = 0
    BY EmptySeq
  <2>9. 0 + Len(now.que) <= MaxPending
        /\ (now.games <= 1 => Len(now.seen) + Len(now.que) + 0 <= Len(log))
    <3>1. 0 + q = q /\ e + q + 0 = e + q
      OBVIOUS
    <3>2. 0 + Len(now.que) <= MaxPending
      BY <2>1, <2>6, <3>1
    <3>3. ASSUME now.games <= 1 PROVE Len(now.seen) + Len(now.que) + 0 <= Len(log)
      BY <2>1, <2>3, <2>4, <2>7, <3>1, <3>3
    <3> QED
      BY <3>2, <3>3
  <2> QED
    BY <1>7, <2>8, <2>9 DEF HeldWay
<1>6. HeldWay(now, n)
  BY <1>7, <1>8 DEF n
<1> QED
  BY <1>4, <1>5, <1>6, BoardMoves

LEMMA WakeBoard ==
    ASSUME PlayInv, BoardInv, NEW c \in Clients, NEW t \in DOMAIN client[c].refresh, Wake(c, t)
    PROVE  BoardInv'
<1> DEFINE me == client[c]
           now == [me EXCEPT !.refresh = IF me.on THEN [@ EXCEPT ![t] = "waiting"]
                                         ELSE RemoveAt(@, t)]
<1>1. PICK B : me \in Records(B)
  BY DEF PlayInv, Shape, IsClient
<1>2. /\ now.board = me.board /\ now.games = me.games /\ now.seen = me.seen
      /\ now.invited = me.invited /\ now.seed = me.seed /\ now.que = me.que
  BY <1>1 DEF Records
<1>3. HeldBoard(me) /\ HeldWay(me, net[c]) /\ net \in [Clients -> Seq(Nat)]
  BY DEF PlayInv, Shape, BoardInv
<1>4. Becomes(c, now) /\ net' = [net EXCEPT ![c] = net[c]]
  BY <1>3 DEF Wake
<1> HIDE DEF now, me
<1>5. HeldBoard(now)
  BY <1>2, <1>3, BoardStays
<1>6. HeldWay(now, net[c])
  BY <1>2, <1>3 DEF HeldWay
<1> QED
  BY <1>4, <1>5, <1>6, BoardMoves

LEMMA ReceiveBoard ==
    ASSUME PlayInv, BoardInv, NEW c \in Clients, Receive(c)
    PROVE  BoardInv'
<1> DEFINE me == client[c]
           now == [me EXCEPT !.que = Append(@, Head(net[c])), !.recv = "queued"]
           n == Tail(net[c])
<1>1. PICK B : me \in Records(B)
  BY DEF PlayInv, Shape, IsClient
<1>2. /\ now.board = me.board /\ now.games = me.games /\ now.seen = me.seen
      /\ now.invited = me.invited /\ now.seed = me.seed
      /\ now.que = Append(me.que, Head(net[c]))
  BY <1>1 DEF Records
<1>3. HeldBoard(me) /\ HeldWay(me, net[c]) /\ net \in [Clients -> Seq(Nat)]
  BY DEF PlayInv, Shape, BoardInv
<1>4. Becomes(c, now) /\ net' = [net EXCEPT ![c] = n] /\ net[c] # <<>>
  BY <1>3 DEF Receive
<1>5. me.que \in Seq(Frames) /\ net[c] \in Seq(Frames) /\ Len(me.seen) \in Nat
      /\ Len(me.que) \in Nat /\ Len(net[c]) \in Nat
  BY <1>1, <1>3 DEF HeldWay, Records
<1>6. /\ Append(me.que, Head(net[c])) \in Seq(Frames)
      /\ Len(Append(me.que, Head(net[c]))) = Len(me.que) + 1
      /\ n \in Seq(Frames) /\ Len(n) \in Nat /\ Len(n) <= Len(net[c]) - 1
  <2>1. /\ Head(net[c]) \in Frames /\ Tail(net[c]) \in Seq(Frames)
        /\ Len(Tail(net[c])) = Len(net[c]) - 1 /\ Len(net[c]) - 1 \in Nat
    BY <1>4, <1>5, HeadTailProperties, EmptySeq
  <2>3. n \in Seq(Frames) /\ Len(n) \in Nat /\ Len(n) <= Len(net[c]) - 1
    BY <2>1
  <2>4. /\ Append(me.que, Head(net[c])) \in Seq(Frames)
        /\ Len(Append(me.que, Head(net[c]))) = Len(me.que) + 1
    BY <1>5, <2>1, AppendProperties
  <2> QED
    BY <2>3, <2>4
<1> HIDE DEF now, me, n
<1>7. HeldBoard(now)
  BY <1>2, <1>3, BoardStays
<1>8. Len(now.que) = Len(me.que) + 1 /\ now.que \in Seq(Frames)
  BY <1>2, <1>6
<1>9. /\ Len(net[c]) + Len(me.que) <= MaxPending
      /\ me.games <= 1 => Len(me.seen) + Len(me.que) + Len(net[c]) <= Len(log)
      /\ MaxPending \in Nat /\ Len(log) \in Nat
  <2>1. Len(log) \in Nat
    BY LenProperties DEF PlayInv, Shape
  <2> QED
    BY <1>3, <2>1, GamePlayAssumption DEF HeldWay
<1>20. PICK a \in Nat : a = Len(me.que)
  BY <1>5
<1>21. PICK d \in Nat : d = Len(net[c])
  BY <1>5
<1>22. PICK e \in Nat : e = Len(me.seen)
  BY <1>5
<1>23. PICK g \in Nat : g = Len(n)
  BY <1>6
<1>24. PICK h \in Nat : h = Len(log)
  BY <1>9
<1>25. Len(now.que) = a + 1 /\ Len(now.seen) = e /\ g <= d - 1 /\ now.games = me.games
       /\ d + a <= MaxPending /\ (me.games <= 1 => e + a + d <= h)
  BY <1>2, <1>6, <1>8, <1>9, <1>20, <1>21, <1>22, <1>23, <1>24
<1>26. g <= d - 1 /\ d + a <= MaxPending /\ MaxPending \in Nat
  BY <1>9, <1>25
<1>27. g + (a + 1) <= MaxPending
  BY <1>26
<1>28. (me.games <= 1) => e + (a + 1) + g <= h
  <2>1. SUFFICES ASSUME e + a + d <= h PROVE e + (a + 1) + g <= h
    BY <1>25
  <2> QED
    BY <1>26, <2>1
<1>10. Len(n) + Len(now.que) <= MaxPending
  BY <1>23, <1>25, <1>27
<1>11. now.games <= 1 => Len(now.seen) + Len(now.que) + Len(n) <= Len(log)
  BY <1>23, <1>24, <1>25, <1>28
<1>12. HeldWay(now, n)
  BY <1>6, <1>8, <1>10, <1>11 DEF HeldWay
<1> QED
  BY <1>4, <1>7, <1>12, BoardMoves

\* a frame that is played moves a sound board to a sound one
LEMMA RefreshBoard ==
    ASSUME PlayInv, BoardInv, NEW c \in Clients, NEW t \in DOMAIN client[c].refresh,
           Refresh(c, t)
    PROVE  BoardInv'
<1> DEFINE me  == client[c]
           b   == ApplyFrame(me.board, log[Head(me.que)])
           now == [me EXCEPT !.que = Tail(@), !.refresh[t] = "asleep",
                             !.seen = Append(@, Head(me.que)), !.board = b]
<1>1. PICK B : me \in Records(B)
  BY DEF PlayInv, Shape, IsClient
<1>2. /\ now.board = b /\ now.games = me.games /\ now.seen = Append(me.seen, Head(me.que))
      /\ now.invited = me.invited /\ now.seed = me.seed /\ now.que = Tail(me.que)
  BY <1>1 DEF Records
<1>3. HeldBoard(me) /\ HeldWay(me, net[c]) /\ net \in [Clients -> Seq(Nat)]
  BY DEF PlayInv, Shape, BoardInv
<1>4. /\ Becomes(c, now) /\ net' = [net EXCEPT ![c] = net[c]]
      /\ me.que # <<>> /\ me.board.state = "ok"
  BY <1>3 DEF Refresh
<1>5. me.que \in Seq(Frames) /\ net[c] \in Seq(Frames) /\ me.seen \in Seq(Nat)
      /\ Len(me.que) \in Nat /\ Len(net[c]) \in Nat /\ Len(me.seen) \in Nat /\ me.games \in Nat
  BY <1>1, <1>3 DEF HeldWay, Records
<1>6. me.games # 0
  <2>1. t \in DOMAIN me.refresh
    OBVIOUS
  <2>2. me.refresh # <<>>
    BY <2>1
  <2> QED
    BY <2>2 DEF PlayInv, Good, Fresh
<1>7. /\ Tail(me.que) \in Seq(Frames) /\ Len(Tail(me.que)) = Len(me.que) - 1
      /\ Len(me.que) >= 1
      /\ Len(Append(me.seen, Head(me.que))) = Len(me.seen) + 1
  <2>1. /\ Tail(me.que) \in Seq(Frames) /\ Len(Tail(me.que)) = Len(me.que) - 1
        /\ Head(me.que) \in Frames /\ Len(me.que) # 0
    BY <1>4, <1>5, HeadTailProperties, EmptySeq
  <2>2. Head(me.que) \in Nat
    BY <2>1 DEF Frames
  <2> QED
    BY <1>5, <2>1, <2>2, AppendProperties
<1> HIDE DEF now, me
<1>8. /\ Len(net[c]) + Len(me.que) <= MaxPending
      /\ me.games <= 1 => Len(me.seen) + Len(me.que) + Len(net[c]) <= Len(log)
      /\ MaxPending \in Nat /\ MaxFrames \in Nat /\ Len(log) \in Nat /\ Len(log) <= MaxFrames
  <2>1. Len(log) \in Nat
    BY LenProperties DEF PlayInv, Shape
  <2> QED
    BY <1>3, <2>1, GamePlayAssumption DEF HeldWay, BoardInv
<1>20. PICK a \in Nat : a = Len(me.que)
  BY <1>5
<1>21. PICK d \in Nat : d = Len(net[c])
  BY <1>5
<1>22. PICK e \in Nat : e = Len(me.seen)
  BY <1>5
<1>24. PICK h \in Nat : h = Len(log)
  BY <1>8
<1>25. /\ Len(now.que) = a - 1 /\ a >= 1 /\ Len(now.seen) = e + 1 /\ now.games = me.games
       /\ d + a <= MaxPending /\ (me.games <= 1 => e + a + d <= h) /\ h <= MaxFrames
  BY <1>2, <1>7, <1>8, <1>20, <1>21, <1>22, <1>24
<1>26. a >= 1 /\ d + a <= MaxPending /\ h <= MaxFrames /\ MaxPending \in Nat /\ MaxFrames \in Nat
  BY <1>8, <1>25
<1>27. d + (a - 1) <= MaxPending
  BY <1>26
<1>28. (me.games <= 1) => (e + 1) + (a - 1) + d <= h /\ e + 1 <= MaxFrames
  <2>1. SUFFICES ASSUME e + a + d <= h PROVE (e + 1) + (a - 1) + d <= h /\ e + 1 <= MaxFrames
    BY <1>25
  <2> QED
    BY <1>26, <2>1
<1>9. HeldWay(now, net[c])
  <2>1. now.que \in Seq(Frames) /\ net[c] \in Seq(Frames)
    BY <1>2, <1>5, <1>7
  <2>2. Len(net[c]) + Len(now.que) <= MaxPending
    BY <1>21, <1>25, <1>27
  <2>3. now.games <= 1 => Len(now.seen) + Len(now.que) + Len(net[c]) <= Len(log)
    BY <1>21, <1>24, <1>25, <1>28
  <2> QED
    BY <2>1, <2>2, <2>3 DEF HeldWay
<1>10. PICK f : f = log[Head(me.que)]
  OBVIOUS
<1>11. PICK o \in Boards : o = me.board
  BY <1>3 DEF HeldBoard
<1>12. PICK x : x = ApplyFrame(o, f) /\ x = now.board
  BY <1>2, <1>10, <1>11
<1>13. /\ o.seed \in Seeds /\ \A j \in 1..Len(Slots) : Len(o.snakes[Slots[j]]) >= 2
  BY <1>3, <1>4, <1>5, <1>6, <1>11 DEF HeldBoard
<1>14. /\ x \in Boards /\ x.seed = o.seed
       /\ \A j \in 1..Len(Slots) : Len(x.snakes[Slots[j]]) >= 2
       /\ \A q \in Players : Len(x.snakes[q]) <= Len(o.snakes[q]) + 1
  BY <1>12, <1>13, FrameKept
<1>15. ASSUME me.games = 1, NEW q \in Players
       PROVE  /\ Len(x.snakes[q]) <= Len(now.seen) + 2
              /\ Len(o.snakes[q]) + 1 <= MaxFrames + 2
  <2>1. Len(o.snakes[q]) <= Len(me.seen) + 2
    BY <1>3, <1>11, <1>15 DEF HeldBoard
  <2>2. o.snakes[q] \in Seq(Cells) /\ x.snakes[q] \in Seq(Cells)
    BY <1>14, BoardIs DEF Nodes
  <2>3. Len(o.snakes[q]) \in Nat /\ Len(x.snakes[q]) \in Nat
    BY <2>2
  <2>4. Len(x.snakes[q]) <= Len(o.snakes[q]) + 1
    BY <1>14
  <2>5. e + 1 <= MaxFrames /\ Len(now.seen) = e + 1
    BY <1>15, <1>25, <1>28
  <2>6. PICK u \in Nat : u = Len(o.snakes[q])
    BY <2>3
  <2>7. PICK v \in Nat : v = Len(x.snakes[q])
    BY <2>3
  <2>8. u <= e + 2 /\ v <= u + 1
    BY <1>22, <2>1, <2>4, <2>6, <2>7
  <2>9. v <= (e + 1) + 2 /\ u + 1 <= MaxFrames + 2
    BY <1>26, <2>5, <2>8
  <2> QED
    BY <2>5, <2>6, <2>7, <2>9
<1>16. ASSUME me.games = 1, x.state = "ok" PROVE Sound(x)
  <2>1. Sound(o)
    BY <1>3, <1>4, <1>11, <1>16 DEF HeldBoard
  <2>2. \A q \in Players : Len(o.snakes[q]) + 1 <= MaxFrames + 2
    BY <1>15, <1>16
  <2> QED
    BY <1>12, <1>13, <1>16, <2>1, <2>2, FrameSound
<1>17. ASSUME me.games = 1, x.seed \in SeedsInside PROVE Inside(x)
  <2>1. Inside(o)
    BY <1>3, <1>11, <1>14, <1>17 DEF HeldBoard
  <2> QED
    BY <1>12, <1>13, <2>1, FrameInside
<1>18. HeldBoard(now)
  <2>1. now.board \in Boards /\ now.board.seed \in Seeds
    BY <1>12, <1>13, <1>14
  <2>2. now.invited => now.seed \in Seeds
    BY <1>2, <1>3 DEF HeldBoard
  <2>3. now.games = me.games /\ now.games # 0
    BY <1>2, <1>6
  <2>4. \A j \in 1..Len(Slots) : Len(now.board.snakes[Slots[j]]) >= 2
    BY <1>12, <1>14
  <2>5. now.games = 1 => \A q \in Players : Len(now.board.snakes[q]) <= Len(now.seen) + 2
    BY <1>12, <1>15, <2>3
  <2>6. now.games = 1 /\ now.board.state = "ok" => Sound(now.board)
    BY <1>12, <1>16, <2>3
  <2>7. now.games = 1 /\ now.board.seed \in SeedsInside => Inside(now.board)
    BY <1>12, <1>17, <2>3
  <2> QED
    BY <2>1, <2>2, <2>3, <2>4, <2>5, <2>6, <2>7 DEF HeldBoard
<1> QED
  BY <1>4, <1>9, <1>18, BoardMoves

\* a game that begins has a board of its own, and a first game nothing under way
LEMMA BeginBoard ==
    ASSUME PlayInv, BoardInv, NEW c \in Clients, Begin(c)
    PROVE  BoardInv'
<1> DEFINE me  == client[c]
           b   == NewGame(me.board, me.seed)
           new == [me EXCEPT !.invited = FALSE, !.games = @ + 1, !.seen = <<>>,
                             !.board = b]
           now == IF b.state # "ok" THEN new
                  ELSE [new EXCEPT !.on = TRUE, !.binding = TRUE,
                                   !.refresh = Append(@, "asleep")]
<1>1. PICK B : me \in Records(B)
  BY DEF PlayInv, Shape, IsClient
<1>2. /\ new.board = b /\ new.games = me.games + 1 /\ new.seen = <<>>
      /\ new.invited = FALSE /\ new.seed = me.seed /\ new.que = me.que
      /\ DOMAIN new = DOMAIN me
  BY <1>1 DEF Records
<1>3. /\ now.board = b /\ now.games = me.games + 1 /\ now.seen = <<>>
      /\ now.invited = FALSE /\ now.seed = me.seed /\ now.que = me.que
  <2>1. CASE b.state # "ok"
    BY <1>2, <2>1
  <2>2. CASE b.state = "ok"
    <3>1. now = [new EXCEPT !.on = TRUE, !.binding = TRUE, !.refresh = Append(@, "asleep")]
      BY <2>2
    <3> HIDE DEF now, new
    <3> QED
      BY <1>1, <1>2, <3>1 DEF Records
  <2> QED
    BY <2>1, <2>2
<1>4. HeldBoard(me) /\ HeldWay(me, net[c]) /\ net \in [Clients -> Seq(Nat)]
  BY DEF PlayInv, Shape, BoardInv
<1>5. Becomes(c, now) /\ net' = [net EXCEPT ![c] = net[c]] /\ me.invited
  BY <1>4 DEF Begin
<1>6. me.games \in Nat
  BY <1>1 DEF Records
<1> HIDE DEF now, new, me
<1>7. me.board \in Boards /\ me.seed \in Seeds
  BY <1>4, <1>5 DEF HeldBoard
<1>8. PICK o \in Boards : o = me.board
  BY <1>7
<1>9. PICK s \in Seeds : s = me.seed
  BY <1>7
<1>10. PICK x : x = NewGame(o, s) /\ x = now.board
  BY <1>3, <1>8, <1>9
<1>11. /\ x \in Boards /\ x.seed = s
       /\ x.state = "ok" => \A j \in 1..Len(Slots) : Len(x.snakes[Slots[j]]) >= 2
  BY <1>10, GameKept
<1>12. now.games > 0 /\ now.games # 0 /\ (now.games <= 1 => me.games = 0 /\ now.games = 1)
  BY <1>3, <1>6
<1>13. ASSUME now.games <= 1 PROVE x = NewGame(NoGame, s)
  BY <1>4, <1>8, <1>10, <1>12, <1>13 DEF HeldBoard
<1>14. ASSUME now.games <= 1
       PROVE  /\ \A q \in Players : Len(x.snakes[q]) <= Len(now.seen) + 2
              /\ x.state = "ok" => Sound(x)
              /\ x.seed \in SeedsInside => Inside(x)
  <2>1. x = NewGame(NoGame, s)
    BY <1>13, <1>14
  <2>2. /\ \A q \in Players : Len(x.snakes[q]) <= 2
        /\ x.state = "ok" => Sound(x)
    BY <2>1, FirstGameIs
  <2>3. x.seed \in SeedsInside => Inside(x)
    BY <1>11, <2>1, FirstGameInside
  <2>4. Len(now.seen) + 2 = 2
    <3>1. Len(<<>>) = 0
      BY EmptySeq
    <3> QED
      BY <1>3, <3>1
  <2> QED
    BY <2>2, <2>3, <2>4
<1>15. HeldBoard(now)
  <2>1. now.board \in Boards /\ now.board.seed \in Seeds
    BY <1>10, <1>11
  <2>2. ~now.invited
    BY <1>3
  <2>3. now.board.state = "ok" => \A j \in 1..Len(Slots) : Len(now.board.snakes[Slots[j]]) >= 2
    BY <1>10, <1>11
  <2>4. now.games = 1 => \A q \in Players : Len(now.board.snakes[q]) <= Len(now.seen) + 2
    BY <1>10, <1>14
  <2>5. now.games = 1 /\ now.board.state = "ok" => Sound(now.board)
    BY <1>10, <1>14
  <2>6. now.games = 1 /\ now.board.seed \in SeedsInside => Inside(now.board)
    BY <1>10, <1>14
  <2> QED
    BY <1>12, <2>1, <2>2, <2>3, <2>4, <2>5, <2>6 DEF HeldBoard
<1>16. HeldWay(now, net[c])
  <2>1. now.que \in Seq(Frames) /\ net[c] \in Seq(Frames) /\ Len(net[c]) + Len(now.que) <= MaxPending
    BY <1>3, <1>4 DEF HeldWay
  <2>2. ASSUME now.games <= 1
        PROVE  Len(now.seen) + Len(now.que) + Len(net[c]) <= Len(log)
    <3>1. me.games = 0
      BY <1>12, <2>2
    <3>2. me.que = <<>> /\ net[c] = <<>>
      BY <3>1 DEF PlayInv, Good, Fresh, me
    <3>3. Len(<<>>) = 0 /\ Len(log) >= 0
      BY EmptySeq, LenProperties DEF PlayInv, Shape
    <3> QED
      BY <1>3, <3>2, <3>3
  <2> QED
    BY <2>1, <2>2 DEF HeldWay
<1> QED
  BY <1>5, <1>15, <1>16, BoardMoves

LEMMA GameStartBoard ==
    ASSUME PlayInv, BoardInv, GameStart
    PROVE  BoardInv'
<1>1. PICK s \in Seeds :
        client' = [c \in Clients |->
             IF client[c].exited THEN client[c]
             ELSE [client[c] EXCEPT !.seed = s, !.invited = ~client[c].on]]
  BY DEF GameStart
<1>2. log' = log /\ net' = net
  BY DEF GameStart
<1>3. ASSUME NEW c \in Clients
      PROVE  /\ client'[c].que = client[c].que /\ client'[c].seen = client[c].seen
             /\ client'[c].games = client[c].games /\ client'[c].board = client[c].board
             /\ client'[c].invited => client'[c].seed \in Seeds
  <2>1. PICK B : client[c] \in Records(B)
    BY DEF PlayInv, Shape, IsClient
  <2>2. CASE client[c].exited
    BY <1>1, <2>1, <2>2 DEF BoardInv, HeldBoard
  <2>3. CASE ~client[c].exited
    <3>1. client'[c] = [client[c] EXCEPT !.seed = s, !.invited = ~client[c].on]
      BY <1>1, <2>3
    <3> QED
      BY <2>1, <3>1 DEF Records
  <2> QED
    BY <2>2, <2>3
<1>4. ASSUME NEW c \in Clients PROVE HeldBoard(client[c])'
  <2>1. HeldBoard(client[c])
    BY DEF BoardInv
  <2>2. HeldBoard(client'[c])
    BY <1>3, <2>1 DEF HeldBoard
  <2> QED
    BY <2>2 DEF HeldBoard, Sound, Counted, OneFood, NodesOn, Inside
<1>5. ASSUME NEW c \in Clients PROVE HeldWay(client[c], net[c])'
  <2>1. HeldWay(client[c], net[c])
    BY DEF BoardInv
  <2> QED
    BY <1>2, <1>3, <2>1 DEF HeldWay, Frames
<1>6. (Len(log) <= MaxFrames)'
  BY <1>2 DEF BoardInv
<1> QED
  BY <1>4, <1>5, <1>6 DEF BoardInv

\* a frame that is sent is one more that a client may be sent
LEMMA SendToBoard ==
    ASSUME PlayInv, BoardInv, NEW t, SendTo(t)
    PROVE  BoardInv'
<1>0. PICK frame : frame = threads[t]
  OBVIOUS
<1>1. /\ log' = Append(log, frame) /\ client' = client /\ Len(log) < MaxFrames
      /\ net' = [c \in Clients |-> IF Hears(c) THEN Append(net[c], Len(log')) ELSE net[c]]
      /\ \A c \in Clients : Hears(c) => Len(net[c]) + Len(client[c].que) < MaxPending
  BY <1>0 DEF SendTo
<1>2. PICK S : log \in Seq(S)
  BY DEF PlayInv, Shape
<1>3. Len(log) \in Nat /\ Len(log') = Len(log) + 1
  <2>1. log \in Seq(S \cup {frame})
    BY <1>2, SeqMonotonic
  <2>2. frame \in S \cup {frame}
    OBVIOUS
  <2> QED
    BY <1>1, <2>1, <2>2, AppendProperties, LenProperties
<1>4. PICK h \in Nat : h = Len(log)
  BY <1>3
<1>5. PICK F, G : F = 1..h /\ G = 1..(h + 1)
  OBVIOUS
<1>6. F = Frames /\ G = Frames' /\ h + 1 = Len(log') /\ F \subseteq G /\ h + 1 \in G
  BY <1>3, <1>4, <1>5 DEF Frames
<1>7. ASSUME NEW c \in Clients PROVE HeldBoard(client[c])'
  <2>1. HeldBoard(client'[c])
    BY <1>1 DEF BoardInv
  <2> QED
    BY <2>1 DEF HeldBoard, Sound, Counted, OneFood, NodesOn, Inside
<1>8. ASSUME NEW c \in Clients PROVE HeldWay(client[c], net[c])'
  <2>1. /\ client[c].que \in Seq(F) /\ net[c] \in Seq(F)
        /\ Len(net[c]) + Len(client[c].que) <= MaxPending
        /\ client[c].games <= 1 => Len(client[c].seen) + Len(client[c].que) + Len(net[c]) <= h
    BY <1>4, <1>6 DEF BoardInv, HeldWay
  <2>2. client[c].seen \in Seq(Nat)
    BY DEF PlayInv, Shape, IsClient, Records
  <2>3. client[c].que \in Seq(G) /\ net[c] \in Seq(G)
    BY <1>6, <2>1, SeqMonotonic
  <2>4. PICK q \in Nat : q = Len(client[c].que)
    BY <2>1
  <2>5. PICK m \in Nat : m = Len(net[c])
    BY <2>1
  <2>6. PICK e \in Nat : e = Len(client[c].seen)
    BY <2>2
  <2>7. CASE Hears(c)
    <3>1. net'[c] = Append(net[c], h + 1)
      BY <1>1, <1>6, <2>7
    <3>2. net'[c] \in Seq(G) /\ Len(net'[c]) = m + 1
      BY <1>6, <2>3, <2>5, <3>1, AppendProperties
    <3>3. m + q < MaxPending /\ MaxPending \in Nat
      BY <1>1, <2>4, <2>5, <2>7, GamePlayAssumption
    <3>4. (m + 1) + q <= MaxPending
      BY <3>3
    <3>5. client[c].games <= 1 => e + q + (m + 1) <= h + 1
      <4>1. SUFFICES ASSUME e + q + m <= h PROVE e + q + (m + 1) <= h + 1
        BY <2>1, <2>4, <2>5, <2>6
      <4> QED
        BY <4>1
    <3>6. /\ client'[c].que \in Seq(G) /\ Len(net'[c]) + Len(client'[c].que) <= MaxPending
          /\ client'[c].games <= 1 =>
               Len(client'[c].seen) + Len(client'[c].que) + Len(net'[c]) <= Len(log')
      BY <1>1, <1>6, <2>3, <2>4, <2>6, <3>2, <3>4, <3>5
    <3> QED
      BY <1>6, <3>2, <3>6 DEF HeldWay
  <2>8. CASE ~Hears(c)
    <3>1. net'[c] = net[c]
      BY <1>1, <2>8
    <3>2. client[c].games <= 1 => e + q + m <= h + 1
      <4>1. SUFFICES ASSUME e + q + m <= h PROVE e + q + m <= h + 1
        BY <2>1, <2>4, <2>5, <2>6
      <4> QED
        BY <4>1
    <3>3. /\ client'[c].que \in Seq(G) /\ Len(net'[c]) + Len(client'[c].que) <= MaxPending
          /\ client'[c].games <= 1 =>
               Len(client'[c].seen) + Len(client'[c].que) + Len(net'[c]) <= Len(log')
      BY <1>1, <1>6, <2>1, <2>3, <2>4, <2>5, <2>6, <3>1, <3>2
    <3> QED
      BY <1>6, <2>3, <3>1, <3>3 DEF HeldWay
  <2> QED
    BY <2>7, <2>8
<1>9. (Len(log) <= MaxFrames)'
  <2>1. MaxFrames \in Nat /\ h < MaxFrames
    BY <1>1, <1>4, GamePlayAssumption
  <2>2. h + 1 <= MaxFrames
    BY <2>1
  <2> QED
    BY <1>6, <2>2
<1> QED
  BY <1>7, <1>8, <1>9 DEF BoardInv

\* a datagram that is lost or overtaken was one that was sent
LEMMA FaultBoard ==
    ASSUME PlayInv, BoardInv, NEW c \in Clients, NEW i \in 1 .. MaxPending,
           Lose(c, i) \/ Overtake(c, i)
    PROVE  BoardInv'
<1>1. client' = client /\ log' = log
  BY DEF Lose, Overtake
<1>2. net \in [Clients -> Seq(Nat)] /\ net[c] \in Seq(Frames)
  BY DEF PlayInv, Shape, BoardInv, HeldWay
<1>3. PICK s \in Seq(Frames) : s = net[c]
  BY <1>2
<1>4. PICK n \in Seq(Frames) : /\ net' = [net EXCEPT ![c] = n] /\ Len(n) <= Len(s)
  <2>1. Len(s) \in Nat /\ \A j \in 1 .. Len(s) : s[j] \in Frames
    BY <1>3, LenProperties, ElementOfSeq
  <2>2. CASE Lose(c, i)
    <3>1. i \in 1 .. Len(s) /\ net' = [net EXCEPT ![c] = RemoveAt(s, i)]
      BY <1>3, <2>2 DEF Lose
    <3>2. /\ SubSeq(s, 1, i - 1) \in Seq(Frames) /\ SubSeq(s, i + 1, Len(s)) \in Seq(Frames)
          /\ Len(SubSeq(s, 1, i - 1)) = i - 1 /\ Len(SubSeq(s, i + 1, Len(s))) = Len(s) - i
      BY <2>1, <3>1, SubSeqProperties
    <3>3. RemoveAt(s, i) \in Seq(Frames) /\ Len(RemoveAt(s, i)) = (i - 1) + (Len(s) - i)
      BY <3>2, ConcatProperties DEF RemoveAt
    <3>4. Len(RemoveAt(s, i)) <= Len(s)
      BY <2>1, <3>1, <3>3
    <3> QED
      BY <3>1, <3>3, <3>4
  <2>3. CASE Overtake(c, i)
    <3> DEFINE m == [[s EXCEPT ![i] = s[i + 1]] EXCEPT ![i + 1] = s[i]]
    <3>1. i \in 1 .. Len(s) - 1
      BY <1>3, <2>3 DEF Overtake
    <3>2. net' = [net EXCEPT ![c] = m]
      BY <1>2, <1>3, <2>3 DEF Overtake
    <3>3. i \in 1 .. Len(s) /\ i + 1 \in 1 .. Len(s) /\ s[i + 1] \in Frames /\ s[i] \in Frames
      BY <2>1, <3>1
    <3>4. /\ [s EXCEPT ![i] = s[i + 1]] \in Seq(Frames)
          /\ Len([s EXCEPT ![i] = s[i + 1]]) = Len(s)
      BY <3>3, ExceptSeq
    <3>5. m \in Seq(Frames) /\ Len(m) = Len(s)
      BY <3>3, <3>4, ExceptSeq
    <3> HIDE DEF m
    <3>6. Len(m) <= Len(s)
      BY <2>1, <3>5
    <3> QED
      BY <3>2, <3>5, <3>6
  <2> QED
    BY <2>2, <2>3
<1>5. ASSUME NEW d \in Clients PROVE HeldBoard(client[d])'
  <2>1. HeldBoard(client'[d])
    BY <1>1 DEF BoardInv
  <2> QED
    BY <2>1 DEF HeldBoard, Sound, Counted, OneFood, NodesOn, Inside
<1>6. ASSUME NEW d \in Clients PROVE HeldWay(client[d], net[d])'
  <2>1. HeldWay(client[d], net[d])
    BY DEF BoardInv
  <2>2. CASE d # c
    BY <1>1, <1>2, <1>4, <2>1, <2>2 DEF HeldWay, Frames
  <2>3. CASE d = c
    <3>1. net'[d] = n
      BY <1>2, <1>4, <2>3
    <3>2. client[d].seen \in Seq(Nat) /\ client[d].que \in Seq(Frames)
      BY <2>1 DEF PlayInv, Shape, IsClient, Records, HeldWay
    <3>3. PICK u \in Nat : u = Len(n)
      BY <1>4
    <3>4. PICK v \in Nat : v = Len(s)
      BY <1>3
    <3>5. PICK q \in Nat : q = Len(client[d].que)
      BY <3>2
    <3>6. PICK e \in Nat : e = Len(client[d].seen)
      BY <3>2
    <3>7. PICK h \in Nat : h = Len(log)
      BY LenProperties DEF PlayInv, Shape
    <3>8. /\ u <= v /\ v + q <= MaxPending /\ MaxPending \in Nat
          /\ client[d].games <= 1 => e + q + v <= h
      BY <1>3, <1>4, <2>1, <2>3, <3>3, <3>4, <3>5, <3>6, <3>7, GamePlayAssumption DEF HeldWay
    <3>9. u + q <= MaxPending
      BY <3>8
    <3>10. (client[d].games <= 1) => e + q + u <= h
      <4>1. SUFFICES ASSUME e + q + v <= h PROVE e + q + u <= h
        BY <3>8
      <4> QED
        BY <3>8, <4>1
    <3>11. /\ Len(net'[d]) + Len(client'[d].que) <= MaxPending
           /\ client'[d].games <= 1 =>
                Len(client'[d].seen) + Len(client'[d].que) + Len(net'[d]) <= Len(log')
      BY <1>1, <3>1, <3>3, <3>5, <3>6, <3>7, <3>9, <3>10
    <3>12. client'[d].que \in Seq(Frames') /\ net'[d] \in Seq(Frames')
      BY <1>1, <1>4, <3>1, <3>2 DEF Frames
    <3> QED
      BY <3>11, <3>12 DEF HeldWay
  <2> QED
    BY <2>2, <2>3
<1>7. (Len(log) <= MaxFrames)'
  BY <1>1 DEF BoardInv
<1> QED
  BY <1>5, <1>6, <1>7 DEF BoardInv

LEMMA BoardSame ==
    ASSUME BoardInv, client' = client, net' = net, log' = log
    PROVE  BoardInv'
<1>1. ASSUME NEW d \in Clients PROVE HeldBoard(client[d])'
  <2>1. HeldBoard(client'[d])
    BY DEF BoardInv
  <2> QED
    BY <2>1 DEF HeldBoard, Sound, Counted, OneFood, NodesOn, Inside
<1>2. ASSUME NEW d \in Clients PROVE HeldWay(client[d], net[d])'
  BY DEF BoardInv, HeldWay, Frames
<1> QED
  BY <1>1, <1>2 DEF BoardInv

LEMMA StepBoard == PlayInv /\ BoardInv /\ [Next]_vars => BoardInv'
<1> SUFFICES ASSUME PlayInv, BoardInv, [Next]_vars PROVE BoardInv'
  OBVIOUS
<1>1. CASE GameStart
  BY <1>1, GameStartBoard
<1>2. ASSUME NEW t \in DOMAIN threads, SendTo(t) PROVE BoardInv'
  BY <1>2, SendToBoard
<1>3. ASSUME NEW t \in DOMAIN threads, PopCommand(t) PROVE BoardInv'
  BY <1>3, BoardSame DEF PopCommand
<1>4. ASSUME NEW p \in Players, NEW o \in Commands, AddGameopt(p, o) PROVE BoardInv'
  BY <1>4, BoardSame DEF AddGameopt
<1>5. CASE Network
  BY <1>5, FaultBoard DEF Network
<1>6. ASSUME NEW c \in Clients, Process(c) PROVE BoardInv'
  BY <1>6, BeginBoard, StopBoard, BindBoard, TestExitBoard, ReceiveBoard, RefreshBoard,
     WakeBoard DEF Process
<1>7. CASE UNCHANGED vars
  BY <1>7, BoardSame DEF vars
<1> QED
  BY <1>1, <1>2, <1>3, <1>4, <1>5, <1>6, <1>7 DEF Next, Server

LEMMA BoardInvHolds == Spec => []BoardInv
  BY BoardInit, StepBoard, PlayInvHolds, PTL DEF Spec

\* However the snakes cross themselves and each other, a cell of the map shows
\* a snake exactly when nodes lie on it, m_overlap counts them, and there is
\* one piece of food, throughout a first game of any length on a board of any
\* size (move_core, random_make_snake, random_make_food).
THEOREM MapShowsSnakesHolds == Spec => []MapShowsSnakes
<1>1. ASSUME BoardInv PROVE MapShowsSnakes
  <2>1. ASSUME NEW c \in Clients, FirstGame(c), NEW b, b = client[c].board
        PROVE  /\ \A cell \in Cells :
                    /\ b.over[cell] = Cardinality(NodesOn(b, cell))
                    /\ (b.map[cell] = "SNAKE") <=> (b.over[cell] > 0)
               /\ Cardinality({cell \in Cells : b.map[cell] = "FOOD"}) = 1
    <3>1. Sound(b)
      BY <1>1, <2>1 DEF BoardInv, HeldBoard, FirstGame
    <3>2. PICK f \in Cells : \A e \in Cells : b.map[e] = "FOOD" <=> e = f
      BY <3>1 DEF Sound, OneFood
    <3>3. {cell \in Cells : b.map[cell] = "FOOD"} = {f}
      BY <3>2
    <3>4. Cardinality({f}) = 1
      BY FS_Singleton
    <3> QED
      BY <3>1, <3>3, <3>4 DEF Sound, Counted
  <2> QED
    BY <2>1 DEF MapShowsSnakes
<1> QED
  BY <1>1, BoardInvHolds, PTL

\* Whatever commands come, when they come and however a snake grows, its nodes
\* are neighbours one after the other and none turns back (move_up ...
\* move_right, the test for FOOD).
THEOREM SnakesHoldTogetherHolds == Spec => []SnakesHoldTogether
<1>1. ASSUME BoardInv PROVE SnakesHoldTogether
  <2>1. ASSUME NEW c \in Clients, NEW p \in Players, FirstGame(c)
        PROVE  Together(client[c].board.snakes[p])
    BY <1>1, <2>1 DEF BoardInv, HeldBoard, FirstGame, Sound
  <2> QED
    BY <2>1 DEF SnakesHoldTogether, Together, Dirs
<1> QED
  BY <1>1, BoardInvHolds, PTL

\* A snake that was made inside the border never leaves it, so the border is
\* drawn as it was (move_core's test for BORDER, random_make_snake).
THEOREM BorderHoldsAlways == Spec => []BorderHolds
<1>1. ASSUME BoardInv PROVE BorderHolds
  <2>1. ASSUME NEW c \in Clients, client[c].games = 1, client[c].board.seed \in SeedsInside
        PROVE  Inside(client[c].board)
    BY <1>1, <2>1 DEF BoardInv, HeldBoard
  <2> QED
    BY <2>1 DEF BorderHolds, Inside
<1> QED
  BY <1>1, BoardInvHolds, PTL

-----------------------------------------------------------------------------
(* The commands.                                                             *)

\* `Spoken' is made one command after the other.
Said(w, e) == IF e = "FORWARD" THEN w ELSE Append(w, e)

LEMMA SpokenIs ==
    ASSUME NEW S, NEW s \in Seq(S)
    PROVE  \E g : /\ g[0] = <<>> /\ \A m \in 1..Len(s) : g[m] = Said(g[m - 1], s[m])
                  /\ Spoken(s) = g[Len(s)]
<1> DEFINE Says(g, k) == g = [m \in 0..k |-> IF m = 0 THEN <<>>
                                             ELSE Said(g[m - 1], s[m])]
           T == {k \in Nat : \E g : Says(g, k)}
<1>1. 0 \in T
  <2>1. PICK g : g = [m \in 0..0 |-> <<>>]
    OBVIOUS
  <2>2. Says(g, 0)
    BY <2>1
  <2> QED
    BY <2>2
<1>2. ASSUME NEW k \in T PROVE k + 1 \in T
  <2>1. PICK g : Says(g, k)
    OBVIOUS
  <2>2. k \in Nat
    OBVIOUS
  <2>3. PICK x : x = Said(g[k], s[k + 1])
    OBVIOUS
  <2>4. PICK h : h = [m \in 0..(k + 1) |-> IF m <= k THEN g[m] ELSE x]
    OBVIOUS
  <2>5. ASSUME NEW m \in 0..(k + 1)
        PROVE  h[m] = IF m = 0 THEN <<>> ELSE Said(h[m - 1], s[m])
    <3>1. CASE m = 0
      BY <2>1, <2>2, <2>4, <3>1
    <3>2. CASE m # 0 /\ m <= k
      <4>1. m \in 0..k /\ m - 1 \in 0..k /\ m - 1 \in 0..(k + 1) /\ m - 1 <= k
        BY <2>2, <3>2
      <4> QED
        BY <2>1, <2>4, <3>2, <4>1
    <3>3. CASE m = k + 1
      <4>1. m - 1 = k /\ k \in 0..(k + 1) /\ ~(m <= k) /\ m # 0
        BY <2>2, <3>3
      <4> QED
        BY <2>3, <2>4, <3>3, <4>1
    <3> QED
      BY <2>2, <3>1, <3>2, <3>3
  <2>6. Says(h, k + 1)
    BY <2>4, <2>5
  <2> QED
    BY <2>2, <2>6
<1>3. T = Nat
  <2>1. T \in SUBSET Nat
    OBVIOUS
  <2> HIDE DEF T
  <2> QED
    BY <1>1, <1>2, <2>1, Induction
<1>4. PICK n \in Nat : n = Len(s)
  BY LenProperties
<1>5. \E g : Says(g, n)
  BY <1>3
<1>6. PICK m : m = CHOOSE g : Says(g, n)
  OBVIOUS
<1>7. Says(m, n)
  BY <1>5, <1>6
<1>8. Spoken(s) = m[n]
  BY <1>4, <1>6 DEF Spoken, Said
<1>9. m[0] = <<>>
  BY <1>7
<1>10. \A k \in 1..n : m[k] = Said(m[k - 1], s[k])
  BY <1>7
<1> QED
  BY <1>4, <1>8, <1>9, <1>10

LEMMA SpokenOfNone == Spoken(<<>>) = <<>>
<1>1. <<>> \in Seq({}) /\ Len(<<>>) = 0
  BY EmptySeq
<1> QED
  BY <1>1, SpokenIs

\* one more element says one more command, or none
LEMMA SpokenGrows ==
    ASSUME NEW S, NEW s \in Seq(S), NEW f \in S
    PROVE  Spoken(Append(s, f)) = Said(Spoken(s), f)
<1>1. PICK k \in Seq(S) : k = Append(s, f)
  BY AppendProperties
<1>2. PICK n \in Nat : n = Len(s)
  BY LenProperties
<1>3. Len(k) = n + 1 /\ k[n + 1] = f /\ \A m \in 1..n : k[m] = s[m]
  BY <1>1, <1>2, AppendProperties
<1>4. PICK g : /\ g[0] = <<>> /\ \A m \in 1..n : g[m] = Said(g[m - 1], s[m])
               /\ Spoken(s) = g[n]
  BY <1>2, SpokenIs
<1>5. PICK h : /\ h[0] = <<>> /\ \A m \in 1..(n + 1) : h[m] = Said(h[m - 1], k[m])
               /\ Spoken(k) = h[n + 1]
  BY <1>3, SpokenIs
<1> DEFINE T == {m \in 0..n : g[m] = h[m]}
<1>6. 0 \in T
  BY <1>4, <1>5
<1>7. ASSUME NEW m \in 0..(n - 1), m \in T PROVE m + 1 \in T
  <2>1. m + 1 \in 1..n /\ m + 1 \in 1..(n + 1) /\ (m + 1) - 1 = m /\ m + 1 \in 0..n
    BY <1>7
  <2>2. g[m + 1] = Said(g[m], s[m + 1]) /\ h[m + 1] = Said(h[m], s[m + 1])
    BY <1>3, <1>4, <1>5, <2>1
  <2>3. g[m] = h[m]
    BY <1>7
  <2> QED
    BY <2>1, <2>2, <2>3
<1>8. 0..n \subseteq T
  <2> HIDE DEF T
  <2> QED
    BY <1>6, <1>7, InductionTo
<1>9. g[n] = h[n]
  BY <1>8
<1>10. n + 1 \in 1..(n + 1) /\ (n + 1) - 1 = n
  OBVIOUS
<1> QED
  BY <1>1, <1>3, <1>4, <1>5, <1>9, <1>10

\* While fewer than MaxOpts commands were given, no player gave that many.
LEMMA FewGiven ==
    ASSUME NEW is, NEW p \in Players, Len(is[p]) \in Nat, NEW M \in Nat, Len(is[p]) <= M,
           Cardinality({n \in Players \X (1 .. M) : n[2] <= Len(is[n[1]])}) < M
    PROVE  Len(is[p]) + 1 <= M
<1> DEFINE G == {n \in Players \X (1 .. M) : n[2] <= Len(is[n[1]])}
<1>1. SUFFICES ASSUME Len(is[p]) = M PROVE FALSE
  BY DEF G
<1>2. PICK P : P = {p} \X (1 .. M)
  OBVIOUS
<1>3. IsFiniteSet({p}) /\ Cardinality({p}) = 1 /\ IsFiniteSet(1..M) /\ Cardinality(1..M) = M
  <2>1. IsFiniteSet({p}) /\ Cardinality({p}) = 1
    BY FS_Singleton
  <2>2. IsFiniteSet(1..M) /\ Cardinality(1..M) = IF 1 > M THEN 0 ELSE M - 1 + 1
    BY FS_Interval
  <2>3. (IF 1 > M THEN 0 ELSE M - 1 + 1) = M
    OBVIOUS
  <2> QED
    BY <2>1, <2>2, <2>3
<1>4. IsFiniteSet(P) /\ Cardinality(P) = M
  BY <1>2, <1>3, FS_Product
<1>5. IsFiniteSet(Players \X (1 .. M))
  BY <1>3, FS_Product, BoardAssumption
<1>6. IsFiniteSet(G)
  BY <1>5, FS_Subset
<1>7. P \in SUBSET G
  BY <1>1, <1>2
<1>8. Cardinality(P) <= Cardinality(G)
  BY <1>6, <1>7, FS_Subset
<1>9. Cardinality(G) \in Nat /\ Cardinality(G) < M
  BY <1>6, FS_CardinalityType
<1> HIDE DEF G
<1> QED
  BY <1>4, <1>8, <1>9

LEMMA UpTo ==
    ASSUME NEW S, NEW s \in Seq(S), NEW n \in Nat, Len(s) <= n
    PROVE  s \in SeqsUpTo(S, n)
<1>1. Len(s) \in 0..n /\ s \in [1 .. Len(s) -> S]
  OBVIOUS
<1> QED
  BY <1>1 DEF SeqsUpTo

-----------------------------------------------------------------------------
(* One place of the frames: what the frames sent have there, what the frame  *)
(* threads have there, what its player's queue holds and what was given.     *)

LEMMA TimesAre ==
    ASSUME NEW S, NEW s \in Seq(S), NEW o
    PROVE  Times(s, o) \in Nat /\ Times(s, o) = Cardinality(Places(s, {o}))
<1>1. Places(s, {o}) = {n \in 1 .. Len(s) : s[n] = o}
  BY DEF Places
<1>2. Cardinality(Places(s, {o})) \in Nat
  BY PlacesFinite
<1> QED
  BY <1>1, <1>2 DEF Times

LEMMA TimesGrow ==
    ASSUME NEW S, NEW s \in Seq(S), NEW e \in S, NEW o
    PROVE  Times(Append(s, e), o) = Times(s, o) + (IF e = o THEN 1 ELSE 0)
<1>1. Append(s, e) \in Seq(S)
  BY AppendProperties
<1>2. Cardinality(Places(Append(s, e), {o})) =
          Cardinality(Places(s, {o})) + (IF e \in {o} THEN 1 ELSE 0)
  BY CountAppend
<1> QED
  BY <1>1, <1>2, TimesAre

LEMMA TimesShrink ==
    ASSUME NEW S, NEW s \in Seq(S), s # <<>>, NEW o
    PROVE  Times(s, o) = Times(Tail(s), o) + (IF Head(s) = o THEN 1 ELSE 0)
<1>1. Tail(s) \in Seq(S)
  BY HeadTailProperties
<1>2. Cardinality(Places(s, {o})) =
          Cardinality(Places(Tail(s), {o})) + (IF Head(s) \in {o} THEN 1 ELSE 0)
  BY CountTail
<1> QED
  BY <1>1, <1>2, TimesAre

\* n is s with e at place t
Changed(n, s, t, e) ==
    Len(n) = Len(s) /\ n[t] = e /\ \A j \in 1 .. Len(s) : j # t => n[j] = s[j]

LEMMA TimesChange ==
    ASSUME NEW S, NEW s \in Seq(S), NEW t \in 1 .. Len(s), NEW e, NEW o,
           NEW n \in Seq(S), Changed(n, s, t, e)
    PROVE  Times(n, o) + (IF s[t] = o THEN 1 ELSE 0)
             = Times(s, o) + (IF e = o THEN 1 ELSE 0)
<1>2. /\ Len(s) \in Nat /\ Len(n) = Len(s) /\ n[t] = e
      /\ \A j \in 1 .. Len(s) : j # t => n[j] = s[j]
  BY LenProperties DEF Changed
<1>3. Places(s, {o}) \ {t} = Places(n, {o}) \ {t}
  BY <1>2 DEF Places
<1>4. (t \in Places(s, {o}) <=> s[t] = o) /\ (t \in Places(n, {o}) <=> e = o)
  BY <1>2 DEF Places
<1>5. /\ IsFiniteSet(Places(s, {o})) /\ Cardinality(Places(s, {o})) \in Nat
      /\ IsFiniteSet(Places(n, {o})) /\ Cardinality(Places(n, {o})) \in Nat
  BY PlacesFinite
<1>6. /\ Cardinality(Places(s, {o}) \ {t}) = IF t \in Places(s, {o})
            THEN Cardinality(Places(s, {o})) - 1 ELSE Cardinality(Places(s, {o}))
      /\ Cardinality(Places(n, {o}) \ {t}) = IF t \in Places(n, {o})
            THEN Cardinality(Places(n, {o})) - 1 ELSE Cardinality(Places(n, {o}))
  BY <1>5, FS_RemoveElement
<1>7. PICK a \in Nat, b \in Nat : a = Cardinality(Places(s, {o})) /\ b = Cardinality(Places(n, {o}))
  BY <1>5
<1>8. b + (IF s[t] = o THEN 1 ELSE 0) = a + (IF e = o THEN 1 ELSE 0)
  <2>1. PICK k : k = Cardinality(Places(s, {o}) \ {t})
    OBVIOUS
  <2>2. k = (IF s[t] = o THEN a - 1 ELSE a)
    BY <1>4, <1>6, <1>7, <2>1
  <2>3. k = Cardinality(Places(n, {o}) \ {t})
    BY <1>3, <2>1
  <2>4. k = (IF e = o THEN b - 1 ELSE b)
    BY <1>4, <1>6, <1>7, <2>3
  <2>5. a \in Nat /\ b \in Nat
    BY <1>7
  <2> QED
    BY <2>2, <2>4, <2>5
<1>9. Times(s, o) = a /\ Times(n, o) = b
  BY <1>7, TimesAre
<1> QED
  BY <1>8, <1>9

Conserved(col, h, q, g) ==
    \A o \in Commands : Times(col, o) + Times(h, o) + Times(q, o) = Times(g, o)

InOrder(col, h, q, g) ==
    Len(h) <= 1 => /\ Spoken(col) \in Seq(Commands) /\ Spoken(h) \in Seq(Commands)
                   /\ Spoken(col) \o Spoken(h) \o q = g

AtSlot(col, h, q, g) ==
    /\ col \in Seq(Opts) /\ h \in Seq(Opts) /\ q \in Seq(Commands) /\ g \in Seq(Commands)
    /\ Conserved(col, h, q, g) /\ InOrder(col, h, q, g)

LEMMA Forward ==
    "FORWARD" \in Opts /\ "FORWARD" \notin Commands /\ Commands \subseteq Opts
BY GamePlayAssumption DEF Opts

\* what the only frame thread has at a place
LEMMA SpokenOfOne ==
    ASSUME NEW h \in Seq(Opts), Len(h) = 1
    PROVE  Spoken(h) = Said(<<>>, h[1]) /\ h[1] \in Opts
<1>1. h[1] \in Opts
  BY ElementOfSeq
<1>2. PICK e \in Opts : e = h[1]
  BY <1>1
<1>3. /\ <<>> \in Seq(Opts) /\ Append(<<>>, e) \in Seq(Opts) /\ Len(Append(<<>>, e)) = 1
      /\ Append(<<>>, e)[1] = e
  BY EmptySeq, AppendProperties
<1>4. h = Append(<<>>, e)
  BY <1>2, <1>3, SeqEqual
<1>5. Spoken(Append(<<>>, e)) = Said(Spoken(<<>>), e)
  BY <1>3, SpokenGrows
<1> QED
  BY <1>2, <1>4, <1>5, SpokenOfNone

\* a command is given
LEMMA SlotGiven ==
    ASSUME NEW col, NEW h, NEW q, NEW g, AtSlot(col, h, q, g), NEW o \in Commands
    PROVE  AtSlot(col, h, Append(q, o), Append(g, o))
<1>1. col \in Seq(Opts) /\ h \in Seq(Opts) /\ q \in Seq(Commands) /\ g \in Seq(Commands)
  BY DEF AtSlot
<1>2. Append(q, o) \in Seq(Commands) /\ Append(g, o) \in Seq(Commands)
  BY <1>1, AppendProperties
<1>3. Conserved(col, h, Append(q, o), Append(g, o))
  <2>1. ASSUME NEW x \in Commands
        PROVE  Times(col, x) + Times(h, x) + Times(Append(q, o), x) = Times(Append(g, o), x)
    <3>1. Times(col, x) + Times(h, x) + Times(q, x) = Times(g, x)
      BY DEF AtSlot, Conserved
    <3>2. /\ Times(Append(q, o), x) = Times(q, x) + (IF o = x THEN 1 ELSE 0)
          /\ Times(Append(g, o), x) = Times(g, x) + (IF o = x THEN 1 ELSE 0)
      BY <1>1, TimesGrow
    <3>3. Times(col, x) \in Nat /\ Times(h, x) \in Nat /\ Times(q, x) \in Nat /\ Times(g, x) \in Nat
      BY <1>1, TimesAre
    <3> QED
      BY <3>1, <3>2, <3>3
  <2> QED
    BY <2>1 DEF Conserved
<1>4. InOrder(col, h, Append(q, o), Append(g, o))
  <2>1. ASSUME Len(h) <= 1
        PROVE  /\ Spoken(col) \in Seq(Commands) /\ Spoken(h) \in Seq(Commands)
               /\ Spoken(col) \o Spoken(h) \o Append(q, o) = Append(g, o)
    <3>1. /\ Spoken(col) \in Seq(Commands) /\ Spoken(h) \in Seq(Commands)
          /\ Spoken(col) \o Spoken(h) \o q = g
      BY <2>1 DEF AtSlot, InOrder
    <3>2. PICK w \in Seq(Commands) : w = Spoken(col) \o Spoken(h)
      BY <3>1, ConcatProperties
    <3>3. <<o>> \in Seq(Commands) /\ Append(q, o) = q \o <<o>> /\ Append(g, o) = g \o <<o>>
      BY <1>1, AppendIsConcat
    <3>4. (w \o q) \o <<o>> = w \o (q \o <<o>>)
      BY <1>1, <3>3, ConcatAssociative
    <3>5. w \o Append(q, o) = Append(g, o)
      BY <3>1, <3>2, <3>3, <3>4
    <3> QED
      BY <3>1, <3>2, <3>5
  <2> QED
    BY <2>1 DEF InOrder
<1> QED
  BY <1>1, <1>2, <1>3, <1>4 DEF AtSlot

\* one more frame thread begins, with nothing at the place
LEMMA SlotBegun ==
    ASSUME NEW col, NEW h, NEW q, NEW g, AtSlot(col, h, q, g)
    PROVE  AtSlot(col, Append(h, "FORWARD"), q, g)
<1>1. col \in Seq(Opts) /\ h \in Seq(Opts) /\ q \in Seq(Commands) /\ g \in Seq(Commands)
  BY DEF AtSlot
<1>2. PICK e \in Opts : e = "FORWARD"
  BY Forward
<1>3. /\ Append(h, e) \in Seq(Opts) /\ Len(Append(h, e)) = Len(h) + 1 /\ Len(h) \in Nat
      /\ Append(h, e)[Len(h) + 1] = e
  BY <1>1, AppendProperties, LenProperties
<1>4. Conserved(col, Append(h, e), q, g)
  <2>1. ASSUME NEW x \in Commands
        PROVE  Times(col, x) + Times(Append(h, e), x) + Times(q, x) = Times(g, x)
    <3>1. Times(col, x) + Times(h, x) + Times(q, x) = Times(g, x)
      BY DEF AtSlot, Conserved
    <3>2. e # x
      BY <1>2, Forward
    <3>3. Times(Append(h, e), x) = Times(h, x) + (IF e = x THEN 1 ELSE 0)
      BY <1>1, TimesGrow
    <3>4. Times(h, x) \in Nat
      BY <1>1, TimesAre
    <3>5. Times(Append(h, e), x) = Times(h, x)
      BY <3>2, <3>3, <3>4
    <3> QED
      BY <3>1, <3>5
  <2> QED
    BY <2>1 DEF Conserved
<1>5. InOrder(col, Append(h, e), q, g)
  <2>1. ASSUME Len(Append(h, e)) <= 1 PROVE Spoken(Append(h, e)) = <<>> /\ Spoken(h) = <<>> /\ Len(h) <= 1
    <3>1. Len(h) = 0
      BY <1>3, <2>1
    <3>2. h = <<>>
      BY <1>1, <3>1, EmptySeq
    <3>3. Spoken(Append(h, e)) = Said(Spoken(h), e)
      BY <1>1, SpokenGrows
    <3> QED
      BY <1>2, <3>1, <3>2, <3>3, SpokenOfNone DEF Said
  <2> QED
    BY <2>1 DEF AtSlot, InOrder
<1>6. AtSlot(col, Append(h, e), q, g)
  BY <1>1, <1>3, <1>4, <1>5 DEF AtSlot
<1> QED
  BY <1>2, <1>6

\* a frame thread takes a command
LEMMA SlotPopped ==
    ASSUME NEW col, NEW h, NEW q, NEW g, AtSlot(col, h, q, g), q # <<>>,
           NEW t \in 1 .. Len(h), h[t] = "FORWARD"
    PROVE  AtSlot(col, [h EXCEPT ![t] = Head(q)], Tail(q), g)
<1>1. col \in Seq(Opts) /\ h \in Seq(Opts) /\ q \in Seq(Commands) /\ g \in Seq(Commands)
  BY DEF AtSlot
<1>2. Head(q) \in Commands /\ Tail(q) \in Seq(Commands)
  BY <1>1, HeadTailProperties
<1>3. PICK e \in Commands : e = Head(q)
  BY <1>2
<1>4. e \in Opts /\ e # "FORWARD"
  BY Forward
<1>5. PICK n \in Seq(Opts) : n = [h EXCEPT ![t] = e]
  BY <1>1, <1>4, ExceptSeq
<1>6. /\ Len(n) = Len(h) /\ Len(h) \in Nat /\ n[t] = e
      /\ \A j \in 1 .. Len(h) : j # t => n[j] = h[j]
  BY <1>1, <1>4, <1>5, ExceptSeq, LenProperties
<1>7. Conserved(col, n, Tail(q), g)
  <2>1. ASSUME NEW x \in Commands
        PROVE  Times(col, x) + Times(n, x) + Times(Tail(q), x) = Times(g, x)
    <3>1. Times(col, x) + Times(h, x) + Times(q, x) = Times(g, x)
      BY DEF AtSlot, Conserved
    <3>2. h[t] # x
      BY Forward
    <3>3. Times(n, x) + (IF h[t] = x THEN 1 ELSE 0) = Times(h, x) + (IF e = x THEN 1 ELSE 0)
      <4>1. Changed(n, h, t, e)
        BY <1>6 DEF Changed
      <4> QED
        BY <1>1, <4>1, TimesChange
    <3>4. Times(q, x) = Times(Tail(q), x) + (IF e = x THEN 1 ELSE 0)
      BY <1>1, <1>3, TimesShrink
    <3>5. /\ Times(col, x) \in Nat /\ Times(h, x) \in Nat /\ Times(n, x) \in Nat
          /\ Times(Tail(q), x) \in Nat /\ Times(q, x) \in Nat
      BY <1>1, <1>2, TimesAre
    <3>6. Times(n, x) = Times(h, x) + (IF e = x THEN 1 ELSE 0)
      BY <3>2, <3>3, <3>5
    <3> QED
      BY <3>1, <3>4, <3>5, <3>6
  <2> QED
    BY <2>1 DEF Conserved
<1>8. InOrder(col, n, Tail(q), g)
  <2>1. ASSUME Len(n) <= 1
        PROVE  /\ Spoken(col) \in Seq(Commands) /\ Spoken(n) \in Seq(Commands)
               /\ Spoken(col) \o Spoken(n) \o Tail(q) = g
    <3>1. /\ Spoken(col) \in Seq(Commands) /\ Spoken(col) \o Spoken(h) \o q = g
      BY <1>6, <2>1 DEF AtSlot, InOrder
    <3>2. t = 1 /\ Len(h) = 1
      BY <1>6, <2>1
    <3>3. Spoken(h) = Said(<<>>, h[1]) /\ Spoken(n) = Said(<<>>, n[1])
      BY <1>1, <1>6, <3>2, SpokenOfOne
    <3>4. Spoken(h) = <<>> /\ Spoken(n) = Append(<<>>, e)
      BY <1>4, <1>6, <3>2, <3>3 DEF Said
    <3>5. PICK w \in Seq(Commands) : w = Spoken(col)
      BY <3>1
    <3>6. w \o <<>> = w /\ Append(<<>>, e) = <<e>> /\ <<e>> \in Seq(Commands)
          /\ w \o <<e>> = Append(w, e)
      BY ConcatEmptySeq, AppendIsConcat
    <3>7. Append(w, Head(q)) \o Tail(q) = w \o q
      BY <1>1, TakeHead
    <3> QED
      BY <1>3, <3>1, <3>4, <3>5, <3>6, <3>7
  <2> QED
    BY <2>1 DEF InOrder
<1>9. AtSlot(col, n, Tail(q), g)
  BY <1>1, <1>2, <1>7, <1>8 DEF AtSlot
<1> QED
  BY <1>3, <1>5, <1>9

\* a frame thread sends its frame
LEMMA SlotSent ==
    ASSUME NEW col, NEW h, NEW q, NEW g, AtSlot(col, h, q, g), NEW t \in 1 .. Len(h)
    PROVE  AtSlot(Append(col, h[t]), [h EXCEPT ![t] = "FORWARD"], q, g)
<1>1. col \in Seq(Opts) /\ h \in Seq(Opts) /\ q \in Seq(Commands) /\ g \in Seq(Commands)
  BY DEF AtSlot
<1>2. PICK e \in Opts : e = h[t]
  BY <1>1, ElementOfSeq
<1>3. PICK f \in Opts : f = "FORWARD"
  BY Forward
<1>4. PICK n \in Seq(Opts) : n = [h EXCEPT ![t] = f]
  BY <1>1, ExceptSeq
<1>5. /\ Len(n) = Len(h) /\ Len(h) \in Nat /\ n[t] = f
      /\ \A j \in 1 .. Len(h) : j # t => n[j] = h[j]
  BY <1>1, <1>4, ExceptSeq, LenProperties
<1>6. Append(col, e) \in Seq(Opts)
  BY <1>1, AppendProperties
<1>7. Conserved(Append(col, e), n, q, g)
  <2>1. ASSUME NEW x \in Commands
        PROVE  Times(Append(col, e), x) + Times(n, x) + Times(q, x) = Times(g, x)
    <3>1. Times(col, x) + Times(h, x) + Times(q, x) = Times(g, x)
      BY DEF AtSlot, Conserved
    <3>2. f # x
      BY <1>3, Forward
    <3>3. Times(n, x) + (IF e = x THEN 1 ELSE 0) = Times(h, x) + (IF f = x THEN 1 ELSE 0)
      <4>1. Times(n, x) + (IF h[t] = x THEN 1 ELSE 0)
              = Times(h, x) + (IF f = x THEN 1 ELSE 0)
        <5>1. Changed(n, h, t, f)
          BY <1>5 DEF Changed
        <5> QED
          BY <1>1, <5>1, TimesChange
      <4> QED
        BY <1>2, <4>1
    <3>4. Times(Append(col, e), x) = Times(col, x) + (IF e = x THEN 1 ELSE 0)
      BY <1>1, TimesGrow
    <3>5. /\ Times(col, x) \in Nat /\ Times(h, x) \in Nat /\ Times(n, x) \in Nat
          /\ Times(q, x) \in Nat
      BY <1>1, TimesAre
    <3> QED
      BY <3>1, <3>2, <3>3, <3>4, <3>5
  <2> QED
    BY <2>1 DEF Conserved
<1>8. InOrder(Append(col, e), n, q, g)
  <2>1. ASSUME Len(n) <= 1
        PROVE  /\ Spoken(Append(col, e)) \in Seq(Commands) /\ Spoken(n) \in Seq(Commands)
               /\ Spoken(Append(col, e)) \o Spoken(n) \o q = g
    <3>1. /\ Spoken(col) \in Seq(Commands) /\ Spoken(h) \in Seq(Commands)
          /\ Spoken(col) \o Spoken(h) \o q = g
      BY <1>5, <2>1 DEF AtSlot, InOrder
    <3>2. t = 1 /\ Len(h) = 1
      BY <1>5, <2>1
    <3>3. Spoken(h) = Said(<<>>, e) /\ Spoken(n) = Said(<<>>, f)
      BY <1>1, <1>2, <1>5, <3>2, SpokenOfOne
    <3>4. Spoken(n) = <<>>
      BY <1>3, <3>3 DEF Said
    <3>5. Spoken(Append(col, e)) = Said(Spoken(col), e)
      BY <1>1, SpokenGrows
    <3>6. PICK w \in Seq(Commands) : w = Spoken(col)
      BY <3>1
    <3>7. <<>> \in Seq(Commands)
      BY EmptySeq
    <3>8. CASE e = "FORWARD"
      BY <3>1, <3>3, <3>4, <3>5, <3>7, <3>8 DEF Said
    <3>9. CASE e # "FORWARD"
      <4>1. Spoken(h) = Append(<<>>, e) /\ Spoken(Append(col, e)) = Append(w, e)
        BY <3>3, <3>5, <3>6, <3>9 DEF Said
      <4>2. Append(<<>>, e) \in Seq(Commands) /\ Len(Append(<<>>, e)) = 1 /\ Append(<<>>, e)[1] = e
        BY <3>1, <4>1
      <4>3. e \in Commands
        BY <4>2, ElementOfSeq
      <4>4. Append(<<>>, e) = <<e>> /\ <<e>> \in Seq(Commands) /\ w \o <<e>> = Append(w, e)
            /\ Append(w, e) \in Seq(Commands) /\ Append(w, e) \o <<>> = Append(w, e)
        BY <4>3, AppendIsConcat, AppendProperties, ConcatEmptySeq
      <4>5. Spoken(Append(col, e)) \o Spoken(n) = Spoken(col) \o Spoken(h)
        BY <3>4, <3>6, <4>1, <4>4
      <4> QED
        BY <3>1, <3>4, <3>7, <4>1, <4>4, <4>5
    <3> QED
      BY <3>8, <3>9
  <2> QED
    BY <2>1 DEF InOrder
<1>9. AtSlot(Append(col, e), n, q, g)
  BY <1>1, <1>6, <1>7, <1>8 DEF AtSlot
<1> QED
  BY <1>2, <1>3, <1>4, <1>9

\* the frames of a log: a command, or none, for each player in the order of their ids
SlotFrames == [1..Len(Slots) -> Opts]

ThreadsOK ==
    /\ threads \in Seq(Seq(Opts)) /\ threads = [t \in 1..Len(threads) |-> threads[t]]
    /\ \A t \in 1..Len(threads) : Len(threads[t]) <= Len(Slots)

QueuesOK ==
    /\ opts \in [Players -> Seq(Commands)] /\ issued \in [Players -> Seq(Commands)]
    /\ \A p \in Players : Len(opts[p]) <= Len(issued[p]) /\ Len(issued[p]) <= MaxOpts

InPlace(i) == AtSlot(Column(i), Hands(i), opts[Slots[i]], issued[Slots[i]])

OptInv ==
    /\ log \in Seq(SlotFrames) /\ faults \in 0..MaxFaults
    /\ ThreadsOK /\ QueuesOK
    /\ \A i \in 1..Len(Slots) : InPlace(i)

LEMMA OptInit == Init => OptInv
<1> SUFFICES ASSUME Init PROVE OptInv
  OBVIOUS
<1>1. /\ <<>> \in Seq(Commands) /\ <<>> \in Seq(SlotFrames) /\ <<>> \in Seq(Opts)
      /\ <<>> \in Seq(Seq(Opts)) /\ Len(<<>>) = 0
  BY EmptySeq
<1>2. log = <<>> /\ threads = <<>> /\ faults = 0 /\ 0 \in 0..MaxFaults /\ MaxOpts \in Nat
  BY GamePlayAssumption DEF Init
<1>3. ThreadsOK
  BY <1>1, <1>2 DEF ThreadsOK
<1>4. QueuesOK
  BY <1>1, <1>2 DEF Init, QueuesOK
<1>5. ASSUME NEW i \in 1..Len(Slots) PROVE InPlace(i)
  <2>1. Slots[i] \in Players
    BY SlotsAre
  <2>2. opts[Slots[i]] = <<>> /\ issued[Slots[i]] = <<>>
    BY <2>1 DEF Init
  <2>3. Column(i) = <<>> /\ Hands(i) = <<>>
    BY <1>1, <1>2 DEF Column, Hands
  <2>4. \A o : Times(<<>>, o) = 0
    BY <1>1, TimesAre, CountEmpty
  <2>5. Conserved(<<>>, <<>>, <<>>, <<>>)
    BY <2>4 DEF Conserved
  <2>6. <<>> \o <<>> = <<>>
    BY <1>1, ConcatEmptySeq
  <2>7. InOrder(<<>>, <<>>, <<>>, <<>>)
    BY <1>1, <2>6, SpokenOfNone DEF InOrder
  <2>8. AtSlot(<<>>, <<>>, <<>>, <<>>)
    BY <1>1, <2>5, <2>7 DEF AtSlot
  <2> QED
    BY <2>2, <2>3, <2>8 DEF InPlace
<1> QED
  BY <1>1, <1>2, <1>3, <1>4, <1>5 DEF OptInv

LEMMA AddGameoptWords ==
    ASSUME OptInv, NEW p \in Players, NEW o \in Commands, AddGameopt(p, o)
    PROVE  OptInv'
<1>1. /\ opts' = [opts EXCEPT ![p] = Append(@, o)] /\ issued' = [issued EXCEPT ![p] = Append(@, o)]
      /\ threads' = threads /\ log' = log /\ faults' = faults /\ Given < MaxOpts
  BY DEF AddGameopt
<1>2. opts \in [Players -> Seq(Commands)] /\ issued \in [Players -> Seq(Commands)]
  BY DEF OptInv, QueuesOK
<1>3. PICK a \in Seq(Commands) : a = opts[p]
  BY <1>2
<1>4. PICK b \in Seq(Commands) : b = issued[p]
  BY <1>2
<1>5. /\ Append(a, o) \in Seq(Commands) /\ Len(Append(a, o)) = Len(a) + 1
      /\ Append(b, o) \in Seq(Commands) /\ Len(Append(b, o)) = Len(b) + 1
      /\ Len(a) \in Nat /\ Len(b) \in Nat
  BY AppendProperties, LenProperties
<1>6. \A q \in Players : /\ opts'[q] = IF q = p THEN Append(a, o) ELSE opts[q]
                         /\ issued'[q] = IF q = p THEN Append(b, o) ELSE issued[q]
  BY <1>1, <1>2, <1>3, <1>4
<1>7. opts' \in [Players -> Seq(Commands)] /\ issued' \in [Players -> Seq(Commands)]
  BY <1>1, <1>2, <1>3, <1>4, <1>5
<1>8. Len(a) <= Len(b) /\ Len(b) + 1 <= MaxOpts /\ MaxOpts \in Nat
  <2>1. Len(issued[p]) \in Nat /\ Len(issued[p]) <= MaxOpts /\ MaxOpts \in Nat
    BY <1>4, <1>5, GamePlayAssumption DEF OptInv, QueuesOK
  <2>2. Cardinality({n \in Players \X (1 .. MaxOpts) : n[2] <= Len(issued[n[1]])}) < MaxOpts
    BY <1>1 DEF Given
  <2>3. PICK is : is = issued
    OBVIOUS
  <2>4. Len(is[p]) + 1 <= MaxOpts
    BY <2>1, <2>2, <2>3, FewGiven
  <2> QED
    BY <1>3, <1>4, <2>1, <2>3, <2>4 DEF OptInv, QueuesOK
<1>9. ASSUME NEW q \in Players PROVE Len(opts'[q]) <= Len(issued'[q]) /\ Len(issued'[q]) <= MaxOpts
  <2>1. CASE q = p
    <3>1. opts'[q] = Append(a, o) /\ issued'[q] = Append(b, o)
      BY <1>6, <2>1
    <3>2. PICK u \in Nat, v \in Nat : u = Len(a) /\ v = Len(b)
      BY <1>5
    <3>3. u <= v /\ v + 1 <= MaxOpts
      BY <1>8, <3>2
    <3>4. Len(opts'[q]) = u + 1 /\ Len(issued'[q]) = v + 1
      BY <1>5, <3>1, <3>2
    <3>5. u + 1 <= v + 1
      BY <3>3
    <3> QED
      BY <3>3, <3>4, <3>5
  <2>2. CASE q # p
    BY <1>6, <2>2 DEF OptInv, QueuesOK
  <2> QED
    BY <2>1, <2>2
<1>10. ASSUME NEW i \in 1..Len(Slots) PROVE InPlace(i)'
  <2>1. Slots[i] \in Players
    BY SlotsAre
  <2>2. PICK c : c = Column(i) /\ c = Column(i)'
    BY <1>1 DEF Column
  <2>3. PICK h : h = Hands(i) /\ h = Hands(i)'
    BY <1>1 DEF Hands
  <2>4. AtSlot(c, h, opts[Slots[i]], issued[Slots[i]])
    BY <2>2, <2>3 DEF OptInv, InPlace
  <2>5. AtSlot(c, h, opts'[Slots[i]], issued'[Slots[i]])
    <3>1. CASE Slots[i] = p
      <4>1. AtSlot(c, h, a, b)
        BY <1>3, <1>4, <2>4, <3>1
      <4>2. AtSlot(c, h, Append(a, o), Append(b, o))
        BY <4>1, SlotGiven
      <4> QED
        BY <1>6, <3>1, <4>2
    <3>2. CASE Slots[i] # p
      BY <1>6, <2>1, <2>4, <3>2
    <3> QED
      BY <3>1, <3>2
  <2> QED
    BY <2>2, <2>3, <2>5 DEF InPlace
<1>11. ThreadsOK'
  BY <1>1 DEF OptInv, ThreadsOK
<1>12. QueuesOK'
  BY <1>7, <1>9 DEF QueuesOK
<1> QED
  BY <1>1, <1>10, <1>11, <1>12 DEF OptInv

LEMMA SeqOfPlaces ==
    ASSUME NEW S, NEW s \in Seq(S)
    PROVE  s = [t \in 1..Len(s) |-> s[t]]
  OBVIOUS

\* A further frame thread has nothing in its hands.
LEMMA GameStartWords ==
    ASSUME OptInv, GameStart
    PROVE  OptInv'
<1>1. /\ threads' = Append(threads, <<>>) /\ opts' = opts /\ issued' = issued
      /\ log' = log /\ faults' = faults
  BY DEF GameStart
<1>2. PICK n \in Nat : n = Len(threads)
  BY LenProperties DEF OptInv, ThreadsOK
<1>3. /\ threads \in Seq(Seq(Opts)) /\ <<>> \in Seq(Opts) /\ Len(<<>>) = 0
      /\ \A t \in 1..n : Len(threads[t]) <= Len(Slots)
  BY <1>2, EmptySeq DEF OptInv, ThreadsOK
<1>4. /\ threads' \in Seq(Seq(Opts)) /\ Len(threads') = n + 1 /\ threads'[n + 1] = <<>>
      /\ \A t \in 1..n : threads'[t] = threads[t]
  BY <1>1, <1>2, <1>3, AppendProperties
<1>5. ThreadsOK'
  <2>1. ASSUME NEW t \in 1..(n + 1) PROVE Len(threads'[t]) <= Len(Slots)
    <3>1. CASE t = n + 1
      BY <1>3, <1>4, <3>1, SlotsAre
    <3>2. CASE t # n + 1
      <4>1. t \in 1..n
        BY <1>2, <3>2
      <4> QED
        BY <1>3, <1>4, <4>1
    <3> QED
      BY <3>1, <3>2
  <2>2. threads' = [t \in 1..Len(threads') |-> threads'[t]]
    BY <1>4
  <2> QED
    BY <1>4, <2>1, <2>2 DEF ThreadsOK
<1>6. ASSUME NEW i \in 1..Len(Slots) PROVE InPlace(i)'
  <2>1. AtSlot(Column(i), Hands(i), opts[Slots[i]], issued[Slots[i]])
    BY DEF OptInv, InPlace
  <2>2. Hands(i) \in Seq(Opts) /\ Len(Hands(i)) = n
    BY <1>2, <2>1 DEF AtSlot, Hands
  <2>3. PICK e \in Opts : e = "FORWARD"
    BY Forward
  <2>4. Hands(i)' = Append(Hands(i), e)
    <3>1. Hands(i)' = [t \in 1..(n + 1) |->
                         IF i <= Len(threads'[t]) THEN threads'[t][i] ELSE "FORWARD"]
      BY <1>4 DEF Hands
    <3>2. Append(Hands(i), e) = [t \in 1..(n + 1) |-> IF t = n + 1 THEN e ELSE Hands(i)[t]]
      <4>1. PICK h \in Seq(Opts) : h = Hands(i) /\ Len(h) = n
        BY <2>2
      <4>2. PICK a \in Seq(Opts) : a = Append(h, e)
        BY <4>1, AppendProperties
      <4>3. Len(a) = n + 1 /\ a[n + 1] = e /\ \A t \in 1..n : a[t] = h[t]
        BY <1>2, <4>1, <4>2, AppendProperties
      <4>4. a = [t \in 1..(n + 1) |-> a[t]]
        <5>1. a = [t \in 1..Len(a) |-> a[t]]
          BY <4>2, SeqOfPlaces
        <5> QED
          BY <4>3, <5>1
      <4>5. ASSUME NEW t \in 1..(n + 1) PROVE a[t] = IF t = n + 1 THEN e ELSE h[t]
        BY <1>2, <4>3
      <4>6. a = [t \in 1..(n + 1) |-> IF t = n + 1 THEN e ELSE h[t]]
        BY <4>4, <4>5
      <4> QED
        BY <4>1, <4>2, <4>6
    <3>3. ASSUME NEW t \in 1..(n + 1)
          PROVE  (IF i <= Len(threads'[t]) THEN threads'[t][i] ELSE "FORWARD")
                   = IF t = n + 1 THEN e ELSE Hands(i)[t]
      <4>1. CASE t = n + 1
        BY <1>3, <1>4, <2>3, <4>1
      <4>2. CASE t # n + 1
        BY <1>2, <1>4, <4>2 DEF Hands
      <4> QED
        BY <4>1, <4>2
    <3> QED
      BY <3>1, <3>2, <3>3
  <2>5. AtSlot(Column(i), Append(Hands(i), e), opts[Slots[i]], issued[Slots[i]])
    BY <2>1, <2>3, SlotBegun
  <2>6. Column(i)' = Column(i)
    BY <1>1 DEF Column
  <2> QED
    BY <1>1, <2>4, <2>5, <2>6 DEF InPlace
<1>7. QueuesOK'
  BY <1>1 DEF OptInv, QueuesOK
<1> QED
  BY <1>1, <1>5, <1>6, <1>7 DEF OptInv

LEMMA PopCommandWords ==
    ASSUME OptInv, NEW t \in DOMAIN threads, PopCommand(t)
    PROVE  OptInv'
<1>1. PICK k \in Nat : k = Len(threads[t]) + 1
  <2>1. threads[t] \in Seq(Opts)
    BY ElementOfSeq DEF OptInv, ThreadsOK
  <2>2. Len(threads[t]) + 1 \in Nat
    BY <2>1, LenProperties
  <2> QED
    BY <2>2
<1>2. PICK f \in Seq(Opts) : f = threads[t]
  BY ElementOfSeq DEF OptInv, ThreadsOK
<1>3. Len(f) \in Nat /\ k = Len(f) + 1 /\ k \in 1..Len(Slots)
  BY <1>1, <1>2, LenProperties, SlotsAre DEF PopCommand
<1>4. PICK p \in Players : p = Slots[k]
  BY <1>3, SlotsAre
<1>5. PICK q \in Seq(Commands) : q = opts[p]
  BY DEF OptInv, QueuesOK
<1>6. PICK e : e = Taken(p)
  OBVIOUS
<1>7. /\ threads' = [threads EXCEPT ![t] = Append(f, e)]
      /\ opts' = [opts EXCEPT ![p] = IF q = <<>> THEN <<>> ELSE Tail(q)]
      /\ issued' = issued /\ log' = log /\ faults' = faults
  BY <1>1, <1>2, <1>4, <1>5, <1>6 DEF PopCommand
<1>8. e = IF q = <<>> THEN "FORWARD" ELSE Head(q)
  BY <1>5, <1>6 DEF Taken
<1>9. e \in Opts
  BY <1>8, Forward, HeadTailProperties
<1>10. PICK m \in Seq(Opts) : m = Append(f, e)
  BY <1>9, AppendProperties
<1>11. Len(m) = k /\ m[k] = e /\ \A j \in 1..Len(f) : m[j] = f[j]
  BY <1>3, <1>9, <1>10, AppendProperties
<1>12. /\ threads \in Seq(Seq(Opts)) /\ t \in 1..Len(threads) /\ Len(threads) \in Nat
       /\ threads = [x \in 1..Len(threads) |-> threads[x]]
  BY LenProperties DEF OptInv, ThreadsOK
<1>13. /\ threads' \in Seq(Seq(Opts)) /\ Len(threads') = Len(threads)
       /\ \A x \in 1..Len(threads) : threads'[x] = IF x = t THEN m ELSE threads[x]
  BY <1>7, <1>10, <1>12, ExceptSeq
<1>14. ThreadsOK'
  <2>1. ASSUME NEW x \in 1..Len(threads) PROVE Len(threads'[x]) <= Len(Slots)
    <3>1. CASE x = t
      BY <1>3, <1>11, <1>13, <3>1, SlotsAre
    <3>2. CASE x # t
      BY <1>13, <3>2 DEF OptInv, ThreadsOK
    <3> QED
      BY <3>1, <3>2
  <2>2. threads' = [x \in 1..Len(threads') |-> threads'[x]]
    BY <1>13
  <2> QED
    BY <1>13, <2>1, <2>2 DEF ThreadsOK
<1>15. PICK r \in Seq(Commands) : r = IF q = <<>> THEN <<>> ELSE Tail(q)
  <2>1. <<>> \in Seq(Commands)
    BY EmptySeq
  <2>2. q # <<>> => Tail(q) \in Seq(Commands)
    BY HeadTailProperties
  <2> QED
    BY <2>1, <2>2
<1>16. /\ opts' \in [Players -> Seq(Commands)]
       /\ \A x \in Players : opts'[x] = IF x = p THEN r ELSE opts[x]
  BY <1>7, <1>15 DEF OptInv, QueuesOK
<1>17. QueuesOK'
  <2>1. Len(r) <= Len(q)
    <3>1. CASE q = <<>>
      BY <1>15, <3>1, LenProperties
    <3>2. CASE q # <<>>
      <4>1. Len(r) = Len(q) - 1 /\ Len(q) \in Nat
        BY <1>15, <3>2, HeadTailProperties, LenProperties
      <4> QED
        BY <4>1
    <3> QED
      BY <3>1, <3>2
  <2>2. ASSUME NEW x \in Players PROVE Len(opts'[x]) <= Len(issued'[x]) /\ Len(issued'[x]) <= MaxOpts
    <3>1. /\ Len(opts[x]) <= Len(issued[x]) /\ Len(issued[x]) <= MaxOpts
          /\ issued[x] \in Seq(Commands)
      BY DEF OptInv, QueuesOK
    <3>2. CASE x = p
      <4>1. Len(r) \in Nat /\ Len(q) \in Nat /\ Len(issued[x]) \in Nat
        BY <3>1, LenProperties
      <4>2. Len(q) <= Len(issued[x])
        BY <1>5, <3>1, <3>2
      <4>3. Len(r) <= Len(issued[x])
        BY <2>1, <4>1, <4>2
      <4> QED
        BY <1>7, <1>16, <3>1, <3>2, <4>3
    <3>3. CASE x # p
      BY <1>7, <1>16, <3>1, <3>3
    <3> QED
      BY <3>2, <3>3
  <2> QED
    BY <1>7, <1>16, <2>2 DEF OptInv, QueuesOK
<1>18. ASSUME NEW i \in 1..Len(Slots) PROVE InPlace(i)'
  <2>1. AtSlot(Column(i), Hands(i), opts[Slots[i]], issued[Slots[i]])
    BY DEF OptInv, InPlace
  <2>2. Column(i)' = Column(i)
    BY <1>7 DEF Column
  <2>3. /\ Hands(i) \in Seq(Opts) /\ Len(Hands(i)) = Len(threads)
        /\ Hands(i)[t] = IF i <= Len(f) THEN f[i] ELSE "FORWARD"
    BY <1>2, <1>12, <2>1 DEF AtSlot, Hands
  <2>4. PICK x \in Opts : x = IF i <= Len(m) THEN m[i] ELSE "FORWARD"
    <3>1. i <= Len(m) => m[i] \in Opts
      BY <1>1, <1>11, ElementOfSeq
    <3> QED
      BY <3>1, Forward
  <2>5. Hands(i)' = [Hands(i) EXCEPT ![t] = x]
    BY <1>12, <1>13, <2>4 DEF Hands
  <2>6. CASE i = k
    <3>1. Hands(i)[t] = "FORWARD" /\ x = e
      BY <1>3, <1>11, <2>3, <2>4, <2>6
    <3>2. Slots[i] = p /\ opts'[p] = r /\ opts[p] = q
      BY <1>4, <1>5, <1>16, <2>6
    <3>3. CASE q = <<>>
      <4>1. Hands(i)' = Hands(i)
        BY <1>8, <2>3, <2>5, <3>1, <3>3
      <4>2. opts'[p] = opts[p]
        BY <1>15, <3>2, <3>3
      <4> QED
        BY <1>7, <2>1, <2>2, <3>2, <4>1, <4>2 DEF InPlace
    <3>4. CASE q # <<>>
      <4>1. x = Head(q) /\ r = Tail(q)
        BY <1>8, <1>15, <3>1, <3>4
      <4>2. AtSlot(Column(i), Hands(i), q, issued[Slots[i]])
        BY <2>1, <3>2
      <4>3. t \in 1..Len(Hands(i))
        BY <1>12, <2>3
      <4>4. AtSlot(Column(i), [Hands(i) EXCEPT ![t] = Head(q)], Tail(q), issued[Slots[i]])
        BY <3>1, <3>4, <4>2, <4>3, SlotPopped
      <4>5. AtSlot(Column(i)', Hands(i)', opts'[Slots[i]], issued'[Slots[i]])
        BY <1>7, <2>2, <2>5, <3>2, <4>1, <4>4
      <4> QED
        BY <4>5 DEF InPlace
    <3> QED
      BY <3>3, <3>4
  <2>7. CASE i # k
    <3>1. x = Hands(i)[t]
      BY <1>3, <1>11, <2>3, <2>4, <2>7, SlotsAre
    <3>2. Hands(i)' = Hands(i)
      BY <2>3, <2>5, <3>1
    <3>3. Slots[i] # p /\ Slots[i] \in Players
      BY <1>3, <1>4, <2>7, SlotsAre
    <3>4. opts'[Slots[i]] = opts[Slots[i]]
      BY <1>16, <3>3
    <3> QED
      BY <1>7, <2>1, <2>2, <3>2, <3>4 DEF InPlace
  <2> QED
    BY <2>6, <2>7
<1> QED
  BY <1>7, <1>14, <1>17, <1>18 DEF OptInv

LEMMA SendToWords ==
    ASSUME OptInv, NEW t \in DOMAIN threads, SendTo(t)
    PROVE  OptInv'
<1>1. PICK f \in Seq(Opts) : f = threads[t]
  BY ElementOfSeq DEF OptInv, ThreadsOK
<1>2. /\ threads' = [threads EXCEPT ![t] = <<>>] /\ log' = Append(log, f)
      /\ opts' = opts /\ issued' = issued /\ faults' = faults /\ Len(f) = Len(Slots)
  BY <1>1 DEF SendTo
<1>3. f \in SlotFrames
  BY <1>2, ElementOfSeq DEF SlotFrames
<1>4. log \in Seq(SlotFrames) /\ log' \in Seq(SlotFrames)
  <2>1. log \in Seq(SlotFrames)
    BY DEF OptInv
  <2> QED
    BY <1>2, <1>3, <2>1, AppendProperties
<1>5. PICK n \in Nat : n = Len(log)
  BY <1>4, LenProperties
<1>6. Len(log') = n + 1 /\ log'[n + 1] = f /\ \A x \in 1..n : log'[x] = log[x]
  BY <1>2, <1>3, <1>4, <1>5, AppendProperties
<1>7. /\ threads \in Seq(Seq(Opts)) /\ t \in 1..Len(threads) /\ Len(threads) \in Nat
      /\ threads = [x \in 1..Len(threads) |-> threads[x]]
      /\ <<>> \in Seq(Opts) /\ Len(<<>>) = 0
  BY LenProperties, EmptySeq DEF OptInv, ThreadsOK
<1>8. /\ threads' \in Seq(Seq(Opts)) /\ Len(threads') = Len(threads)
      /\ \A x \in 1..Len(threads) : threads'[x] = IF x = t THEN <<>> ELSE threads[x]
  BY <1>2, <1>7, ExceptSeq
<1>9. ThreadsOK'
  <2>1. ASSUME NEW x \in 1..Len(threads) PROVE Len(threads'[x]) <= Len(Slots)
    <3>1. CASE x = t
      BY <1>7, <1>8, <3>1, SlotsAre
    <3>2. CASE x # t
      BY <1>8, <3>2 DEF OptInv, ThreadsOK
    <3> QED
      BY <3>1, <3>2
  <2>2. threads' = [x \in 1..Len(threads') |-> threads'[x]]
    BY <1>8
  <2> QED
    BY <1>8, <2>1, <2>2 DEF ThreadsOK
<1>10. QueuesOK'
  BY <1>2 DEF OptInv, QueuesOK
<1>11. ASSUME NEW i \in 1..Len(Slots) PROVE InPlace(i)'
  <2>1. AtSlot(Column(i), Hands(i), opts[Slots[i]], issued[Slots[i]])
    BY DEF OptInv, InPlace
  <2>2. i <= Len(f) /\ ~(i <= 0)
    BY <1>2, SlotsAre
  <2>3. /\ Hands(i) \in Seq(Opts) /\ Len(Hands(i)) = Len(threads) /\ Hands(i)[t] = f[i]
    BY <1>1, <1>7, <2>1, <2>2 DEF AtSlot, Hands
  <2>4. Hands(i)' = [Hands(i) EXCEPT ![t] = "FORWARD"]
    <3>1. Hands(i)' = [x \in 1..Len(threads) |->
              IF i <= Len(threads'[x]) THEN threads'[x][i] ELSE "FORWARD"]
      BY <1>8 DEF Hands
    <3>2. [Hands(i) EXCEPT ![t] = "FORWARD"] = [x \in 1..Len(threads) |->
              IF x = t THEN "FORWARD" ELSE Hands(i)[x]]
      BY <1>7 DEF Hands
    <3>3. ASSUME NEW x \in 1..Len(threads)
          PROVE  (IF i <= Len(threads'[x]) THEN threads'[x][i] ELSE "FORWARD")
                   = IF x = t THEN "FORWARD" ELSE Hands(i)[x]
      <4>1. CASE x = t
        BY <1>7, <1>8, <2>2, <4>1
      <4>2. CASE x # t
        BY <1>8, <4>2 DEF Hands
      <4> QED
        BY <4>1, <4>2
    <3> QED
      BY <3>1, <3>2, <3>3
  <2>5. f[i] \in Opts
    BY <2>2, SlotsAre, ElementOfSeq
  <2>6. Column(i)' = Append(Column(i), f[i])
    <3>1. Column(i)' = [x \in 1..(n + 1) |-> log'[x][i]]
      BY <1>6 DEF Column
    <3>2. Column(i) \in Seq(Opts) /\ Len(Column(i)) = n /\ \A x \in 1..n : Column(i)[x] = log[x][i]
      BY <1>5, <2>1 DEF AtSlot, Column
    <3>3. Append(Column(i), f[i]) = [x \in 1..(n + 1) |-> IF x = n + 1 THEN f[i] ELSE Column(i)[x]]
      BY <3>2
    <3>4. \A x \in 1..(n + 1) : log'[x][i] = IF x = n + 1 THEN f[i] ELSE Column(i)[x]
      BY <1>6, <3>2
    <3> QED
      BY <3>1, <3>3, <3>4
  <2>7. t \in 1..Len(Hands(i))
    BY <1>7, <2>3
  <2>8. AtSlot(Append(Column(i), Hands(i)[t]), [Hands(i) EXCEPT ![t] = "FORWARD"],
               opts[Slots[i]], issued[Slots[i]])
    BY <2>1, <2>7, SlotSent
  <2>9. AtSlot(Column(i)', Hands(i)', opts'[Slots[i]], issued'[Slots[i]])
    BY <1>2, <2>3, <2>4, <2>6, <2>8
  <2> QED
    BY <2>9 DEF InPlace
<1> QED
  BY <1>2, <1>4, <1>9, <1>10, <1>11 DEF OptInv

\* the other steps leave the commands and the frames alone
LEMMA WordsSame ==
    ASSUME OptInv, opts' = opts, issued' = issued, log' = log, threads' = threads,
           faults' \in 0..MaxFaults
    PROVE  OptInv'
BY DEF OptInv, ThreadsOK, QueuesOK, InPlace, Column, Hands

LEMMA StepWords == OptInv /\ [Next]_vars => OptInv'
<1> SUFFICES ASSUME OptInv, [Next]_vars PROVE OptInv'
  OBVIOUS
<1>0. faults \in 0..MaxFaults /\ MaxFaults \in Nat
  BY GamePlayAssumption DEF OptInv
<1>1. CASE GameStart
  BY <1>1, GameStartWords
<1>2. ASSUME NEW t \in DOMAIN threads, PopCommand(t) \/ SendTo(t) PROVE OptInv'
  BY <1>2, PopCommandWords, SendToWords
<1>3. ASSUME NEW p \in Players, NEW o \in Commands, AddGameopt(p, o) PROVE OptInv'
  BY <1>3, AddGameoptWords
<1>4. ASSUME NEW c \in Clients, NEW i \in 1 .. MaxPending, Lose(c, i) \/ Overtake(c, i)
      PROVE  OptInv'
  <2>1. /\ opts' = opts /\ issued' = issued /\ log' = log /\ threads' = threads
        /\ faults < MaxFaults /\ faults' = faults + 1
    BY <1>4 DEF Lose, Overtake
  <2>2. faults' \in 0..MaxFaults
    BY <1>0, <2>1
  <2> QED
    BY <1>0, <2>1, <2>2, WordsSame
<1>5. ASSUME NEW c \in Clients, Process(c) PROVE OptInv'
  <2>1. /\ opts' = opts /\ issued' = issued /\ log' = log /\ threads' = threads
        /\ faults' = faults
    BY <1>5 DEF Process, Begin, Stop, Bind, TestExit, Receive, Refresh, Wake, Becomes
  <2> QED
    BY <1>0, <2>1, WordsSame
<1>6. CASE UNCHANGED vars
  BY <1>0, <1>6, WordsSame DEF vars
<1> QED
  BY <1>1, <1>2, <1>3, <1>4, <1>5, <1>6 DEF Next, Server, Network

LEMMA OptInvHolds == Spec => []OptInv
  BY OptInit, StepWords, PTL DEF Spec

\* However the players' commands and any number of frame threads interleave,
\* each command reaches one frame, at its player's own place; while a room has
\* one frame thread, in the order in which they were given (add_gameopt,
\* send_frame_thread_func, start).
THEOREM OwnCommandsHolds == Spec => []OwnCommands
<1>1. ASSUME OptInv PROVE OwnCommands
  <2>1. ASSUME NEW i \in 1..Len(Slots)
        PROVE  LET p == Slots[i]
               IN  /\ \A o \in Commands :
                        Times(Column(i), o) + Times(Hands(i), o) + Times(opts[p], o)
                          = Times(issued[p], o)
                   /\ Len(threads) <= 1 =>
                        Spoken(Column(i)) \o Spoken(Hands(i)) \o opts[p] = issued[p]
    <3>1. /\ Conserved(Column(i), Hands(i), opts[Slots[i]], issued[Slots[i]])
          /\ InOrder(Column(i), Hands(i), opts[Slots[i]], issued[Slots[i]])
      BY <1>1 DEF OptInv, InPlace, AtSlot
    <3>2. Len(Hands(i)) = Len(threads)
      BY <1>1, LenProperties DEF OptInv, ThreadsOK, Hands
    <3> QED
      BY <3>1, <3>2 DEF Conserved, InOrder
  <2> QED
    BY <2>1 DEF OwnCommands
<1> QED
  BY <1>1, OptInvHolds, PTL

\* Every variable has its type: a client never holds more frames than are under
\* way to it, no map leaves the board's cells (send_frame_thread_func,
\* recv_frame_thread_func, move_core).
THEOREM GamePlayTypeCorrect == Spec => []TypeOK
<1>1. ASSUME OptInv, BoardInv PROVE TypeOK
  <2>1. /\ Commands \subseteq Opts /\ MaxOpts \in Nat /\ MaxPending \in Nat
    BY GamePlayAssumption
  <2>2. ASSUME NEW p \in Players
        PROVE  opts[p] \in SeqsUpTo(Opts, MaxOpts) /\ issued[p] \in SeqsUpTo(Opts, MaxOpts)
    <3>1. PICK a \in Seq(Commands) : a = opts[p]
      BY <1>1 DEF OptInv, QueuesOK
    <3>2. PICK b \in Seq(Commands) : b = issued[p]
      BY <1>1 DEF OptInv, QueuesOK
    <3>3. Len(a) <= Len(b) /\ Len(b) <= MaxOpts /\ Len(a) \in Nat /\ Len(b) \in Nat
      BY <1>1, <3>1, <3>2, LenProperties DEF OptInv, QueuesOK
    <3>4. a \in Seq(Opts) /\ b \in Seq(Opts)
      BY <2>1, SeqMonotonic
    <3>5. Len(a) <= MaxOpts
      BY <2>1, <3>3
    <3> QED
      BY <2>1, <3>1, <3>2, <3>3, <3>4, <3>5, UpTo
  <2>3. ASSUME NEW c \in Clients
        PROVE  /\ net[c] \in SeqsUpTo(Frames, MaxPending)
               /\ client[c].que \in SeqsUpTo(Frames, MaxPending)
               /\ client[c].board.map \in [Cells -> Kinds]
               /\ client[c].board.over \in [Cells -> Int]
               /\ client[c].board.state \in {"ok", "hung", "wild"}
               /\ \A p \in Players : ToSet(client[c].board.snakes[p]) \subseteq Cells
    <3>1. HeldBoard(client[c]) /\ HeldWay(client[c], net[c])
      BY <1>1 DEF BoardInv
    <3>2. PICK F : F = Frames
      OBVIOUS
    <3>3. PICK q \in Seq(F) : q = client[c].que
      BY <3>1, <3>2 DEF HeldWay
    <3>4. PICK n \in Seq(F) : n = net[c]
      BY <3>1, <3>2 DEF HeldWay
    <3>5. Len(n) + Len(q) <= MaxPending
      BY <3>1, <3>3, <3>4 DEF HeldWay
    <3>6. Len(n) \in Nat /\ Len(q) \in Nat
      BY LenProperties
    <3>7. Len(n) <= MaxPending /\ Len(q) <= MaxPending
      BY <2>1, <3>5, <3>6
    <3>8. n \in SeqsUpTo(F, MaxPending) /\ q \in SeqsUpTo(F, MaxPending)
      BY <2>1, <3>7, UpTo
    <3>9. PICK b \in Boards : b = client[c].board
      BY <3>1 DEF HeldBoard
    <3>10. b.map \in Shown /\ b.over \in Counts /\ b.snakes \in Nodes /\ b.state \in States
      BY BoardIs
    <3>11. ASSUME NEW p \in Players PROVE ToSet(b.snakes[p]) \subseteq Cells
      <4>1. b.snakes[p] \in Seq(Cells)
        BY <3>10 DEF Nodes
      <4> QED
        BY <4>1 DEF ToSet
    <3> QED
      BY <3>2, <3>3, <3>4, <3>8, <3>9, <3>10, <3>11 DEF Shown, Counts, States
  <2>4. ASSUME NEW t \in DOMAIN threads PROVE threads[t] \in SeqsUpTo(Opts, Len(Slots))
    <3>1. PICK f \in Seq(Opts) : f = threads[t]
      BY <1>1, ElementOfSeq DEF OptInv, ThreadsOK
    <3>2. Len(f) <= Len(Slots)
      BY <1>1, <3>1, LenProperties DEF OptInv, ThreadsOK
    <3> QED
      BY <3>1, <3>2, SlotsAre, UpTo
  <2> QED
    BY <1>1, <2>2, <2>3, <2>4 DEF TypeOK, OptInv, BoardInv
<1> QED
  BY <1>1, OptInvHolds, BoardInvHolds, PTL

=============================================================================
