-------------------------- MODULE ThreadPoolProofs ---------------------------
(***************************************************************************)
(* threadsafe_queue is a queue: with its two mutexes, and for any number   *)
(* of threads and nodes, it implements Fifo, by itself and as the          *)
(* work_queue of a thread_pool.                                            *)
(***************************************************************************)
EXTENDS ThreadPool, DataLemmas

AtPush(t) == call[t].pc \in {"fill", "link", "move"}

\* The nodes from head to tail, each with its data and linked to the next.
Linked ==
    /\ chain[1] = head /\ chain[Len(chain)] = tail
    /\ \A i, j \in 1..Len(chain) : chain[i] = chain[j] => i = j
    /\ \A i \in 1..(Len(chain) - 1) :
          node[chain[i]].data \in Values /\ node[chain[i]].next = chain[i + 1]

\* who is between taking and releasing a mutex holds it
Holders ==
    \A t \in Threads :
        /\ tailMutex = t <=> call[t].pc \in {"link", "move"}
        /\ headMutex = t <=> call[t].pc \in {"look", "pop", "sleep"}

\* the dummies that pushes have allocated are different, and not in the queue yet
Fresh ==
    \A t \in Threads : AtPush(t) =>
        /\ call[t].value \in Values /\ call[t].new \in Nodes
        /\ \A i \in 1..Len(chain) : chain[i] # call[t].new
        /\ \A u \in Threads : u # t /\ AtPush(u) => call[u].new # call[t].new

\* a push under way has written to the node at the tail
Filled ==
    \A t \in Threads :
        /\ call[t].pc \in {"link", "move"} => node[tail].data = call[t].value
        /\ call[t].pc = "move" => node[tail].next = call[t].new

Found == \A t \in Threads : call[t].pc = "pop" => head # tail

Asleep == \A t \in waiters : call[t].pc = "asleep"

QueueInv == TypeOK /\ Linked /\ Holders /\ Fresh /\ Filled /\ Found /\ Asleep

-----------------------------------------------------------------------------
LEMMA InitInv == Init => QueueInv
<1> SUFFICES ASSUME Init PROVE QueueInv
  OBVIOUS
<1> USE QueueAssumption
<1>1. NewNode \in [data : Values \cup {Nothing}, next : Nat]
  BY DEF NewNode, Null
<1>2. Idle \in Calls
  BY DEF Idle, Calls, Pcs, Null
<1>3. Len(node) = 1 /\ node \in Seq([data : Values \cup {Nothing}, next : Nat])
  BY <1>1 DEF Init
<1>4. TypeOK
  BY <1>2, <1>3 DEF Init, TypeOK, Nodes
<1>5. \A t \in Threads : call[t] = Idle
  BY DEF Init
<1>6. Linked
  BY DEF Init, Linked
<1> QED
  BY <1>4, <1>5, <1>6 DEF Init, QueueInv, Holders, Fresh, Filled, Found, Asleep, AtPush, Idle
LEMMA GotoEffect ==
    ASSUME TypeOK, NEW t \in Threads, NEW pc \in Pcs, Goto(t, pc)
    PROVE  /\ call' \in [Threads -> Calls]
           /\ call'[t].pc = pc /\ call'[t].op = call[t].op
           /\ call'[t].new = call[t].new /\ call'[t].value = call[t].value
           /\ \A u \in Threads \ {t} : call'[u] = call[u]
<1>1. call \in [Threads -> Calls] /\ call[t] \in Calls
  BY DEF TypeOK
<1>2. [call[t] EXCEPT !.pc = pc] \in Calls
  BY <1>1 DEF Calls
<1>3. call' = [call EXCEPT ![t] = [call[t] EXCEPT !.pc = pc]]
  BY DEF Goto
<1>4. call'[t] = [call[t] EXCEPT !.pc = pc]
  BY <1>1, <1>3
<1>5. call' \in [Threads -> Calls] /\ \A u \in Threads \ {t} : call'[u] = call[u]
  BY <1>1, <1>2, <1>3
<1>6. /\ [call[t] EXCEPT !.pc = pc].pc = pc
      /\ [call[t] EXCEPT !.pc = pc].op = call[t].op
      /\ [call[t] EXCEPT !.pc = pc].new = call[t].new
      /\ [call[t] EXCEPT !.pc = pc].value = call[t].value
  BY <1>1 DEF Calls
<1> QED
  BY <1>4, <1>5, <1>6

LEMMA ReturnEffect ==
    ASSUME TypeOK, NEW t \in Threads, Return(t)
    PROVE  /\ call' \in [Threads -> Calls] /\ call'[t] = Idle
           /\ \A u \in Threads \ {t} : call'[u] = call[u]
<1>1. Idle \in Calls
  BY DEF Idle, Calls, Pcs, Null
<1> QED
  BY <1>1 DEF TypeOK, Return

\* steps that allocate nothing and put nothing into the queue
LEMMA FreshKept ==
    ASSUME Fresh, Nodes' = Nodes, chain' = chain,
           \A u \in Threads : AtPush(u)' => /\ AtPush(u)
                                           /\ call'[u].new = call[u].new
                                           /\ call'[u].value = call[u].value
    PROVE  Fresh'
<1> SUFFICES ASSUME NEW t \in Threads, AtPush(t)'
             PROVE  /\ call'[t].value \in Values /\ call'[t].new \in Nodes'
                    /\ \A i \in 1..Len(chain') : chain'[i] # call'[t].new
                    /\ \A u \in Threads : u # t /\ AtPush(u)' => call'[u].new # call'[t].new
  BY DEF Fresh
<1> QED
  BY DEF Fresh

LEMMA StartPushInv ==
    ASSUME QueueInv, NEW t \in Threads, StartPush(t)
    PROVE  QueueInv'
<1> USE QueueAssumption DEF QueueInv
<1>0. PICK v \in Values :
        call' = [call EXCEPT ![t] = [op |-> "push", pc |-> "fill",
                                     new |-> Len(node) + 1, value |-> v]]
  BY DEF StartPush
<1>1. /\ node' = Append(node, NewNode) /\ call[t].pc = "idle"
      /\ UNCHANGED <<head, tail, headMutex, tailMutex, waiters, got, chain>>
  BY DEF StartPush
<1>2. NewNode \in [data : Values \cup {Nothing}, next : Nat]
  BY DEF NewNode, Null
<1>3. /\ node' \in Seq([data : Values \cup {Nothing}, next : Nat])
      /\ Len(node') = Len(node) + 1 /\ Len(node) \in Nat
      /\ \A n \in Nodes : node'[n] = node[n]
      /\ Nodes \subseteq Nodes' /\ Len(node) + 1 \in Nodes' /\ Len(node) + 1 \notin Nodes
  BY <1>1, <1>2 DEF TypeOK, Nodes
<1>4. [op |-> "push", pc |-> "fill", new |-> Len(node) + 1, value |-> v] \in Calls
  BY <1>3 DEF Calls, Pcs
<1>5. /\ call' \in [Threads -> Calls]
      /\ call'[t].pc = "fill" /\ call'[t].new = Len(node) + 1 /\ call'[t].value = v
      /\ \A u \in Threads \ {t} : call'[u] = call[u]
  BY <1>0, <1>4 DEF TypeOK
<1>6. TypeOK'
  <2>1. chain \in Seq(Nodes')
    BY <1>3 DEF TypeOK
  <2> QED
    BY <1>1, <1>3, <1>5, <2>1 DEF TypeOK
<1>7. \A i \in 1..Len(chain) : chain[i] \in Nodes
  BY DEF TypeOK
<1>8. Linked'
  <2>1. \A i \in 1..(Len(chain) - 1) : node'[chain[i]] = node[chain[i]]
    BY <1>3, <1>7
  <2> QED
    BY <1>1, <2>1 DEF Linked
<1>9. Holders' /\ Found' /\ Asleep'
  BY <1>1, <1>5 DEF Holders, Found, Asleep, TypeOK
<1>10. Fresh'
  <2>1. call'[t].value \in Values /\ call'[t].new \in Nodes'
    BY <1>3, <1>5
  <2>2. \A i \in 1..Len(chain) : chain[i] # call'[t].new
    BY <1>3, <1>5, <1>7
  <2>3. ASSUME NEW u \in Threads \ {t}, AtPush(u)
        PROVE  /\ call[u].value \in Values /\ call[u].new \in Nodes
               /\ call[u].new # call'[t].new
    BY <1>3, <1>5, <2>3 DEF Fresh
  <2> QED
    <3>1. \A u \in Threads \ {t} : AtPush(u)' <=> AtPush(u)
      BY <1>5 DEF AtPush
    <3>2. \A u, w \in Threads : u # w /\ AtPush(u) /\ AtPush(w) => call[u].new # call[w].new
      BY DEF Fresh
    <3>3. \A u \in Threads \ {t} : AtPush(u) => \A i \in 1..Len(chain) : chain[i] # call[u].new
      BY DEF Fresh
    <3>4. ASSUME NEW u \in Threads, AtPush(u)'
          PROVE  /\ call'[u].value \in Values /\ call'[u].new \in Nodes'
                 /\ \A i \in 1..Len(chain') : chain'[i] # call'[u].new
                 /\ \A w \in Threads : w # u /\ AtPush(w)' => call'[w].new # call'[u].new
      <4>1. CASE u = t
        BY <1>1, <1>5, <2>1, <2>2, <2>3, <3>1, <4>1
      <4>2. CASE u # t
        <5>1. AtPush(u) /\ call'[u] = call[u]
          BY <1>5, <3>1, <3>4, <4>2
        <5>2. \A w \in Threads \ {t} : w # u /\ AtPush(w)' => call'[w].new # call'[u].new
          BY <1>5, <3>1, <3>2, <5>1
        <5>3. call'[t].new # call'[u].new
          BY <2>3, <4>2, <5>1
        <5>4. call'[u].value \in Values /\ call'[u].new \in Nodes'
          BY <1>3, <2>3, <4>2, <5>1
        <5> QED
          BY <1>1, <3>3, <4>2, <5>1, <5>2, <5>3, <5>4
      <4> QED
        BY <4>1, <4>2
    <3> QED
      BY <3>4 DEF Fresh
<1>11. Filled'
  <2>1. node'[tail] = node[tail] /\ tail' = tail
    BY <1>1, <1>3 DEF TypeOK
  <2>2. \A u \in Threads : call'[u].pc \in {"link", "move"} => u # t /\ call'[u] = call[u]
    BY <1>5
  <2> QED
    BY <2>1, <2>2 DEF Filled
<1> QED
  BY <1>6, <1>8, <1>9, <1>10, <1>11

LEMMA StartPushKeeps ==
    ASSUME QueueInv, NEW t \in Threads, StartPush(t)
    PROVE  Contents' = Contents /\ got' = got
<1>1. node' = Append(node, NewNode) /\ UNCHANGED <<chain, got>>
  BY DEF StartPush
<1>2. /\ chain \in Seq(Nodes) /\ Len(chain) \in Nat
      /\ node \in Seq([data : Values \cup {Nothing}, next : Nat])
  BY DEF QueueInv, TypeOK
<1>3. \A i \in 1..(Len(chain) - 1) : chain[i] \in Nodes
  BY <1>2
<1>4. \A n \in Nodes : node'[n] = node[n]
  BY <1>1, <1>2 DEF Nodes
<1> QED
  BY <1>1, <1>3, <1>4 DEF Contents

LEMMA FillKeeps ==
    ASSUME QueueInv, NEW t \in Threads, PushFill(t) \/ PushLink(t)
    PROVE  Contents' = Contents /\ got' = got
<1>1. \A n \in Nodes \ {tail} : node'[n] = node[n]
  BY DEF PushFill, PushLink, QueueInv, TypeOK, Nodes
<1>2. UNCHANGED <<chain, got>>
  BY DEF PushFill, PushLink
<1>3. chain \in Seq(Nodes) /\ Len(chain) \in Nat
  BY DEF QueueInv, TypeOK
<1>4. \A i \in 1..(Len(chain) - 1) : chain[i] # tail /\ chain[i] \in Nodes
  BY <1>3 DEF QueueInv, Linked
<1> QED
  BY <1>1, <1>2, <1>4 DEF Contents

LEMMA PushFillInv ==
    ASSUME QueueInv, NEW t \in Threads, PushFill(t)
    PROVE  QueueInv'
<1> USE QueueAssumption DEF QueueInv
<1>1. /\ call[t].pc = "fill" /\ tailMutex = NoThread /\ tailMutex' = t
      /\ UNCHANGED <<head, tail, headMutex, waiters, got, chain>>
  BY DEF PushFill
<1>2. tail \in Nodes /\ call[t].value \in Values /\ call[t] \in Calls
  BY <1>1 DEF Fresh, AtPush, TypeOK
<1>3. /\ node' \in Seq([data : Values \cup {Nothing}, next : Nat])
      /\ Len(node') = Len(node) /\ Nodes' = Nodes
      /\ \A n \in Nodes \ {tail} : node'[n] = node[n]
      /\ node'[tail].data = call[t].value /\ node'[tail].next = node[tail].next
  <2>1. /\ node \in Seq([data : Values \cup {Nothing}, next : Nat])
        /\ node[tail] \in [data : Values \cup {Nothing}, next : Nat]
        /\ call[t].new \in Nat
    <3>1. node \in Seq([data : Values \cup {Nothing}, next : Nat])
      BY DEF TypeOK
    <3>2. tail \in 1..Len(node) /\ call[t].new \in Nat
      BY <1>2 DEF Nodes, Calls
    <3> QED
      BY <3>1, <3>2, ElementOfSeq
  <2>2. [data |-> call[t].value, next |-> node[tail].next] \in [data : Values \cup {Nothing}, next : Nat]
    BY <1>2, <2>1
  <2> QED
    BY <1>2, <2>1, <2>2, ExceptSeq DEF PushFill, Nodes
<1>4. /\ call' \in [Threads -> Calls] /\ call'[t].pc = "link"
      /\ call'[t].new = call[t].new /\ call'[t].value = call[t].value
      /\ \A u \in Threads \ {t} : call'[u] = call[u]
  BY GotoEffect DEF PushFill, Pcs
<1>5. TypeOK'
  BY <1>1, <1>3, <1>4 DEF TypeOK
<1>6. Linked'
  <2>1. \A i \in 1..(Len(chain) - 1) : chain[i] # tail /\ chain[i] \in Nodes
    <3>1. Len(chain) \in Nat /\ chain \in Seq(Nodes)
      BY DEF TypeOK
    <3> QED
      BY <3>1 DEF Linked
  <2>2. \A i \in 1..(Len(chain) - 1) : node'[chain[i]] = node[chain[i]]
    BY <1>3, <2>1
  <2> QED
    BY <1>1, <2>2 DEF Linked
<1>7. Holders'
  BY <1>1, <1>4 DEF Holders
<1>8. Fresh'
  <2>1. \A u \in Threads : AtPush(u)' => /\ AtPush(u)
                                         /\ call'[u].new = call[u].new
                                         /\ call'[u].value = call[u].value
    BY <1>1, <1>4 DEF AtPush
  <2> QED
    BY <1>1, <1>3, <2>1, FreshKept
<1>12. Found' /\ Asleep'
  BY <1>1, <1>4 DEF Found, Asleep, TypeOK
<1>9. Filled'
  BY <1>1, <1>3, <1>4 DEF Filled, Holders
<1> QED
  BY <1>5, <1>6, <1>7, <1>8, <1>9, <1>12

LEMMA PushLinkInv ==
    ASSUME QueueInv, NEW t \in Threads, PushLink(t)
    PROVE  QueueInv'
<1> USE QueueAssumption DEF QueueInv
<1>1. /\ call[t].pc = "link"
      /\ UNCHANGED <<head, tail, headMutex, tailMutex, waiters, got, chain>>
  BY DEF PushLink
<1>2. tail \in Nodes /\ call[t].new \in Nodes /\ call[t] \in Calls /\ tailMutex = t
  BY <1>1 DEF Fresh, AtPush, TypeOK, Holders
<1>3. /\ node' \in Seq([data : Values \cup {Nothing}, next : Nat])
      /\ Len(node') = Len(node) /\ Nodes' = Nodes
      /\ \A n \in Nodes \ {tail} : node'[n] = node[n]
      /\ node'[tail].data = node[tail].data /\ node'[tail].next = call[t].new
  <2>1. /\ node \in Seq([data : Values \cup {Nothing}, next : Nat])
        /\ node[tail] \in [data : Values \cup {Nothing}, next : Nat]
        /\ call[t].new \in Nat
    <3>1. node \in Seq([data : Values \cup {Nothing}, next : Nat])
      BY DEF TypeOK
    <3>2. tail \in 1..Len(node) /\ call[t].new \in Nat
      BY <1>2 DEF Nodes, Calls
    <3> QED
      BY <3>1, <3>2, ElementOfSeq
  <2>2. [data |-> node[tail].data, next |-> call[t].new] \in [data : Values \cup {Nothing}, next : Nat]
    BY <1>2, <2>1
  <2> QED
    BY <1>2, <2>1, <2>2, ExceptSeq DEF PushLink, Nodes
<1>4. /\ call' \in [Threads -> Calls] /\ call'[t].pc = "move"
      /\ call'[t].new = call[t].new /\ call'[t].value = call[t].value
      /\ \A u \in Threads \ {t} : call'[u] = call[u]
  BY GotoEffect DEF PushLink, Pcs
<1>5. TypeOK'
  BY <1>1, <1>3, <1>4 DEF TypeOK
<1>6. Linked'
  <2>1. \A i \in 1..(Len(chain) - 1) : chain[i] # tail /\ chain[i] \in Nodes
    <3>1. Len(chain) \in Nat /\ chain \in Seq(Nodes)
      BY DEF TypeOK
    <3> QED
      BY <3>1 DEF Linked
  <2>2. \A i \in 1..(Len(chain) - 1) : node'[chain[i]] = node[chain[i]]
    BY <1>3, <2>1
  <2> QED
    BY <1>1, <2>2 DEF Linked
<1>7. Holders'
  BY <1>1, <1>4 DEF Holders
<1>8. Fresh'
  <2>1. \A u \in Threads : AtPush(u)' => /\ AtPush(u)
                                         /\ call'[u].new = call[u].new
                                         /\ call'[u].value = call[u].value
    BY <1>1, <1>4 DEF AtPush
  <2> QED
    BY <1>1, <1>3, <2>1, FreshKept
<1>12. Found' /\ Asleep'
  BY <1>1, <1>4 DEF Found, Asleep, TypeOK
<1>9. Filled'
  BY <1>1, <1>2, <1>3, <1>4 DEF Filled, Holders
<1> QED
  BY <1>5, <1>6, <1>7, <1>8, <1>9, <1>12

\* the step at which a push takes effect
LEMMA PushMoveInv ==
    ASSUME QueueInv, NEW t \in Threads, PushMove(t)
    PROVE  QueueInv' /\ Contents' = Append(Contents, call[t].value)
<1> USE QueueAssumption DEF QueueInv
<1>1. /\ call[t].pc = "move" /\ tail' = call[t].new /\ tailMutex' = NoThread
      /\ chain' = Append(chain, call[t].new)
      /\ UNCHANGED <<node, head, headMutex, waiters, got>>
  BY DEF PushMove
<1>2. /\ call[t].new \in Nodes /\ call[t].value \in Values /\ call[t] \in Calls
      /\ tailMutex = t
      /\ node[tail].data = call[t].value /\ node[tail].next = call[t].new
  BY <1>1 DEF Fresh, AtPush, TypeOK, Holders, Filled
<1>3. /\ chain \in Seq(Nodes) /\ Len(chain) \in Nat \ {0}
      /\ chain' \in Seq(Nodes) /\ Len(chain') = Len(chain) + 1
      /\ \A i \in 1..Len(chain) : chain'[i] = chain[i]
      /\ chain'[Len(chain')] = call[t].new
  BY <1>1, <1>2 DEF TypeOK
<1>4. /\ call' \in [Threads -> Calls] /\ call'[t].pc = "notify"
      /\ \A u \in Threads \ {t} : call'[u] = call[u]
  BY GotoEffect DEF PushMove, Pcs
<1>5. TypeOK'
  <2>1. Nodes' = Nodes /\ tail' \in Nodes /\ tailMutex' \in Threads \cup {NoThread}
    BY <1>1, <1>2 DEF Nodes
  <2>2. chain' \in Seq(Nodes) /\ chain' # <<>>
    BY <1>3
  <2> QED
    BY <1>1, <1>4, <2>1, <2>2 DEF TypeOK
<1>6. \A i \in 1..Len(chain) : chain[i] # call[t].new
  BY <1>1 DEF Fresh, AtPush
<1>7. Linked'
  <2>1. \A i, j \in 1..Len(chain') : chain'[i] = chain'[j] => i = j
    BY <1>3, <1>6 DEF Linked
  <2>2. ASSUME NEW i \in 1..(Len(chain') - 1)
        PROVE  node[chain'[i]].data \in Values /\ node[chain'[i]].next = chain'[i + 1]
    BY <1>2, <1>3 DEF Linked
  <2>3. chain'[1] = head
    BY <1>3 DEF Linked
  <2> QED
    BY <1>1, <1>3, <2>1, <2>2, <2>3 DEF Linked
<1>8. Holders'
  BY <1>1, <1>2, <1>4 DEF Holders
<1>9. Fresh'
  BY <1>1, <1>3, <1>4 DEF Fresh, AtPush, Nodes
<1>10. Filled'
  BY <1>1, <1>2, <1>4 DEF Filled, Holders
<1>11. Found' /\ Asleep'
  <2>1. head' # tail'
    <3>1. head = chain[1] /\ 1 \in 1..Len(chain)
      BY <1>3 DEF Linked
    <3> QED
      BY <1>1, <1>6, <3>1
  <2> QED
    <3>1. Found'
      BY <2>1 DEF Found
    <3>2. Asleep'
      BY <1>1, <1>4 DEF Asleep, TypeOK
    <3> QED
      BY <3>1, <3>2
<1>12. Contents' = Append(Contents, call[t].value)
  <2>1. /\ Contents = [i \in 1..(Len(chain) - 1) |-> node[chain[i]].data]
        /\ Contents' = [i \in 1..Len(chain) |-> node[chain[i]].data]
    BY <1>1, <1>3 DEF Contents
  <2>2. node[chain[Len(chain)]].data = call[t].value
    BY <1>2 DEF Linked
  <2>3. Contents \in Seq(Values) /\ Len(Contents) = Len(chain) - 1
    BY <1>3, <2>1 DEF Linked
  <2> QED
    BY <1>3, <2>1, <2>2, <2>3
<1> QED
  BY <1>5, <1>7, <1>8, <1>9, <1>10, <1>11, <1>12

\* steps that leave the list and the pushes as they are
LEMMA ListKept ==
    ASSUME QueueInv, UNCHANGED <<node, head, tail, tailMutex, chain>>,
           \A u \in Threads : call'[u].pc \in {"fill", "link", "move"} \/
                              call[u].pc \in {"fill", "link", "move"} => call'[u] = call[u]
    PROVE  Linked' /\ Fresh' /\ Filled' /\ Contents' = Contents
<1> USE DEF QueueInv
<1>1. Linked' /\ Contents' = Contents
  BY DEF Linked, Contents
<1>2. \A u \in Threads : AtPush(u)' => /\ AtPush(u)
                                       /\ call'[u].new = call[u].new
                                       /\ call'[u].value = call[u].value
  BY DEF AtPush
<1>3. Fresh'
  BY <1>2, FreshKept DEF Nodes
<1>4. Filled'
  BY DEF Filled
<1> QED
  BY <1>1, <1>3, <1>4

LEMMA NotifyInv ==
    ASSUME QueueInv, NEW t \in Threads, Notify(t)
    PROVE  QueueInv' /\ Contents' = Contents /\ got' = got
<1> USE QueueAssumption DEF QueueInv
<1>1. /\ call[t].pc = "notify"
      /\ UNCHANGED <<node, head, tail, headMutex, tailMutex, got, chain>>
  BY DEF Notify
<1>2. CASE waiters = {} /\ Return(t) /\ UNCHANGED waiters
  <2>1. /\ call' \in [Threads -> Calls] /\ call'[t].pc = "idle"
        /\ \A u \in Threads \ {t} : call'[u] = call[u]
    BY <1>2, ReturnEffect DEF Idle
  <2>2. Linked' /\ Fresh' /\ Filled' /\ Contents' = Contents
    BY <1>1, <2>1, ListKept
  <2>3. Holders' /\ Found' /\ Asleep'
    BY <1>1, <1>2, <2>1 DEF Holders, Found, Asleep
  <2> QED
    BY <1>1, <1>2, <2>1, <2>2, <2>3 DEF TypeOK, Nodes
<1>3. ASSUME NEW w \in waiters, waiters' = waiters \ {w},
             call' = [call EXCEPT ![t] = Idle, ![w] = [call[w] EXCEPT !.pc = "lock"]]
      PROVE  QueueInv' /\ Contents' = Contents
  <2>1. w \in Threads /\ call[w].pc = "asleep" /\ w # t /\ call[w] \in Calls
    BY <1>1 DEF TypeOK, Asleep
  <2>2. Idle \in Calls /\ [call[w] EXCEPT !.pc = "lock"] \in Calls /\ Idle.pc = "idle"
        /\ [call[w] EXCEPT !.pc = "lock"].pc = "lock"
    BY <2>1 DEF Idle, Calls, Pcs, Null
  <2>3. /\ call' \in [Threads -> Calls] /\ call'[t].pc = "idle" /\ call'[w].pc = "lock"
        /\ \A u \in Threads \ {t, w} : call'[u] = call[u]
    BY <1>3, <2>1, <2>2 DEF TypeOK
  <2>4. Linked' /\ Fresh' /\ Filled' /\ Contents' = Contents
    BY <1>1, <2>1, <2>3, ListKept
  <2>5. Holders' /\ Found'
    BY <1>1, <2>1, <2>3 DEF Holders, Found
  <2>6. Asleep'
    BY <1>1, <1>3, <2>1, <2>3 DEF Asleep, TypeOK
  <2> QED
    BY <1>1, <1>3, <2>3, <2>4, <2>5, <2>6 DEF TypeOK, Nodes
<1> QED
  BY <1>1, <1>2, <1>3 DEF Notify

LEMMA StartPopInv ==
    ASSUME QueueInv, NEW t \in Threads, NEW op \in {"try_pop", "wait_and_pop", "empty"},
           StartPop(t, op)
    PROVE  QueueInv' /\ Contents' = Contents /\ got' = got
<1> USE QueueAssumption DEF QueueInv
<1>1. /\ call[t].pc = "idle"
      /\ UNCHANGED <<node, head, tail, headMutex, tailMutex, waiters, got, chain>>
  BY DEF StartPop
<1>2. /\ [Idle EXCEPT !.op = op, !.pc = "lock"] \in Calls
      /\ [Idle EXCEPT !.op = op, !.pc = "lock"].pc = "lock"
  BY DEF Idle, Calls, Pcs, Null
<1>3. /\ call' \in [Threads -> Calls] /\ call'[t].pc = "lock"
      /\ \A u \in Threads \ {t} : call'[u] = call[u]
  BY <1>2 DEF StartPop, TypeOK
<1>4. Linked' /\ Fresh' /\ Filled' /\ Contents' = Contents
  BY <1>1, <1>3, ListKept
<1>5. Holders' /\ Found' /\ Asleep'
  BY <1>1, <1>3 DEF Holders, Found, Asleep, TypeOK
<1> QED
  BY <1>1, <1>3, <1>4, <1>5 DEF TypeOK, Nodes

LEMMA LockHeadInv ==
    ASSUME QueueInv, NEW t \in Threads, LockHead(t)
    PROVE  QueueInv' /\ Contents' = Contents /\ got' = got
<1> USE QueueAssumption DEF QueueInv
<1>1. /\ call[t].pc = "lock" /\ headMutex = NoThread /\ headMutex' = t
      /\ UNCHANGED <<node, head, tail, tailMutex, waiters, got, chain>>
  BY DEF LockHead
<1>2. /\ call' \in [Threads -> Calls] /\ call'[t].pc = "look"
      /\ \A u \in Threads \ {t} : call'[u] = call[u]
  BY GotoEffect DEF LockHead, Pcs
<1>3. Linked' /\ Fresh' /\ Filled' /\ Contents' = Contents
  BY <1>1, <1>2, ListKept
<1>4. Holders' /\ Found' /\ Asleep'
  BY <1>1, <1>2 DEF Holders, Found, Asleep, TypeOK
<1> QED
  BY <1>1, <1>2, <1>3, <1>4 DEF TypeOK, Nodes

\* a look that finds nothing finds the queue empty
LEMMA LookInv ==
    ASSUME QueueInv, NEW t \in Threads, Look(t)
    PROVE  /\ QueueInv' /\ Contents' = Contents
           /\ got' = got \/ (Contents = <<>> /\ got' = [got EXCEPT ![t] = Nothing])
<1> USE QueueAssumption DEF QueueInv
<1>1. /\ call[t].pc = "look" /\ headMutex = t
      /\ UNCHANGED <<node, head, tail, tailMutex, waiters, chain>>
  BY DEF Look, LookAt, Holders
<1>2. ASSUME head = tail PROVE Contents = <<>>
  <2>1. Len(chain) \in Nat \ {0} /\ 1 \in 1..Len(chain) /\ Len(chain) \in 1..Len(chain)
    BY DEF TypeOK
  <2>2. Len(chain) = 1
    BY <1>2, <2>1 DEF Linked
  <2> QED
    BY <2>2 DEF Contents
<1>3. \/ Return(t) /\ headMutex' = NoThread
      \/ Goto(t, "sleep") /\ headMutex' = headMutex
      \/ Goto(t, "pop") /\ headMutex' = headMutex /\ head # tail
  BY DEF Look, LookAt
<1>4. got' = got \/ (head = tail /\ got' = [got EXCEPT ![t] = Nothing])
  BY DEF Look, LookAt
<1>5. /\ call' \in [Threads -> Calls]
      /\ \/ call'[t].pc = "idle" /\ headMutex' = NoThread
         \/ call'[t].pc = "sleep" /\ headMutex' = t
         \/ call'[t].pc = "pop" /\ headMutex' = t /\ head # tail
      /\ \A u \in Threads \ {t} : call'[u] = call[u]
  BY <1>1, <1>3, GotoEffect, ReturnEffect DEF Pcs, Idle
<1>6. Linked' /\ Fresh' /\ Filled' /\ Contents' = Contents
  BY <1>1, <1>5, ListKept
<1>7. Holders' /\ Found' /\ Asleep'
  BY <1>1, <1>5 DEF Holders, Found, Asleep, TypeOK
<1>8. got' \in [Threads -> Values \cup {Nothing}]
  BY <1>4 DEF TypeOK
<1> QED
  BY <1>1, <1>2, <1>4, <1>5, <1>6, <1>7, <1>8 DEF TypeOK, Nodes

LEMMA SleepInv ==
    ASSUME QueueInv, NEW t \in Threads, Sleep(t)
    PROVE  QueueInv' /\ Contents' = Contents /\ got' = got
<1> USE QueueAssumption DEF QueueInv
<1>1. /\ call[t].pc = "sleep" /\ headMutex = t /\ headMutex' = NoThread
      /\ waiters' = waiters \cup {t}
      /\ UNCHANGED <<node, head, tail, tailMutex, got, chain>>
  BY DEF Sleep, Holders
<1>2. /\ call' \in [Threads -> Calls] /\ call'[t].pc = "asleep"
      /\ \A u \in Threads \ {t} : call'[u] = call[u]
  BY GotoEffect DEF Sleep, Pcs
<1>3. Linked' /\ Fresh' /\ Filled' /\ Contents' = Contents
  BY <1>1, <1>2, ListKept
<1>4. Holders' /\ Found' /\ Asleep'
  BY <1>1, <1>2 DEF Holders, Found, Asleep, TypeOK
<1> QED
  BY <1>1, <1>2, <1>3, <1>4 DEF TypeOK, Nodes

LEMMA WakeInv ==
    ASSUME QueueInv, NEW t \in Threads, WakeSpuriously(t)
    PROVE  QueueInv' /\ Contents' = Contents /\ got' = got
<1> USE QueueAssumption DEF QueueInv
<1>1. /\ call[t].pc = "asleep" /\ t \in waiters /\ waiters' = waiters \ {t}
      /\ UNCHANGED <<node, head, tail, headMutex, tailMutex, got, chain>>
  BY DEF WakeSpuriously, Asleep
<1>2. /\ call' \in [Threads -> Calls] /\ call'[t].pc = "lock"
      /\ \A u \in Threads \ {t} : call'[u] = call[u]
  BY GotoEffect DEF WakeSpuriously, Pcs
<1>3. Linked' /\ Fresh' /\ Filled' /\ Contents' = Contents
  BY <1>1, <1>2, ListKept
<1>4. Holders' /\ Found' /\ Asleep'
  BY <1>1, <1>2 DEF Holders, Found, Asleep, TypeOK
<1> QED
  BY <1>1, <1>2, <1>3, <1>4 DEF TypeOK, Nodes

\* the step at which a pop takes effect
LEMMA PopHeadInv ==
    ASSUME QueueInv, NEW t \in Threads, PopHead(t)
    PROVE  /\ QueueInv' /\ Contents # <<>> /\ Contents' = Tail(Contents)
           /\ got' = [got EXCEPT ![t] = Head(Contents)]
<1> USE QueueAssumption DEF QueueInv
<1>1. /\ call[t].pc = "pop" /\ head # tail
      /\ got' = [got EXCEPT ![t] = node[head].data]
      /\ head' = node[head].next /\ headMutex' = NoThread /\ chain' = Tail(chain)
      /\ UNCHANGED <<node, tail, tailMutex, waiters>>
  BY DEF PopHead, Found
<1>2. /\ call' \in [Threads -> Calls] /\ call'[t].pc = "idle"
      /\ \A u \in Threads \ {t} : call'[u] = call[u]
  BY ReturnEffect DEF PopHead, Idle
<1>3. /\ chain \in Seq(Nodes) /\ Len(chain) \in Nat /\ Len(chain) > 1
  BY <1>1 DEF TypeOK, Linked
<1>4. /\ chain' \in Seq(Nodes) /\ Len(chain') = Len(chain) - 1 /\ chain' # <<>>
      /\ \A i \in 1..(Len(chain) - 1) : chain'[i] = chain[i + 1]
  BY <1>1, <1>3
<1>5. /\ head' = chain[2] /\ head' \in Nodes /\ node[head].data \in Values
  BY <1>1, <1>3 DEF Linked
<1>6. TypeOK'
  BY <1>1, <1>2, <1>4, <1>5 DEF TypeOK, Nodes
<1>7. Linked'
  <2>1. chain'[1] = head' /\ chain'[Len(chain')] = tail'
    BY <1>1, <1>3, <1>4, <1>5 DEF Linked
  <2>2. \A i, j \in 1..Len(chain') : chain'[i] = chain'[j] => i = j
    BY <1>3, <1>4 DEF Linked
  <2>3. ASSUME NEW i \in 1..(Len(chain') - 1)
        PROVE  node[chain'[i]].data \in Values /\ node[chain'[i]].next = chain'[i + 1]
    <3>1. i + 1 \in 1..(Len(chain) - 1) /\ chain'[i] = chain[i + 1]
          /\ chain'[i + 1] = chain[(i + 1) + 1]
      BY <1>3, <1>4
    <3> QED
      BY <3>1 DEF Linked
  <2> QED
    BY <1>1, <2>1, <2>2, <2>3 DEF Linked
<1>8. Fresh'
  <2>1. \A i \in 1..Len(chain') : i + 1 \in 1..Len(chain) /\ chain'[i] = chain[i + 1]
    BY <1>3, <1>4
  <2>2. \A u \in Threads : AtPush(u)' => AtPush(u) /\ call'[u] = call[u]
    BY <1>2 DEF AtPush
  <2>3. Nodes' = Nodes
    BY <1>1 DEF Nodes
  <2>4. ASSUME NEW u \in Threads, AtPush(u)'
        PROVE  /\ call'[u].value \in Values /\ call'[u].new \in Nodes'
               /\ \A i \in 1..Len(chain') : chain'[i] # call'[u].new
               /\ \A w \in Threads : w # u /\ AtPush(w)' => call'[w].new # call'[u].new
    <3>1. AtPush(u) /\ call'[u] = call[u]
      BY <2>2, <2>4
    <3>2. /\ call[u].value \in Values /\ call[u].new \in Nodes
          /\ \A i \in 1..Len(chain) : chain[i] # call[u].new
          /\ \A w \in Threads : w # u /\ AtPush(w) => call[w].new # call[u].new
      BY <3>1 DEF Fresh
    <3> QED
      BY <2>1, <2>2, <2>3, <3>1, <3>2
  <2> QED
    BY <2>4 DEF Fresh
<1>9. Filled' /\ Holders' /\ Asleep'
  <2>1. Filled'
    BY <1>1, <1>2 DEF Filled
  <2>2. headMutex = t
    BY <1>1 DEF Holders
  <2>3. Holders'
    BY <1>1, <1>2, <2>2 DEF Holders
  <2>4. Asleep'
    BY <1>1, <1>2 DEF Asleep, TypeOK
  <2> QED
    BY <2>1, <2>3, <2>4
<1>10. Found'
  <2>1. ASSUME NEW u \in Threads PROVE call'[u].pc # "pop"
    BY <1>1, <1>2 DEF Holders
  <2> QED
    BY <2>1 DEF Found
<1>11. Contents # <<>> /\ Contents' = Tail(Contents) /\ Head(Contents) = node[head].data
  <2>1. /\ Contents = [i \in 1..(Len(chain) - 1) |-> node[chain[i]].data]
        /\ Contents' = [i \in 1..(Len(chain) - 2) |-> node[chain[i + 1]].data]
    BY <1>1, <1>3, <1>4 DEF Contents
  <2>2. Contents \in Seq(Values) /\ Len(Contents) = Len(chain) - 1
    BY <1>3, <2>1 DEF Linked
  <2>3. Contents # <<>>
    BY <1>3, <2>2
  <2>4. /\ Tail(Contents) \in Seq(Values) /\ Len(Tail(Contents)) = Len(chain) - 2
        /\ \A i \in 1..(Len(chain) - 2) : Tail(Contents)[i] = Contents[i + 1]
    BY <1>3, <2>2, <2>3, HeadTailProperties
  <2>5. \A i \in 1..(Len(chain) - 2) : Contents[i + 1] = node[chain[i + 1]].data
    BY <1>3, <2>1
  <2>6. Contents' \in Seq(Values) /\ Len(Contents') = Len(chain) - 2
    BY <1>3, <1>4, <2>1 DEF Linked
  <2>7. Contents' = Tail(Contents)
    BY <1>3, <2>1, <2>4, <2>5, <2>6, SeqEqual
  <2>8. Contents[1] = node[head].data
    BY <1>3, <2>1 DEF Linked
  <2> QED
    BY <2>3, <2>7, <2>8
<1> QED
  BY <1>1, <1>6, <1>7, <1>8, <1>9, <1>10, <1>11

-----------------------------------------------------------------------------
LEMMA StepInv == QueueInv /\ [Next]_vars => QueueInv' /\ [F!Step]_<<Contents, got>>
<1> SUFFICES ASSUME QueueInv, [Next]_vars
             PROVE  QueueInv' /\ [F!Step]_<<Contents, got>>
  OBVIOUS
<1>1. CASE UNCHANGED vars
  BY <1>1 DEF vars, QueueInv, TypeOK, Linked, Holders, Fresh, AtPush, Filled, Found,
              Asleep, Nodes, Contents
<1>2. ASSUME NEW t \in Threads, Begin(t) PROVE QueueInv' /\ UNCHANGED <<Contents, got>>
  <2>1. CASE StartPush(t)
    BY <2>1, StartPushInv, StartPushKeeps
  <2>2. ASSUME NEW op \in {"try_pop", "wait_and_pop", "empty"}, StartPop(t, op)
        PROVE  QueueInv' /\ UNCHANGED <<Contents, got>>
    BY <2>2, StartPopInv
  <2> QED
    BY <1>2, <2>1, <2>2 DEF Begin
<1>3. ASSUME NEW t \in Threads, Continue(t)
      PROVE  QueueInv' /\ [F!Step]_<<Contents, got>>
  <2>1. CASE PushFill(t) \/ PushLink(t)
    BY <2>1, PushFillInv, PushLinkInv, FillKeeps
  <2>2. CASE PushMove(t)
    <3>1. call[t].value \in Values
      BY <2>2 DEF PushMove, QueueInv, Fresh, AtPush
    <3>2. got' = got
      BY <2>2 DEF PushMove
    <3> QED
      BY <2>2, <3>1, <3>2, PushMoveInv DEF F!Step, F!Put
  <2>3. CASE Notify(t) \/ LockHead(t) \/ Sleep(t)
    BY <2>3, NotifyInv, LockHeadInv, SleepInv
  <2>4. CASE Look(t)
    BY <2>4, LookInv DEF F!Step, F!Miss
  <2>5. CASE PopHead(t)
    BY <2>5, PopHeadInv DEF F!Step, F!Take
  <2> QED
    BY <1>3, <2>1, <2>2, <2>3, <2>4, <2>5 DEF Continue
<1>4. ASSUME NEW t \in Threads, WakeSpuriously(t)
      PROVE  QueueInv' /\ UNCHANGED <<Contents, got>>
  BY <1>4, WakeInv
<1> QED
  BY <1>1, <1>2, <1>3, <1>4 DEF Next

LEMMA QueueInvariant == Spec => []QueueInv
<1> QED
  BY InitInv, StepInv, PTL DEF Spec

\* Types, as the runs check them, for any number of threads and nodes.
THEOREM QueueTypeCorrect == Spec => []TypeOK
<1> QED
  BY QueueInvariant, PTL DEF QueueInv

\* Two mutexes are enough: the node a pop works on is not the one a push works on
\* (pop_head and push, utility.hpp).
THEOREM HeadAndTailApart == Spec => []HeadTailApart
<1>1. QueueInv => HeadTailApart
  <2> SUFFICES ASSUME QueueInv, NEW t \in Threads, call[t].pc = "pop"
               PROVE  head # tail /\ node[head].data \in Values /\ node[head].next \in Nodes
    BY DEF HeadTailApart
  <2>1. head # tail /\ chain \in Seq(Nodes) /\ Len(chain) \in Nat \ {0}
    BY DEF QueueInv, Found, TypeOK
  <2>2. Len(chain) > 1
    BY <2>1 DEF QueueInv, Linked
  <2> QED
    BY <2>1, <2>2 DEF QueueInv, Linked
<1> QED
  BY <1>1, QueueInvariant, PTL

\* The queue with its nodes and its two mutexes implements a queue whose pushes and
\* pops each act at one instant (threadsafe_queue, utility.hpp).
THEOREM QueueIsFifo == Spec => IsFifo
<1>1. Init => F!Start
  BY DEF Init, F!Start, Contents
<1> QED
  BY <1>1, QueueInvariant, StepInv, PTL DEF Spec, IsFifo, F!Behaviour

-----------------------------------------------------------------------------
\* the pool calls the queue and does nothing else to it
LEMMA PoolKeepsQueue == [PoolNext]_allVars => [Next]_vars
<1> SUFFICES ASSUME PoolNext PROVE [Next]_vars
  BY DEF allVars, queueVars, vars
<1> USE DEF queueVars, vars
<1>1. CASE UsedAlone
  BY <1>1 DEF UsedAlone
<1>2. ASSUME NEW t \in Threads, QueueStep(t) PROVE Next
  BY <1>2 DEF QueueStep, Next, Continue
<1>3. ASSUME NEW t \in Threads, RunTask(t) PROVE Next
  BY <1>3 DEF RunTask, Next, Continue
<1>4. ASSUME NEW t \in Threads, RunPending(t) \/ Work(t) PROVE Next
  BY <1>4 DEF RunPending, Work, Next, Begin
<1>5. ASSUME NEW t \in Threads, Submit(t) PROVE Next
  BY <1>5 DEF Submit, Next, Begin
<1>6. ASSUME NEW t \in Threads,
             Resume(t) \/ Leave(t) \/ Finish(t) \/ AwaitLast(t) \/ Get(t)
      PROVE  UNCHANGED vars
  BY <1>6 DEF Resume, Leave, Finish, AwaitLast, Get
<1>7. CASE Destroy \/ Joined
  BY <1>7 DEF Destroy, Joined, QueueDestroyed
<1> QED
  BY <1>1, <1>2, <1>3, <1>4, <1>5, <1>6, <1>7 DEF PoolNext, Proceed, Choose

LEMMA PoolRunsQueue == PoolSpec => Spec
<1>1. PoolInit => Init
  BY DEF PoolInit
<1> QED
  BY <1>1, PoolKeepsQueue, PTL DEF PoolSpec, Spec

\* So the work_queue of a pool is a queue, too, whatever tasks submit and run
\* (thread_pool, utility.hpp).
THEOREM WorkQueueIsFifo == PoolSpec => [](TypeOK /\ HeadTailApart) /\ IsFifo
<1> QED
  BY PoolRunsQueue, QueueTypeCorrect, HeadAndTailApart, QueueIsFifo, PTL

-----------------------------------------------------------------------------
(***************************************************************************)
(* The tasks of the pool: where each of them is, and who waits for it.     *)
(***************************************************************************)
Functions == [task : 0..(MaxNodes - 1), kids : Seq(Values), awaits : 0..(MaxNodes - 1),
              helps : BOOLEAN]

StackTypes ==
    /\ stack \in [Threads -> Seq(Functions)]
    /\ future \in [Values -> {"none", "pending", "ready", "broken"}]
    /\ exited \subseteq Workers
    /\ pool \in {"none", "up", "closing", "gone"}

\* the owner's own function is the first on its stack and on no other
Stacks ==
    /\ \A t \in Threads : Len(stack[t]) <= MaxNodes
    /\ \A t \in Threads : \A i \in 1..Len(stack[t]) :
          stack[t][i].task = OwnersOwn <=> t = Owner /\ i = 1
    /\ stack[Owner] # <<>>

NotYet == \A v \in Values : v >= Len(node) => future[v] = "none"

\* threads that do nothing any more
Left ==
    /\ \A t \in exited : stack[t] = <<>> /\ call[t].pc = "idle"
    /\ pool \in {"closing", "gone"} =>
          Len(stack[Owner]) = 1 /\ stack[Owner][1].awaits = 0 /\ call[Owner].pc = "idle"
    /\ pool \in {"none", "up"} => exited = {}

InOnePlace(v) ==
    /\ IsFiniteSet(Pushed(v)) /\ IsFiniteSet(Running(v))
    /\ Cardinality(Pushed(v)) + Cardinality(Queued(v)) + Cardinality(Running(v))
           = IF future[v] = "pending" THEN 1 ELSE 0

\* a function has submitted v and will wait for it, or does so
WantedBy(f, v) == f.awaits = v \/ \E k \in 1..Len(f.kids) : f.kids[k] = v
Wanted(v) == \E t \in Threads : \E i \in 1..Len(stack[t]) : WantedBy(stack[t][i], v)

Whole ==
    pool \in {"up", "closing"} => \A v \in Values :
        InOnePlace(v) /\ (future[v] = "pending" => Wanted(v)) /\ future[v] # "broken"

Gone == pool = "gone" => exited = Workers /\ OnlyUnawaitedDropped

PoolInv == StackTypes /\ Stacks /\ NotYet /\ Left /\ Whole /\ Gone

-----------------------------------------------------------------------------
LEMMA InitPool == PoolInit => PoolInv
<1> SUFFICES ASSUME PoolInit PROVE PoolInv
  OBVIOUS
<1> USE QueueAssumption, PoolAssumption
<1>1. Function(OwnersOwn) \in Functions
  <2>1. <<>> \in Seq(Values)
    BY EmptySeq
  <2> QED
    BY <2>1 DEF Function, OwnersOwn, Functions
<1>2. /\ \A t \in Threads \ {Owner} : stack[t] = <<>>
      /\ stack[Owner] = <<Function(OwnersOwn)>>
      /\ stack = [t \in Threads |-> IF t = Owner THEN <<Function(OwnersOwn)>> ELSE <<>>]
      /\ exited = {} /\ future = [v \in Values |-> "none"] /\ pool \in {"none", "up"}
  BY DEF PoolInit
<1>3. <<>> \in Seq(Functions) /\ <<Function(OwnersOwn)>> \in Seq(Functions)
  BY <1>1, EmptySeq
<1>4. StackTypes
  BY <1>2, <1>3 DEF StackTypes
<1>5. Stacks
  BY <1>2 DEF Stacks, Function, OwnersOwn
<1>6. NotYet /\ Left /\ Gone
  BY <1>2 DEF NotYet, Left, Gone
<1>7. ASSUME NEW v \in Values PROVE InOnePlace(v)
  <2>1. Pushed(v) = {}
    BY DEF PoolInit, Init, Idle, Pushed
  <2>2. Queued(v) = {}
    <3>1. Len(chain) = 1
      BY DEF PoolInit, Init
    <3>2. DOMAIN Contents = 1..(1 - 1)
      BY <3>1 DEF Contents
    <3>3. DOMAIN Contents = {}
      BY <3>2
    <3> QED
      BY <3>3 DEF Queued
  <2>3. Running(v) = {}
    <3> SUFFICES ASSUME NEW p \in Running(v) PROVE FALSE
      OBVIOUS
    <3>1. /\ p[1] \in Threads /\ p[2] \in 1..MaxNodes /\ p[2] <= Len(stack[p[1]])
          /\ stack[p[1]][p[2]].task = v
      BY DEF Running
    <3>2. p[1] = Owner /\ p[2] = 1
      BY <1>2, <3>1
    <3> QED
      BY <1>2, <3>1, <3>2 DEF Function, OwnersOwn
  <2> QED
    BY <1>2, <2>1, <2>2, <2>3, FS_EmptySet DEF InOnePlace
<1> QED
  BY <1>2, <1>4, <1>5, <1>6, <1>7 DEF PoolInv, Whole

-----------------------------------------------------------------------------
(* The stack of one thread.                                                *)

LEMMA TopIs ==
    ASSUME StackTypes, NEW t \in Threads, Busy(t)
    PROVE  /\ Len(stack[t]) \in Nat \ {0} /\ Top(t) = stack[t][Len(stack[t])]
           /\ Top(t) \in Functions /\ stack[t] \in Seq(Functions)
           /\ Front(stack[t]) \in Seq(Functions) /\ Len(Front(stack[t])) = Len(stack[t]) - 1
           /\ \A i \in 1..(Len(stack[t]) - 1) : Front(stack[t])[i] = stack[t][i]
<1>1. stack[t] \in Seq(Functions) /\ stack[t] # <<>>
  BY DEF StackTypes, Busy
<1>2. Len(stack[t]) \in Nat \ {0} /\ Front(stack[t]) = SubSeq(stack[t], 1, Len(stack[t]) - 1)
  BY <1>1 DEF Front
<1> QED
  BY <1>1, <1>2, ElementOfSeq, SubSeqProperties DEF Top, Last

LEMMA SetTopIs ==
    ASSUME StackTypes, NEW t \in Threads, Busy(t), NEW f \in Functions, SetTop(t, f)
    PROVE  /\ stack' \in [Threads -> Seq(Functions)]
           /\ \A u \in Threads \ {t} : stack'[u] = stack[u]
           /\ Len(stack'[t]) = Len(stack[t]) /\ stack'[t][Len(stack[t])] = f
           /\ \A i \in 1..(Len(stack[t]) - 1) : stack'[t][i] = stack[t][i]
<1> DEFINE s == Append(Front(stack[t]), f)
<1>1. /\ s \in Seq(Functions) /\ Len(s) = Len(stack[t])
      /\ s[Len(stack[t])] = f
      /\ \A i \in 1..(Len(stack[t]) - 1) : s[i] = stack[t][i]
  BY TopIs, AppendProperties
<1>2. stack' = [stack EXCEPT ![t] = s]
  BY DEF SetTop
<1> HIDE DEF s
<1> QED
  BY <1>1, <1>2 DEF StackTypes

\* the function on top goes on with the same task
LEMMA SameTasks ==
    ASSUME StackTypes, Stacks, NEW t \in Threads, Busy(t), NEW f \in Functions,
           f.task = Top(t).task, SetTop(t, f)
    PROVE  /\ Stacks' /\ \A v \in Values : Running(v)' = Running(v)
           /\ \A v \in Values : Wanted(v) /\ (WantedBy(Top(t), v) => WantedBy(f, v))
                                    => Wanted(v)'
<1> DEFINE n == Len(stack[t])
<1>1. n \in Nat \ {0} /\ Top(t) = stack[t][n]
  BY TopIs
<1>2. /\ \A u \in Threads \ {t} : stack'[u] = stack[u]
      /\ Len(stack'[t]) = n /\ stack'[t][n] = f
      /\ \A i \in 1..(n - 1) : stack'[t][i] = stack[t][i]
      /\ stack' \in [Threads -> Seq(Functions)]
  BY SetTopIs
<1> HIDE DEF n
<1>3. ASSUME NEW u \in Threads
      PROVE  /\ Len(stack'[u]) = Len(stack[u])
             /\ \A i \in 1..Len(stack[u]) : stack'[u][i].task = stack[u][i].task
  <2>1. CASE u # t
    BY <1>2, <2>1
  <2>2. CASE u = t
    <3>1. Len(stack[t]) = n
      BY DEF n
    <3> QED
      BY <1>1, <1>2, <2>2, <3>1
  <2> QED
    BY <2>1, <2>2
<1>4. Stacks'
  <2>1. \A u \in Threads : Len(stack[u]) \in Nat
    BY DEF StackTypes
  <2>2. stack'[Owner] # <<>>
    <3>1. Len(stack[Owner]) > 0 /\ Owner \in Threads
      BY PoolAssumption DEF Stacks, StackTypes
    <3>2. Len(stack'[Owner]) > 0
      BY <1>3, <3>1
    <3> QED
      BY <3>2
  <2> QED
    BY <1>3, <2>1, <2>2 DEF Stacks
<1>5. ASSUME NEW v \in Values PROVE Running(v)' = Running(v)
  <2>1. ASSUME NEW p \in Threads \X (1..MaxNodes)
        PROVE  p[2] <= Len(stack'[p[1]]) /\ stack'[p[1]][p[2]].task = v
               <=> p[2] <= Len(stack[p[1]]) /\ stack[p[1]][p[2]].task = v
    <3>1. p[1] \in Threads /\ p[2] \in 1..MaxNodes /\ Len(stack[p[1]]) \in Nat
      BY DEF StackTypes
    <3>2. p[2] <= Len(stack[p[1]]) => p[2] \in 1..Len(stack[p[1]])
      BY <3>1
    <3> QED
      BY <1>3, <3>1, <3>2
  <2> QED
    BY <2>1 DEF Running
<1>6. ASSUME NEW v \in Values, Wanted(v), WantedBy(Top(t), v) => WantedBy(f, v)
      PROVE  Wanted(v)'
  <2>0. PICK u \in Threads : \E i \in 1..Len(stack[u]) : WantedBy(stack[u][i], v)
    BY <1>6 DEF Wanted
  <2>1. PICK i \in 1..Len(stack[u]) : WantedBy(stack[u][i], v)
    BY <2>0
  <2>2. i \in 1..Len(stack'[u])
    BY <1>3
  <2>3. WantedBy(stack'[u][i], v)
    <3>1. CASE u # t
      BY <1>2, <2>1, <3>1
    <3>2. CASE u = t /\ i = n
      BY <1>1, <1>2, <1>6, <2>1, <3>2
    <3>3. CASE u = t /\ i # n
      <4>1. i \in 1..(n - 1)
        BY <1>1, <3>3 DEF n
      <4> QED
        BY <1>2, <2>1, <3>3, <4>1
    <3> QED
      BY <3>1, <3>2, <3>3
  <2>4. \E w \in Threads : \E j \in 1..Len(stack'[w]) : WantedBy(stack'[w][j], v)
    BY <2>2, <2>3
  <2> QED
    BY <2>4 DEF Wanted, WantedBy
<1> QED
  BY <1>4, <1>5, <1>6

-----------------------------------------------------------------------------
(* Who may take a step, and what a step leaves alone.                      *)

Done(t) == t \in exited \/ (t = Owner /\ pool \in {"closing", "gone"})

LEMMA DoneIs ==
    ASSUME PoolInv, NEW t \in Threads, Done(t)
    PROVE  /\ call[t].pc = "idle" /\ ~InBody(t)
           /\ Busy(t) => t = Owner /\ Top(t).task = OwnersOwn /\ Top(t).awaits = 0
           /\ t \in Workers => t \in exited
<1> USE DEF PoolInv
<1>1. CASE t \in exited
  <2>1. stack[t] = <<>> /\ call[t].pc = "idle"
    BY <1>1 DEF Left
  <2> QED
    BY <1>1, <2>1 DEF InBody, Busy
<1>2. CASE t = Owner /\ pool \in {"closing", "gone"}
  <2>1. /\ Len(stack[Owner]) = 1 /\ stack[Owner][1].awaits = 0 /\ call[Owner].pc = "idle"
        /\ Busy(Owner)
    BY <1>2 DEF Left, Stacks, Busy
  <2>2. Top(Owner) = stack[Owner][1]
    BY <2>1 DEF Top, Last
  <2>3. Top(Owner).task = OwnersOwn
    BY <1>2, <2>1, <2>2 DEF Stacks
  <2> QED
    BY <1>2, <2>1, <2>2, <2>3, PoolAssumption DEF InBody
<1> QED
  BY <1>1, <1>2 DEF Done

LEMMA DoneStops ==
    ASSUME PoolInv, NEW t \in Threads, Proceed(t) \/ Choose(t)
    PROVE  ~Done(t)
<1> SUFFICES ASSUME Done(t) PROVE FALSE
  OBVIOUS
<1>1. /\ call[t].pc = "idle" /\ ~InBody(t)
      /\ Busy(t) => t = Owner /\ Top(t).task = OwnersOwn /\ Top(t).awaits = 0
      /\ t \in Workers => t \in exited
  BY DoneIs
<1>2. ~QueueStep(t)
  BY <1>1 DEF QueueStep, PushFill, PushLink, PushMove, Notify, LockHead, Look, LookAt
<1>3. ~RunTask(t)
  BY <1>1 DEF RunTask, PopHead
<1>4. ~Resume(t) /\ ~RunPending(t)
  BY <1>1 DEF Resume, RunPending
<1>5. ~Work(t) /\ ~Leave(t)
  BY <1>1 DEF Work, Leave
<1>6. ~Finish(t) /\ ~AwaitLast(t) /\ ~Submit(t) /\ ~Get(t)
  BY <1>1 DEF Finish, AwaitLast, Submit, Get
<1> QED
  BY <1>2, <1>3, <1>4, <1>5, <1>6 DEF Proceed, Choose

\* those that do nothing any more stay so
LEMMA LeftKept ==
    ASSUME PoolInv, NEW t \in Threads, ~Done(t), UNCHANGED <<pool, exited>>,
           \A u \in Threads \ {t} : /\ stack'[u] = stack[u]
                                    /\ call[u].pc = "idle" => call'[u].pc = "idle"
    PROVE  Left'
<1>1. \A u \in exited : u \in Threads /\ u # t
  BY PoolAssumption DEF PoolInv, StackTypes, Done
<1>2. pool \in {"closing", "gone"} => Owner # t /\ Owner \in Threads
  BY PoolAssumption DEF Done
<1> QED
  BY <1>1, <1>2 DEF PoolInv, Left

LEMMA GoneStops ==
    ASSUME PoolInv, pool = "gone", NEW t \in Threads
    PROVE  Done(t)
BY PoolAssumption DEF PoolInv, Gone, Done

LEMMA QueuedIs ==
    ASSUME QueueInv
    PROVE  /\ Contents \in Seq(Values)
           /\ \A v : Queued(v) = Places(Contents, {v})
<1>1. chain \in Seq(Nodes) /\ Len(chain) \in Nat \ {0}
  BY DEF QueueInv, TypeOK
<1>2. Contents \in [1..(Len(chain) - 1) -> Values]
  BY <1>1 DEF QueueInv, Linked, Contents
<1>3. Contents \in Seq(Values) /\ DOMAIN Contents = 1..Len(Contents)
  BY <1>1, <1>2
<1> QED
  BY <1>3 DEF Queued, Places

\* the tasks stay where they are, or as many as before are under way and queued
LEMMA WholeKept ==
    ASSUME PoolInv, QueueInv, QueueInv', UNCHANGED <<pool, future>>,
           \A v \in Values :
               /\ Running(v)' = Running(v)
               /\ IsFiniteSet(Pushed(v)) => IsFiniteSet(Pushed(v)')
               /\ IsFiniteSet(Pushed(v)) => Cardinality(Pushed(v)') + Cardinality(Queued(v)')
                      = Cardinality(Pushed(v)) + Cardinality(Queued(v))
               /\ future[v] = "pending" /\ Wanted(v) => Wanted(v)'
    PROVE  Whole'
<1> SUFFICES ASSUME pool \in {"up", "closing"}, NEW v \in Values
             PROVE  /\ InOnePlace(v)' /\ (future[v] = "pending" => Wanted(v)')
                    /\ future[v] # "broken"
  BY DEF Whole
<1>1. InOnePlace(v) /\ (future[v] = "pending" => Wanted(v)) /\ future[v] # "broken"
  BY DEF PoolInv, Whole
<1>2. /\ Running(v)' = Running(v) /\ IsFiniteSet(Pushed(v)')
      /\ Cardinality(Pushed(v)') + Cardinality(Queued(v)')
             = Cardinality(Pushed(v)) + Cardinality(Queued(v))
  BY <1>1 DEF InOnePlace
<1>3. InOnePlace(v)'
  BY <1>1, <1>2 DEF InOnePlace
<1> QED
  BY <1>1, <1>3

LEMMA SameCalls ==
    ASSUME QueueInv, Contents' = Contents,
           \A u \in Threads : /\ AtPush(u)' <=> AtPush(u)
                              /\ AtPush(u) => call'[u].value = call[u].value
    PROVE  \A v \in Values : Pushed(v)' = Pushed(v) /\ Queued(v)' = Queued(v)
BY DEF Pushed, Queued, AtPush

-----------------------------------------------------------------------------
(* The steps of the pool.                                                  *)

LEMMA TypesKept ==
    ASSUME StackTypes, UNCHANGED <<pool, exited, future>>, stack' \in [Threads -> Seq(Functions)]
    PROVE  StackTypes'
BY DEF StackTypes

LEMMA NotYetKept ==
    ASSUME NotYet, future' = future, Len(node') = Len(node)
    PROVE  NotYet'
BY DEF NotYet

Fun(task, kids, awaits, helps) ==
    [task |-> task, kids |-> kids, awaits |-> awaits, helps |-> helps]

LEMMA FunctionIs ==
    ASSUME NEW f \in Functions
    PROVE  /\ f.task \in 0..(MaxNodes - 1) /\ f.kids \in Seq(Values)
           /\ f.awaits \in 0..(MaxNodes - 1) /\ f.helps \in BOOLEAN
BY DEF Functions

LEMMA FunIs ==
    ASSUME NEW n \in 0..(MaxNodes - 1), NEW k \in Seq(Values), NEW a \in 0..(MaxNodes - 1),
           NEW h \in BOOLEAN
    PROVE  /\ Fun(n, k, a, h) \in Functions
           /\ Fun(n, k, a, h).task = n /\ Fun(n, k, a, h).kids = k /\ Fun(n, k, a, h).awaits = a
BY DEF Functions, Fun

\* waiting begins or ends
LEMMA WaitInv ==
    ASSUME PoolInv, QueueInv, QueueInv', pool # "none", NEW t \in Threads,
           AwaitLast(t) \/ Get(t) \/ Resume(t)
    PROVE  PoolInv'
<1> USE DEF PoolInv
<1>1. ~Done(t) /\ Busy(t) /\ UNCHANGED <<queueVars, pool, exited, future>>
  <2>1. Busy(t) /\ UNCHANGED <<queueVars, pool, exited, future>>
    BY DEF AwaitLast, Get, Resume, InBody
  <2>2. ASSUME Done(t) PROVE FALSE
    BY <2>1, <2>2, DoneIs DEF AwaitLast, Get, Resume
  <2> QED
    BY <2>1, <2>2
<1>2. /\ Top(t) \in Functions /\ Top(t).kids \in Seq(Values)
      /\ MaxNodes \in Nat \ {0} /\ Values = 1..(MaxNodes - 1)
  BY <1>1, TopIs, QueueAssumption, PoolAssumption DEF Functions
<1>3. PICK f \in Functions :
         /\ f.task = Top(t).task /\ SetTop(t, f)
         /\ \A v \in Values : future[v] = "pending" /\ WantedBy(Top(t), v) => WantedBy(f, v)
  <2> DEFINE N == 0..(MaxNodes - 1)
  <2>0. PICK top \in Functions, k \in Seq(Values) : top = Top(t) /\ k = top.kids
    BY <1>2
  <2>1. CASE AwaitLast(t)
    <3>1. k # <<>> /\ top.awaits = 0
      BY <2>0, <2>1 DEF AwaitLast, InBody
    <3>2. Len(k) \in Nat \ {0}
      BY <3>1
    <3>3. PICK front \in Seq(Values), last \in N :
             /\ front = Front(k) /\ last = Last(k) /\ last = k[Len(k)]
             /\ Len(front) = Len(k) - 1 /\ \A i \in 1..(Len(k) - 1) : front[i] = k[i]
      <4>0. Last(k) \in Values
        BY <3>1, FrontLast
      <4>1. Last(k) \in N
        BY <1>2, <4>0
      <4> HIDE DEF N
      <4> QED
        BY <3>1, <4>1, FrontLast
    <3>4. PICK f : f = [top EXCEPT !.awaits = last, !.helps = TRUE, !.kids = front]
      OBVIOUS
    <3>5. SetTop(t, f)
      BY <2>0, <2>1, <3>3, <3>4 DEF AwaitLast
    <3>6. f \in Functions /\ f.task = top.task /\ f.awaits = last /\ f.kids = front
      <4>1. PICK h \in BOOLEAN : f = Fun(top.task, front, last, h)
        BY <3>4 DEF Functions, Fun
      <4>2. top.task \in 0..(MaxNodes - 1)
        BY FunctionIs
      <4>3. last \in 0..(MaxNodes - 1)
        BY <3>3
      <4> HIDE DEF N
      <4> QED
        BY <4>1, <4>2, <4>3, FunIs
    <3>7. ASSUME NEW v \in Values, WantedBy(top, v) PROVE WantedBy(f, v)
      <4>1. PICK i \in 1..Len(k) : k[i] = v
        BY <1>2, <2>0, <3>1, <3>7 DEF WantedBy
      <4>2. CASE i = Len(k)
        BY <3>3, <3>6, <4>1, <4>2 DEF WantedBy
      <4>3. CASE i # Len(k)
        <5>1. i \in 1..Len(front) /\ front[i] = v
          BY <3>2, <3>3, <4>1, <4>3
        <5> QED
          BY <3>6, <5>1 DEF WantedBy
      <4> QED
        BY <4>2, <4>3
    <3> QED
      BY <2>0, <3>5, <3>6, <3>7
  <2>2. CASE Get(t)
    <3>1. k # <<>> /\ top.awaits = 0
      BY <2>0, <2>2 DEF Get, InBody
    <3>2. PICK tail1 \in Seq(Values), first \in N :
             /\ tail1 = Tail(k) /\ first = Head(k) /\ first = k[1]
             /\ Len(k) \in Nat \ {0} /\ Len(tail1) = Len(k) - 1
             /\ \A i \in 1..(Len(k) - 1) : tail1[i] = k[i + 1]
      <4>1. /\ Len(k) \in Nat \ {0} /\ Head(k) = k[1] /\ Head(k) \in Values
            /\ Tail(k) \in Seq(Values) /\ Len(Tail(k)) = Len(k) - 1
            /\ \A i \in 1..Len(Tail(k)) : Tail(k)[i] = k[i + 1]
        BY <3>1, HeadTailProperties
      <4>2. Head(k) \in N
        BY <1>2, <4>1
      <4> QED
        BY <4>1, <4>2
    <3>4. PICK f : f = [top EXCEPT !.awaits = first, !.helps = FALSE, !.kids = tail1]
      OBVIOUS
    <3>5. SetTop(t, f)
      BY <2>0, <2>2, <3>2, <3>4 DEF Get
    <3>6. f \in Functions /\ f.task = top.task /\ f.awaits = first /\ f.kids = tail1
      <4>1. PICK h \in BOOLEAN : f = Fun(top.task, tail1, first, h)
        BY <3>4 DEF Functions, Fun
      <4>2. top.task \in 0..(MaxNodes - 1)
        BY FunctionIs
      <4>3. first \in 0..(MaxNodes - 1)
        BY <3>2
      <4> HIDE DEF N
      <4> QED
        BY <4>1, <4>2, <4>3, FunIs
    <3>7. ASSUME NEW v \in Values, WantedBy(top, v) PROVE WantedBy(f, v)
      <4>1. PICK i \in 1..Len(k) : k[i] = v
        BY <1>2, <2>0, <3>1, <3>7 DEF WantedBy
      <4>2. CASE i = 1
        BY <3>2, <3>6, <4>1, <4>2 DEF WantedBy
      <4>3. CASE i # 1
        <5>1. i - 1 \in 1..Len(tail1) /\ (i - 1) + 1 = i
          BY <3>2, <4>1, <4>3
        <5>2. tail1[i - 1] = v
          BY <3>2, <4>1, <5>1
        <5> QED
          BY <3>6, <5>1, <5>2 DEF WantedBy
      <4> QED
        BY <4>2, <4>3
    <3> QED
      BY <2>0, <3>5, <3>6, <3>7
  <2>3. CASE Resume(t)
    <3>1. top.awaits # 0 /\ future[top.awaits] # "pending"
      BY <2>0, <2>3 DEF Resume
    <3>4. PICK f : f = [top EXCEPT !.awaits = 0]
      OBVIOUS
    <3>5. SetTop(t, f)
      BY <2>0, <2>3, <3>4 DEF Resume
    <3>6. f \in Functions /\ f.task = top.task /\ f.kids = top.kids
      <4>1. 0 \in N
        BY <1>2
      <4>2. PICK h \in BOOLEAN : f = Fun(top.task, top.kids, 0, h)
        BY <3>4 DEF Functions, Fun
      <4> QED
        BY <2>0, <4>1, <4>2, FunctionIs, FunIs
    <3>7. ASSUME NEW v \in Values, future[v] = "pending", WantedBy(top, v)
          PROVE  WantedBy(f, v)
      BY <3>1, <3>6, <3>7 DEF WantedBy
    <3> QED
      BY <2>0, <3>5, <3>6, <3>7
  <2> QED
    BY <2>1, <2>2, <2>3
<1>4. /\ stack' \in [Threads -> Seq(Functions)]
      /\ \A u \in Threads \ {t} : stack'[u] = stack[u]
  BY <1>1, <1>3, SetTopIs
<1>5. /\ Stacks' /\ \A v \in Values : Running(v)' = Running(v)
      /\ \A v \in Values : future[v] = "pending" /\ Wanted(v) => Wanted(v)'
  BY <1>1, <1>3, SameTasks
<1>6. Left' /\ StackTypes' /\ NotYet'
  BY <1>1, <1>4, LeftKept, TypesKept, NotYetKept DEF queueVars
<1>7. \A v \in Values : Pushed(v)' = Pushed(v) /\ Queued(v)' = Queued(v)
  BY <1>1 DEF queueVars, Pushed, Queued, Contents
<1>8. Whole'
  BY <1>1, <1>5, <1>7, WholeKept
<1>9. Gone'
  BY <1>1, GoneStops DEF Gone
<1> QED
  BY <1>5, <1>6, <1>8, <1>9

\* a call of the queue begins or goes on without a task changing its place
LEMMA CallInv ==
    ASSUME PoolInv, QueueInv, QueueInv', pool # "none", NEW t \in Threads, ~Done(t),
           UNCHANGED poolVars, Len(node') = Len(node),
           \A u \in Threads \ {t} : call[u].pc = "idle" => call'[u].pc = "idle",
           \A v \in Values :
               /\ IsFiniteSet(Pushed(v)) => IsFiniteSet(Pushed(v)')
               /\ IsFiniteSet(Pushed(v)) => Cardinality(Pushed(v)') + Cardinality(Queued(v)')
                      = Cardinality(Pushed(v)) + Cardinality(Queued(v))
    PROVE  PoolInv'
<1> USE DEF PoolInv, poolVars
<1>1. /\ Stacks' /\ \A v \in Values : Running(v)' = Running(v)
      /\ \A v \in Values : Wanted(v) => Wanted(v)'
  BY DEF Stacks, Running, Wanted
<1>2. Left' /\ StackTypes' /\ NotYet'
  <2>1. stack' \in [Threads -> Seq(Functions)]
    BY DEF StackTypes
  <2> QED
    BY <2>1, LeftKept, TypesKept, NotYetKept
<1>3. Whole'
  BY <1>1, WholeKept
<1>4. Gone'
  BY GoneStops DEF Gone
<1> QED
  BY <1>1, <1>2, <1>3, <1>4

LEMMA BeginPopInv ==
    ASSUME PoolInv, QueueInv, QueueInv', pool # "none", NEW t \in Threads,
           RunPending(t) \/ Work(t)
    PROVE  PoolInv'
<1>1. ~Done(t)
  BY DoneStops DEF Proceed
<1>2. StartPop(t, "try_pop") /\ UNCHANGED poolVars
  BY DEF RunPending, Work
<1>3. Contents' = Contents
  BY <1>2, StartPopInv
<1>4. call' = [call EXCEPT ![t] = [Idle EXCEPT !.op = "try_pop", !.pc = "lock"]]
      /\ call[t].pc = "idle" /\ node' = node
  BY <1>2 DEF StartPop
<1>5. /\ call'[t].pc = "lock"
      /\ \A u \in Threads \ {t} : call'[u] = call[u]
  BY <1>4 DEF QueueInv, TypeOK, Idle
<1>6. \A v \in Values : Pushed(v)' = Pushed(v) /\ Queued(v)' = Queued(v)
  BY <1>3, <1>4, <1>5, SameCalls DEF AtPush
<1> QED
  BY <1>1, <1>2, <1>4, <1>5, <1>6, CallInv

\* The queue goes on.  A push that moves the tail takes its task along.
LEMMA QueueStepInv ==
    ASSUME PoolInv, QueueInv, QueueInv', pool # "none", NEW t \in Threads, QueueStep(t)
    PROVE  PoolInv'
<1>1. ~Done(t) /\ UNCHANGED poolVars
  BY DoneStops DEF Proceed, QueueStep
<1>2. call \in [Threads -> Calls] /\ \A u \in Threads : call[u] \in Calls
  BY DEF QueueInv, TypeOK
<1>3. CASE PushMove(t)
  <2>1. /\ call[t].pc = "move" /\ node' = node
        /\ call' = [call EXCEPT ![t] = [call[t] EXCEPT !.pc = "notify"]]
    BY <1>3 DEF PushMove, Goto
  <2>2. /\ call'[t].pc = "notify"
        /\ \A u \in Threads \ {t} : call'[u] = call[u]
    BY <1>2, <2>1 DEF Calls
  <2>3. Contents' = Append(Contents, call[t].value) /\ Contents \in Seq(Values)
        /\ Contents' \in Seq(Values) /\ call[t].value \in Values
    BY <1>3, <2>1, PushMoveInv, QueuedIs DEF QueueInv, Fresh, AtPush
  <2>4. ASSUME NEW v \in Values, IsFiniteSet(Pushed(v))
        PROVE  /\ IsFiniteSet(Pushed(v)')
               /\ Cardinality(Pushed(v)') + Cardinality(Queued(v)')
                      = Cardinality(Pushed(v)) + Cardinality(Queued(v))
    <3>1. /\ Queued(v) = Places(Contents, {v})
          /\ Queued(v)' = Places(Append(Contents, call[t].value), {v})
      <4>1. Queued(v)' = Places(Contents', {v})
        BY <2>3 DEF Queued, Places
      <4> QED
        BY <2>3, <4>1, QueuedIs
    <3>2. Cardinality(Queued(v)') =
             Cardinality(Queued(v)) + (IF call[t].value \in {v} THEN 1 ELSE 0)
      BY <2>3, <3>1, CountAppend
    <3>3. Cardinality(Queued(v)) \in Nat /\ Cardinality(Pushed(v)) \in Nat
      BY <2>3, <2>4, <3>1, PlacesFinite, FS_CardinalityType
    <3>4. Pushed(v)' = Pushed(v) \ {t}
      BY <2>1, <2>2 DEF Pushed
    <3>5. t \in Pushed(v) <=> call[t].value = v
      BY <2>1 DEF Pushed
    <3>6. /\ IsFiniteSet(Pushed(v) \ {t})
          /\ Cardinality(Pushed(v) \ {t}) =
                IF t \in Pushed(v) THEN Cardinality(Pushed(v)) - 1 ELSE Cardinality(Pushed(v))
      BY <2>4, FS_RemoveElement
    <3> QED
      BY <3>2, <3>3, <3>4, <3>5, <3>6
  <2> QED
    BY <1>1, <2>1, <2>2, <2>4, CallInv
<1>4. ASSUME Contents' = Contents, Len(node') = Len(node),
             \A u \in Threads : /\ AtPush(u)' <=> AtPush(u)
                                /\ AtPush(u) => call'[u].value = call[u].value,
             \A u \in Threads \ {t} : call[u].pc = "idle" => call'[u].pc = "idle"
      PROVE  PoolInv'
  <2>1. \A v \in Values : Pushed(v)' = Pushed(v) /\ Queued(v)' = Queued(v)
    BY <1>4, SameCalls
  <2> QED
    BY <1>1, <1>4, <2>1, CallInv
<1>5. CASE PushFill(t) \/ PushLink(t)
  <2>1. PICK pc \in {"link", "move"} :
           /\ call[t].pc \in {"fill", "link"}
           /\ call' = [call EXCEPT ![t] = [call[t] EXCEPT !.pc = pc]]
    BY <1>5 DEF PushFill, PushLink, Goto
  <2>2. /\ call'[t].pc = pc /\ call'[t].value = call[t].value
        /\ \A u \in Threads \ {t} : call'[u] = call[u]
    BY <1>2, <2>1 DEF Calls
  <2>3. Len(node') = Len(node)
    BY <1>5 DEF PushFill, PushLink, QueueInv, TypeOK
  <2>4. Contents' = Contents
    BY <1>5, FillKeeps
  <2> QED
    BY <1>4, <2>1, <2>2, <2>3, <2>4 DEF AtPush
<1>6. CASE Notify(t)
  <2>1. call[t].pc = "notify" /\ node' = node /\ Contents' = Contents
    BY <1>6, NotifyInv DEF Notify
  <2>2. \A u \in Threads : /\ AtPush(u)' <=> AtPush(u)
                           /\ AtPush(u) => call'[u].value = call[u].value
                           /\ u # t /\ call[u].pc = "idle" => call'[u].pc = "idle"
    <3>1. CASE Return(t)
      <4>1. call'[t].pc = "idle" /\ \A u \in Threads \ {t} : call'[u] = call[u]
        BY <3>1, ReturnEffect DEF Idle, QueueInv
      <4> QED
        BY <2>1, <4>1 DEF AtPush
    <3>2. ASSUME NEW w \in waiters,
                 call' = [call EXCEPT ![t] = Idle, ![w] = [call[w] EXCEPT !.pc = "lock"]]
          PROVE  \A u \in Threads : /\ AtPush(u)' <=> AtPush(u)
                                    /\ AtPush(u) => call'[u].value = call[u].value
                                    /\ u # t /\ call[u].pc = "idle" => call'[u].pc = "idle"
      <4>1. w \in Threads /\ call[w].pc = "asleep" /\ w # t
        BY <2>1 DEF QueueInv, TypeOK, Asleep
      <4>2. /\ call'[t].pc = "idle" /\ call'[w].pc = "lock"
            /\ \A u \in Threads \ {t, w} : call'[u] = call[u]
        BY <1>2, <3>2, <4>1 DEF Idle, Calls
      <4> QED
        BY <2>1, <4>1, <4>2 DEF AtPush
    <3> QED
      BY <1>6, <3>1, <3>2 DEF Notify
  <2> QED
    BY <1>4, <2>1, <2>2
<1>7. CASE LockHead(t) \/ Look(t)
  <2>1. call[t].pc \in {"lock", "look"} /\ node' = node /\ Contents' = Contents
    BY <1>7, LockHeadInv, LookInv DEF LockHead, Look, LookAt
  <2>2. /\ call'[t].pc \in {"look", "idle", "sleep", "pop"}
        /\ \A u \in Threads \ {t} : call'[u] = call[u]
    <3>1. CASE Return(t)
      BY <3>1, ReturnEffect DEF Idle, QueueInv
    <3>2. ASSUME NEW pc \in {"look", "sleep", "pop"}, Goto(t, pc)
          PROVE  /\ call'[t].pc = pc
                 /\ \A u \in Threads \ {t} : call'[u] = call[u]
      BY <1>2, <3>2 DEF Goto, Calls
    <3> QED
      BY <1>7, <3>1, <3>2 DEF LockHead, Look, LookAt
  <2> QED
    BY <1>4, <2>1, <2>2 DEF AtPush
<1> QED
  BY <1>3, <1>5, <1>6, <1>7 DEF QueueStep

LEMMA SubmitInv ==
    ASSUME PoolInv, QueueInv, QueueInv', pool # "none", NEW t \in Threads, Submit(t)
    PROVE  PoolInv'
<1> USE DEF PoolInv
<1>0. PICK n : n = Len(node)
  OBVIOUS
<1>1. /\ ~Done(t) /\ Busy(t) /\ call[t].pc = "idle" /\ UNCHANGED <<pool, exited>>
      /\ node' = Append(node, NewNode) /\ chain' = chain
      /\ StartPush(t) /\ OwnValue(call'[t])
  BY DoneStops DEF Choose, Submit, InBody, StartPush
<1>2. PICK w \in Values :
        call' = [call EXCEPT ![t] = [op |-> "push", pc |-> "fill", new |-> n + 1, value |-> w]]
  BY <1>0, <1>1 DEF StartPush
<1>3. /\ call'[t].pc = "fill" /\ call'[t].value = w /\ call'[t].new = n + 1
      /\ \A u \in Threads \ {t} : call'[u] = call[u]
  BY <1>2 DEF QueueInv, TypeOK
<1>4. n \in Nat /\ Len(node') = n + 1 /\ w = n /\ n \in Values
  BY <1>0, <1>1, <1>3 DEF QueueInv, TypeOK, OwnValue
<1>5. future' = [future EXCEPT ![n] = "pending"] /\ future[n] = "none"
      /\ future' \in [Values -> {"none", "pending", "ready", "broken"}]
  BY <1>0, <1>4 DEF Submit, NotYet, StackTypes
<1>6. PICK top \in Functions, k \in Seq(Values) : top = Top(t) /\ k = top.kids
  BY <1>1, TopIs, FunctionIs
<1>7. PICK k2 \in Seq(Values) :
         /\ k2 = Append(k, n) /\ Len(k2) = Len(k) + 1 /\ k2[Len(k) + 1] = n
         /\ Len(k) \in Nat /\ \A i \in 1..Len(k) : k2[i] = k[i]
  <2>1. /\ Append(k, n) \in Seq(Values) /\ Len(Append(k, n)) = Len(k) + 1
        /\ Append(k, n)[Len(k) + 1] = n /\ \A i \in 1..Len(k) : Append(k, n)[i] = k[i]
    BY <1>4, AppendProperties
  <2>2. Len(k) \in Nat
    OBVIOUS
  <2> QED
    BY <2>1, <2>2
<1>8. PICK f : f = [top EXCEPT !.kids = k2]
  OBVIOUS
<1>9. SetTop(t, f)
  BY <1>0, <1>6, <1>7, <1>8 DEF Submit
<1>10. f \in Functions /\ f.task = top.task /\ f.awaits = top.awaits /\ f.kids = k2
  <2>1. PICK h \in BOOLEAN : f = Fun(top.task, k2, top.awaits, h)
    BY <1>8 DEF Functions, Fun
  <2>2. top.task \in 0..(MaxNodes - 1) /\ top.awaits \in 0..(MaxNodes - 1)
    BY FunctionIs
  <2> QED
    BY <2>1, <2>2, FunIs
<1>11. /\ \A v : WantedBy(top, v) => WantedBy(f, v)
       /\ WantedBy(f, n)
  <2>1. \A i \in 1..Len(k) : i \in 1..Len(k2)
    BY <1>7
  <2>2. Len(k) + 1 \in 1..Len(k2)
    BY <1>7
  <2> QED
    BY <1>6, <1>7, <1>10, <2>1, <2>2 DEF WantedBy
<1>12. /\ stack' \in [Threads -> Seq(Functions)]
       /\ \A u \in Threads \ {t} : stack'[u] = stack[u]
       /\ Len(stack'[t]) = Len(stack[t]) /\ stack'[t][Len(stack[t])] = f
  BY <1>1, <1>9, <1>10, SetTopIs
<1>13. /\ Stacks' /\ \A v \in Values : Running(v)' = Running(v)
       /\ \A v \in Values : Wanted(v) => Wanted(v)'
  BY <1>1, <1>6, <1>9, <1>10, <1>11, SameTasks
<1>14. Wanted(n)'
  <2>1. Len(stack[t]) \in Nat \ {0}
    BY <1>1, TopIs
  <2>2. Len(stack[t]) \in 1..Len(stack'[t]) /\ WantedBy(stack'[t][Len(stack[t])], n)
    BY <1>11, <1>12, <2>1
  <2>3. \E u \in Threads : \E i \in 1..Len(stack'[u]) : WantedBy(stack'[u][i], n)
    BY <2>2
  <2> QED
    BY <2>3 DEF Wanted, WantedBy
<1>15. Left' /\ StackTypes' /\ NotYet'
  <2>1. Left'
    BY <1>1, <1>3, <1>12, LeftKept
  <2>2. StackTypes'
    BY <1>1, <1>5, <1>12 DEF StackTypes
  <2>3. NotYet'
    <3> SUFFICES ASSUME NEW v \in Values, v >= n + 1 PROVE future'[v] = "none"
      BY <1>4 DEF NotYet
    <3>1. v \in Nat /\ v # n /\ v >= n
      BY <1>4, PoolAssumption
    <3> QED
      BY <1>0, <1>5, <3>1 DEF NotYet, StackTypes
  <2> QED
    BY <2>1, <2>2, <2>3
<1>16. Contents' = Contents
  BY <1>1, StartPushKeeps
<1>17. Whole'
  <2> SUFFICES ASSUME pool \in {"up", "closing"}, NEW v \in Values
               PROVE  /\ InOnePlace(v)' /\ (future'[v] = "pending" => Wanted(v)')
                      /\ future'[v] # "broken"
    BY <1>1 DEF Whole
  <2>1. InOnePlace(v) /\ (future[v] = "pending" => Wanted(v)) /\ future[v] # "broken"
    BY DEF Whole
  <2>2. /\ future'[v] = IF v = n THEN "pending" ELSE future[v]
        /\ Running(v)' = Running(v) /\ Queued(v)' = Queued(v)
    BY <1>5, <1>13, <1>16 DEF StackTypes, Queued
  <2>3. Pushed(v)' = IF v = n THEN Pushed(v) \cup {t} ELSE Pushed(v)
    BY <1>1, <1>3, <1>4 DEF Pushed
  <2>4. t \notin Pushed(v)
    BY <1>1 DEF Pushed
  <2>5. /\ IsFiniteSet(Pushed(v) \cup {t})
        /\ Cardinality(Pushed(v) \cup {t}) = Cardinality(Pushed(v)) + 1
    BY <2>1, <2>4, FS_AddElement DEF InOnePlace
  <2>6. /\ Cardinality(Pushed(v)) \in Nat /\ Cardinality(Running(v)) \in Nat
        /\ Cardinality(Queued(v)) \in Nat
    BY <2>1, FS_CardinalityType, QueuedIs, PlacesFinite DEF InOnePlace
  <2>7. InOnePlace(v)'
    <3>1. CASE v = n
      <4>1. future[v] # "pending" /\ future'[v] = "pending"
        BY <1>5, <2>2, <3>1
      <4>2. Pushed(v)' = Pushed(v) \cup {t}
        BY <2>3, <3>1
      <4> QED
        BY <2>1, <2>2, <2>5, <2>6, <4>1, <4>2 DEF InOnePlace
    <3>2. CASE v # n
      BY <2>1, <2>2, <2>3, <3>2 DEF InOnePlace
    <3> QED
      BY <3>1, <3>2
  <2>8. future'[v] = "pending" => Wanted(v)'
    <3>1. CASE v = n
      BY <1>14, <3>1
    <3>2. CASE v # n
      BY <1>13, <2>1, <2>2, <3>2
    <3> QED
      BY <3>1, <3>2
  <2> QED
    BY <2>1, <2>2, <2>7, <2>8
<1>18. Gone'
  BY <1>1, GoneStops DEF Gone
<1> QED
  BY <1>13, <1>15, <1>17, <1>18

LEMMA FinishInv ==
    ASSUME PoolInv, QueueInv, QueueInv', pool # "none", NEW t \in Threads, Finish(t)
    PROVE  PoolInv'
<1> USE DEF PoolInv
<1>1. /\ ~Done(t) /\ Busy(t) /\ UNCHANGED <<queueVars, pool, exited>>
      /\ Top(t).task # OwnersOwn /\ Top(t).kids = <<>> /\ Top(t).awaits = 0
  BY DoneStops DEF Proceed, Finish, InBody
<1> DEFINE n == Len(stack[t])
<1>2. /\ n \in Nat \ {0} /\ Top(t) = stack[t][n] /\ Top(t) \in Functions
      /\ Front(stack[t]) \in Seq(Functions) /\ Len(Front(stack[t])) = n - 1
      /\ \A i \in 1..(n - 1) : Front(stack[t])[i] = stack[t][i]
  BY <1>1, TopIs
<1>3. PICK w : w = Top(t).task
  OBVIOUS
<1>4. w \in Values
  <2>1. w \in 0..(MaxNodes - 1) /\ w # 0
    BY <1>1, <1>2, <1>3, FunctionIs DEF OwnersOwn
  <2> QED
    BY <2>1, PoolAssumption, QueueAssumption
<1>5. /\ stack' \in [Threads -> Seq(Functions)]
      /\ \A u \in Threads \ {t} : stack'[u] = stack[u]
      /\ Len(stack'[t]) = n - 1 /\ \A i \in 1..(n - 1) : stack'[t][i] = stack[t][i]
  <2>1. stack' = [stack EXCEPT ![t] = Front(stack[t])]
    BY DEF Finish
  <2> HIDE DEF n
  <2> QED
    BY <1>2, <2>1 DEF StackTypes
<1>6. /\ \A v \in Values : future'[v] = IF v = w THEN "ready" ELSE future[v]
      /\ future' \in [Values -> {"none", "pending", "ready", "broken"}]
  <2>1. future' = [future EXCEPT ![w] = "ready"]
    BY <1>3 DEF Finish
  <2> QED
    BY <2>1 DEF StackTypes
<1>7. \A u \in Threads : /\ Len(stack[u]) \in Nat /\ Len(stack'[u]) \in Nat
                         /\ Len(stack'[u]) <= Len(stack[u])
                         /\ \A i \in 1..Len(stack'[u]) : /\ stack'[u][i] = stack[u][i]
                                                        /\ i \in 1..Len(stack[u])
  <2> SUFFICES ASSUME NEW u \in Threads
               PROVE  /\ Len(stack[u]) \in Nat /\ Len(stack'[u]) \in Nat
                      /\ Len(stack'[u]) <= Len(stack[u])
                      /\ \A i \in 1..Len(stack'[u]) : /\ stack'[u][i] = stack[u][i]
                                                     /\ i \in 1..Len(stack[u])
    OBVIOUS
  <2>1. Len(stack[u]) \in Nat
    BY DEF StackTypes
  <2>2. CASE u = t
    BY <1>2, <1>5, <2>2
  <2>3. CASE u # t
    BY <1>5, <2>1, <2>3
  <2> QED
    BY <2>2, <2>3
<1>8. Stacks'
  <2>1. stack'[Owner] # <<>>
    <3>1. CASE t # Owner
      BY <1>5, <3>1, PoolAssumption DEF Stacks
    <3>2. CASE t = Owner
      <4>1. n # 1
        BY <1>1, <1>2, <3>2 DEF Stacks
      <4>2. Len(stack'[t]) # 0
        BY <1>2, <1>5, <4>1
      <4> QED
        BY <3>2, <4>2
    <3> QED
      BY <3>1, <3>2
  <2>2. MaxNodes \in Nat
    BY QueueAssumption
  <2> QED
    BY <1>7, <2>1, <2>2 DEF Stacks
<1>9. Left' /\ StackTypes' /\ NotYet'
  <2>1. Left'
    BY <1>1, <1>5, LeftKept DEF queueVars
  <2>2. StackTypes'
    BY <1>1, <1>5, <1>6 DEF StackTypes
  <2>3. n <= MaxNodes /\ n \in 1..MaxNodes
    BY <1>2, QueueAssumption DEF Stacks
  <2>4. ASSUME pool \in {"up", "closing"} PROVE w < Len(node)
    <3>1. <<t, n>> \in Running(w)
      BY <1>2, <1>3, <2>3 DEF Running
    <3>2. Cardinality(Running(w)) # 0 /\ Cardinality(Running(w)) \in Nat
      BY <1>4, <2>4, <3>1, FS_EmptySet, FS_CardinalityType DEF Whole, InOnePlace
    <3>3. Cardinality(Pushed(w)) \in Nat /\ Cardinality(Queued(w)) \in Nat
      BY <1>4, <2>4, FS_CardinalityType, QueuedIs, PlacesFinite DEF Whole, InOnePlace
    <3>4. future[w] = "pending"
      BY <1>4, <2>4, <3>2, <3>3 DEF Whole, InOnePlace
    <3>5. ~(w >= Len(node)) /\ Len(node) \in Nat /\ w \in Nat
      BY <1>4, <3>4, PoolAssumption DEF NotYet, QueueInv, TypeOK
    <3> QED
      BY <3>5
  <2>5. pool \in {"up", "closing"}
    BY <1>1, GoneStops DEF StackTypes
  <2>6. NotYet'
    <3>1. Len(node') = Len(node) /\ Len(node) \in Nat
      BY <1>1 DEF queueVars, QueueInv, TypeOK
    <3>2. \A v \in Values : v >= Len(node) => v # w
      BY <1>4, <2>4, <2>5, <3>1, PoolAssumption
    <3> QED
      BY <1>6, <3>1, <3>2 DEF NotYet
  <2> QED
    BY <2>1, <2>2, <2>6
<1>10. Whole'
  <2> SUFFICES ASSUME pool \in {"up", "closing"}, NEW v \in Values
               PROVE  /\ InOnePlace(v)' /\ (future'[v] = "pending" => Wanted(v)')
                      /\ future'[v] # "broken"
    BY <1>1 DEF Whole
  <2>1. InOnePlace(v) /\ (future[v] = "pending" => Wanted(v)) /\ future[v] # "broken"
    BY DEF Whole
  <2>2. Pushed(v)' = Pushed(v) /\ Queued(v)' = Queued(v)
    BY <1>1 DEF queueVars, Pushed, Queued, Contents
  <2>3. Running(v)' = Running(v) \ {<<t, n>>}
    <3>1. ASSUME NEW p \in Threads \X (1..MaxNodes)
          PROVE  p[2] <= Len(stack'[p[1]]) /\ stack'[p[1]][p[2]].task = v
                 <=> /\ p[2] <= Len(stack[p[1]]) /\ stack[p[1]][p[2]].task = v
                     /\ p # <<t, n>>
      <4>1. /\ p[1] \in Threads /\ p[2] \in 1..MaxNodes /\ Len(stack[p[1]]) \in Nat
            /\ p = <<p[1], p[2]>>
        BY <1>7
      <4>2. CASE p[1] # t
        BY <1>5, <4>1, <4>2
      <4>3. CASE p[1] = t
        <5>1. p = <<t, n>> <=> p[2] = n
          BY <4>1, <4>3
        <5>2. p[2] <= n - 1 <=> p[2] <= n /\ p[2] # n
          BY <1>2, <4>1
        <5>3. p[2] <= n - 1 => stack'[t][p[2]] = stack[t][p[2]]
          BY <1>2, <1>5, <4>1
        <5> QED
          BY <1>5, <4>3, <5>1, <5>2, <5>3
      <4> QED
        BY <4>2, <4>3
    <3> HIDE DEF n
    <3>2. \A p : p \in Running(v)' <=> p \in Running(v) /\ p # <<t, n>>
      BY <3>1 DEF Running
    <3> QED
      BY <3>2
  <2>4. <<t, n>> \in Running(v) <=> v = w
    <3>1. n \in 1..MaxNodes
      BY <1>2, QueueAssumption DEF Stacks
    <3> QED
      BY <1>2, <1>3, <3>1 DEF Running
  <2>5. /\ IsFiniteSet(Running(v) \ {<<t, n>>})
        /\ Cardinality(Running(v) \ {<<t, n>>}) =
              IF <<t, n>> \in Running(v) THEN Cardinality(Running(v)) - 1
              ELSE Cardinality(Running(v))
    BY <2>1, FS_RemoveElement DEF InOnePlace
  <2>6. /\ Cardinality(Pushed(v)) \in Nat /\ Cardinality(Running(v)) \in Nat
        /\ Cardinality(Queued(v)) \in Nat
    BY <2>1, FS_CardinalityType, QueuedIs, PlacesFinite DEF InOnePlace
  <2>7. InOnePlace(v)'
    <3>1. CASE v = w
      <4>1. Cardinality(Running(v)) # 0
        BY <2>1, <2>4, <3>1, FS_EmptySet DEF InOnePlace
      <4>2. future[v] = "pending" /\ future'[v] = "ready"
        BY <1>6, <2>1, <2>6, <3>1, <4>1 DEF InOnePlace
      <4>3. IsFiniteSet(Running(v)') /\ Cardinality(Running(v)') = Cardinality(Running(v)) - 1
        BY <2>3, <2>4, <2>5, <3>1
      <4>4. Cardinality(Pushed(v)) + Cardinality(Queued(v)) + Cardinality(Running(v)) = 1
        BY <2>1, <4>2 DEF InOnePlace
      <4>5. Cardinality(Pushed(v)') + Cardinality(Queued(v)') + Cardinality(Running(v)') = 0
        BY <2>2, <2>6, <4>3, <4>4
      <4> QED
        BY <2>1, <2>2, <4>2, <4>3, <4>5 DEF InOnePlace
    <3>2. CASE v # w
      <4>1. future'[v] = future[v] /\ Running(v)' = Running(v)
        BY <1>6, <2>3, <2>4, <3>2
      <4> QED
        BY <2>1, <2>2, <4>1 DEF InOnePlace
    <3> QED
      BY <3>1, <3>2
  <2>8. ASSUME future'[v] = "pending" PROVE Wanted(v)'
    <3>1. future[v] = "pending" /\ v # 0
      BY <1>6, <2>8, PoolAssumption
    <3>2. PICK u \in Threads : \E i \in 1..Len(stack[u]) : WantedBy(stack[u][i], v)
      BY <2>1, <3>1 DEF Wanted
    <3>3. PICK i \in 1..Len(stack[u]) : WantedBy(stack[u][i], v)
      BY <3>2
    <3>4. ~(u = t /\ i = n)
      <4>1. ~WantedBy(Top(t), v)
        BY <1>1, <3>1 DEF WantedBy
      <4> QED
        BY <1>2, <3>3, <4>1
    <3>5. i \in 1..Len(stack'[u]) /\ stack'[u][i] = stack[u][i]
      <4>1. CASE u # t
        BY <1>5, <4>1
      <4>2. CASE u = t
        <5>1. i \in 1..(n - 1)
          BY <1>2, <3>4, <4>2
        <5> QED
          BY <1>5, <4>2, <5>1
      <4> QED
        BY <4>1, <4>2
    <3>6. \E x \in Threads : \E j \in 1..Len(stack'[x]) : WantedBy(stack'[x][j], v)
      BY <3>3, <3>5
    <3> QED
      BY <3>6 DEF Wanted, WantedBy
  <2> QED
    BY <1>6, <2>1, <2>7, <2>8
<1>11. Gone'
  BY <1>1, GoneStops DEF Gone
<1> QED
  BY <1>8, <1>9, <1>10, <1>11

\* a thread's functions run different tasks, so that one more finds room
LEMMA StackRoom ==
    ASSUME PoolInv, QueueInv, pool \in {"up", "closing"}, NEW t \in Threads, NEW v \in Values,
           Running(v) = {}
    PROVE  Len(stack[t]) + 1 <= MaxNodes
<1> USE DEF PoolInv
<1>1. PICK n : n = Len(stack[t])
  OBVIOUS
<1>2. n \in Nat /\ n <= MaxNodes /\ MaxNodes \in Nat \ {0} /\ Values = 1..(MaxNodes - 1)
  BY <1>1, QueueAssumption, PoolAssumption DEF StackTypes, Stacks
<1> DEFINE f == [i \in 1..(n + 1) |-> IF i = n + 1 THEN v ELSE stack[t][i].task]
<1>3. \A i \in 1..n : stack[t][i].task \in 0..(MaxNodes - 1) /\ stack[t][i].task # v
  <2> SUFFICES ASSUME NEW i \in 1..n
               PROVE  stack[t][i].task \in 0..(MaxNodes - 1) /\ stack[t][i].task # v
    OBVIOUS
  <2>1. stack[t][i] \in Functions
    BY <1>1, <1>2, ElementOfSeq DEF StackTypes
  <2>2. stack[t][i].task \in 0..(MaxNodes - 1)
    BY <2>1, FunctionIs
  <2>3. stack[t][i].task = v => <<t, i>> \in Running(v)
    BY <1>1, <1>2 DEF Running
  <2> QED
    BY <2>2, <2>3
<1>4. ASSUME NEW i \in 1..n, NEW j \in 1..n, stack[t][i].task = stack[t][j].task
      PROVE  i = j
  <2> SUFFICES ASSUME i # j PROVE FALSE
    OBVIOUS
  <2>1. PICK w : w = stack[t][i].task
    OBVIOUS
  <2>2. CASE w = 0
    BY <1>1, <1>4, <2>1, <2>2 DEF Stacks, OwnersOwn
  <2>3. CASE w # 0
    <3>1. w \in Values
      BY <1>2, <1>3, <2>1, <2>3
    <3>2. <<t, i>> \in Running(w) /\ <<t, j>> \in Running(w) /\ <<t, i>> # <<t, j>>
      BY <1>1, <1>2, <1>4, <2>1 DEF Running
    <3>3. IsFiniteSet(Running(w)) /\ Cardinality(Running(w)) <= 1
      <4>1. /\ Cardinality(Pushed(w)) \in Nat /\ Cardinality(Queued(w)) \in Nat
            /\ Cardinality(Running(w)) \in Nat
        BY <3>1, FS_CardinalityType, QueuedIs, PlacesFinite DEF Whole, InOnePlace
      <4> QED
        BY <3>1, <4>1 DEF Whole, InOnePlace
    <3>4. /\ IsFiniteSet({<<t, i>>}) /\ Cardinality({<<t, i>>}) = 1
      BY FS_Singleton
    <3>5. {<<t, i>>} \in SUBSET Running(w)
      BY <3>2
    <3>6. Cardinality(Running(w)) = 1
      BY <3>3, <3>4, <3>5, FS_Subset, FS_CardinalityType
    <3>7. Running(w) = {<<t, i>>}
      BY <3>3, <3>4, <3>5, <3>6, FS_Subset
    <3> QED
      BY <3>2, <3>7
  <2> QED
    BY <2>2, <2>3
<1>5. f \in Injection(1..(n + 1), 0..(MaxNodes - 1))
  <2>1. \A i \in 1..(n + 1) : f[i] = IF i = n + 1 THEN v ELSE stack[t][i].task
    OBVIOUS
  <2>2. \A i \in 1..(n + 1) : i # n + 1 => i \in 1..n
    BY <1>2
  <2>3. \A i \in 1..(n + 1) : f[i] \in 0..(MaxNodes - 1)
    BY <1>2, <1>3, <2>1, <2>2
  <2>4. f \in [1..(n + 1) -> 0..(MaxNodes - 1)]
    BY <2>3
  <2> HIDE DEF f
  <2>5. \A i, j \in 1..(n + 1) : f[i] = f[j] => i = j
    <3> SUFFICES ASSUME NEW i \in 1..(n + 1), NEW j \in 1..(n + 1), f[i] = f[j]
                 PROVE  i = j
      OBVIOUS
    <3>1. CASE i = n + 1 \/ j = n + 1
      BY <1>3, <2>1, <2>2, <3>1
    <3>2. CASE i # n + 1 /\ j # n + 1
      BY <1>4, <2>1, <2>2, <3>2
    <3> QED
      BY <3>1, <3>2
  <2> QED
    BY <2>4, <2>5 DEF Injection, IsInjective
<1>6. /\ IsFiniteSet(0..(MaxNodes - 1)) /\ Cardinality(0..(MaxNodes - 1)) = MaxNodes
      /\ Cardinality(1..(n + 1)) = n + 1
  <2>1. 0 \in Int /\ MaxNodes - 1 \in Int /\ 1 \in Int /\ n + 1 \in Int
    BY <1>2
  <2> QED
    BY <1>2, <2>1, FS_Interval
<1>7. Cardinality(1..(n + 1)) <= Cardinality(0..(MaxNodes - 1))
  BY <1>5, <1>6, FS_Injection
<1> QED
  BY <1>1, <1>6, <1>7

LEMMA RunTaskInv ==
    ASSUME PoolInv, QueueInv, QueueInv', pool # "none", NEW t \in Threads, RunTask(t)
    PROVE  PoolInv'
<1> USE DEF PoolInv
<1>1. /\ ~Done(t) /\ PopHead(t) /\ UNCHANGED <<pool, exited, future>>
      /\ call[t].pc = "pop" /\ node' = node
  BY DoneStops DEF Proceed, RunTask, PopHead
<1>2. pool \in {"up", "closing"}
  BY <1>1, GoneStops DEF StackTypes
<1>3. PICK w \in Values : w = Head(Contents)
  <2>1. Contents \in Seq(Values) /\ Contents # <<>>
    BY <1>1, QueuedIs, PopHeadInv
  <2> QED
    BY <2>1, HeadTailProperties
<1>4. /\ Contents # <<>> /\ Contents' = Tail(Contents) /\ got'[t] = w
      /\ Contents \in Seq(Values) /\ Tail(Contents) \in Seq(Values)
  <2>1. Contents # <<>> /\ Contents' = Tail(Contents) /\ got' = [got EXCEPT ![t] = w]
    BY <1>1, <1>3, PopHeadInv
  <2> QED
    BY <2>1, QueuedIs, HeadTailProperties DEF QueueInv, TypeOK
<1>5. /\ call'[t].pc = "idle" /\ \A u \in Threads \ {t} : call'[u] = call[u]
  BY <1>1, ReturnEffect DEF PopHead, QueueInv, Idle
<1>6. PICK f : f = Function(w)
  OBVIOUS
<1>7. f \in Functions /\ f.task = w
  <2>1. <<>> \in Seq(Values) /\ w \in 0..(MaxNodes - 1) /\ 0 \in 0..(MaxNodes - 1)
    BY EmptySeq, PoolAssumption, QueueAssumption
  <2> QED
    BY <1>6, <2>1 DEF Function, Functions
<1>8. PICK n \in Nat : n = Len(stack[t])
  BY DEF StackTypes
<1>9. /\ stack' \in [Threads -> Seq(Functions)]
      /\ \A u \in Threads \ {t} : stack'[u] = stack[u]
      /\ Len(stack'[t]) = n + 1 /\ stack'[t][n + 1] = f
      /\ \A i \in 1..n : stack'[t][i] = stack[t][i]
  <2>1. stack' = [stack EXCEPT ![t] = Append(stack[t], f)]
    BY <1>4, <1>6 DEF RunTask
  <2>2. /\ Append(stack[t], f) \in Seq(Functions) /\ Len(Append(stack[t], f)) = n + 1
        /\ Append(stack[t], f)[n + 1] = f
        /\ \A i \in 1..n : Append(stack[t], f)[i] = stack[t][i]
    BY <1>7, <1>8, AppendProperties DEF StackTypes
  <2> QED
    BY <2>1, <2>2 DEF StackTypes
<1>10. ASSUME NEW v \in Values
       PROVE  /\ IsFiniteSet(Pushed(v)) /\ IsFiniteSet(Running(v))
              /\ Cardinality(Pushed(v)) \in Nat /\ Cardinality(Running(v)) \in Nat
              /\ Cardinality(Queued(v)) \in Nat
              /\ Cardinality(Pushed(v)) + Cardinality(Queued(v)) + Cardinality(Running(v))
                     = IF future[v] = "pending" THEN 1 ELSE 0
  BY <1>2, FS_CardinalityType, QueuedIs, PlacesFinite DEF Whole, InOnePlace
<1>11. ASSUME NEW v \in Values
       PROVE  /\ Cardinality(Queued(v)) = Cardinality(Queued(v)') + (IF w = v THEN 1 ELSE 0)
              /\ Cardinality(Queued(v)') \in Nat
  <2>1. /\ Queued(v) = Places(Contents, {v})
        /\ Queued(v)' = Places(Tail(Contents), {v})
    <3>1. Queued(v)' = Places(Contents', {v})
      BY <1>4 DEF Queued, Places
    <3> QED
      BY <1>4, <3>1, QueuedIs
  <2>2. Cardinality(Queued(v)) = Cardinality(Queued(v)') + (IF Head(Contents) \in {v} THEN 1 ELSE 0)
    BY <1>4, <2>1, CountTail
  <2> QED
    BY <1>3, <1>4, <2>1, <2>2, PlacesFinite
<1>12. Running(w) = {} /\ future[w] = "pending"
  <2>1. Cardinality(Queued(w)) >= 1
    BY <1>11
  <2>2. Cardinality(Running(w)) = 0 /\ future[w] = "pending"
    BY <1>10, <2>1
  <2> QED
    BY <1>10, <2>2, FS_EmptySet
<1>13. n + 1 <= MaxNodes
  BY <1>2, <1>8, <1>12, StackRoom
<1>14. Stacks'
  <2>1. ASSUME NEW u \in Threads
        PROVE  /\ Len(stack'[u]) <= MaxNodes
               /\ \A i \in 1..Len(stack'[u]) :
                     stack'[u][i].task = OwnersOwn <=> u = Owner /\ i = 1
    <3>1. CASE u # t
      BY <1>9, <3>1 DEF Stacks
    <3>2. CASE u = t
      <4>1. ASSUME NEW i \in 1..(n + 1)
            PROVE  stack'[t][i].task = OwnersOwn <=> t = Owner /\ i = 1
        <5>1. CASE i \in 1..n
          BY <1>8, <1>9, <5>1 DEF Stacks
        <5>2. CASE i = n + 1
          <6>1. w # OwnersOwn
            BY PoolAssumption DEF OwnersOwn
          <6>2. t = Owner => n # 0
            BY <1>8 DEF Stacks, StackTypes
          <6> QED
            BY <1>7, <1>8, <1>9, <5>2, <6>1, <6>2
        <5> QED
          BY <1>8, <5>1, <5>2
      <4> QED
        BY <1>9, <1>13, <3>2, <4>1
    <3> QED
      BY <3>1, <3>2
  <2>2. stack'[Owner] # <<>>
    <3>1. CASE Owner # t
      BY <1>9, <3>1, PoolAssumption DEF Stacks
    <3>2. CASE Owner = t
      <4>1. Len(stack'[t]) # 0
        BY <1>8, <1>9
      <4> QED
        BY <3>2, <4>1
    <3> QED
      BY <3>1, <3>2
  <2> QED
    BY <2>1, <2>2 DEF Stacks
<1>15. Left' /\ StackTypes' /\ NotYet'
  BY <1>1, <1>5, <1>9, LeftKept, TypesKept, NotYetKept
<1>16. Whole'
  <2> SUFFICES ASSUME NEW v \in Values
               PROVE  /\ InOnePlace(v)' /\ (future'[v] = "pending" => Wanted(v)')
                      /\ future'[v] # "broken"
    BY <1>1 DEF Whole
  <2>1. Pushed(v)' = Pushed(v)
    BY <1>1, <1>5 DEF Pushed
  <2>2. Running(v)' = IF v = w THEN Running(v) \cup {<<t, n + 1>>} ELSE Running(v)
    <3>1. ASSUME NEW p \in Threads \X (1..MaxNodes)
          PROVE  p[2] <= Len(stack'[p[1]]) /\ stack'[p[1]][p[2]].task = v
                 <=> \/ p[2] <= Len(stack[p[1]]) /\ stack[p[1]][p[2]].task = v
                     \/ v = w /\ p = <<t, n + 1>>
      <4>1. /\ p[1] \in Threads /\ p[2] \in 1..MaxNodes /\ p = <<p[1], p[2]>>
        OBVIOUS
      <4>2. CASE p[1] # t
        BY <1>9, <4>1, <4>2
      <4>3. CASE p[1] = t /\ p[2] <= n
        <5>1. p[2] \in 1..n /\ p[2] <= n + 1 /\ p[2] # n + 1
          BY <1>8, <4>1, <4>3, QueueAssumption
        <5>2. stack'[t][p[2]] = stack[t][p[2]] /\ p # <<t, n + 1>>
          BY <1>9, <4>1, <5>1
        <5> QED
          BY <1>8, <1>9, <4>3, <5>1, <5>2
      <4>4. CASE p[1] = t /\ p[2] > n
        <5>1. p[2] <= n + 1 <=> p[2] = n + 1
          BY <1>8, <4>1, <4>4, QueueAssumption
        <5>2. p = <<t, n + 1>> <=> p[2] = n + 1
          BY <4>1, <4>4
        <5>3. ~(p[2] <= Len(stack[p[1]]))
          BY <1>8, <4>1, <4>4, QueueAssumption
        <5> QED
          BY <1>7, <1>9, <4>4, <5>1, <5>2, <5>3
      <4> QED
        BY <1>8, <4>1, <4>2, <4>3, <4>4, QueueAssumption
    <3>2. <<t, n + 1>> \in Threads \X (1..MaxNodes)
      BY <1>8, <1>13, QueueAssumption
    <3>3. \A p : p \in Running(v)' <=> p \in Running(v) \/ (v = w /\ p = <<t, n + 1>>)
      BY <3>1, <3>2 DEF Running
    <3> QED
      BY <3>3
  <2>3. InOnePlace(v)'
    <3>1. CASE v = w
      <4>1. Running(v)' = {<<t, n + 1>>}
        BY <1>12, <2>2, <3>1
      <4>2. IsFiniteSet(Running(v)') /\ Cardinality(Running(v)') = 1
        BY <4>1, FS_Singleton
      <4>3. Cardinality(Running(v)) = 0
        BY <1>12, <3>1, FS_EmptySet
      <4> QED
        BY <1>1, <1>10, <1>11, <1>12, <2>1, <3>1, <4>2, <4>3 DEF InOnePlace
    <3>2. CASE v # w
      BY <1>1, <1>10, <1>11, <2>1, <2>2, <3>2 DEF InOnePlace
    <3> QED
      BY <3>1, <3>2
  <2>4. ASSUME future'[v] = "pending" PROVE Wanted(v)'
    <3>1. PICK u \in Threads : \E i \in 1..Len(stack[u]) : WantedBy(stack[u][i], v)
      BY <1>1, <1>2, <2>4 DEF Whole, Wanted
    <3>2. PICK i \in 1..Len(stack[u]) : WantedBy(stack[u][i], v)
      BY <3>1
    <3>3. i \in 1..Len(stack'[u]) /\ stack'[u][i] = stack[u][i]
      <4>1. CASE u # t
        BY <1>9, <4>1
      <4>2. CASE u = t
        <5>1. i \in 1..n /\ i \in 1..(n + 1)
          BY <1>8, <4>2
        <5> QED
          BY <1>9, <4>2, <5>1
      <4> QED
        BY <4>1, <4>2
    <3>4. \E x \in Threads : \E j \in 1..Len(stack'[x]) : WantedBy(stack'[x][j], v)
      BY <3>2, <3>3
    <3> QED
      BY <3>4 DEF Wanted, WantedBy
  <2> QED
    BY <1>1, <1>2, <2>3, <2>4 DEF Whole
<1>17. Gone'
  BY <1>1, <1>2 DEF Gone
<1> QED
  BY <1>14, <1>15, <1>16, <1>17

-----------------------------------------------------------------------------
(* The end of the pool.                                                    *)

LEMMA LeaveInv ==
    ASSUME PoolInv, QueueInv, QueueInv', pool # "none", NEW t \in Threads, Leave(t)
    PROVE  PoolInv'
<1> USE DEF PoolInv
<1>1. /\ t \in Workers /\ t \notin exited /\ stack[t] = <<>> /\ call[t].pc = "idle"
      /\ pool = "closing" /\ exited' = exited \cup {t}
      /\ UNCHANGED <<queueVars, pool, future, stack>>
  BY DEF Leave, Busy, Between
<1>2. StackTypes' /\ Stacks' /\ NotYet' /\ Left' /\ Gone'
  <2>1. StackTypes'
    BY <1>1 DEF StackTypes
  <2>2. Stacks' /\ NotYet'
    BY <1>1 DEF Stacks, NotYet, queueVars
  <2>3. Left'
    BY <1>1 DEF Left, queueVars
  <2>4. Gone'
    BY <1>1 DEF Gone
  <2> QED
    BY <2>1, <2>2, <2>3, <2>4
<1>3. \A v \in Values : /\ Pushed(v)' = Pushed(v) /\ Queued(v)' = Queued(v)
                        /\ Running(v)' = Running(v) /\ (Wanted(v) => Wanted(v)')
  BY <1>1 DEF queueVars, Pushed, Queued, Contents, Running, Wanted
<1>4. Whole'
  BY <1>1, <1>3, WholeKept
<1> QED
  BY <1>2, <1>4

LEMMA DestroyInv ==
    ASSUME PoolInv, QueueInv, QueueInv', Destroy
    PROVE  PoolInv'
<1> USE DEF PoolInv
<1>1. /\ Busy(Owner) /\ call[Owner].pc = "idle" /\ Top(Owner).awaits = 0
      /\ Top(Owner).task = OwnersOwn /\ pool = "up" /\ pool' = "closing"
      /\ UNCHANGED <<queueVars, exited, future, stack>> /\ Owner \in Threads
  BY PoolAssumption DEF Destroy, InBody, Between
<1>2. /\ Len(stack[Owner]) \in Nat \ {0}
      /\ Top(Owner) = stack[Owner][Len(stack[Owner])]
  BY <1>1, TopIs
<1>3. Len(stack[Owner]) = 1
  <2>1. Len(stack[Owner]) \in 1..Len(stack[Owner])
    BY <1>2
  <2> QED
    BY <1>1, <1>2, <2>1 DEF Stacks
<1>4. StackTypes' /\ Stacks' /\ NotYet' /\ Left' /\ Gone'
  <2>1. StackTypes'
    BY <1>1 DEF StackTypes
  <2>2. Stacks' /\ NotYet'
    BY <1>1 DEF Stacks, NotYet, queueVars
  <2>3. Left'
    BY <1>1, <1>2, <1>3 DEF Left, queueVars
  <2>4. Gone'
    BY <1>1 DEF Gone
  <2> QED
    BY <2>1, <2>2, <2>3, <2>4
<1>5. \A v \in Values : /\ Pushed(v)' = Pushed(v) /\ Queued(v)' = Queued(v)
                        /\ Running(v)' = Running(v) /\ (Wanted(v) => Wanted(v)')
  BY <1>1 DEF queueVars, Pushed, Queued, Contents, Running, Wanted
<1>6. Whole'
  BY <1>1, <1>5 DEF Whole, InOnePlace
<1> QED
  BY <1>4, <1>6

\* with every worker gone, what is open is in the queue and its owner's own
LEMMA JoinedInv ==
    ASSUME PoolInv, QueueInv, QueueInv', Joined
    PROVE  PoolInv'
<1> USE DEF PoolInv
<1>1. /\ pool = "closing" /\ exited = Workers /\ pool' = "gone"
      /\ future' = [v \in Values |-> IF v \in ToSet(Contents) THEN "broken" ELSE future[v]]
      /\ UNCHANGED <<queueVars, exited, stack>> /\ Owner \in Threads
  BY PoolAssumption DEF Joined, QueueDestroyed
<1>2. /\ \A t \in Threads : call[t].pc = "idle" /\ (t # Owner => stack[t] = <<>>)
      /\ Len(stack[Owner]) = 1 /\ stack[Owner][1].awaits = 0
      /\ stack[Owner][1].task = OwnersOwn
  BY <1>1, PoolAssumption DEF Left, Stacks
<1>3. ASSUME NEW v \in Values
      PROVE  /\ v \in ToSet(Contents) <=> future[v] = "pending"
             /\ future[v] # "broken"
             /\ future[v] = "pending" => v \in ToSet(stack[Owner][1].kids)
  <2>0. InOnePlace(v) /\ (future[v] = "pending" => Wanted(v)) /\ future[v] # "broken"
    BY <1>1 DEF Whole
  <2>1. Pushed(v) = {}
    BY <1>2 DEF Pushed
  <2>2. Running(v) = {}
    <3> SUFFICES ASSUME NEW p \in Running(v) PROVE FALSE
      OBVIOUS
    <3>1. /\ p[1] \in Threads /\ p[2] \in 1..MaxNodes /\ p[2] <= Len(stack[p[1]])
          /\ stack[p[1]][p[2]].task = v
      BY DEF Running
    <3>2. MaxNodes \in Nat \ {0} /\ v \in 1..(MaxNodes - 1)
      BY QueueAssumption, PoolAssumption
    <3>3. p[1] = Owner /\ p[2] = 1
      BY <1>2, <3>1, <3>2
    <3> QED
      BY <1>2, <3>1, <3>2, <3>3 DEF OwnersOwn
  <2>3. /\ IsFiniteSet(Queued(v)) /\ Cardinality(Queued(v)) \in Nat
        /\ Cardinality(Queued(v)) = 0 <=> Queued(v) = {}
    BY QueuedIs, PlacesFinite, FS_EmptySet, FS_CardinalityType
  <2>4. Cardinality(Queued(v)) = IF future[v] = "pending" THEN 1 ELSE 0
    BY <2>0, <2>1, <2>2, <2>3, FS_EmptySet DEF InOnePlace
  <2>5. Queued(v) # {} <=> future[v] = "pending"
    BY <2>3, <2>4
  <2>6. v \in ToSet(Contents) <=> Queued(v) # {}
    BY DEF ToSet, Queued
  <2>7. ASSUME future[v] = "pending" PROVE v \in ToSet(stack[Owner][1].kids)
    <3>1. PICK u \in Threads : \E i \in 1..Len(stack[u]) : WantedBy(stack[u][i], v)
      BY <2>0, <2>7 DEF Wanted
    <3>2. PICK i \in 1..Len(stack[u]) : WantedBy(stack[u][i], v)
      BY <3>1
    <3>3. u = Owner /\ i = 1
      BY <1>2, <3>2
    <3>4. PICK own \in Functions : own = stack[Owner][1]
      BY <1>1, <1>2, ElementOfSeq DEF StackTypes
    <3>5. v # 0
      BY PoolAssumption, QueueAssumption
    <3>6. PICK k \in 1..Len(own.kids) : own.kids[k] = v
      BY <1>2, <3>2, <3>3, <3>4, <3>5 DEF WantedBy
    <3>7. own.kids \in Seq(Values)
      BY FunctionIs
    <3>8. DOMAIN own.kids = 1..Len(own.kids)
      BY <3>7
    <3> QED
      BY <3>4, <3>6, <3>8 DEF ToSet
  <2> QED
    BY <2>0, <2>5, <2>6, <2>7
<1>4. \A v \in Values : future'[v] = IF future[v] = "pending" THEN "broken" ELSE future[v]
  BY <1>1, <1>3
<1>5. StackTypes' /\ Stacks' /\ NotYet' /\ Left' /\ Whole'
  <2>1. StackTypes'
    <3>1. \A v \in Values : future'[v] \in {"none", "pending", "ready", "broken"}
      BY <1>4 DEF StackTypes
    <3> QED
      BY <1>1, <3>1 DEF StackTypes
  <2>2. Stacks' /\ NotYet'
    <3>1. Stacks'
      BY <1>1 DEF Stacks
    <3>2. Len(node') = Len(node)
      BY <1>1 DEF queueVars
    <3> QED
      BY <1>4, <3>1, <3>2 DEF NotYet
  <2>3. Left'
    BY <1>1, <1>2 DEF Left, queueVars
  <2>4. Whole'
    BY <1>1 DEF Whole
  <2> QED
    BY <2>1, <2>2, <2>3, <2>4
<1>6. Gone'
  <2>1. ASSUME NEW v \in Values
        PROVE  \/ future'[v] \in {"none", "ready"}
               \/ future'[v] = "broken" /\ v \in ToSet(stack'[Owner][1].kids)
    BY <1>1, <1>3, <1>4 DEF StackTypes
  <2>2. OnlyUnawaitedDropped'
    BY <2>1 DEF OnlyUnawaitedDropped
  <2> QED
    BY <1>1, <2>2 DEF Gone
<1> QED
  BY <1>5, <1>6

-----------------------------------------------------------------------------
(* The queue by itself, and every step of the pool.                        *)

LEMMA NodesGrow ==
    ASSUME QueueInv, Next
    PROVE  Len(node) \in Nat /\ Len(node') \in Nat /\ Len(node') >= Len(node)
<1>1. Len(node) \in Nat /\ node \in Seq([data : Values \cup {Nothing}, next : Nat])
  BY DEF QueueInv, TypeOK
<1>2. PICK t \in Threads : Begin(t) \/ Continue(t) \/ WakeSpuriously(t)
  BY DEF Next
<1>3. CASE PushFill(t) \/ PushLink(t)
  BY <1>1, <1>3 DEF PushFill, PushLink
<1>4. CASE StartPush(t)
  BY <1>1, <1>4 DEF StartPush
<1>5. CASE node' = node
  BY <1>1, <1>5
<1> QED
  BY <1>2, <1>3, <1>4, <1>5 DEF Begin, Continue, StartPop, PushMove, Notify, LockHead, Look,
     LookAt, Sleep, WakeSpuriously, PopHead

LEMMA AloneInv ==
    ASSUME PoolInv, QueueInv, QueueInv', UsedAlone
    PROVE  PoolInv'
<1> USE DEF PoolInv
<1>1. pool = "none" /\ Next /\ UNCHANGED <<pool, exited, future, stack>> /\ exited = {}
  BY DEF UsedAlone, poolVars, Left
<1>2. Len(node) \in Nat /\ Len(node') \in Nat /\ Len(node') >= Len(node)
  BY <1>1, NodesGrow
<1>3. StackTypes' /\ Stacks'
  BY <1>1 DEF StackTypes, Stacks
<1>4. NotYet'
  <2>1. \A v \in Values : v >= Len(node') => v >= Len(node)
    BY <1>2, PoolAssumption
  <2> QED
    BY <1>1, <2>1 DEF NotYet
<1> QED
  BY <1>1, <1>3, <1>4 DEF Left, Whole, Gone

LEMMA PoolStep ==
    ASSUME PoolInv, QueueInv, QueueInv', [PoolNext]_allVars
    PROVE  PoolInv'
<1>1. CASE UNCHANGED allVars
  <2>1. UNCHANGED <<queueVars, pool, exited, future, stack>>
    BY <1>1 DEF allVars, poolVars
  <2>2. StackTypes' /\ Stacks' /\ NotYet' /\ Left'
    BY <2>1 DEF PoolInv, StackTypes, Stacks, NotYet, Left, queueVars
  <2>3. \A v \in Values : /\ Pushed(v)' = Pushed(v) /\ Queued(v)' = Queued(v)
                          /\ Running(v)' = Running(v) /\ (Wanted(v) => Wanted(v)')
    BY <2>1 DEF queueVars, Pushed, Queued, Contents, Running, Wanted
  <2>4. Whole'
    BY <2>1, <2>3, WholeKept
  <2>5. Gone'
    BY <2>1 DEF PoolInv, Gone, OnlyUnawaitedDropped
  <2> QED
    BY <2>2, <2>4, <2>5 DEF PoolInv
<1>2. CASE UsedAlone
  BY <1>2, AloneInv
<1>3. CASE pool # "none" /\ \E t \in Threads : Proceed(t) \/ Choose(t)
  <2>1. PICK t \in Threads : Proceed(t) \/ Choose(t)
    BY <1>3
  <2>2. CASE QueueStep(t)
    BY <1>3, <2>2, QueueStepInv
  <2>3. CASE RunTask(t)
    BY <1>3, <2>3, RunTaskInv
  <2>4. CASE AwaitLast(t) \/ Get(t) \/ Resume(t)
    BY <1>3, <2>4, WaitInv
  <2>5. CASE RunPending(t) \/ Work(t)
    BY <1>3, <2>5, BeginPopInv
  <2>6. CASE Leave(t)
    BY <1>3, <2>6, LeaveInv
  <2>7. CASE Finish(t)
    BY <1>3, <2>7, FinishInv
  <2>8. CASE Submit(t)
    BY <1>3, <2>8, SubmitInv
  <2> QED
    BY <2>1, <2>2, <2>3, <2>4, <2>5, <2>6, <2>7, <2>8 DEF Proceed, Choose
<1>4. CASE pool # "none" /\ (Destroy \/ Joined)
  BY <1>4, DestroyInv, JoinedInv
<1> QED
  BY <1>1, <1>2, <1>3, <1>4 DEF PoolNext

LEMMA PoolInvariant == PoolSpec => []PoolInv
<1>1. PoolInit => PoolInv
  BY InitPool
<1>2. PoolInv /\ QueueInv /\ QueueInv' /\ [PoolNext]_allVars => PoolInv'
  BY PoolStep
<1>3. PoolSpec => []QueueInv
  BY PoolRunsQueue, QueueInvariant
<1> QED
  BY <1>1, <1>2, <1>3, PTL DEF PoolSpec

\* No task is lost and none is run twice, however many threads, tasks and tasks
\* within tasks there are (submit, worker_thread, run_pending_task, do_sort).
THEOREM TasksAreInOnePlace == PoolSpec => []TasksInOnePlace
<1>1. PoolInv => TasksInOnePlace
  BY DEF PoolInv, Whole, InOnePlace, TasksInOnePlace
<1> QED
  BY <1>1, PoolInvariant, PTL

\* What the destructor lets go is only what its owner never waited for: every
\* task another task waits for has run by the time the workers are joined.
THEOREM OnlyUnawaitedAreDropped == PoolSpec => []OnlyUnawaitedDropped
<1>1. PoolInv => OnlyUnawaitedDropped
  BY DEF PoolInv, Gone, OnlyUnawaitedDropped
<1> QED
  BY <1>1, PoolInvariant, PTL

=============================================================================
