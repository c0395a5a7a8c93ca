-------------------------- MODULE SnowFlakeProofs --------------------------
(***************************************************************************)
(* Proofs about the id generator, for any number of threads, serials and   *)
(* milliseconds in a second.                                               *)
(*                                                                         *)
(* Exclusive is the heart of the invariant: as long as no call overflows,  *)
(* the mutex is held by exactly the thread inside get_sid, so the key that *)
(* thread has read is still the key when it writes the next one.           *)
(***************************************************************************)
EXTENDS SnowFlake, TLAPS

Exclusive ==
    \A t \in Threads :
        /\ call[t].pc \in {"idle", "locked", "looked", "return"}
        /\ call[t].depth = 0
        /\ call[t].pc # "idle" <=> mutex = t
        /\ call[t].pc = "looked" => call[t].key = key

\* the last id handed out is the key, or the key is a start value yet unused
KeyIsLast ==
    /\ key.ts = last
    /\ \A i \in 1..Len(sids) : sids[i] = key \/ Less(sids[i], key)

SidInv ==
    /\ TypeOK
    /\ ~overflowed /\ restarts = 0 => Exclusive /\ KeyIsLast /\ Increasing(sids)

LEMMA LessTransitive ==
    ASSUME NEW a \in Ids, NEW b \in Ids, NEW c \in Ids, Less(a, b), Less(b, c)
    PROVE  Less(a, c)
BY DEF Less, Ids

LEMMA IdleType == Idle \in Calls /\ Fresh(0) \in Ids
BY SnowFlakeAssumption DEF Idle, Calls, Fresh, Id, Ids

\* A new id greater than the key extends the ids in order.
LEMMA GiveGrows ==
    ASSUME TypeOK, KeyIsLast, Increasing(sids), NEW k \in Ids, Less(key, k),
           sids' = Append(sids, k), key' = k, last' = k.ts
    PROVE  KeyIsLast' /\ Increasing(sids')
<1>1. /\ Len(sids') = Len(sids) + 1
      /\ \A i \in 1..Len(sids) : sids'[i] = sids[i]
      /\ sids'[Len(sids) + 1] = k
      /\ Len(sids) \in Nat
  BY DEF TypeOK
<1>2. \A i \in 1..Len(sids) : Less(sids[i], k)
  <2> SUFFICES ASSUME NEW i \in 1..Len(sids) PROVE Less(sids[i], k)
    OBVIOUS
  <2>1. sids[i] \in Ids /\ key \in Ids
    BY DEF TypeOK
  <2>2. QED
    BY <2>1, LessTransitive DEF KeyIsLast
<1>3. \A i \in 1..Len(sids') : i \in 1..Len(sids) \/ i = Len(sids) + 1
  BY <1>1
<1>4. KeyIsLast'
  BY <1>1, <1>2, <1>3 DEF KeyIsLast
<1>5. Increasing(sids')
  <2> SUFFICES ASSUME NEW i \in 1..Len(sids'), NEW j \in 1..Len(sids'), i < j
               PROVE  Less(sids'[i], sids'[j])
    BY DEF Increasing
  <2>1. i \in 1..Len(sids)
    BY <1>1
  <2>2. CASE j \in 1..Len(sids)
    BY <1>1, <2>1, <2>2 DEF Increasing
  <2>3. CASE j = Len(sids) + 1
    BY <1>1, <1>2, <2>1, <2>3
  <2>4. QED
    BY <1>3, <2>2, <2>3
<1>6. QED
  BY <1>4, <1>5

\* What a call becomes when its pc, its depth or what it has read changes.
LEMMA CallTypes ==
    ASSUME NEW c \in Calls, NEW p \in {"idle", "locked", "looked", "return", "again"},
           NEW ts \in Nat, NEW k \in Ids, NEW d \in Nat
    PROVE  /\ [c EXCEPT !.pc = p] \in Calls
           /\ [c EXCEPT !.pc = p, !.ts = ts, !.key = k] \in Calls
           /\ [c EXCEPT !.pc = p, !.depth = d] \in Calls
           /\ [c EXCEPT !.depth = d] \in Calls
BY DEF Calls

LEMMA ReturnedType == ASSUME NEW c \in Calls PROVE Returned(c) \in Calls
<1>1. CASE c.depth = 0
  BY <1>1, IdleType DEF Returned
<1>2. CASE c.depth # 0
  <2>1. c.depth \in Nat /\ c.ts \in Nat /\ c.key \in Ids
    BY DEF Calls
  <2>2. c.depth - 1 \in Nat
    BY <1>2, <2>1
  <2>3. c.pc \in {"idle", "locked", "looked", "return", "again"}
    BY DEF Calls
  <2>4. [c EXCEPT !.depth = c.depth - 1] \in Calls
    BY <2>1, <2>2, <2>3, CallTypes
  <2>5. QED
    BY <1>2, <2>4 DEF Returned
<1>3. QED
  BY <1>1, <1>2

LEMMA TypeStep == TypeOK /\ [Next]_vars => TypeOK'
<1> SUFFICES ASSUME TypeOK, [Next]_vars PROVE TypeOK'
  OBVIOUS
<1> USE SnowFlakeAssumption
<1>1. GetMsTs \in Nat
  BY DEF GetMsTs, TypeOK
<1>2. Later => sec' \in Nat /\ ms' \in Nat
  BY DEF Later, TypeOK
<1>3. ASSUME NEW ts \in Nat PROVE Fresh(ts) \in Ids
  BY DEF Fresh, Id, Ids
<1>4. CASE Tick
  BY <1>2, <1>4 DEF Tick, TypeOK
<1>5. CASE Restart
  <2>1. sec' + ms' \in Nat
    BY <1>2, <1>5 DEF Restart
  <2>2. QED
    BY <1>2, <1>3, <1>5, <2>1, IdleType DEF Restart, TypeOK
<1>6. ASSUME NEW t \in Threads, Lock(t)
      PROVE  TypeOK'
  <2>1. call[t] \in Calls /\ call[t].ts \in Nat /\ call[t].key \in Ids
    BY DEF TypeOK, Calls
  <2>2. [call[t] EXCEPT !.pc = "locked"] \in Calls
    BY <2>1, CallTypes
  <2>3. call' = [call EXCEPT ![t] = [call[t] EXCEPT !.pc = "locked"]]
    BY <1>6 DEF Lock
  <2>4. QED
    BY <1>6, <2>2, <2>3 DEF Lock, TypeOK
<1>7. ASSUME NEW t \in Threads, Look(t)
      PROVE  TypeOK'
  <2>1. call[t] \in Calls /\ key \in Ids
    BY DEF TypeOK
  <2>2. [call[t] EXCEPT !.pc = "looked", !.ts = GetMsTs, !.key = key] \in Calls
    BY <1>1, <2>1, CallTypes
  <2>3. call' = [call EXCEPT ![t] =
                   [call[t] EXCEPT !.pc = "looked", !.ts = GetMsTs, !.key = key]]
    BY <1>7 DEF Look
  <2>4. QED
    BY <1>7, <2>2, <2>3 DEF Look, TypeOK
<1>8. ASSUME NEW t \in Threads, NEW k \in Ids, Give(t, k), last' \in Nat
      PROVE  TypeOK'
  <2>1. call[t] \in Calls /\ call[t].ts \in Nat /\ call[t].key \in Ids
    BY DEF TypeOK, Calls
  <2>2. [call[t] EXCEPT !.pc = "return"] \in Calls
    BY <2>1, CallTypes
  <2>3. call' = [call EXCEPT ![t] = [call[t] EXCEPT !.pc = "return"]]
    BY <1>8 DEF Give
  <2>4. QED
    BY <1>8, <2>2, <2>3 DEF Give, TypeOK
<1>9. ASSUME NEW t \in Threads, NewTimestamp(t)
      PROVE  TypeOK'
  <2>1. call[t].ts \in Nat
    BY DEF TypeOK, Calls
  <2>2. QED
    BY <1>3, <1>8, <1>9, <2>1 DEF NewTimestamp
<1>10. ASSUME NEW t \in Threads, NextSerial(t)
       PROVE  TypeOK'
  <2>1. NextKey(call[t].key) \in Ids
    BY <1>10 DEF NextSerial, NextKey, Id, Ids, TypeOK, Calls
  <2>2. QED
    BY <1>8, <1>10, <2>1 DEF NextSerial, TypeOK
<1>11. ASSUME NEW t \in Threads, Overflow(t)
       PROVE  TypeOK'
  <2>1. /\ call[t] \in Calls /\ call[t].ts \in Nat /\ call[t].key \in Ids
        /\ call[t].depth + 1 \in Nat
    BY DEF TypeOK, Calls
  <2>2. [call[t] EXCEPT !.pc = "again", !.depth = call[t].depth + 1] \in Calls
    BY <2>1, CallTypes
  <2>3. call' = [call EXCEPT ![t] =
                   [call[t] EXCEPT !.pc = "again", !.depth = call[t].depth + 1]]
    BY <1>11 DEF Overflow
  <2>4. QED
    BY <1>2, <1>11, <2>2, <2>3 DEF Overflow, TypeOK
<1>12. ASSUME NEW t \in Threads, Unlock(t)
       PROVE  TypeOK'
  <2>1. Returned(call[t]) \in Calls
    BY ReturnedType DEF TypeOK
  <2>2. QED
    BY <1>12, <2>1 DEF Unlock, TypeOK
<1>13. CASE UNCHANGED vars
  BY <1>13 DEF vars, TypeOK
<1>14. QED
  BY <1>4, <1>5, <1>6, <1>7, <1>9, <1>10, <1>11, <1>12, <1>13 DEF Next

\* The invariant holds at the start and in every step.
LEMMA SidStart == Init => SidInv
<1> SUFFICES ASSUME Init PROVE SidInv
  OBVIOUS
<1> USE SnowFlakeAssumption
<1>1. GetMsTs \in Nat
  BY DEF Init, GetMsTs
<1>2. Fresh(GetMsTs) \in Ids /\ Fresh(GetMsTs).ts = GetMsTs
  BY <1>1 DEF Fresh, Id, Ids
<1>3. TypeOK
  <2>1. call \in [Threads -> Calls]
    BY IdleType DEF Init
  <2>2. sids \in Seq(Ids)
    BY DEF Init
  <2>3. last \in Nat /\ key \in Ids
    BY <1>1, <1>2 DEF Init
  <2>4. QED
    BY <2>1, <2>2, <2>3 DEF Init, TypeOK
<1>4. Len(sids) = 0
  BY DEF Init
<1>5. \A t \in Threads : call[t] = Idle /\ mutex # t
  BY DEF Init
<1>6. Exclusive
  <2>1. Idle.pc = "idle" /\ Idle.depth = 0
    BY DEF Idle
  <2>2. QED
    BY <1>5, <2>1 DEF Exclusive
<1>7. KeyIsLast /\ Increasing(sids)
  BY <1>2, <1>4 DEF Init, KeyIsLast, Increasing
<1>8. QED
  BY <1>3, <1>6, <1>7 DEF SidInv

\* One thread takes a step that hands nothing out: the other threads' calls stay.
LEMMA ExclusiveStep ==
    ASSUME TypeOK, Exclusive, NEW t \in Threads, Lock(t) \/ Look(t) \/ Unlock(t)
    PROVE  Exclusive'
<1> USE SnowFlakeAssumption
<1> SUFFICES ASSUME NEW u \in Threads
             PROVE  /\ call'[u].pc \in {"idle", "locked", "looked", "return"}
                    /\ call'[u].depth = 0
                    /\ call'[u].pc # "idle" <=> mutex' = u
                    /\ call'[u].pc = "looked" => call'[u].key = key'
  BY DEF Exclusive
<1>1. /\ call \in [Threads -> Calls]
      /\ call[t] \in Calls /\ call[u] \in Calls
  BY DEF TypeOK
<1>2. /\ call[u].pc \in {"idle", "locked", "looked", "return"}
      /\ call[u].depth = 0 /\ call[t].depth = 0
      /\ call[u].pc # "idle" <=> mutex = u
      /\ call[t].pc # "idle" <=> mutex = t
      /\ call[u].pc = "looked" => call[u].key = key
      /\ call[t].pc # "again"
  BY DEF Exclusive
<1>3. key' = key
  BY DEF Lock, Look, Unlock
<1>4. CASE u # t
  <2>1. call'[u] = call[u]
    BY <1>1, <1>4 DEF Lock, Look, Unlock
  <2>2. mutex' = u <=> mutex = u
    BY <1>2, <1>4 DEF Lock, Look, Unlock
  <2>3. QED
    BY <1>2, <1>3, <2>1, <2>2
<1>5. CASE u = t
  <2>1. CASE Lock(t)
    <3>1. /\ call'[t].pc = "locked" /\ call'[t].depth = call[t].depth
          /\ mutex' = t
      BY <1>1, <2>1 DEF Lock, Calls
    <3>2. QED
      BY <1>2, <1>5, <3>1
  <2>2. CASE Look(t)
    <3>1. /\ call'[t].pc = "looked" /\ call'[t].depth = call[t].depth
          /\ call'[t].key = key /\ mutex' = mutex /\ call[t].pc = "locked"
      BY <1>1, <2>2 DEF Look, Calls
    <3>2. QED
      BY <1>2, <1>3, <1>5, <3>1
  <2>3. CASE Unlock(t)
    <3>1. call'[t] = Idle /\ mutex' = NoThread
      BY <1>1, <1>2, <1>5, <2>3 DEF Unlock, Returned
    <3>2. QED
      BY <1>5, <3>1 DEF Idle
  <2>4. QED
    BY <2>1, <2>2, <2>3
<1>6. QED
  BY <1>4, <1>5

\* The thread that hands out an id is the only one inside, so nobody else's
\* reading of the key becomes stale.
LEMMA ExclusiveGive ==
    ASSUME TypeOK, Exclusive, NEW t \in Threads, NEW k, Give(t, k),
           call[t].pc = "looked"
    PROVE  Exclusive'
<1> SUFFICES ASSUME NEW u \in Threads
             PROVE  /\ call'[u].pc \in {"idle", "locked", "looked", "return"}
                    /\ call'[u].depth = 0
                    /\ call'[u].pc # "idle" <=> mutex' = u
                    /\ call'[u].pc = "looked" => call'[u].key = key'
  BY DEF Exclusive
<1>1. /\ call \in [Threads -> Calls]
      /\ call[t] \in Calls /\ call[u] \in Calls /\ mutex' = mutex
  BY DEF TypeOK, Give
<1>2. /\ call[u].pc \in {"idle", "locked", "looked", "return"}
      /\ call[u].depth = 0 /\ call[t].depth = 0
      /\ call[u].pc # "idle" <=> mutex = u
      /\ mutex = t
  BY DEF Exclusive
<1>3. CASE u # t
  <2>1. call'[u] = call[u]
    BY <1>1, <1>3 DEF Give
  <2>2. call[u].pc = "idle"
    BY <1>2, <1>3
  <2>3. QED
    BY <1>1, <1>2, <2>1, <2>2
<1>4. CASE u = t
  <2>1. call'[t].pc = "return" /\ call'[t].depth = call[t].depth
    BY <1>1 DEF Give, Calls
  <2>2. QED
    BY <1>1, <1>2, <1>4, <2>1
<1>5. QED
  BY <1>3, <1>4

LEMMA SidStep == SidInv /\ [Next]_vars => SidInv'
<1> SUFFICES ASSUME SidInv, [Next]_vars PROVE SidInv'
  OBVIOUS
<1> USE SnowFlakeAssumption
<1>1. TypeOK /\ TypeOK'
  BY TypeStep DEF SidInv
<1>2. SUFFICES ASSUME ~overflowed', restarts' = 0
               PROVE  Exclusive' /\ KeyIsLast' /\ Increasing(sids')
  BY <1>1 DEF SidInv
<1>3. ~Restart
  <2>1. restarts \in Nat
    BY <1>1 DEF TypeOK
  <2>2. QED
    BY <1>2, <2>1 DEF Restart
<1>4. ASSUME NEW t \in Threads PROVE ~Overflow(t)
  BY <1>2 DEF Overflow
<1>5. ~overflowed /\ restarts = 0
  <2>1. overflowed' = overflowed /\ restarts' = restarts
    BY <1>3, <1>4 DEF Next, Tick, Lock, Look, NewTimestamp, NextSerial, Give,
                      Unlock, vars
  <2>2. QED
    BY <1>2, <2>1
<1>6. Exclusive /\ KeyIsLast /\ Increasing(sids)
  BY <1>5 DEF SidInv
<1>7. CASE Tick
  <2>1. UNCHANGED <<last, key, mutex, call, sids>>
    BY <1>7 DEF Tick
  <2>2. QED
    BY <1>6, <2>1 DEF Exclusive, KeyIsLast, Increasing
<1>8. ASSUME NEW t \in Threads, Lock(t) \/ Look(t) \/ Unlock(t)
      PROVE  Exclusive' /\ KeyIsLast' /\ Increasing(sids')
  <2>1. Exclusive'
    BY <1>1, <1>6, <1>8, ExclusiveStep
  <2>2. UNCHANGED <<last, key, sids>>
    BY <1>8 DEF Lock, Look, Unlock
  <2>3. QED
    BY <1>6, <2>1, <2>2 DEF KeyIsLast, Increasing
<1>9. ASSUME NEW t \in Threads, NewTimestamp(t)
      PROVE  Exclusive' /\ KeyIsLast' /\ Increasing(sids')
  <2> DEFINE k == Fresh(call[t].ts)
  <2>1. call[t].pc = "looked" /\ Give(t, k) /\ last' = call[t].ts /\ call[t].ts > last
    BY <1>9 DEF NewTimestamp
  <2>2. call[t].ts \in Nat /\ key \in Ids
    BY <1>1 DEF TypeOK, Calls
  <2>3. k \in Ids /\ k.ts = call[t].ts
    BY <2>2 DEF Fresh, Id, Ids
  <2>4. Less(key, k)
    BY <1>6, <2>1, <2>2, <2>3 DEF KeyIsLast, Less, Ids
  <2> HIDE DEF k
  <2>5. KeyIsLast' /\ Increasing(sids')
    BY <1>1, <1>6, <2>1, <2>3, <2>4, GiveGrows DEF Give
  <2>6. QED
    BY <1>1, <1>6, <2>1, <2>5, ExclusiveGive
<1>10. ASSUME NEW t \in Threads, NextSerial(t)
       PROVE  Exclusive' /\ KeyIsLast' /\ Increasing(sids')
  <2> DEFINE k == NextKey(call[t].key)
  <2>1. /\ call[t].pc = "looked" /\ Give(t, k) /\ last' = last
        /\ call[t].key.serial + 1 < Serials
    BY <1>10 DEF NextSerial
  <2>2. call[t].key = key /\ key.ts = last /\ key \in Ids
    BY <1>1, <1>6, <2>1 DEF Exclusive, KeyIsLast, TypeOK
  <2>3. k \in Ids /\ k.ts = last /\ Less(key, k)
    BY <2>1, <2>2 DEF NextKey, Id, Ids, Less
  <2> HIDE DEF k
  <2>4. KeyIsLast' /\ Increasing(sids')
    BY <1>1, <1>6, <2>1, <2>3, GiveGrows DEF Give
  <2>5. QED
    BY <1>1, <1>6, <2>1, <2>4, ExclusiveGive
<1>11. CASE UNCHANGED vars
  BY <1>6, <1>11 DEF vars, Exclusive, KeyIsLast, Increasing
<1>12. QED
  BY <1>3, <1>4, <1>7, <1>8, <1>9, <1>10, <1>11 DEF Next

\* The invariant, for every instance.
THEOREM SidInvariant == Spec => []SidInv
BY SidStart, SidStep, PTL DEF Spec

\* Serials never run over into the bits of the machine number.
THEOREM SidTypeCorrect == Spec => []TypeOK
<1>1. SidInv => TypeOK
  BY DEF SidInv
<1>2. QED
  BY <1>1, SidInvariant, PTL

\* As long as serials suffice and the process runs on, any number of threads
\* gets growing ids, so all are different.
THEOREM SidsGrow == Spec => []SidsIncrease
<1>1. SidInv => SidsIncrease
  BY DEF SidInv, SidsIncrease
<1>2. QED
  BY <1>1, SidInvariant, PTL

=============================================================================
