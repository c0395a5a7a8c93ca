----------------------------- MODULE SnowFlake -----------------------------
(***************************************************************************)
(* The id generator CSnowFlake (src/utility.hpp, src/utility.cpp): task    *)
(* ids in every client, room ids in the server.                            *)
(*                                                                         *)
(* An id is timestamp << 22 | machine << 12 | serial.  The machine number  *)
(* is the same for all ids of a generator, so an id is here the pair of    *)
(* its timestamp and its serial.  The timestamp is not the milliseconds    *)
(* since the epoch but the seconds plus the milliseconds within the second *)
(* (get_ms_ts), so it falls back once a second.                            *)
(*                                                                         *)
(* When the serials of a timestamp are used up, get_sid sleeps, destroys   *)
(* its lock_guard by hand and calls itself; the guard is destroyed again   *)
(* when the outer call returns.  Unlocking a mutex one does not hold is    *)
(* undefined; what the default mutex does is modelled: it becomes free,    *)
(* whoever holds it.                                                       *)
(***************************************************************************)
EXTENDS Integers, Sequences

CONSTANTS Threads,     \* threads that call get_sid
          NoThread,    \* the mutex is free
          Serials,     \* m_nMaxSerialNum + 1, 4096 in the code
          MsPerSec,    \* milliseconds in a second, 1000 in the world
          MaxSec,      \* BOUND: the last second of the clock
          MaxSids,     \* BOUND: ids handed out
          MaxRestarts  \* BOUND: restarts of the process

ASSUME SnowFlakeAssumption ==
    /\ NoThread \notin Threads
    /\ Serials \in Nat \ {0}
    /\ MsPerSec \in Nat \ {0}
    /\ MaxSec \in Nat /\ MaxSids \in Nat /\ MaxRestarts \in Nat

VARIABLES sec, ms,     \* the wall clock
          last,        \* m_nLast_ms_ts
          key,         \* m_nKey
          mutex,       \* who holds m_mtx
          call,        \* per thread: where its call stands
          sids,        \* the ids handed out, in order (history)
          overflowed,  \* a call has used up the serials (history)
          restarts     \* restarts so far (history)

vars == <<sec, ms, last, key, mutex, call, sids, overflowed, restarts>>

GetMsTs == sec + ms                          \* get_ms_ts

Id(ts, serial) == [ts |-> ts, serial |-> serial]
Fresh(ts) == Id(ts, 0)

\* ids are compared as words: the timestamp is in the upper bits
Less(a, b) == a.ts < b.ts \/ (a.ts = b.ts /\ a.serial < b.serial)

\* depth counts the unfinished outer calls of a recursion
Idle == [pc |-> "idle", ts |-> 0, key |-> Fresh(0), depth |-> 0]

-----------------------------------------------------------------------------
\* a millisecond passes
Later ==
    \/ ms + 1 < MsPerSec /\ ms' = ms + 1 /\ UNCHANGED sec
    \/ ms + 1 = MsPerSec /\ sec < MaxSec /\ ms' = 0 /\ sec' = sec + 1

Tick ==
    /\ Later
    /\ UNCHANGED <<last, key, mutex, call, sids, overflowed, restarts>>

\* lock_guard's constructor, in the call itself or in the call it makes
Lock(t) ==
    /\ call[t].pc \in {"idle", "again"}
    /\ mutex = NoThread
    /\ mutex' = t
    /\ call' = [call EXCEPT ![t].pc = "locked"]
    /\ UNCHANGED <<sec, ms, last, key, sids, overflowed, restarts>>

\* the clock and the key are read
Look(t) ==
    /\ call[t].pc = "locked"
    /\ call' = [call EXCEPT ![t].pc = "looked", ![t].ts = GetMsTs, ![t].key = key]
    /\ UNCHANGED <<sec, ms, last, key, mutex, sids, overflowed, restarts>>

\* the next serial of the timestamp in use
NextKey(k) == Id(k.ts, k.serial + 1)

\* hand out the id k and begin to return
Give(t, k) ==
    /\ Len(sids) < MaxSids
    /\ key' = k
    /\ sids' = Append(sids, k)
    /\ call' = [call EXCEPT ![t].pc = "return"]
    /\ UNCHANGED <<sec, ms, mutex, overflowed, restarts>>

\* takes a timestamp in use for a new one
BadNewTimestamp(t) ==
    /\ call[t].pc = "looked"
    /\ call[t].ts >= last
    /\ last' = call[t].ts
    /\ Give(t, Fresh(call[t].ts))

NewTimestamp(t) ==
    /\ call[t].pc = "looked"
    /\ call[t].ts > last
    /\ last' = call[t].ts
    /\ Give(t, Fresh(call[t].ts))

NextSerial(t) ==
    /\ call[t].pc = "looked"
    /\ call[t].ts <= last
    /\ call[t].key.serial + 1 < Serials
    /\ UNCHANGED last
    /\ Give(t, NextKey(call[t].key))

\* the serials are used up: sleep a millisecond, unlock, call again
Overflow(t) ==
    /\ call[t].pc = "looked"
    /\ call[t].ts <= last
    /\ call[t].key.serial + 1 >= Serials
    /\ Later
    /\ mutex' = NoThread
    /\ call' = [call EXCEPT ![t].pc = "again", ![t].depth = @ + 1]
    /\ overflowed' = TRUE
    /\ UNCHANGED <<last, key, sids, restarts>>

\* the end of the innermost of a thread's calls
Returned(c) == IF c.depth = 0 THEN Idle ELSE [c EXCEPT !.depth = @ - 1]

\* lock_guard's destructor, once in every call of the recursion
Unlock(t) ==
    /\ call[t].pc = "return"
    /\ mutex' = NoThread
    /\ call' = [call EXCEPT ![t] = Returned(@)]
    /\ UNCHANGED <<sec, ms, last, key, sids, overflowed, restarts>>

\* the process ends and is started again a millisecond later
Restart ==
    /\ restarts < MaxRestarts
    /\ restarts' = restarts + 1
    /\ Later
    /\ last' = sec' + ms'
    /\ key' = Fresh(sec' + ms')
    /\ mutex' = NoThread
    /\ call' = [t \in Threads |-> Idle]
    /\ UNCHANGED <<sids, overflowed>>

Init ==
    /\ sec = 0 /\ ms = 0
    /\ last = GetMsTs
    /\ key = Fresh(GetMsTs)
    /\ mutex = NoThread
    /\ call = [t \in Threads |-> Idle]
    /\ sids = <<>>
    /\ overflowed = FALSE
    /\ restarts = 0

Next ==
    \/ Tick
    \/ Restart
    \/ \E t \in Threads :
          \/ Lock(t) \/ Look(t) \/ NewTimestamp(t) \/ NextSerial(t)
          \/ Overflow(t) \/ Unlock(t)

Spec == Init /\ [][Next]_vars

-----------------------------------------------------------------------------
Ids   == [ts : Nat, serial : 0..(Serials - 1)]
Calls == [pc : {"idle", "locked", "looked", "return", "again"},
          ts : Nat, key : Ids, depth : Nat]

\* Types of the generator: the serial of an id never runs over into the bits of
\* the machine number.
TypeOK ==
    /\ sec \in Nat /\ ms \in Nat /\ last \in Nat /\ key \in Ids
    /\ mutex \in Threads \cup {NoThread}
    /\ call \in [Threads -> Calls]
    /\ sids \in Seq(Ids)
    /\ overflowed \in BOOLEAN /\ restarts \in Nat

Increasing(s) == \A i, j \in 1..Len(s) : i < j => Less(s[i], s[j])

\* As long as the serials of a timestamp suffice and the process runs on, the
\* ids grow, so none is handed out twice, although the timestamp falls back
\* every second and several threads call get_sid.
SidsIncrease == ~overflowed /\ restarts = 0 => Increasing(sids)

=============================================================================
