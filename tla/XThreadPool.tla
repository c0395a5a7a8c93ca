---------------------------- MODULE XThreadPool -----------------------------
(***************************************************************************)
(* XThreadPool and XThread (src/libevent_test/ev_ftp_server; the code in   *)
(* test_thread_pool is the same): the main thread deals out tasks to the   *)
(* threads in turn.  A thread has a list of tasks under a mutex and a pipe *)
(* that its event loop watches; one byte in the pipe stands for one task.  *)
(***************************************************************************)
EXTENDS Integers, Sequences

CONSTANTS Tasks,        \* the XTask objects; each is dispatched once
          ThreadCount,
          MaxFails      \* BOUND: writes to a thread's pipe that fail

ASSUME XPoolAssumption ==
    /\ ThreadCount \in Nat \ {0}
    /\ MaxFails \in Nat

XThreads == 0..(ThreadCount - 1)

VARIABLES tasks,       \* per thread: the list of tasks it has not taken yet
          pipe,        \* per thread: the number of bytes in its pipe
          loop,        \* per thread: in its event "loop", or in "notify" behind read
          lastThread,
          disp,        \* the main thread: "listen", or in Dispatch behind AddTask
          inited,      \* the tasks initialised so far
          fails        \* per thread: writes that failed (history)

poolVars == <<tasks, pipe, loop, lastThread, disp, inited, fails>>

\* tasks somebody still has to initialise
Listed == {x \in Tasks : \E t \in XThreads : \E i \in DOMAIN tasks[t] : tasks[t][i] = x}

-----------------------------------------------------------------------------
\* Dispatch: the next thread in turn gets the task ...
AddTask(x) ==
    /\ disp = "listen"
    /\ x \in Tasks \ (Listed \cup inited)
    /\ lastThread' = (lastThread + 1) % ThreadCount
    /\ tasks' = [tasks EXCEPT ![lastThread'] = Append(@, x)]
    /\ disp' = "activate"
    /\ UNCHANGED <<pipe, loop, inited, fails>>

\* ... and is activated with a byte; a write that fails is reported and forgotten
Activate ==
    /\ disp = "activate"
    /\ \/ /\ pipe' = [pipe EXCEPT ![lastThread] = @ + 1]
          /\ UNCHANGED fails
       \/ /\ fails[lastThread] < MaxFails
          /\ fails' = [fails EXCEPT ![lastThread] = @ + 1]
          /\ UNCHANGED pipe
    /\ disp' = "listen"
    /\ UNCHANGED <<tasks, loop, lastThread, inited>>

\* Notify, level-triggered: one byte of those in the pipe
ReadByte(t) ==
    /\ loop[t] = "loop"
    /\ pipe[t] > 0
    /\ pipe' = [pipe EXCEPT ![t] = @ - 1]
    /\ loop' = [loop EXCEPT ![t] = "notify"]
    /\ UNCHANGED <<tasks, lastThread, disp, inited, fails>>

\* takes what there is, as if a byte stood for the whole list
BadRunFirst(t) ==
    /\ loop[t] = "notify"
    /\ loop' = [loop EXCEPT ![t] = "loop"]
    /\ inited' = inited \cup {tasks[t][i] : i \in DOMAIN tasks[t]}
    /\ tasks' = [tasks EXCEPT ![t] = <<>>]
    /\ UNCHANGED <<pipe, lastThread, disp, fails>>

\* the first task is taken off the list and initialised; an empty list is let be
RunFirst(t) ==
    /\ loop[t] = "notify"
    /\ loop' = [loop EXCEPT ![t] = "loop"]
    /\ IF tasks[t] = <<>> THEN UNCHANGED <<tasks, inited>>
       ELSE /\ inited' = inited \cup {Head(tasks[t])}
            /\ tasks' = [tasks EXCEPT ![t] = Tail(@)]
    /\ UNCHANGED <<pipe, lastThread, disp, fails>>

XPoolInit ==
    /\ tasks = [t \in XThreads |-> <<>>]
    /\ pipe = [t \in XThreads |-> 0]
    /\ loop = [t \in XThreads |-> "loop"]
    /\ lastThread = -1
    /\ disp = "listen"
    /\ inited = {}
    /\ fails = [t \in XThreads |-> 0]

XPoolNext ==
    \/ \E x \in Tasks : AddTask(x)
    \/ Activate
    \/ \E t \in XThreads : ReadByte(t) \/ RunFirst(t)

XPoolSpec == XPoolInit /\ [][XPoolNext]_poolVars

-----------------------------------------------------------------------------
XPoolTypeOK ==
    /\ tasks \in [XThreads -> Seq(Tasks)]
    /\ pipe \in [XThreads -> Nat]
    /\ loop \in [XThreads -> {"loop", "notify"}]
    /\ lastThread \in XThreads \cup {-1}
    /\ disp \in {"listen", "activate"}
    /\ disp = "activate" => lastThread \in XThreads
    /\ inited \subseteq Tasks
    /\ fails \in [XThreads -> 0..MaxFails]

\* the times thread t has been and is about to be woken, with the failed ones
Wakeups(t) == pipe[t] + fails[t]
              + (IF loop[t] = "notify" THEN 1 ELSE 0)
              + (IF disp = "activate" /\ lastThread = t THEN 1 ELSE 0)

\* As many tasks wait in a thread's list as it will still be woken for, but for
\* the writes that failed: the list and the pipe are two pieces of state that two
\* threads change one after the other (Dispatch, Notify).
NoTaskStranded == \A t \in XThreads : Len(tasks[t]) = Wakeups(t)

=============================================================================
