--------------------------- MODULE FtpServerProofs ---------------------------
(***************************************************************************)
(* The pool under the FTP server: each step of FtpServer is a step of      *)
(* XThreadPool or leaves the pool alone, so what holds of the pool by      *)
(* itself holds with the sessions in its loops; and the dialogue of a      *)
(* session with its client, from FtpInv.                                   *)
(***************************************************************************)
EXTENDS FtpServer, DataLemmas

\* What XThreadPool writes and reads stays of its type (XThread.cpp, XThreadPool.cpp).
THEOREM XPoolTypeCorrect == XPoolSpec => []XPoolTypeOK
<1> USE XPoolAssumption
<1>1. XPoolInit => XPoolTypeOK
  BY DEF XThreads, XPoolInit, XPoolTypeOK
<1>2. XPoolTypeOK /\ [XPoolNext]_poolVars => XPoolTypeOK'
  <2> SUFFICES ASSUME XPoolTypeOK, [XPoolNext]_poolVars PROVE XPoolTypeOK'
    OBVIOUS
  <2>1. ASSUME NEW x \in Tasks, AddTask(x) PROVE XPoolTypeOK'
    <3>1. lastThread' \in XThreads
      BY <2>1 DEF AddTask, XPoolTypeOK, XThreads
    <3>2. Append(tasks[lastThread'], x) \in Seq(Tasks)
      BY <3>1 DEF XPoolTypeOK
    <3> QED
      BY <2>1, <3>1, <3>2 DEF AddTask, XPoolTypeOK
  <2>2. CASE Activate
    <3>1. /\ lastThread \in XThreads
          /\ pipe[lastThread] \in Nat /\ fails[lastThread] \in 0..MaxFails
      BY <2>2 DEF Activate, XPoolTypeOK
    <3>2. CASE pipe' = [pipe EXCEPT ![lastThread] = @ + 1] /\ UNCHANGED fails
      BY <2>2, <3>1, <3>2 DEF Activate, XPoolTypeOK
    <3>3. CASE /\ fails[lastThread] < MaxFails
               /\ fails' = [fails EXCEPT ![lastThread] = @ + 1]
               /\ UNCHANGED pipe
      <4>1. fails[lastThread] + 1 \in 0..MaxFails
        BY <3>1, <3>3
      <4> QED
        BY <2>2, <3>1, <3>3, <4>1 DEF Activate, XPoolTypeOK
    <3> QED
      BY <2>2, <3>2, <3>3 DEF Activate
  <2>3. ASSUME NEW t \in XThreads, ReadByte(t) PROVE XPoolTypeOK'
    BY <2>3 DEF ReadByte, XPoolTypeOK
  <2>4. ASSUME NEW t \in XThreads, RunFirst(t) PROVE XPoolTypeOK'
    <3>1. tasks[t] \in Seq(Tasks)
      BY DEF XPoolTypeOK
    <3>2. CASE tasks[t] = <<>>
      BY <2>4, <3>2 DEF RunFirst, XPoolTypeOK
    <3>3. CASE tasks[t] # <<>>
      <4>1. Head(tasks[t]) \in Tasks /\ Tail(tasks[t]) \in Seq(Tasks)
        BY <3>1, <3>3
      <4> QED
        BY <2>4, <3>3, <4>1 DEF RunFirst, XPoolTypeOK
    <3> QED
      BY <3>2, <3>3
  <2>5. CASE UNCHANGED poolVars
    BY <2>5 DEF poolVars, XPoolTypeOK
  <2> QED
    BY <2>1, <2>2, <2>3, <2>4, <2>5 DEF XPoolNext
<1> QED
  BY <1>1, <1>2, PTL DEF XPoolSpec

\* A thread's list is as long as the wake-ups it will still get, but for the writes
\* that failed (XThread::Activate, XThread::Notify).
THEOREM NoneStranded == XPoolSpec => []NoTaskStranded
<1> USE XPoolAssumption
<1>1. XPoolInit => NoTaskStranded
  BY DEF XPoolInit, NoTaskStranded, Wakeups, XThreads
<1>2. XPoolTypeOK /\ NoTaskStranded /\ [XPoolNext]_poolVars => NoTaskStranded'
  <2> SUFFICES ASSUME XPoolTypeOK, NoTaskStranded, [XPoolNext]_poolVars,
                      NEW u \in XThreads
               PROVE  Len(tasks[u])' = Wakeups(u)'
    BY DEF NoTaskStranded
  <2>0. /\ Len(tasks[u]) = Wakeups(u)
        /\ tasks[u] \in Seq(Tasks)
        /\ pipe[u] \in Nat /\ fails[u] \in Nat
    BY DEF NoTaskStranded, XPoolTypeOK
  <2>1. ASSUME NEW x \in Tasks, AddTask(x) PROVE Len(tasks[u])' = Wakeups(u)'
    <3>1. Len(Append(tasks[u], x)) = Len(tasks[u]) + 1
      BY <2>0
    <3> QED
      <4>1. /\ tasks'[u] = IF lastThread' = u THEN Append(tasks[u], x) ELSE tasks[u]
            /\ pipe'[u] = pipe[u] /\ fails'[u] = fails[u] /\ loop'[u] = loop[u]
            /\ disp = "listen" /\ disp' = "activate"
        BY <2>1 DEF AddTask, XPoolTypeOK
      <4> QED
        BY <2>0, <3>1, <4>1 DEF Wakeups
  <2>2. CASE Activate
    <3>1. /\ tasks'[u] = tasks[u] /\ loop'[u] = loop[u] /\ lastThread' = lastThread
          /\ disp = "activate" /\ disp' = "listen"
      BY <2>2 DEF Activate
    <3>2. /\ pipe'[u] + fails'[u] =
                pipe[u] + fails[u] + (IF lastThread = u THEN 1 ELSE 0)
          /\ pipe'[u] \in Nat /\ fails'[u] \in Nat
      <4>1. CASE pipe' = [pipe EXCEPT ![lastThread] = @ + 1] /\ UNCHANGED fails
        <5>1. pipe'[u] = (IF lastThread = u THEN pipe[u] + 1 ELSE pipe[u])
          BY <4>1 DEF XPoolTypeOK
        <5> QED
          BY <2>0, <4>1, <5>1
      <4>2. CASE /\ fails' = [fails EXCEPT ![lastThread] = @ + 1]
                 /\ UNCHANGED pipe
        <5>1. fails'[u] = (IF lastThread = u THEN fails[u] + 1 ELSE fails[u])
          BY <4>2 DEF XPoolTypeOK
        <5> QED
          BY <2>0, <4>2, <5>1
      <4> QED
        BY <2>2, <4>1, <4>2 DEF Activate
    <3> QED
      BY <2>0, <3>1, <3>2 DEF Wakeups
  <2>3. ASSUME NEW t \in XThreads, ReadByte(t) PROVE Len(tasks[u])' = Wakeups(u)'
    BY <2>0, <2>3 DEF ReadByte, Wakeups, XPoolTypeOK
  <2>4. ASSUME NEW t \in XThreads, RunFirst(t) PROVE Len(tasks[u])' = Wakeups(u)'
    <3>1. CASE t # u
      BY <2>0, <2>4, <3>1 DEF RunFirst, Wakeups, XPoolTypeOK
    <3>2. CASE t = u
      <4>1. Wakeups(u) > 0 /\ tasks[u] # <<>>
        <5>1. loop[u] = "notify"
          BY <2>4, <3>2 DEF RunFirst
        <5>2. Wakeups(u) > 0
          BY <2>0, <5>1 DEF Wakeups
        <5> QED
          BY <2>0, <5>2
      <4>2. Len(Tail(tasks[u])) = Len(tasks[u]) - 1
        BY <2>0, <4>1
      <4> QED
        <5>1. /\ tasks'[u] = Tail(tasks[u])
              /\ loop[u] = "notify" /\ loop'[u] = "loop"
              /\ UNCHANGED <<pipe, fails, disp, lastThread>>
          BY <2>4, <3>2, <4>1 DEF RunFirst, XPoolTypeOK
        <5> QED
          BY <2>0, <4>2, <5>1 DEF Wakeups
    <3> QED
      BY <3>1, <3>2
  <2>5. CASE UNCHANGED poolVars
    BY <2>0, <2>5 DEF poolVars, Wakeups
  <2> QED
    BY <2>1, <2>2, <2>3, <2>4, <2>5 DEF XPoolNext
<1> QED
  BY <1>1, <1>2, XPoolTypeCorrect, PTL DEF XPoolSpec

-----------------------------------------------------------------------------

LEMMA StepKeepsPool == [FtpNext]_vars => [XPoolNext]_poolVars
<1> SUFFICES ASSUME FtpNext, ~UNCHANGED poolVars PROVE XPoolNext
  BY DEF vars
<1>1. CASE PoolStep
  BY <1>1 DEF PoolStep, XPoolNext
<1>2. ASSUME NEW t \in XThreads, Serve(t) PROVE XPoolNext
  BY <1>2 DEF Serve, XPoolNext
<1>3. CASE CmdRead
  BY <1>3 DEF CmdRead
<1>4. CASE CmdEvent
  BY <1>4 DEF CmdEvent
<1>5. ASSUME NEW h \in Transfers, Connected(h) \/ Drained(h) \/ DataEvent(h) PROVE XPoolNext
  BY <1>5 DEF Connected, Drained, DataEvent
<1>6. ASSUME NEW op \in Commands, NEW name \in Names, SendCmd(op, name) PROVE XPoolNext
  BY <1>6 DEF SendCmd
<1>7. CASE TakeReply
  BY <1>7 DEF TakeReply
<1> QED
  BY <1>1, <1>2, <1>3, <1>4, <1>5, <1>6, <1>7 DEF FtpNext

\* With the sessions' callbacks between its steps, too, the pool leaves no task in
\* a list but for a write that failed (XThreadPool::Dispatch, XThread::Notify).
THEOREM SessionsAreServed == FtpSpec => []NoTaskStranded
<1>1. FtpInit => XPoolInit
  BY DEF FtpInit
<1>2. FtpSpec => XPoolSpec
  BY <1>1, StepKeepsPool, PTL DEF FtpSpec, XPoolSpec
<1> QED
  BY <1>2, NoneStranded, PTL

-----------------------------------------------------------------------------
(* The types.  The operators on a session keep it a session; each is taken *)
(* by itself.                                                              *)

\* what the constants are
LEMMA Bounds ==
    /\ MaxCmds \in Nat /\ MaxSplits \in Nat /\ MaxChunks \in Nat
    /\ Session \in Tasks /\ Commands \subseteq CmdOps
    /\ Names \subseteq Args
BY FtpAssumption, Zenon DEF Args

\* a name that is sent is neither empty nor garbled
LEMMA ProperNames == ASSUME NEW name \in Names PROVE name # "" /\ name # Garbled
BY FtpAssumption, Zenon

LEMMA ChanOK ==
    ASSUME NEW s, SessionOK(s), NEW h \in Transfers,
           NEW c \in Conns, c.st = "none" => c.out = 0
    PROVE  SessionOK([s EXCEPT !.chan = [s.chan EXCEPT ![h] = c]])
<1> DEFINE k == [s.chan EXCEPT ![h] = c]
<1>1. s \in Sessions /\ s.chan \in [Transfers -> Conns]
  BY DEF SessionOK, Sessions
<1>2. k \in [Transfers -> Conns] /\ \A g \in Transfers : k[g] = IF g = h THEN c ELSE s.chan[g]
  BY <1>1
<1> HIDE DEF k
<1>3. [s EXCEPT !.chan = k] \in Sessions /\ [s EXCEPT !.chan = k].chan = k
  BY <1>1, <1>2 DEF Sessions
<1> QED
  BY <1>1, <1>2, <1>3 DEF SessionOK, k

LEMMA ResCMDOK ==
    ASSUME NEW s, SessionOK(s), NEW n \in 0..MaxCmds, NEW final \in BOOLEAN
    PROVE  SessionOK(ResCMD(s, n, final))
<1> DEFINE r == Append(s.replies, [n |-> n, final |-> final])
<1>1. s \in Sessions /\ s.chan \in [Transfers -> Conns]
  BY DEF SessionOK, Sessions
<1>2. r \in Seq([n : 0..MaxCmds, final : BOOLEAN])
  BY <1>1 DEF Sessions
<1> HIDE DEF r
<1>3. [s EXCEPT !.replies = r] \in Sessions /\ [s EXCEPT !.replies = r].chan = s.chan
  BY <1>1, <1>2 DEF Sessions
<1>4. [s EXCEPT !.proc = "wild"] \in Sessions /\ [s EXCEPT !.proc = "wild"].chan = s.chan
  BY <1>1 DEF Sessions
<1> QED
  BY <1>3, <1>4 DEF SessionOK, ResCMD, r

LEMMA ConnOK ==
    ASSUME NEW s, SessionOK(s), NEW h \in Transfers
    PROVE  s.chan[h] \in Conns /\ (s.chan[h].st = "none" => s.chan[h].out = 0)
BY DEF SessionOK, Sessions

LEMMA CloseOK ==
    ASSUME NEW s, SessionOK(s), NEW h \in Transfers
    PROVE  SessionOK(Close(s, h))
<1> DEFINE c == [s.chan[h] EXCEPT !.st = "none", !.out = 0]
<1>0. s.chan[h] \in Conns
  BY ConnOK
<1>1. c \in Conns /\ c.out = 0
  <2> DEFINE d == [s.chan[h] EXCEPT !.out = 0]
  <2>1. d \in Conns /\ d.out = 0
    BY <1>0 DEF Conns
  <2>2. c = [d EXCEPT !.st = "none"]
    BY <1>0 DEF Conns
  <2> QED
    BY <2>1, <2>2 DEF Conns
<1>2. SessionOK([s EXCEPT !.chan = [s.chan EXCEPT ![h] = c]])
  BY <1>1, ChanOK
<1>3. Close(s, h) = [s EXCEPT !.chan = [s.chan EXCEPT ![h] = c]]
  BY DEF SessionOK, Sessions, Conns, Close
<1> QED
  BY <1>2, <1>3

LEMMA ConnectOK ==
    ASSUME NEW s, SessionOK(s), NEW h \in Transfers
    PROVE  SessionOK(ConnectPORT(s, h))
<1> DEFINE c == [s.chan[h] EXCEPT !.st = "connecting", !.out = 0]
<1>0. s.chan[h] \in Conns
  BY ConnOK
<1>1. c \in Conns /\ c.out = 0
  <2> DEFINE d == [s.chan[h] EXCEPT !.out = 0]
  <2>1. d \in Conns /\ d.out = 0
    BY <1>0 DEF Conns
  <2>2. c = [d EXCEPT !.st = "connecting"]
    BY <1>0 DEF Conns
  <2> QED
    BY <2>1, <2>2 DEF Conns
<1>2. SessionOK([s EXCEPT !.chan = [s.chan EXCEPT ![h] = c]])
  BY <1>1, ChanOK
<1>3. [s EXCEPT !.chan[h].st = "connecting", !.chan[h].out = 0]
        = [s EXCEPT !.chan = [s.chan EXCEPT ![h] = c]]
  BY DEF SessionOK, Sessions, Conns
<1> QED
  BY <1>2, <1>3 DEF ConnectPORT

LEMMA SendOK ==
    ASSUME NEW s, SessionOK(s), NEW h \in Transfers
    PROVE  SessionOK(Send(s, h))
<1> SUFFICES ASSUME s.chan[h].st # "none" PROVE SessionOK([s EXCEPT !.chan[h].out = 1])
  BY DEF Send
<1> DEFINE c == [s.chan[h] EXCEPT !.out = 1]
<1>1. c \in Conns /\ c.st # "none"
  BY ConnOK DEF Conns
<1> QED
  BY <1>1, ChanOK

\* the fields of a handler that are no matter of its connection
LEMMA FileOK ==
    ASSUME NEW s, SessionOK(s), NEW h \in Transfers, NEW file \in BOOLEAN
    PROVE  SessionOK([s EXCEPT !.chan[h].file = file])
<1>1. [s.chan[h] EXCEPT !.file = file] \in Conns
  BY ConnOK DEF Conns
<1> QED
  BY <1>1, ConnOK, ChanOK DEF Conns

LEMMA LeftOK ==
    ASSUME NEW s, SessionOK(s), NEW h \in Transfers, NEW left \in 0..MaxChunks
    PROVE  SessionOK([s EXCEPT !.chan[h].left = left])
<1>1. [s.chan[h] EXCEPT !.left = left] \in Conns
  BY ConnOK DEF Conns
<1> QED
  BY <1>1, ConnOK, ChanOK DEF Conns

LEMMA NumberOK ==
    ASSUME NEW s, SessionOK(s), NEW h \in Transfers, NEW n \in 0..MaxCmds
    PROVE  SessionOK([s EXCEPT !.chan[h].n = n])
<1>1. [s.chan[h] EXCEPT !.n = n] \in Conns
  BY ConnOK DEF Conns
<1> QED
  BY <1>1, ConnOK, ChanOK DEF Conns

LEMMA OpenedOK ==
    ASSUME NEW s, SessionOK(s), NEW h \in Transfers,
           NEW left \in 0..MaxChunks, NEW n \in 0..MaxCmds
    PROVE  SessionOK([s EXCEPT !.chan[h].file = TRUE, !.chan[h].left = left, !.chan[h].n = n])
<1> DEFINE c == [s.chan[h] EXCEPT !.file = TRUE, !.left = left, !.n = n]
<1>1. c \in Conns /\ (c.st = "none" => c.out = 0)
  BY ConnOK DEF Conns
<1>2. SessionOK([s EXCEPT !.chan = [s.chan EXCEPT ![h] = c]])
  BY <1>1, ChanOK
<1>3. [s EXCEPT !.chan[h].file = TRUE, !.chan[h].left = left, !.chan[h].n = n]
        = [s EXCEPT !.chan = [s.chan EXCEPT ![h] = c]]
  BY DEF SessionOK, Sessions, Conns
<1> QED
  BY <1>2, <1>3

LEMMA WriteOK ==
    ASSUME NEW s, SessionOK(s), NEW h \in Transfers
    PROVE  SessionOK(Write(s, h))
<1>1. CASE h = "LIST"
  <2>1. s.chan[h].n \in 0..MaxCmds
    BY ConnOK DEF Conns
  <2>2. SessionOK(ResCMD(s, s.chan[h].n, TRUE))
    BY <2>1, ResCMDOK
  <2> QED
    BY <1>1, <2>2, CloseOK DEF Write
<1>2. CASE h = "RETR"
  <2> DEFINE c == s.chan["RETR"]
  <2>1. c \in Conns /\ "RETR" \in Transfers
    BY <1>2, ConnOK
  <2>2. CASE c.file /\ c.left > 0
    <3>1. c.left \in 0..MaxChunks /\ c.left - 1 \in 0..MaxChunks
      BY <2>1, <2>2, Bounds DEF Conns
    <3>2. SessionOK([s EXCEPT !.chan["RETR"].left = c.left - 1])
      BY <2>1, <3>1, LeftOK
    <3>3. SessionOK(Send([s EXCEPT !.chan["RETR"].left = c.left - 1], "RETR"))
      BY <2>1, <3>2, SendOK
    <3>4. WriteRETR(s) = Send([s EXCEPT !.chan["RETR"].left = c.left - 1], "RETR")
      BY <2>2 DEF WriteRETR
    <3> QED
      BY <1>2, <3>3, <3>4 DEF Write
  <2>3. CASE c.file /\ ~(c.left > 0)
    <3>1. SessionOK([s EXCEPT !.chan["RETR"].file = FALSE])
      BY <2>1, FileOK
    <3>2. SessionOK(ResCMD([s EXCEPT !.chan["RETR"].file = FALSE], c.n, TRUE))
      BY <2>1, <3>1, ResCMDOK DEF Conns
    <3>3. SessionOK(Close(ResCMD([s EXCEPT !.chan["RETR"].file = FALSE], c.n, TRUE), "RETR"))
      BY <2>1, <3>2, CloseOK
    <3> QED
      BY <1>2, <2>3, <3>3 DEF Write, WriteRETR
  <2>4. CASE ~c.file
    BY <1>2, <2>4 DEF Write, WriteRETR
  <2> QED
    BY <2>1, <2>2, <2>3, <2>4
<1>3. CASE h = "STOR"
  BY <1>3 DEF Write
<1> QED
  BY <1>1, <1>2, <1>3 DEF Transfers

LEMMA EventDataOK ==
    ASSUME NEW s, SessionOK(s), NEW h \in Transfers
    PROVE  SessionOK(EventData(s, h))
<1> DEFINE t == [Close(s, h) EXCEPT !.chan[h].file = FALSE]
<1>1. s.chan[h].n \in 0..MaxCmds
  BY ConnOK DEF Conns
<1>2. SessionOK(t)
  <2>1. SessionOK(Close(s, h))
    BY CloseOK
  <2> QED
    BY <2>1, FileOK
<1>3. SessionOK(ResCMD(t, s.chan[h].n, TRUE))
  BY <1>1, <1>2, ResCMDOK
<1> QED
  BY <1>2, <1>3 DEF EventData

LEMMA BeginOK ==
    ASSUME NEW s, SessionOK(s), NEW h \in Transfers
    PROVE  SessionOK(Begin(s, h))
<1>1. [s EXCEPT !.proc = "crashed"] \in Sessions /\ [s EXCEPT !.proc = "crashed"].chan = s.chan
  BY DEF SessionOK, Sessions
<1>2. SessionOK([s EXCEPT !.proc = "crashed"])
  BY <1>1 DEF SessionOK
<1> QED
  BY <1>2, WriteOK DEF Begin

LEMMA ParseLISTOK ==
    ASSUME NEW s, SessionOK(s), NEW n \in 0..MaxCmds, NEW chunks
    PROVE  SessionOK(ParseLIST(s, n, chunks))
<1> DEFINE t == ResCMD(ConnectPORT([s EXCEPT !.chan["LIST"].n = n], "LIST"), n, FALSE)
<1>1. "LIST" \in Transfers
  BY DEF Transfers
<1>2. SessionOK([s EXCEPT !.chan["LIST"].n = n])
  BY <1>1, NumberOK
<1>3. SessionOK(t)
  BY <1>1, <1>2, ConnectOK, ResCMDOK
<1>4. SessionOK(Send(t, "LIST"))
  BY <1>1, <1>3, SendOK
<1> QED
  BY <1>3, <1>4 DEF ParseLIST

LEMMA ParseFileOK ==
    ASSUME NEW s, SessionOK(s), NEW h \in Transfers, NEW n \in 0..MaxCmds,
           NEW opened \in BOOLEAN, NEW chunks \in 0..MaxChunks
    PROVE  SessionOK(ParseFile(s, h, n, opened, chunks))
<1> DEFINE t == [s EXCEPT !.chan[h].file = TRUE, !.chan[h].left = chunks, !.chan[h].n = n]
<1>1. SessionOK(t)
  BY OpenedOK
<1>2. SessionOK(Begin(ResCMD(ConnectPORT(t, h), n, FALSE), h))
  BY <1>1, ConnectOK, ResCMDOK, BeginOK
<1>3. SessionOK([s EXCEPT !.chan[h].file = FALSE])
  BY FileOK
<1>4. SessionOK(ResCMD([s EXCEPT !.chan[h].file = FALSE], n, TRUE))
  BY <1>3, ResCMDOK
<1> QED
  BY <1>2, <1>4 DEF ParseFile

LEMMA ChdirOK ==
    ASSUME NEW s, SessionOK(s), NEW c \in Cmds, c.op \in Moves
    PROVE  Chdir(s, c) \in Dirs
<1>1. s.dir.parts \in Seq(Args) /\ c.name \in Args
  BY DEF SessionOK, Sessions, Dirs, Cmds
<1>2. ASSUME NEW a \in Args PROVE Append(s.dir.parts, a) \in Seq(Args) /\ <<a>> \in Seq(Args)
  BY <1>1
<1>3. s.dir.parts # <<>> => Front(s.dir.parts) \in Seq(Args)
  BY <1>1 DEF Front
<1>4. CASE c.op = "CDUP"
  <2>1. Chdir(s, c) = Parent(s.dir) /\ <<>> \in Seq(Args)
    BY <1>4 DEF Chdir
  <2> QED
    BY <1>1, <1>3, <2>1 DEF Parent, Dirs
<1>5. CASE c.op # "CDUP" /\ c.name \in DOMAIN LastWord
  <2>1. PICK a \in Args : a = LastWord[c.name]
    BY <1>5, FtpAssumption DEF Args
  <2>2. Chdir(s, c) = Below(s.dir, a)
    BY <1>5, <2>1 DEF Chdir
  <2> QED
    BY <1>2, <2>2 DEF Below, Dirs
<1>6. CASE c.op # "CDUP" /\ c.name \notin DOMAIN LastWord
  <2>1. Below(s.dir, c.name) \in Dirs
    BY <1>1, <1>2 DEF Below, Dirs
  <2>2. Root \in Dirs
    <3>1. <<>> \in Seq(Args)
      OBVIOUS
    <3> QED
      BY <3>1 DEF Root, Dirs
  <2>3. [parts |-> <<c.name>>, slash |-> FALSE] \in Dirs
    BY <1>1, <1>2 DEF Dirs
  <2> QED
    BY <1>6, <2>1, <2>2, <2>3 DEF Chdir
<1> QED
  BY <1>4, <1>5, <1>6

LEMMA ParseMoveOK ==
    ASSUME NEW s, SessionOK(s), NEW c \in Cmds, c.op \in Moves
    PROVE  SessionOK(ParseMove(s, c))
<1> DEFINE d == Chdir(s, c)
           t == IF c.op = "CDUP" /\ s.dir = Root THEN ResCMD(s, c.n, TRUE) ELSE s
<1>1. d \in Dirs /\ c.n \in 0..MaxCmds
  BY ChdirOK DEF Cmds
<1>2. SessionOK(t)
  BY <1>1, ResCMDOK
<1> HIDE DEF d, t
<1>3. [t EXCEPT !.dir = d] \in Sessions /\ [t EXCEPT !.dir = d].chan = t.chan
  BY <1>1, <1>2 DEF SessionOK, Sessions
<1>4. SessionOK([t EXCEPT !.dir = d])
  BY <1>2, <1>3 DEF SessionOK
<1> QED
  BY <1>1, <1>4, ResCMDOK DEF ParseMove, d, t

LEMMA ParseOK ==
    ASSUME NEW s, SessionOK(s), NEW c \in Cmds,
           NEW opened \in BOOLEAN, NEW chunks \in 0..MaxChunks
    PROVE  SessionOK(Parse(s, c, opened, chunks))
<1>1. c.n \in 0..MaxCmds /\ c.op \in CmdOps
  BY DEF Cmds
<1>2. CASE c.op = "USER"
  <2>1. Parse(s, c, opened, chunks) = ResCMD(s, c.n, TRUE)
    BY <1>2 DEF Parse, Moves
  <2> QED
    BY <1>1, <2>1, ResCMDOK
<1>3. CASE c.op = "PORT"
  <2> DEFINE p == s.port \/ c.name # Garbled
  <2>1. [s EXCEPT !.port = p] \in Sessions /\ [s EXCEPT !.port = p].chan = s.chan
    BY DEF SessionOK, Sessions
  <2>2. SessionOK([s EXCEPT !.port = p])
    BY <2>1 DEF SessionOK
  <2>3. SessionOK(ResCMD([s EXCEPT !.port = p], c.n, TRUE))
    BY <1>1, <2>2, ResCMDOK
  <2>4. Parse(s, c, opened, chunks) = ResCMD([s EXCEPT !.port = p], c.n, TRUE)
    BY <1>3 DEF Parse, Moves
  <2> QED
    BY <2>3, <2>4
<1>4. CASE c.op = "LIST"
  <2>1. Parse(s, c, opened, chunks) = ParseLIST(s, c.n, chunks)
    BY <1>4 DEF Parse, Moves
  <2> QED
    BY <1>1, <2>1, ParseLISTOK
<1>5. CASE c.op \in {"RETR", "STOR"}
  <2>1. Parse(s, c, opened, chunks) = ParseFile(s, c.op, c.n, opened, chunks)
    BY <1>5 DEF Parse, Moves
  <2> QED
    BY <1>1, <1>5, <2>1, ParseFileOK DEF Transfers
<1>6. CASE c.op \in Moves
  <2>1. Parse(s, c, opened, chunks) = ParseMove(s, c)
    BY <1>6 DEF Parse, Moves
  <2> QED
    BY <1>6, <2>1, ParseMoveOK
<1> QED
  BY <1>1, <1>2, <1>3, <1>4, <1>5, <1>6 DEF CmdOps, Transfers


LEMMA FtpInitTypes == FtpInit => FtpTypeOK
<1> SUFFICES ASSUME FtpInit PROVE FtpTypeOK
  OBVIOUS
<1>1. Root \in Dirs /\ Welcome \in Cmds
  <2>1. <<>> \in Seq(Args) /\ "USER" \in CmdOps /\ 0 \in 0..MaxCmds
    BY Bounds DEF CmdOps
  <2>2. PICK e \in Args : e = ""
    BY Zenon DEF Args
  <2>3. Welcome = [op |-> "USER", name |-> e, n |-> 0]
    BY <2>2, Zenon DEF Welcome
  <2> QED
    BY <2>1, <2>3 DEF Root, Dirs, Cmds
<1>2. NoConn \in Conns /\ NoConn.out = 0
  BY Bounds DEF NoConn, Conns
<1>3. ses \in Sessions
  BY <1>1, <1>2, XPoolAssumption DEF FtpInit, Sessions, XThreads
<1>4. \A h \in Transfers : ses.chan[h] = NoConn
  BY DEF FtpInit
<1>5. client \in [waits : BOOLEAN, cmd : Cmds, where : Seq(Args), ported : BOOLEAN, bare : BOOLEAN]
  BY <1>1 DEF FtpInit
<1> QED
  BY <1>2, <1>3, <1>4, <1>5, Bounds DEF FtpInit, FtpTypeOK, SessionOK

LEMMA WhereOK ==
    ASSUME FtpTypeOK, NEW c \in Cmds
    PROVE  Where(c) \in Seq(Args)
<1>1. client.where \in Seq(Args) /\ c.name \in Args
  BY DEF FtpTypeOK, Cmds
<1>2. Append(client.where, c.name) \in Seq(Args) /\ <<c.name>> \in Seq(Args)
  BY <1>1
<1>3. client.where # <<>> => Front(client.where) \in Seq(Args)
  BY <1>1 DEF Front
<1> QED
  BY <1>1, <1>2, <1>3 DEF Where

Pasts == [rootUp : BOOLEAN, hasty : BOOLEAN, early : BOOLEAN, broken : BOOLEAN,
          blank : BOOLEAN, splits : 0..MaxSplits,
          cut : BOOLEAN, lost : BOOLEAN, misfiled : BOOLEAN, mixed : BOOLEAN]

\* what Noted says of each field
NotedAs(q, c, k, cut, opened) ==
    /\ q \in Pasts
    /\ q.rootUp = (past.rootUp \/ (c.op = "CDUP" /\ ses.dir = Root))
    /\ q.blank = (past.blank \/ (c.op \in {"CWD name", "CWD /name"}
                                  /\ c.name \in DOMAIN LastWord))
    /\ q.splits = (IF cut THEN past.splits + 1 ELSE past.splits)
    /\ q.cut = (past.cut \/ k > 1 \/ (k = 1 /\ cut))
    /\ q.lost = (past.lost \/ (c.op \in {"RETR", "STOR"} /\ ses.chan[c.op].file))
    /\ q.misfiled = (past.misfiled
           \/ (/\ c.op \in {"RETR", "STOR"} /\ opened /\ ~client.bare
               /\ ~ses.dir.slash \/ (~past.blank /\ ses.dir.parts # client.where)))
    /\ q.early = past.early /\ q.hasty = past.hasty /\ q.mixed = past.mixed

LEMMA NotedIs ==
    ASSUME past \in Pasts, NEW c, NEW k \in Nat, NEW cut \in BOOLEAN, NEW opened, NEW chunks,
           cut => past.splits < MaxSplits, NEW q, q = Noted(c, k, cut, opened, chunks)
    PROVE  NotedAs(q, c, k, cut, opened)
<1>1. PICK r : r = (past.rootUp \/ (c.op = "CDUP" /\ ses.dir = Root))
  OBVIOUS
<1>2. PICK w : w = (past.blank \/ (c.op \in {"CWD name", "CWD /name"}
                                    /\ c.name \in DOMAIN LastWord))
  OBVIOUS
<1>3. PICK p : p = (IF cut THEN past.splits + 1 ELSE past.splits)
  OBVIOUS
<1>4. PICK t : t = (past.cut \/ k > 1 \/ (k = 1 /\ cut))
  OBVIOUS
<1>5. PICK b : b = (past.broken \/ (c.op = "LIST" /\ chunks = 0))
  OBVIOUS
<1>6. PICK l : l = (past.lost \/ (c.op \in {"RETR", "STOR"} /\ ses.chan[c.op].file))
  OBVIOUS
<1>7. PICK m : m = (past.misfiled
           \/ (/\ c.op \in {"RETR", "STOR"} /\ opened /\ ~client.bare
               /\ ~ses.dir.slash \/ (~past.blank /\ ses.dir.parts # client.where)))
  OBVIOUS
<1>8. /\ r \in BOOLEAN /\ w \in BOOLEAN /\ t \in BOOLEAN /\ b \in BOOLEAN
      /\ l \in BOOLEAN /\ m \in BOOLEAN
  BY <1>1, <1>2, <1>4, <1>5, <1>6, <1>7, Zenon
<1>9. p \in 0..MaxSplits
  BY <1>3, Bounds DEF Pasts
<1>10. q = [past EXCEPT !.rootUp = r, !.blank = w, !.splits = p, !.cut = t, !.broken = b,
                        !.lost = l, !.misfiled = m]
  <2>1. m = (past.misfiled
           \/ (/\ c.op \in {"RETR", "STOR"} /\ opened
               /\ ~client.bare
               /\ ~ses.dir.slash \/ (~past.blank /\ ses.dir.parts # client.where)))
    BY <1>7
  <2> QED
    BY <1>1, <1>2, <1>3, <1>4, <1>5, <1>6, <2>1, Zenon DEF Noted
<1>11. /\ q \in Pasts
       /\ q.rootUp = r /\ q.blank = w /\ q.splits = p /\ q.cut = t /\ q.lost = l
       /\ q.misfiled = m
       /\ q.early = past.early /\ q.hasty = past.hasty /\ q.mixed = past.mixed
  BY <1>8, <1>9, <1>10 DEF Pasts
<1> QED
  BY <1>1, <1>2, <1>3, <1>4, <1>6, <1>7, <1>11, Zenon DEF NotedAs

\* A read is taken for a command, and what is not read are commands.
LEMMA TakenIsCmd ==
    ASSUME NEW c \in Cmds, NEW k, NEW cut, NEW t \in TakenFor(c, k, cut)
    PROVE  /\ t \in Cmds /\ t.n = c.n
           /\ k = 1 /\ ~cut => t = c
<1>1. CASE k = 1 /\ ~cut
  BY <1>1 DEF TakenFor
<1>2. CASE ~(k = 1 /\ ~cut)
  <2>1. PICK o : o = (Kin(c.op) \cup (IF k = 0 THEN {"USER"} ELSE {}))
    OBVIOUS
  <2>2. t \in [op : o, name : Args, n : {c.n}]
    BY <1>2, <2>1 DEF TakenFor
  <2>3. o \subseteq CmdOps
    <3>1. c.op \in CmdOps
      BY DEF Cmds
    <3>2. Kin(c.op) \subseteq CmdOps /\ "USER" \in CmdOps
      BY <3>1 DEF Kin, CmdOps, Moves
    <3> QED
      BY <2>1, <3>2
  <2>4. t \in Cmds /\ t.n = c.n
    BY <2>2, <2>3 DEF Cmds
  <2> QED
    BY <1>2, <2>4
<1> QED
  BY <1>1, <1>2

LEMMA UnreadIs ==
    ASSUME inbuf \in Seq(Cmds), NEW k \in 0..Len(inbuf), NEW cut \in BOOLEAN,
           cut => k < Len(inbuf)
    PROVE  Unread(k, cut) \in Seq(Cmds) /\ Len(Unread(k, cut)) = Len(inbuf) - k
<1>1. PICK n \in Nat : n = Len(inbuf)
  OBVIOUS
<1>2. PICK w : w = SubSeq(inbuf, k + 1, n)
  OBVIOUS
<1>3. w \in Seq(Cmds) /\ Len(w) = n - k
  <2>1. k + 1 \in Int /\ n \in Int /\ \A i \in k + 1 .. n : inbuf[i] \in Cmds
    BY <1>1
  <2>2. w \in Seq(Cmds) /\ Len(w) = IF k + 1 <= n THEN n - (k + 1) + 1 ELSE 0
    BY <1>2, <2>1, SubSeqProperties
  <2> QED
    BY <1>1, <2>2
<1>4. CASE cut
  <2>1. Len(w) \in Nat /\ 1 \in 1..Len(w) /\ w[1] \in Cmds
    BY <1>1, <1>3, <1>4
  <2>2. PICK e : e = [w[1] EXCEPT !.op = "USER"]
    OBVIOUS
  <2>3. e \in Cmds
    <3>1. "USER" \in CmdOps
      BY DEF CmdOps
    <3> QED
      BY <2>1, <2>2, <3>1 DEF Cmds
  <2>4. Unread(k, cut) = [w EXCEPT ![1] = e]
    BY <1>1, <1>2, <1>4, <2>2 DEF Unread
  <2>5. [w EXCEPT ![1] = e] \in Seq(Cmds) /\ Len([w EXCEPT ![1] = e]) = Len(w)
    BY <1>3, <2>1, <2>3, ExceptSeq
  <2> QED
    BY <1>1, <1>3, <2>4, <2>5
<1>5. CASE ~cut
  <2>1. Unread(k, cut) = w
    BY <1>1, <1>2, <1>5 DEF Unread
  <2> QED
    BY <1>1, <1>3, <2>1
<1> QED
  BY <1>4, <1>5

LEMMA FtpStepTypes == FtpTypeOK /\ [FtpNext]_vars => FtpTypeOK'
<1> SUFFICES ASSUME FtpTypeOK, [FtpNext]_vars PROVE FtpTypeOK'
  OBVIOUS
<1>0. SessionOK(ses) /\ ses \in Sessions /\ client.cmd \in Cmds /\ past \in Pasts
      /\ \A h \in Transfers : ses.chan[h] \in Conns
  BY ConnOK DEF FtpTypeOK, SessionOK, Pasts
<1> USE DEF FtpTypeOK, Pasts
<1>1. CASE PoolStep \/ UNCHANGED vars
  BY <1>1 DEF PoolStep, vars, ftpVars
<1>2. ASSUME NEW t \in XThreads, Serve(t) PROVE FtpTypeOK'
  <2> DEFINE u == [ses EXCEPT !.life = "up", !.at = t]
  <2>1. u \in Sessions /\ u.chan = ses.chan
    BY DEF SessionOK, Sessions
  <2>2. SessionOK(u)
    BY <2>1 DEF SessionOK
  <2>3. SessionOK(ResCMD(u, 0, TRUE))
    BY <2>2, ResCMDOK, Bounds, 0 \in 0..MaxCmds
  <2>4. SessionOK(ses')
    BY <1>2, <2>3 DEF Serve
  <2> QED
    BY <1>2, <2>4 DEF Serve
<1>3. CASE CmdRead
  <2>a. PICK k \in 0..Len(inbuf), cut \in BOOLEAN, opened \in BOOLEAN, chunks \in 0..MaxChunks :
          /\ cut => k < Len(inbuf) /\ past.splits < MaxSplits
          /\ \E c \in TakenFor(inbuf[1], k, cut) :
                /\ ses' = Parse(ses, c, opened, chunks)
                /\ past' = Noted(c, k, cut, opened, chunks)
          /\ inbuf' = Unread(k, cut)
    BY <1>3 DEF CmdRead
  <2>1. PICK c \in TakenFor(inbuf[1], k, cut) :
          /\ cut => k < Len(inbuf) /\ past.splits < MaxSplits
          /\ ses' = Parse(ses, c, opened, chunks)
          /\ past' = Noted(c, k, cut, opened, chunks)
          /\ inbuf' = Unread(k, cut)
    BY <2>a
  <2>2. inbuf[1] \in Cmds /\ k \in Nat
    BY <1>3 DEF CmdRead
  <2>3. c \in Cmds
    BY <2>2, TakenIsCmd
  <2>4. SessionOK(ses')
    BY <2>1, <2>3, ParseOK
  <2>5. inbuf' \in Seq(Cmds)
    BY <2>1, UnreadIs
  <2>6. past' \in Pasts
    <3>1. NotedAs(past', c, k, cut, opened)
      BY <1>0, <2>1, <2>2, NotedIs
    <3> QED
      BY <3>1 DEF NotedAs
  <2> QED
    BY <1>3, <2>4, <2>5, <2>6 DEF CmdRead
<1>4. CASE CmdEvent
  <2>1. ses' \in Sessions /\ ses'.chan = ses.chan
    BY <1>4 DEF CmdEvent, SessionOK, Sessions
  <2>2. SessionOK(ses')
    BY <2>1 DEF SessionOK
  <2>3. PICK a \in BOOLEAN : past' = [past EXCEPT !.hasty = a]
    BY <1>4, Zenon DEF CmdEvent
  <2>4. past' \in Pasts
    BY <1>0, <2>3
  <2> QED
    BY <1>4, <2>2, <2>4 DEF CmdEvent
<1>5. ASSUME NEW h \in Transfers, Connected(h) PROVE FtpTypeOK'
  <2>1. [ses.chan[h] EXCEPT !.st = "open"] \in Conns
    BY <1>0 DEF Conns
  <2>2. SessionOK(ses')
    BY <1>5, <2>1, ConnOK, ChanOK DEF Connected, Conns
  <2> QED
    BY <1>5, <2>2 DEF Connected
<1>6. ASSUME NEW h \in Transfers, Drained(h) PROVE FtpTypeOK'
  <2>1. [ses.chan[h] EXCEPT !.out = 0] \in Conns /\ [ses.chan[h] EXCEPT !.out = 0].out = 0
    BY <1>0 DEF Conns
  <2>2. SessionOK([ses EXCEPT !.chan[h].out = 0])
    BY <2>1, ChanOK
  <2>3. SessionOK(ses')
    BY <1>6, <2>2, WriteOK DEF Drained
  <2> QED
    BY <1>6, <2>3 DEF Drained
<1>7. ASSUME NEW h \in Transfers, DataEvent(h) PROVE FtpTypeOK'
  <2>1. SessionOK(ses')
    BY <1>7, EventDataOK DEF DataEvent
  <2> QED
    BY <1>7, <2>1 DEF DataEvent
<1>8. ASSUME NEW op \in Commands, NEW name \in Names, SendCmd(op, name) PROVE FtpTypeOK'
  <2> DEFINE c == [op |-> op, name |-> name, n |-> client.cmd.n + 1]
  <2>1. client.cmd.n \in 0..MaxCmds /\ client.cmd.n < MaxCmds
    BY <1>8 DEF SendCmd, Cmds
  <2>2. c \in Cmds
    <3>1. client.cmd.n + 1 \in 0..MaxCmds
      BY <2>1, Bounds
    <3> QED
      BY <3>1, Bounds DEF Cmds
  <2>3. inbuf' \in Seq(Cmds) /\ client' = [client EXCEPT !.cmd = c, !.waits = TRUE]
    BY <1>8, <2>2 DEF SendCmd
  <2> QED
    BY <1>8, <2>2, <2>3 DEF SendCmd, SessionOK
<1>9. CASE TakeReply
  <2>1. client.cmd \in Cmds
    OBVIOUS
  <2>2. Where(client.cmd) \in Seq(Args)
    BY <2>1, WhereOK
  <2>3. ses' \in Sessions /\ ses'.chan = ses.chan
    <3>1. Tail(ses.replies) \in Seq([n : 0..MaxCmds, final : BOOLEAN])
      BY <1>0, <1>9 DEF TakeReply, Sessions
    <3>2. ses' = [ses EXCEPT !.replies = Tail(ses.replies)]
      BY <1>9 DEF TakeReply
    <3> QED
      BY <1>0, <3>1, <3>2 DEF Sessions
  <2>4. SessionOK(ses')
    BY <2>3 DEF SessionOK
  <2>5. client' \in [waits : BOOLEAN, cmd : Cmds, where : Seq(Args),
                     ported : BOOLEAN, bare : BOOLEAN]
    BY <1>9, <2>2 DEF TakeReply
  <2> QED
    BY <1>9, <2>4, <2>5 DEF TakeReply
<1> QED
  BY <1>1, <1>2, <1>3, <1>4, <1>5, <1>6, <1>7, <1>8, <1>9 DEF FtpNext

\* Whatever the file system, the network and the client do, the session, its
\* connections and the replies keep their types, and a closed connection has nothing
\* left to send (XFtpTask::Close, Send).
THEOREM FtpTypeCorrect == FtpSpec => []FtpTypeOK
BY FtpInitTypes, FtpStepTypes, PTL DEF FtpSpec

-----------------------------------------------------------------------------
(* Client and session in touch.  All three properties of the dialogue follow  *)
(* from one invariant: what is still owed to the client, by a handler or in   *)
(* the replies, is owed for the command it waits for.                         *)

\* no handler has a connection, nor a file open
Quiet(s) == \A h \in Transfers : s.chan[h].st = "none" /\ ~s.chan[h].file

\* Whoever still has something to say to the client has it of command n, op: a
\* handler that is busy with it, replies that are not final, or a final one, after
\* which nobody has.
Answers(s, op, n) ==
    /\ \A h \in Transfers : s.chan[h].st # "none" \/ s.chan[h].file => h = op /\ s.chan[h].n = n
    /\ \A i \in 1..Len(s.replies) :
          /\ s.replies[i].n = n
          /\ s.replies[i].final => i = Len(s.replies) /\ Quiet(s)

Idle(s) == Quiet(s) /\ s.replies = <<>>

\* what the client remembers once it has the final reply
BareAfter == IF client.cmd.op = "CWD name" THEN FALSE
             ELSE client.bare \/ client.cmd.op \in Moves

\* the session means the directory the client means, but for names with a blank
SameDir ==
    ses.life = "up" =>
        IF client.waits /\ inbuf = <<>>
        THEN /\ past.blank \/ ses.dir.parts = Where(client.cmd)
             /\ ses.dir.slash \/ BareAfter
        ELSE /\ past.blank \/ ses.dir.parts = client.where
             /\ ses.dir.slash \/ client.bare

Ported ==
    /\ ses.life = "up" /\ client.ported => ses.port
    /\ client.waits /\ inbuf = <<>> /\ client.cmd.op = "PORT" /\ ses.life = "up" => ses.port
    /\ client.waits /\ client.cmd.op \in Transfers => client.ported \/ past.early
    /\ client.cmd.name # Garbled /\ (client.cmd.op \in Moves => client.cmd.name # "")

\* the client has what is still owed to it, or waits for it
InTouch ==
    /\ ses.life = "none" => /\ Idle(ses) /\ inbuf = <<>> /\ client.waits /\ ~client.ported
                            /\ client.cmd = Welcome /\ ses.dir = Root /\ client.where = <<>>
    /\ ~client.waits => Idle(ses) /\ inbuf = <<>>
    /\ inbuf # <<>> => inbuf = <<client.cmd>> /\ Idle(ses)
    /\ Answers(ses, client.cmd.op, client.cmd.n)
    /\ ses.life = "deleted" /\ client.waits => past.hasty
    /\ Running \/ past.hasty \/ past.early
    /\ ~ses.chan["LIST"].file
    /\ ~past.mixed /\ ~past.cut /\ ~past.misfiled /\ ~past.lost

Faithful == InTouch /\ SameDir /\ Ported

FtpInv ==
    /\ ses.life # "none" => Session \in inited
    /\ past.rootUp \/ past.splits > 0 \/ Faithful

-----------------------------------------------------------------------------
(* What each operator makes of a session.                                    *)

Others(t, s, h) == \A g \in Transfers : g # h => t.chan[g] = s.chan[g]
Handler(t, h, st, file, n) == t.chan[h].st = st /\ t.chan[h].file = file /\ t.chan[h].n = n
Rest(t, s) == t.life = s.life /\ t.dir = s.dir /\ t.port = s.port
Quotes(t, s) == t.replies = s.replies /\ t.proc = s.proc
Says(t, s, n, final) ==
    /\ s.life = "up" => /\ t.replies = Append(s.replies, [n |-> n, final |-> final])
                        /\ t.proc = s.proc
    /\ s.life # "up" => t.replies = s.replies /\ t.proc = "wild"

LEMMA HandlerIs ==
    ASSUME NEW s, SessionOK(s), NEW h \in Transfers, NEW c \in Conns,
           NEW t, t = [s EXCEPT !.chan = [s.chan EXCEPT ![h] = c]]
    PROVE  /\ Others(t, s, h) /\ Handler(t, h, c.st, c.file, c.n) /\ Rest(t, s) /\ Quotes(t, s)
<1> DEFINE k == [s.chan EXCEPT ![h] = c]
<1>1. s \in Sessions /\ s.chan \in [Transfers -> Conns]
  BY DEF SessionOK, Sessions
<1>2. k[h] = c /\ \A g \in Transfers : g # h => k[g] = s.chan[g]
  BY <1>1
<1> HIDE DEF k
<1>3. /\ t.chan = k /\ t.life = s.life /\ t.dir = s.dir /\ t.port = s.port
      /\ t.replies = s.replies /\ t.proc = s.proc
  BY <1>1 DEF Sessions, k
<1> QED
  BY <1>2, <1>3 DEF Others, Handler, Rest, Quotes

LEMMA ResCMDIs ==
    ASSUME NEW s, SessionOK(s), NEW n, NEW final, NEW t, t = ResCMD(s, n, final)
    PROVE  t.chan = s.chan /\ Rest(t, s) /\ Says(t, s, n, final)
<1>1. s \in Sessions
  BY DEF SessionOK
<1> DEFINE r == Append(s.replies, [n |-> n, final |-> final])
<1>2. CASE s.life = "up"
  <2>1. t = [s EXCEPT !.replies = r]
    BY <1>2 DEF ResCMD
  <2> HIDE DEF r
  <2>2. t.replies = r /\ t.chan = s.chan /\ t.life = s.life /\ t.dir = s.dir /\ t.port = s.port
        /\ t.proc = s.proc
    BY <1>1, <2>1 DEF Sessions
  <2> QED
    BY <1>2, <2>2 DEF Rest, Says, r
<1>3. CASE s.life # "up"
  <2>1. t = [s EXCEPT !.proc = "wild"]
    BY <1>3 DEF ResCMD
  <2>2. t.replies = s.replies /\ t.chan = s.chan /\ t.life = s.life /\ t.dir = s.dir
        /\ t.port = s.port /\ t.proc = "wild"
    BY <1>1, <2>1 DEF Sessions
  <2> QED
    BY <1>3, <2>2 DEF Rest, Says
<1> QED
  BY <1>2, <1>3

LEMMA FinalIs ==
    ASSUME NEW s, SessionOK(s), NEW h \in Transfers, NEW t, t = ResCMD(s, s.chan[h].n, TRUE)
    PROVE  t.chan = s.chan /\ Rest(t, s) /\ Says(t, s, s.chan[h].n, TRUE)
<1>1. PICK n, f : n = s.chan[h].n /\ f = TRUE
  OBVIOUS
<1>2. t = ResCMD(s, n, f)
  BY <1>1
<1>3. t.chan = s.chan /\ Rest(t, s) /\ Says(t, s, n, f)
  BY <1>2, ResCMDIs
<1> QED
  BY <1>1, <1>3

LEMMA CloseIs ==
    ASSUME NEW s, SessionOK(s), NEW h \in Transfers, NEW t, t = Close(s, h)
    PROVE  /\ Others(t, s, h) /\ Handler(t, h, "none", s.chan[h].file, s.chan[h].n)
           /\ Rest(t, s) /\ Quotes(t, s)
<1> DEFINE c == [s.chan[h] EXCEPT !.st = "none", !.out = 0]
<1>1. s.chan[h] \in Conns
  BY ConnOK
<1>2. c \in Conns /\ c.st = "none" /\ c.file = s.chan[h].file /\ c.n = s.chan[h].n
  <2> DEFINE d == [s.chan[h] EXCEPT !.out = 0]
  <2>1. d \in Conns /\ d.file = s.chan[h].file /\ d.n = s.chan[h].n
    BY <1>1 DEF Conns
  <2>2. c = [d EXCEPT !.st = "none"]
    BY <1>1 DEF Conns
  <2> QED
    BY <2>1, <2>2 DEF Conns
<1>3. t = [s EXCEPT !.chan = [s.chan EXCEPT ![h] = c]]
  BY DEF SessionOK, Sessions, Conns, Close
<1> HIDE DEF c
<1>4. Others(t, s, h) /\ Handler(t, h, c.st, c.file, c.n) /\ Rest(t, s) /\ Quotes(t, s)
  BY <1>2, <1>3, HandlerIs
<1> QED
  BY <1>2, <1>4

LEMMA ConnectIs ==
    ASSUME NEW s, SessionOK(s), NEW h \in Transfers, NEW t, t = ConnectPORT(s, h)
    PROVE  /\ s.port => /\ Others(t, s, h) /\ Rest(t, s) /\ Quotes(t, s)
                        /\ Handler(t, h, "connecting", s.chan[h].file, s.chan[h].n)
           /\ ~s.port => t = s
<1> DEFINE c == [s.chan[h] EXCEPT !.st = "connecting", !.out = 0]
<1>1. s.chan[h] \in Conns
  BY ConnOK
<1>2. c \in Conns /\ c.st = "connecting" /\ c.file = s.chan[h].file /\ c.n = s.chan[h].n
  <2> DEFINE d == [s.chan[h] EXCEPT !.out = 0]
  <2>1. d \in Conns /\ d.file = s.chan[h].file /\ d.n = s.chan[h].n
    BY <1>1 DEF Conns
  <2>2. c = [d EXCEPT !.st = "connecting"]
    BY <1>1 DEF Conns
  <2> QED
    BY <2>1, <2>2 DEF Conns
<1>3. CASE s.port
  <2>1. t = [s EXCEPT !.chan[h].st = "connecting", !.chan[h].out = 0]
    BY <1>3 DEF ConnectPORT
  <2>2. t = [s EXCEPT !.chan = [s.chan EXCEPT ![h] = c]]
    BY <2>1 DEF SessionOK, Sessions, Conns
  <2> HIDE DEF c
  <2>3. Others(t, s, h) /\ Handler(t, h, c.st, c.file, c.n) /\ Rest(t, s) /\ Quotes(t, s)
    BY <1>2, <2>2, HandlerIs
  <2> QED
    BY <1>2, <1>3, <2>3
<1>4. CASE ~s.port
  BY <1>4 DEF ConnectPORT
<1> QED
  BY <1>3, <1>4

LEMMA SendIs ==
    ASSUME NEW s, SessionOK(s), NEW h \in Transfers, NEW t, t = Send(s, h)
    PROVE  /\ Others(t, s, h) /\ Handler(t, h, s.chan[h].st, s.chan[h].file, s.chan[h].n)
           /\ Rest(t, s) /\ Quotes(t, s)
<1>1. CASE s.chan[h].st = "none"
  BY <1>1 DEF Send, Others, Handler, Rest, Quotes
<1>2. CASE s.chan[h].st # "none"
  <2> DEFINE c == [s.chan[h] EXCEPT !.out = 1]
  <2>1. c \in Conns /\ c.st = s.chan[h].st /\ c.file = s.chan[h].file /\ c.n = s.chan[h].n
    BY ConnOK DEF Conns
  <2>2. t = [s EXCEPT !.chan = [s.chan EXCEPT ![h] = c]]
    BY <1>2 DEF Send
  <2> HIDE DEF c
  <2>3. Others(t, s, h) /\ Handler(t, h, c.st, c.file, c.n) /\ Rest(t, s) /\ Quotes(t, s)
    BY <2>1, <2>2, HandlerIs
  <2> QED
    BY <2>1, <2>3
<1> QED
  BY <1>1, <1>2

\* the fields of a handler that are assigned one at a time
LEMMA FieldsAre ==
    ASSUME NEW s, SessionOK(s), NEW h \in Transfers, NEW file \in BOOLEAN,
           NEW left \in 0..MaxChunks, NEW n \in 0..MaxCmds, NEW out \in 0..1, NEW t
    PROVE  /\ t = [s EXCEPT !.chan[h].file = file] =>
                /\ Others(t, s, h) /\ Rest(t, s) /\ Quotes(t, s)
                /\ Handler(t, h, s.chan[h].st, file, s.chan[h].n)
           /\ t = [s EXCEPT !.chan[h].left = left] =>
                /\ Others(t, s, h) /\ Rest(t, s) /\ Quotes(t, s)
                /\ Handler(t, h, s.chan[h].st, s.chan[h].file, s.chan[h].n)
           /\ t = [s EXCEPT !.chan[h].n = n] =>
                /\ Others(t, s, h) /\ Rest(t, s) /\ Quotes(t, s)
                /\ Handler(t, h, s.chan[h].st, s.chan[h].file, n)
           /\ t = [s EXCEPT !.chan[h].out = out] =>
                /\ Others(t, s, h) /\ Rest(t, s) /\ Quotes(t, s)
                /\ Handler(t, h, s.chan[h].st, s.chan[h].file, s.chan[h].n)
           /\ t = [s EXCEPT !.chan[h].st = "open"] =>
                /\ Others(t, s, h) /\ Rest(t, s) /\ Quotes(t, s)
                /\ Handler(t, h, "open", s.chan[h].file, s.chan[h].n)
<1>1. s.chan[h] \in Conns
  BY ConnOK
<1>2. ASSUME t = [s EXCEPT !.chan[h].file = file]
      PROVE  /\ Others(t, s, h) /\ Rest(t, s) /\ Quotes(t, s)
             /\ Handler(t, h, s.chan[h].st, file, s.chan[h].n)
  <2>1. PICK c : c = [s.chan[h] EXCEPT !.file = file]
    OBVIOUS
  <2>2. c \in Conns /\ c.st = s.chan[h].st /\ c.file = file /\ c.n = s.chan[h].n
    BY <1>1, <2>1 DEF Conns
  <2>3. t = [s EXCEPT !.chan = [s.chan EXCEPT ![h] = c]]
    BY <1>2, <2>1
  <2>4. Others(t, s, h) /\ Handler(t, h, c.st, c.file, c.n) /\ Rest(t, s) /\ Quotes(t, s)
    BY <2>2, <2>3, HandlerIs
  <2> QED
    BY <2>2, <2>4
<1>3. ASSUME t = [s EXCEPT !.chan[h].left = left]
      PROVE  /\ Others(t, s, h) /\ Rest(t, s) /\ Quotes(t, s)
             /\ Handler(t, h, s.chan[h].st, s.chan[h].file, s.chan[h].n)
  <2>1. PICK c : c = [s.chan[h] EXCEPT !.left = left]
    OBVIOUS
  <2>2. c \in Conns /\ c.st = s.chan[h].st /\ c.file = s.chan[h].file /\ c.n = s.chan[h].n
    BY <1>1, <2>1 DEF Conns
  <2>3. t = [s EXCEPT !.chan = [s.chan EXCEPT ![h] = c]]
    BY <1>3, <2>1
  <2>4. Others(t, s, h) /\ Handler(t, h, c.st, c.file, c.n) /\ Rest(t, s) /\ Quotes(t, s)
    BY <2>2, <2>3, HandlerIs
  <2> QED
    BY <2>2, <2>4
<1>4. ASSUME t = [s EXCEPT !.chan[h].n = n]
      PROVE  /\ Others(t, s, h) /\ Rest(t, s) /\ Quotes(t, s)
             /\ Handler(t, h, s.chan[h].st, s.chan[h].file, n)
  <2>1. PICK c : c = [s.chan[h] EXCEPT !.n = n]
    OBVIOUS
  <2>2. c \in Conns /\ c.st = s.chan[h].st /\ c.file = s.chan[h].file /\ c.n = n
    BY <1>1, <2>1 DEF Conns
  <2>3. t = [s EXCEPT !.chan = [s.chan EXCEPT ![h] = c]]
    BY <1>4, <2>1
  <2>4. Others(t, s, h) /\ Handler(t, h, c.st, c.file, c.n) /\ Rest(t, s) /\ Quotes(t, s)
    BY <2>2, <2>3, HandlerIs
  <2> QED
    BY <2>2, <2>4
<1>5. ASSUME t = [s EXCEPT !.chan[h].out = out]
      PROVE  /\ Others(t, s, h) /\ Rest(t, s) /\ Quotes(t, s)
             /\ Handler(t, h, s.chan[h].st, s.chan[h].file, s.chan[h].n)
  <2>1. PICK c : c = [s.chan[h] EXCEPT !.out = out]
    OBVIOUS
  <2>2. c \in Conns /\ c.st = s.chan[h].st /\ c.file = s.chan[h].file /\ c.n = s.chan[h].n
    BY <1>1, <2>1 DEF Conns
  <2>3. t = [s EXCEPT !.chan = [s.chan EXCEPT ![h] = c]]
    BY <1>5, <2>1
  <2>4. Others(t, s, h) /\ Handler(t, h, c.st, c.file, c.n) /\ Rest(t, s) /\ Quotes(t, s)
    BY <2>2, <2>3, HandlerIs
  <2> QED
    BY <2>2, <2>4
<1>6. ASSUME t = [s EXCEPT !.chan[h].st = "open"]
      PROVE  /\ Others(t, s, h) /\ Rest(t, s) /\ Quotes(t, s)
             /\ Handler(t, h, "open", s.chan[h].file, s.chan[h].n)
  <2>1. PICK c : c = [s.chan[h] EXCEPT !.st = "open"]
    OBVIOUS
  <2>2. c \in Conns /\ c.st = "open" /\ c.file = s.chan[h].file /\ c.n = s.chan[h].n
    BY <1>1, <2>1 DEF Conns
  <2>3. t = [s EXCEPT !.chan = [s.chan EXCEPT ![h] = c]]
    BY <1>6, <2>1
  <2>4. Others(t, s, h) /\ Handler(t, h, c.st, c.file, c.n) /\ Rest(t, s) /\ Quotes(t, s)
    BY <2>2, <2>3, HandlerIs
  <2> QED
    BY <2>2, <2>4
<1> QED
  BY <1>2, <1>3, <1>4, <1>5, <1>6

-----------------------------------------------------------------------------
(* How a handler ends, and what a command sets going.                        *)

\* the final reply of a handler, and its connection closed
Ends(t, s, h) ==
    /\ Others(t, s, h) /\ Handler(t, h, "none", FALSE, s.chan[h].n) /\ Rest(t, s)
    /\ Says(t, s, s.chan[h].n, TRUE)

Same(t, s) ==
    /\ \A g \in Transfers : Handler(t, g, s.chan[g].st, s.chan[g].file, s.chan[g].n)
    /\ Rest(t, s) /\ Quotes(t, s)

\* the connection breaks and nobody says so
Breaks(t, s, h) ==
    /\ Others(t, s, h) /\ Handler(t, h, "none", FALSE, s.chan[h].n) /\ Rest(t, s) /\ Quotes(t, s)

LEMMA StillSame ==
    ASSUME NEW s, NEW t, NEW h \in Transfers, Others(t, s, h),
           Handler(t, h, s.chan[h].st, s.chan[h].file, s.chan[h].n), Rest(t, s), Quotes(t, s)
    PROVE  Same(t, s)
BY DEF Others, Handler, Same

\* a handler that had something to send
Finishes(t, s, h) ==
    Ends(t, s, h) /\ h # "STOR" /\ (h = "RETR" => s.chan[h].file)

LEMMA WriteIs ==
    ASSUME NEW s, SessionOK(s), NEW h \in Transfers, h = "LIST" => ~s.chan[h].file,
           NEW t, t = Write(s, h)
    PROVE  Same(t, s) \/ Finishes(t, s, h)
<1>0. s.chan[h] \in Conns
  BY ConnOK
<1>1. CASE h = "LIST"
  <2>1. PICK r : r = ResCMD(s, s.chan[h].n, TRUE)
    OBVIOUS
  <2>2. SessionOK(r)
    <3>1. s.chan[h].n \in 0..MaxCmds
      BY <1>0 DEF Conns
    <3> QED
      BY <2>1, <3>1, ResCMDOK
  <2>3. t = Close(r, h)
    BY <1>1, <2>1 DEF Write
  <2>4. r.chan = s.chan /\ Rest(r, s) /\ Says(r, s, s.chan[h].n, TRUE)
    BY <2>1, FinalIs
  <2>5. /\ Others(t, r, h) /\ Handler(t, h, "none", r.chan[h].file, r.chan[h].n)
        /\ Rest(t, r) /\ Quotes(t, r)
    BY <2>2, <2>3, CloseIs
  <2>6. ~s.chan[h].file /\ s.chan[h].file \in BOOLEAN
    BY <1>0, <1>1 DEF Conns
  <2>7. Ends(t, s, h)
    BY <2>4, <2>5, <2>6 DEF Ends, Others, Handler, Rest, Quotes, Says
  <2> QED
    BY <1>1, <2>7 DEF Finishes
<1>2. CASE h = "RETR"
  <2>1. PICK c \in Conns : c = s.chan[h]
    BY <1>0
  <2>2. CASE c.file /\ c.left > 0
    <3>1. PICK left \in 0..MaxChunks : left = c.left - 1
      BY <2>2, Bounds DEF Conns
    <3>2. PICK r : r = [s EXCEPT !.chan[h].left = left]
      OBVIOUS
    <3>3. t = Send(r, h)
      BY <1>2, <2>1, <2>2, <3>1, <3>2 DEF Write, WriteRETR
    <3>4. SessionOK(r)
      BY <3>2, LeftOK
    <3>5. c.file \in BOOLEAN /\ c.n \in 0..MaxCmds /\ c.out \in 0..1
      BY DEF Conns
    <3>6. /\ Others(r, s, h) /\ Rest(r, s) /\ Quotes(r, s)
          /\ Handler(r, h, s.chan[h].st, s.chan[h].file, s.chan[h].n)
      BY <3>2, <3>5, FieldsAre
    <3>7. /\ Others(t, r, h) /\ Rest(t, r) /\ Quotes(t, r)
          /\ Handler(t, h, r.chan[h].st, r.chan[h].file, r.chan[h].n)
      BY <3>3, <3>4, SendIs
    <3>8. /\ Others(t, s, h) /\ Rest(t, s) /\ Quotes(t, s)
          /\ Handler(t, h, s.chan[h].st, s.chan[h].file, s.chan[h].n)
      BY <3>6, <3>7 DEF Others, Handler, Rest, Quotes
    <3> QED
      BY <3>8, StillSame
  <2>3. CASE c.file /\ ~(c.left > 0)
    <3>1. PICK r : r = [s EXCEPT !.chan[h].file = FALSE]
      OBVIOUS
    <3>2. PICK u : u = ResCMD(r, c.n, TRUE)
      OBVIOUS
    <3>3. t = Close(u, h)
      BY <1>2, <2>1, <2>3, <3>1, <3>2 DEF Write, WriteRETR
    <3>4. SessionOK(r)
      BY <3>1, FileOK
    <3>5. c.n \in 0..MaxCmds /\ c.left \in 0..MaxChunks /\ c.out \in 0..1 /\ FALSE \in BOOLEAN
      BY DEF Conns
    <3>6. SessionOK(u)
      BY <3>2, <3>4, <3>5, ResCMDOK
    <3>7. /\ Others(r, s, h) /\ Rest(r, s) /\ Quotes(r, s)
          /\ Handler(r, h, s.chan[h].st, FALSE, s.chan[h].n)
      BY <3>1, <3>5, FieldsAre
    <3>8. u.chan = r.chan /\ Rest(u, r) /\ Says(u, r, r.chan[h].n, TRUE)
      <4>1. r.chan[h].n = c.n
        BY <2>1, <3>7 DEF Handler
      <4> QED
        BY <3>2, <3>4, <4>1, FinalIs
    <3>9. /\ Others(t, u, h) /\ Handler(t, h, "none", u.chan[h].file, u.chan[h].n)
          /\ Rest(t, u) /\ Quotes(t, u)
      BY <3>3, <3>6, CloseIs
    <3>10. Ends(t, s, h)
      BY <2>1, <3>7, <3>8, <3>9 DEF Ends, Others, Handler, Rest, Quotes, Says
    <3> QED
      BY <1>2, <2>1, <2>3, <3>10 DEF Finishes
  <2>4. CASE ~c.file
    <3>1. t = s
      BY <1>2, <2>1, <2>4 DEF Write, WriteRETR
    <3> QED
      BY <3>1 DEF Same, Handler, Rest, Quotes
  <2> QED
    BY <2>2, <2>3, <2>4
<1>3. CASE h = "STOR"
  <2>1. t = s
    BY <1>3 DEF Write
  <2> QED
    BY <2>1 DEF Same, Handler, Rest, Quotes
<1> QED
  BY <1>1, <1>2, <1>3 DEF Transfers

LEMMA EventDataIs ==
    ASSUME NEW s, SessionOK(s), NEW h \in Transfers, NEW t, t = EventData(s, h)
    PROVE  Breaks(t, s, h) \/ (Ends(t, s, h) /\ h = "STOR")
<1>1. PICK r : r = Close(s, h)
  OBVIOUS
<1>2. PICK u : u = [r EXCEPT !.chan[h].file = FALSE]
  OBVIOUS
<1>3. t = IF h = "STOR" THEN ResCMD(u, s.chan[h].n, TRUE) ELSE u
  BY <1>1, <1>2 DEF EventData
<1>4. SessionOK(r) /\ SessionOK(u)
  BY <1>1, <1>2, CloseOK, FileOK
<1>5. /\ Others(r, s, h) /\ Handler(r, h, "none", s.chan[h].file, s.chan[h].n)
      /\ Rest(r, s) /\ Quotes(r, s)
  BY <1>1, CloseIs
<1>6. /\ Others(u, r, h) /\ Rest(u, r) /\ Quotes(u, r)
      /\ Handler(u, h, r.chan[h].st, FALSE, r.chan[h].n)
  <2>1. 0 \in 0..MaxChunks /\ 0 \in 0..MaxCmds /\ 0 \in 0..1 /\ FALSE \in BOOLEAN
    BY Bounds
  <2> QED
    BY <1>2, <1>4, <2>1, FieldsAre
<1>7. Breaks(u, s, h)
  BY <1>5, <1>6 DEF Breaks, Others, Handler, Rest, Quotes
<1>8. CASE h = "STOR"
  <2>1. t = ResCMD(u, s.chan[h].n, TRUE)
    BY <1>3, <1>8
  <2>2. t.chan = u.chan /\ Rest(t, u) /\ Says(t, u, s.chan[h].n, TRUE)
    BY <1>4, <2>1, ResCMDIs
  <2>3. Ends(t, s, h)
    BY <1>7, <2>2 DEF Breaks, Ends, Others, Handler, Rest, Quotes, Says
  <2> QED
    BY <1>8, <2>3
<1> QED
  BY <1>3, <1>7, <1>8

\* While a handler is busy no final reply has been given; with the one it gives
\* everybody is quiet.
LEMMA EndsAnswers ==
    ASSUME NEW s, SessionOK(s), NEW h \in Transfers, s.chan[h].st # "none", NEW op, NEW n,
           Answers(s, op, n), NEW t, Ends(t, s, h)
    PROVE  Answers(t, op, n)
<1>1. h = op /\ s.chan[h].n = n
  BY DEF Answers
<1>2. Quiet(t)
  BY <1>1 DEF Answers, Ends, Others, Handler, Quiet
<1>3. ~Quiet(s)
  BY DEF Quiet
<1>4. PICK q \in Seq([n : 0..MaxCmds, final : BOOLEAN]) : q = s.replies
  BY DEF SessionOK, Sessions
<1>5. \A i \in 1..Len(q) : q[i].n = n /\ ~q[i].final
  BY <1>3, <1>4 DEF Answers
<1>6. CASE s.life = "up"
  <2>1. PICK e : e = [n |-> n, final |-> TRUE]
    OBVIOUS
  <2>2. e.n = n /\ e.final = TRUE /\ t.replies = Append(q, e)
    BY <1>1, <1>4, <1>6, <2>1 DEF Ends, Says
  <2>3. /\ Len(t.replies) = Len(q) + 1 /\ Len(q) \in Nat
        /\ \A i \in 1..Len(q) : t.replies[i] = q[i]
        /\ t.replies[Len(q) + 1] = e
    BY <2>2
  <2>4. \A i \in 1..Len(t.replies) : /\ t.replies[i].n = n
                                     /\ t.replies[i].final => i = Len(t.replies)
    BY <1>5, <2>2, <2>3
  <2> QED
    BY <1>2, <2>4 DEF Answers, Quiet
<1>7. CASE s.life # "up"
  <2>1. t.replies = q
    BY <1>4, <1>7 DEF Ends, Says
  <2> QED
    BY <1>2, <1>5, <2>1 DEF Answers, Quiet
<1> QED
  BY <1>6, <1>7

LEMMA SameAnswers ==
    ASSUME NEW s, NEW t, Same(t, s), NEW op, NEW n, Answers(s, op, n)
    PROVE  Answers(t, op, n)
<1>1. Quiet(s) => Quiet(t)
  BY DEF Same, Handler, Quiet
<1> QED
  BY <1>1 DEF Same, Handler, Answers, Quotes

LEMMA BreaksAnswers ==
    ASSUME NEW s, NEW t, NEW h \in Transfers, Breaks(t, s, h), NEW op, NEW n, Answers(s, op, n)
    PROVE  Answers(t, op, n)
<1>1. Quiet(s) => Quiet(t)
  BY DEF Breaks, Handler, Others, Quiet
<1> QED
  BY <1>1 DEF Breaks, Handler, Others, Answers, Quotes

LEMMA FirstAnswers ==
    ASSUME NEW s, s.life = "up", s.replies = <<>>, NEW n, NEW final \in BOOLEAN, NEW op,
           NEW t, Says(t, s, n, final), final = FALSE \/ Quiet(t),
           \A h \in Transfers : t.chan[h].st # "none" \/ t.chan[h].file
                                   => h = op /\ t.chan[h].n = n
    PROVE  Answers(t, op, n)
<1>1. PICK e : e = [n |-> n, final |-> final]
  OBVIOUS
<1>2. e.n = n /\ e.final = final /\ t.replies = <<e>> /\ t.proc = s.proc
  BY <1>1 DEF Says
<1>3. Len(t.replies) = 1 /\ t.replies[1] = e
  BY <1>2
<1> QED
  BY <1>2, <1>3 DEF Answers

\* What XFtpServerCMD::Read makes of a session whose client waits for nothing else.
Serves(t, s, c) ==
    /\ t.life = "up"
    /\ t.dir = IF c.op \in Moves THEN Chdir(s, c) ELSE s.dir
    /\ s.port => t.port
    /\ c.op = "PORT" /\ c.name # Garbled => t.port
    /\ Answers(t, c.op, c.n) /\ ~t.chan["LIST"].file
    /\ t.proc = s.proc \/ (c.op \in Transfers /\ ~s.port)

LEMMA ParseLISTIs ==
    ASSUME NEW s, SessionOK(s), s.life = "up", Quiet(s), s.replies = <<>>,
           NEW c \in Cmds, c.op = "LIST", NEW chunks, NEW t, t = ParseLIST(s, c.n, chunks)
    PROVE  Serves(t, s, c)
<1>0. PICK h \in Transfers : h = "LIST"
  BY DEF Transfers
<1>1. PICK n \in 0..MaxCmds : n = c.n
  BY DEF Cmds
<1>2. PICK u : u = [s EXCEPT !.chan[h].n = n]
  OBVIOUS
<1>3. PICK v : v = ConnectPORT(u, h)
  OBVIOUS
<1>4. PICK f \in BOOLEAN : f = FALSE
  OBVIOUS
<1>5. PICK w : w = ResCMD(v, n, f)
  OBVIOUS
<1>6. t = w \/ t = Send(w, h)
  BY <1>0, <1>1, <1>2, <1>3, <1>4, <1>5 DEF ParseLIST
<1>7. SessionOK(u) /\ SessionOK(v) /\ SessionOK(w)
  <2>1. SessionOK(u)
    BY <1>2, NumberOK
  <2>2. SessionOK(v)
    BY <2>1, <1>3, ConnectOK
  <2> QED
    BY <2>1, <2>2, <1>5, ResCMDOK
<1>8. s.chan[h].st = "none" /\ ~s.chan[h].file /\ s.chan[h] \in Conns
  BY ConnOK DEF Quiet
<1>9. Others(u, s, h) /\ Rest(u, s) /\ Quotes(u, s) /\ Handler(u, h, "none", s.chan[h].file, n)
  <2>1. 0 \in 0..MaxChunks /\ 0 \in 0..1 /\ FALSE \in BOOLEAN
    BY Bounds
  <2> QED
    BY <1>2, <1>8, <2>1, FieldsAre
<1>10. Others(v, u, h) /\ Rest(v, u) /\ Quotes(v, u) /\ v.chan[h].file = u.chan[h].file
       /\ v.chan[h].n = u.chan[h].n
  BY <1>3, <1>7, ConnectIs DEF Others, Handler, Rest, Quotes
<1>11. w.chan = v.chan /\ Rest(w, v) /\ Says(w, v, n, f)
  BY <1>5, <1>7, ResCMDIs
<1>12. /\ \A g \in Transfers : w.chan[g].st # "none" \/ w.chan[g].file => g = h /\ w.chan[g].n = n
       /\ ~w.chan[h].file /\ Rest(w, s) /\ v.replies = <<>> /\ v.proc = s.proc /\ v.life = "up"
  BY <1>8, <1>9, <1>10, <1>11 DEF Quiet, Others, Handler, Rest, Quotes
<1>13. Answers(w, h, n) /\ w.proc = s.proc
  <2>1. w.proc = v.proc /\ (f = FALSE \/ Quiet(w))
    BY <1>4, <1>11, <1>12 DEF Says
  <2>2. Answers(w, h, n)
    BY <2>1, <1>11, <1>12, FirstAnswers
  <2> QED
    BY <2>1, <2>2, <1>12
<1>14. c.op \notin Moves /\ c.op # "PORT" /\ h = c.op
  BY <1>0 DEF Moves
<1>15. Serves(w, s, c)
  BY <1>0, <1>1, <1>12, <1>13, <1>14 DEF Serves, Rest
<1>16. CASE t = Send(w, h)
  <2>1. Same(t, w)
    BY <1>7, <1>16, SendIs, StillSame
  <2>2. Answers(t, h, n)
    BY <2>1, <1>13, SameAnswers
  <2>3. t.life = w.life /\ t.dir = w.dir /\ t.port = w.port /\ t.proc = w.proc
        /\ t.chan[h].file = w.chan[h].file
    BY <2>1 DEF Same, Rest, Quotes, Handler
  <2> QED
    BY <1>0, <1>1, <1>14, <1>15, <2>2, <2>3 DEF Serves
<1> QED
  BY <1>6, <1>15, <1>16

LEMMA OpenedIs ==
    ASSUME NEW s, SessionOK(s), NEW h \in Transfers, NEW left \in 0..MaxChunks,
           NEW n \in 0..MaxCmds, NEW t,
           t = [s EXCEPT !.chan[h].file = TRUE, !.chan[h].left = left, !.chan[h].n = n]
    PROVE  /\ Others(t, s, h) /\ Rest(t, s) /\ Quotes(t, s)
           /\ Handler(t, h, s.chan[h].st, TRUE, n)
<1>1. PICK c : c = [s.chan[h] EXCEPT !.file = TRUE, !.left = left, !.n = n]
  OBVIOUS
<1>2. c \in Conns /\ c.st = s.chan[h].st /\ c.file = TRUE /\ c.n = n
  BY <1>1, ConnOK DEF Conns
<1>3. t = [s EXCEPT !.chan = [s.chan EXCEPT ![h] = c]]
  BY <1>1 DEF SessionOK, Sessions, Conns
<1>4. Others(t, s, h) /\ Handler(t, h, c.st, c.file, c.n) /\ Rest(t, s) /\ Quotes(t, s)
  BY <1>2, <1>3, HandlerIs
<1> QED
  BY <1>2, <1>4

\* bufferevent_trigger at the end of RETR and STOR
LEMMA BeginIs ==
    ASSUME NEW s, SessionOK(s), NEW h \in Transfers, h # "LIST", s.life = "up",
           NEW n, Answers(s, h, n), NEW t, t = Begin(s, h)
    PROVE  /\ t.life = "up" /\ t.dir = s.dir /\ t.port = s.port
           /\ Answers(t, h, n) /\ (~s.chan["LIST"].file => ~t.chan["LIST"].file)
           /\ t.proc = s.proc \/ s.chan[h].st = "none"
<1>0. PICK l \in Transfers : l = "LIST" /\ l # h
  BY DEF Transfers
<1>1. CASE s.chan[h].st = "none"
  <2>1. t = [s EXCEPT !.proc = "crashed"]
    BY <1>1 DEF Begin
  <2>2. t.chan = s.chan /\ t.life = s.life /\ t.dir = s.dir /\ t.port = s.port
        /\ t.replies = s.replies
    BY <2>1 DEF SessionOK, Sessions
  <2>3. Answers(t, h, n)
    BY <2>2 DEF Answers, Quiet
  <2> QED
    BY <1>1, <2>2, <2>3
<1>2. CASE s.chan[h].st # "none"
  <2>1. t = Write(s, h)
    BY <1>2 DEF Begin
  <2>2. CASE Same(t, s)
    <3>1. Answers(t, h, n)
      BY <2>2, SameAnswers
    <3> QED
      BY <1>0, <2>2, <3>1 DEF Same, Handler, Rest, Quotes
  <2>3. CASE Ends(t, s, h)
    <3>1. Answers(t, h, n)
      BY <1>2, <2>3, EndsAnswers
    <3> QED
      BY <1>0, <2>3, <3>1 DEF Ends, Others, Rest, Says
  <2> QED
    BY <2>1, <2>2, <2>3, WriteIs DEF Finishes
<1> QED
  BY <1>1, <1>2

LEMMA ParseFileIs ==
    ASSUME NEW s, SessionOK(s), s.life = "up", Quiet(s), s.replies = <<>>,
           NEW c \in Cmds, c.op \in {"RETR", "STOR"}, NEW opened,
           NEW chunks \in 0..MaxChunks, NEW t, t = ParseFile(s, c.op, c.n, opened, chunks)
    PROVE  Serves(t, s, c)
<1>0. PICK h \in Transfers : h = c.op
  BY DEF Transfers
<1>1. PICK n \in 0..MaxCmds : n = c.n
  BY DEF Cmds
<1>2. /\ c.op \notin Moves /\ c.op # "PORT" /\ h # "LIST"
  BY <1>0 DEF Moves
<1>3. PICK l \in Transfers : l = "LIST"
  BY DEF Transfers
<1>4. CASE opened
  <2>1. PICK u : u = [s EXCEPT !.chan[h].file = TRUE, !.chan[h].left = chunks, !.chan[h].n = n]
    OBVIOUS
  <2>2. PICK v : v = ConnectPORT(u, h)
    OBVIOUS
  <2>3. PICK f \in BOOLEAN : f = FALSE
    OBVIOUS
  <2>4. PICK w : w = ResCMD(v, n, f)
    OBVIOUS
  <2>5. t = Begin(w, h)
    BY <1>0, <1>1, <1>4, <2>1, <2>2, <2>3, <2>4 DEF ParseFile
  <2>6. SessionOK(u) /\ SessionOK(v) /\ SessionOK(w)
    <3>1. SessionOK(u)
      BY <2>1, OpenedOK
    <3>2. SessionOK(v)
      BY <3>1, <2>2, ConnectOK
    <3> QED
      BY <3>1, <3>2, <2>4, ResCMDOK
  <2>7. Others(u, s, h) /\ Rest(u, s) /\ Quotes(u, s) /\ Handler(u, h, s.chan[h].st, TRUE, n)
    BY <2>1, OpenedIs
  <2>8. /\ Others(v, u, h) /\ Rest(v, u) /\ Quotes(v, u) /\ v.chan[h].n = u.chan[h].n
        /\ u.port => v.chan[h].st = "connecting"
    BY <2>2, <2>6, ConnectIs DEF Others, Handler, Rest, Quotes
  <2>9. w.chan = v.chan /\ Rest(w, v) /\ Says(w, v, n, f)
    BY <2>4, <2>6, ResCMDIs
  <2>10. /\ \A g \in Transfers : w.chan[g].st # "none" \/ w.chan[g].file
                                    => g = h /\ w.chan[g].n = n
         /\ v.replies = <<>> /\ v.life = "up" /\ v.proc = s.proc /\ Rest(w, s)
         /\ ~w.chan[l].file
         /\ s.port => w.chan[h].st = "connecting"
    BY <1>2, <1>3, <2>7, <2>8, <2>9 DEF Quiet, Others, Handler, Rest, Quotes
  <2>11. Answers(w, h, n) /\ w.proc = s.proc
    <3>1. f = FALSE \/ Quiet(w)
      BY <2>3
    <3>2. Answers(w, h, n)
      BY <2>9, <2>10, <3>1, FirstAnswers
    <3> QED
      BY <2>9, <2>10, <3>2 DEF Says
  <2>12. w.life = "up" /\ w.dir = s.dir /\ w.port = s.port
    BY <2>10 DEF Rest
  <2>13. /\ t.life = "up" /\ t.dir = w.dir /\ t.port = w.port
         /\ Answers(t, h, n) /\ (~w.chan["LIST"].file => ~t.chan["LIST"].file)
         /\ t.proc = w.proc \/ w.chan[h].st = "none"
    BY <1>2, <2>5, <2>6, <2>11, <2>12, BeginIs
  <2> QED
    BY <1>0, <1>1, <1>2, <1>3, <2>10, <2>11, <2>12, <2>13 DEF Serves
<1>5. CASE ~opened
  <2>1. PICK u : u = [s EXCEPT !.chan[h].file = FALSE]
    OBVIOUS
  <2>2. PICK f \in BOOLEAN : f = TRUE
    OBVIOUS
  <2>3. t = ResCMD(u, n, f)
    BY <1>0, <1>1, <1>5, <2>1, <2>2 DEF ParseFile
  <2>4. SessionOK(u)
    <3>1. FALSE \in BOOLEAN
      OBVIOUS
    <3> QED
      BY <2>1, <3>1, FileOK
  <2>5. Others(u, s, h) /\ Rest(u, s) /\ Quotes(u, s)
        /\ Handler(u, h, s.chan[h].st, FALSE, s.chan[h].n)
    <3>1. 0 \in 0..MaxChunks /\ 0 \in 0..MaxCmds /\ 0 \in 0..1 /\ FALSE \in BOOLEAN
      BY Bounds
    <3> QED
      BY <2>1, <3>1, FieldsAre
  <2>6. t.chan = u.chan /\ Rest(t, u) /\ Says(t, u, n, f)
    BY <2>3, <2>4, ResCMDIs
  <2>7. Quiet(t) /\ u.replies = <<>> /\ u.life = "up" /\ u.proc = s.proc /\ Rest(t, s)
    BY <2>5, <2>6 DEF Quiet, Others, Handler, Rest, Quotes
  <2>8. Answers(t, h, n) /\ t.proc = u.proc
    <3>1. \A g \in Transfers : t.chan[g].st # "none" \/ t.chan[g].file
                                  => g = h /\ t.chan[g].n = n
      BY <2>7 DEF Quiet
    <3>2. Answers(t, h, n)
      BY <2>6, <2>7, <3>1, FirstAnswers
    <3> QED
      BY <2>6, <2>7, <3>2 DEF Says
  <2> QED
    BY <1>0, <1>1, <1>2, <1>3, <2>7, <2>8 DEF Serves, Rest, Quiet
<1> QED
  BY <1>4, <1>5

LEMMA ParseIs ==
    ASSUME NEW s, SessionOK(s), s.life = "up", Quiet(s), s.replies = <<>>,
           NEW c \in Cmds, ~(c.op = "CDUP" /\ s.dir = Root), NEW opened,
           NEW chunks \in 0..MaxChunks, NEW t, t = Parse(s, c, opened, chunks)
    PROVE  Serves(t, s, c)
<1>0. PICK n \in 0..MaxCmds : n = c.n
  BY DEF Cmds
<1>f. PICK f \in BOOLEAN : f = TRUE
  OBVIOUS
<1>l. PICK l \in Transfers : l = "LIST"
  BY DEF Transfers
<1>a. ASSUME NEW u, u.chan = s.chan, u.life = "up", u.replies = <<>>, u.proc = s.proc,
             SessionOK(u), t = ResCMD(u, n, f)
      PROVE  /\ Answers(t, c.op, c.n) /\ ~t.chan["LIST"].file /\ t.proc = s.proc
             /\ Rest(t, u)
  <2>1. t.chan = u.chan /\ Rest(t, u) /\ Says(t, u, n, f)
    BY <1>a, ResCMDIs
  <2>2. Quiet(t)
    BY <1>a, <2>1 DEF Quiet
  <2>3. \A g \in Transfers : t.chan[g].st # "none" \/ t.chan[g].file
                                => g = c.op /\ t.chan[g].n = n
    BY <2>2 DEF Quiet
  <2>4. Answers(t, c.op, n)
    BY <1>a, <2>1, <2>2, <2>3, FirstAnswers
  <2>5. t.proc = u.proc
    BY <1>a, <2>1 DEF Says
  <2> QED
    BY <1>0, <1>a, <1>l, <2>1, <2>2, <2>4, <2>5 DEF Quiet
<1>1. CASE c.op = "USER"
  <2>1. t = ResCMD(s, n, f)
    BY <1>0, <1>f, <1>1 DEF Parse, Moves
  <2>2. /\ Answers(t, c.op, c.n) /\ ~t.chan["LIST"].file /\ t.proc = s.proc /\ Rest(t, s)
    BY <1>a, <2>1
  <2> QED
    BY <1>1, <2>2 DEF Serves, Rest, Moves
<1>2. CASE c.op = "PORT"
  <2>1. PICK p : p = (s.port \/ c.name # Garbled)
    OBVIOUS
  <2>2. p \in BOOLEAN /\ (s.port => p) /\ (c.name # Garbled => p)
    BY <2>1
  <2>3. PICK u : u = [s EXCEPT !.port = p]
    OBVIOUS
  <2>4. t = ResCMD(u, n, f)
    BY <1>0, <1>f, <1>2, <2>1, <2>3 DEF Parse, Moves
  <2>5. u \in Sessions /\ u.chan = s.chan /\ u.life = s.life /\ u.replies = s.replies
        /\ u.proc = s.proc /\ u.dir = s.dir /\ u.port = p
    BY <2>2, <2>3 DEF SessionOK, Sessions
  <2>6. SessionOK(u)
    BY <2>5 DEF SessionOK
  <2>7. /\ Answers(t, c.op, c.n) /\ ~t.chan["LIST"].file /\ t.proc = s.proc /\ Rest(t, u)
    BY <1>a, <2>4, <2>5, <2>6
  <2> QED
    BY <1>2, <2>2, <2>5, <2>7 DEF Serves, Rest, Moves
<1>3. CASE c.op = "LIST"
  <2>1. t = ParseLIST(s, c.n, chunks)
    BY <1>3 DEF Parse, Moves
  <2> QED
    BY <1>3, <2>1, ParseLISTIs
<1>4. CASE c.op \in {"RETR", "STOR"}
  <2>1. t = ParseFile(s, c.op, c.n, opened, chunks)
    BY <1>4 DEF Parse, Moves
  <2> QED
    BY <1>4, <2>1, ParseFileIs
<1>5. CASE c.op \in Moves
  <2>1. PICK d : d = Chdir(s, c)
    OBVIOUS
  <2>2. PICK u : u = [s EXCEPT !.dir = d]
    OBVIOUS
  <2>3. t = ResCMD(u, n, f)
    <3>1. t = ParseMove(s, c)
      BY <1>5 DEF Parse, Moves
    <3> QED
      BY <1>0, <1>f, <2>1, <2>2, <3>1 DEF ParseMove
  <2>4. d \in Dirs
    BY <1>5, <2>1, ChdirOK
  <2>5. u \in Sessions /\ u.chan = s.chan /\ u.life = s.life /\ u.replies = s.replies
        /\ u.proc = s.proc /\ u.dir = d /\ u.port = s.port
    BY <2>2, <2>4 DEF SessionOK, Sessions
  <2>6. SessionOK(u)
    BY <2>5 DEF SessionOK
  <2>7. /\ Answers(t, c.op, c.n) /\ ~t.chan["LIST"].file /\ t.proc = s.proc /\ Rest(t, u)
    BY <1>a, <2>3, <2>5, <2>6
  <2> QED
    BY <1>5, <2>1, <2>5, <2>7 DEF Serves, Rest, Moves
<1> QED
  BY <1>1, <1>2, <1>3, <1>4, <1>5 DEF Cmds, CmdOps, Transfers

-----------------------------------------------------------------------------
(* The steps.  Each lemma takes one step that has not been to the root by    *)
(* CDUP, from a state in which client and session are in touch.              *)

LEMMA LifeKept ==
    ASSUME FtpTypeOK, ses.life # "none" => Session \in inited, [FtpNext]_vars
    PROVE  (ses.life # "none" => Session \in inited)'
<1>0. ses \in Sessions
  BY DEF FtpTypeOK, SessionOK
<1>1. CASE PoolStep
  BY <1>1 DEF PoolStep, AddTask, Activate, ReadByte, ftpVars
<1>2. ASSUME NEW t \in XThreads, Serve(t) PROVE (ses.life # "none" => Session \in inited)'
  <2>1. inited \subseteq inited'
    BY <1>2 DEF Serve, RunFirst
  <2> QED
    BY <1>2, <2>1 DEF Serve
<1>3. CASE CmdRead
  BY <1>3 DEF CmdRead, poolVars
<1>4. CASE CmdEvent
  BY <1>4 DEF CmdEvent, poolVars
<1>5. ASSUME NEW h \in Transfers, Connected(h) \/ Drained(h) \/ DataEvent(h)
      PROVE  (ses.life # "none" => Session \in inited)'
  BY <1>5 DEF Connected, Drained, DataEvent, InLoop, poolVars
<1>6. ASSUME NEW op \in Commands, NEW name \in Names, SendCmd(op, name)
      PROVE  (ses.life # "none" => Session \in inited)'
  BY <1>6 DEF SendCmd, poolVars
<1>7. CASE TakeReply
  <2>1. ses'.life = ses.life
    BY <1>0, <1>7 DEF TakeReply, Sessions
  <2> QED
    BY <1>7, <2>1 DEF TakeReply, poolVars
<1>8. CASE UNCHANGED vars
  BY <1>8 DEF vars, poolVars, ftpVars
<1> QED
  BY <1>1, <1>2, <1>3, <1>4, <1>5, <1>6, <1>7, <1>8 DEF FtpNext

LEMMA StutterFaithful ==
    ASSUME Faithful, UNCHANGED ftpVars
    PROVE  Faithful'
BY DEF Faithful, InTouch, SameDir, Ported, ftpVars, Running, BareAfter, Where

LEMMA ServeFaithful ==
    ASSUME FtpTypeOK, ses.life # "none" => Session \in inited, Faithful,
           NEW x \in XThreads, Serve(x)
    PROVE  Faithful'
<1>1. CASE Session \notin inited' \ inited
  <2>1. UNCHANGED ftpVars
    BY <1>1 DEF Serve, ftpVars
  <2> QED
    BY <2>1, StutterFaithful
<1>2. CASE Session \in inited' \ inited
  <2>1. ses.life = "none" /\ SessionOK(ses) /\ ses \in Sessions
    BY <1>2 DEF FtpTypeOK, SessionOK
  <2>2. /\ Quiet(ses) /\ ses.replies = <<>> /\ inbuf = <<>> /\ client.waits /\ ~client.ported
        /\ client.cmd = Welcome /\ ses.dir = Root /\ client.where = <<>>
    BY <2>1 DEF Faithful, InTouch, Idle
  <2>3. PICK u : u = [ses EXCEPT !.life = "up", !.at = x]
    OBVIOUS
  <2>4. PICK n \in 0..MaxCmds : n = 0
    BY Bounds
  <2>f. PICK f \in BOOLEAN : f = TRUE
    OBVIOUS
  <2>5. ses' = ResCMD(u, n, f) /\ UNCHANGED <<inbuf, client, past>>
    BY <1>2, <2>3, <2>4, <2>f DEF Serve
  <2>6. /\ u \in Sessions /\ u.chan = ses.chan /\ u.dir = ses.dir /\ u.port = ses.port
        /\ u.replies = ses.replies /\ u.proc = ses.proc /\ u.life = "up"
    BY <2>1, <2>3 DEF Sessions
  <2>7. SessionOK(u)
    BY <2>1, <2>6 DEF SessionOK
  <2>8. PICK t : t = ses'
    OBVIOUS
  <2>9. t.chan = u.chan /\ Rest(t, u) /\ Says(t, u, n, f)
    BY <2>5, <2>7, <2>8, ResCMDIs
  <2>10. PICK o : o = client.cmd.op
    OBVIOUS
  <2>11. Quiet(t)
    BY <2>2, <2>6, <2>9 DEF Quiet
  <2>12. Answers(t, o, n)
    <3>1. \A g \in Transfers : t.chan[g].st # "none" \/ t.chan[g].file
                                  => g = o /\ t.chan[g].n = n
      BY <2>11 DEF Quiet
    <3> QED
      BY <2>2, <2>6, <2>9, <2>11, <3>1, FirstAnswers
  <2>13. t.proc = ses.proc /\ t.life = "up" /\ t.dir = Root /\ t.port = ses.port
    BY <2>2, <2>6, <2>9 DEF Says, Rest
  <2>14. client.cmd.op = "USER" /\ client.cmd.n = n
    <3>1. client.cmd.op = "USER" /\ client.cmd.n = 0
      <4>1. client.cmd = Welcome
        BY <2>2
      <4>2. Welcome.op = "USER" /\ Welcome.n = 0
        BY DEF Welcome
      <4> QED
        BY <4>1, <4>2
    <3> QED
      BY <2>4, <3>1
  <2>15. InTouch'
    <3>1. "LIST" \in Transfers
      BY DEF Transfers
    <3>2. /\ client.waits' /\ inbuf' = <<>> /\ Answers(ses', client'.cmd.op, client'.cmd.n)
          /\ ~ses'.chan["LIST"].file /\ ses'.life = "up" /\ ses'.proc = ses.proc
      BY <2>2, <2>5, <2>8, <2>10, <2>11, <2>12, <2>13, <2>14, <3>1 DEF Quiet
    <3> QED
      BY <2>5, <3>2 DEF Faithful, InTouch, Running
  <2>16. SameDir'
    <3>1. Where(client.cmd) = <<>>
      BY <2>2, <2>14 DEF Where
    <3>2. Where(client.cmd)' = Where(client.cmd)
      BY <2>5 DEF Where
    <3>3. ses'.dir.parts = <<>> /\ ses'.dir.slash
      BY <2>8, <2>13 DEF Root
    <3> QED
      BY <2>2, <2>5, <3>1, <3>2, <3>3 DEF SameDir
  <2>17. Ported'
    BY <2>2, <2>5, <2>14 DEF Faithful, Ported, Transfers, Moves, Welcome
  <2> QED
    BY <2>15, <2>16, <2>17 DEF Faithful
<1> QED
  BY <1>1, <1>2

LEMMA DirMoves ==
    ASSUME FtpTypeOK, NEW c \in Cmds, c.op \in Moves, c.name # ""
    PROVE  /\ client.where = ses.dir.parts /\ (c.op = "CDUP" \/ c.name \notin DOMAIN LastWord)
                => Chdir(ses, c).parts = Where(c)
           /\ c.op = "CWD name" => Chdir(ses, c).slash
BY DEF Chdir, Where, Below, Parent, Moves

LEMMA CmdReadFaithful ==
    ASSUME FtpTypeOK, Faithful, CmdRead, ~past'.rootUp, past'.splits = 0
    PROVE  Faithful'
<1>0. PICK k \in 0..Len(inbuf), cut \in BOOLEAN, opened \in BOOLEAN, chunks \in 0..MaxChunks :
        /\ k > 0 \/ cut
        /\ cut => k < Len(inbuf) /\ past.splits < MaxSplits
        /\ \E x \in TakenFor(inbuf[1], k, cut) :
              /\ ses' = Parse(ses, x, opened, chunks)
              /\ past' = Noted(x, k, cut, opened, chunks)
        /\ inbuf' = Unread(k, cut)
  BY DEF CmdRead
<1>1. PICK x \in TakenFor(inbuf[1], k, cut) :
        /\ k > 0 \/ cut
        /\ cut => k < Len(inbuf) /\ past.splits < MaxSplits
        /\ ses' = Parse(ses, x, opened, chunks)
        /\ past' = Noted(x, k, cut, opened, chunks)
        /\ inbuf' = Unread(k, cut)
  BY <1>0
<1>2. ses.life = "up" /\ inbuf = <<client.cmd>> /\ Quiet(ses) /\ ses.replies = <<>>
      /\ client.waits /\ UNCHANGED client /\ Running
  BY DEF CmdRead, Faithful, InTouch, Idle, InLoop
<1>3. PICK c \in Cmds : c = client.cmd
  BY DEF FtpTypeOK
<1>6. PICK p : p = past
  OBVIOUS
<1>7. PICK q : q = past'
  OBVIOUS
<1>a. NotedAs(q, x, k, cut, opened)
  <2>1. past \in Pasts /\ k \in Nat
    BY DEF FtpTypeOK, Pasts
  <2>2. q = Noted(x, k, cut, opened, chunks)
    BY <1>1, <1>7
  <2>3. cut => past.splits < MaxSplits
    BY <1>1
  <2> QED
    BY <2>1, <2>2, <2>3, NotedIs
<1>b. ~cut
  <2>1. past.splits \in Nat /\ q.splits = 0
    BY <1>7 DEF FtpTypeOK
  <2>2. q.splits = (IF cut THEN past.splits + 1 ELSE past.splits)
    BY <1>a DEF NotedAs
  <2> QED
    BY <2>1, <2>2
<1>4. k = 1 /\ inbuf' = <<>>
  <2>1. Len(inbuf) = 1
    BY <1>2
  <2>2. k = 1
    BY <1>1, <1>b, <2>1
  <2>3. inbuf' = SubSeq(<<c>>, 2, 1)
    BY <1>1, <1>2, <1>3, <1>b, <2>1, <2>2 DEF Unread
  <2> QED
    BY <2>2, <2>3
<1>5. x = c
  <2>1. inbuf[1] = c
    BY <1>2, <1>3
  <2> QED
    BY <1>3, <1>4, <1>b, <2>1, TakenIsCmd
<1>8. /\ ~(c.op = "CDUP" /\ ses.dir = Root)
      /\ ~q.cut /\ ~q.lost /\ ~q.misfiled /\ ~q.mixed
      /\ q.early = p.early /\ q.hasty = p.hasty
      /\ q.blank = (p.blank \/ (c.op \in {"CWD name", "CWD /name"}
                                 /\ c.name \in DOMAIN LastWord))
  <2>2. ~past.cut /\ ~past.lost /\ ~past.misfiled /\ ~past.mixed
    BY DEF Faithful, InTouch
  <2>4. c.op \in {"RETR", "STOR"} => ~ses.chan[c.op].file
    BY <1>2 DEF Quiet, Transfers
  <2>5. /\ ses.dir.slash \/ client.bare
        /\ past.blank \/ ses.dir.parts = client.where
    BY <1>2 DEF Faithful, SameDir
  <2>6. ~(k > 1)
    BY <1>4
  <2>7. ~q.rootUp
    BY <1>7
  <2> QED
    BY <1>6, <1>a, <1>b, <1>5, <2>2, <2>4, <2>5, <2>6, <2>7, Zenon DEF NotedAs
<1>9. PICK s : s = ses
  OBVIOUS
<1>10. PICK t : t = ses'
  OBVIOUS
<1>11. Serves(t, s, c)
  <2>1. SessionOK(s)
    BY <1>9 DEF FtpTypeOK
  <2>2. t = Parse(s, c, opened, chunks)
    BY <1>1, <1>5, <1>9, <1>10
  <2> QED
    BY <1>2, <1>8, <1>9, <2>1, <2>2, ParseIs
<1>12. /\ t.life = "up" /\ Answers(t, c.op, c.n) /\ ~t.chan["LIST"].file
       /\ t.dir = (IF c.op \in Moves THEN Chdir(ses, c) ELSE ses.dir)
       /\ ses.port => t.port
       /\ c.op = "PORT" /\ c.name # Garbled => t.port
       /\ t.proc = ses.proc \/ (c.op \in Transfers /\ ~ses.port)
  BY <1>9, <1>11 DEF Serves
<1>13. InTouch'
  <2>1. t.proc = "ok" \/ p.early
    BY <1>2, <1>3, <1>6, <1>12 DEF Running, Faithful, Ported
  <2> QED
    BY <1>2, <1>3, <1>4, <1>6, <1>7, <1>8, <1>10, <1>12, <2>1 DEF InTouch, Running
<1>14. SameDir'
  <2>0. Where(client.cmd)' = Where(c) /\ BareAfter' = BareAfter
    BY <1>2, <1>3 DEF Where, BareAfter
  <2>1. past.blank \/ client.where = ses.dir.parts
    BY <1>2 DEF Faithful, SameDir
  <2>2. ses.dir.slash \/ client.bare
    BY <1>2 DEF Faithful, SameDir
  <2>3. c.name # "" \/ c.op \notin Moves
    BY <1>3 DEF Faithful, Ported
  <2>4. (q.blank \/ t.dir.parts = Where(c)) /\ (t.dir.slash \/ BareAfter)
    <3>1. CASE c.op \in Moves
      <4>1. /\ client.where = ses.dir.parts /\ (c.op = "CDUP" \/ c.name \notin DOMAIN LastWord)
                 => Chdir(ses, c).parts = Where(c)
            /\ c.op = "CWD name" => Chdir(ses, c).slash
        BY <2>3, <3>1, DirMoves
      <4>2. t.dir = Chdir(ses, c)
        BY <1>12, <3>1
      <4>3. t.dir.slash \/ BareAfter
        BY <1>3, <3>1, <4>1, <4>2 DEF BareAfter
      <4>4. c.op = "CDUP" \/ c.op \in {"CWD name", "CWD /name"}
        BY <3>1 DEF Moves
      <4>5. q.blank \/ t.dir.parts = Where(c)
        BY <1>6, <1>8, <2>1, <4>1, <4>2, <4>4
      <4> QED
        BY <4>3, <4>5
    <3>2. CASE c.op \notin Moves
      <4>1. t.dir = ses.dir /\ Where(c) = client.where
        BY <1>12, <3>2 DEF Where, Moves
      <4>2. q.blank \/ t.dir.parts = Where(c)
        BY <1>6, <1>8, <2>1, <4>1
      <4>3. t.dir.slash \/ BareAfter
        BY <1>3, <2>2, <3>2, <4>1 DEF BareAfter, Moves
      <4> QED
        BY <4>2, <4>3
    <3> QED
      BY <3>1, <3>2
  <2> QED
    BY <1>2, <1>4, <1>7, <1>10, <2>0, <2>4 DEF SameDir
<1>15. Ported'
  BY <1>2, <1>3, <1>6, <1>7, <1>8, <1>10, <1>12 DEF Faithful, Ported
<1> QED
  BY <1>13, <1>14, <1>15 DEF Faithful

LEMMA CmdEventFaithful ==
    ASSUME FtpTypeOK, Faithful, CmdEvent
    PROVE  Faithful'
<1>1. ses \in Sessions /\ past \in Pasts
  BY DEF FtpTypeOK, SessionOK, Pasts
<1>2. PICK t : t = ses'
  OBVIOUS
<1>3. /\ t.life = "deleted" /\ t.chan = ses.chan /\ t.replies = ses.replies
      /\ t.proc = ses.proc
  BY <1>1, <1>2 DEF CmdEvent, Sessions
<1>4. PICK p : p = past
  OBVIOUS
<1>5. PICK q : q = past'
  OBVIOUS
<1>6. /\ client.waits => q.hasty
      /\ p.hasty => q.hasty
      /\ q.early = p.early /\ q.mixed = p.mixed /\ q.cut = p.cut
      /\ q.misfiled = p.misfiled /\ q.lost = p.lost /\ q.blank = p.blank
  <2>1. PICK a : a = (past.hasty \/ client.waits)
    OBVIOUS
  <2>2. q = [past EXCEPT !.hasty = a]
    BY <1>5, <2>1 DEF CmdEvent
  <2>3. /\ q.hasty = a
        /\ q.early = p.early /\ q.mixed = p.mixed /\ q.cut = p.cut
        /\ q.misfiled = p.misfiled /\ q.lost = p.lost /\ q.blank = p.blank
    BY <1>1, <1>4, <2>2 DEF Pasts
  <2> QED
    BY <1>4, <2>1, <2>3
<1>7. inbuf' = <<>> /\ UNCHANGED client
  BY DEF CmdEvent
<1>8. Answers(ses', client'.cmd.op, client'.cmd.n) /\ (Quiet(ses) => Quiet(ses'))
  <2>1. Quiet(ses) => Quiet(t)
    BY <1>3 DEF Quiet
  <2>2. Answers(ses, client.cmd.op, client.cmd.n)
    BY DEF Faithful, InTouch
  <2>3. Answers(t, client.cmd.op, client.cmd.n)
    BY <1>3, <2>1, <2>2 DEF Answers
  <2> QED
    BY <1>2, <1>7, <2>1, <2>3
<1>9. InTouch'
  BY <1>2, <1>3, <1>4, <1>5, <1>6, <1>7, <1>8 DEF Faithful, InTouch, Running, Idle
<1>10. SameDir' /\ Ported'
  BY <1>2, <1>3, <1>4, <1>5, <1>6, <1>7 DEF Faithful, SameDir, Ported
<1> QED
  BY <1>9, <1>10 DEF Faithful

\* While a handler is busy the client waits for it.
LEMMA BusyFaithful ==
    ASSUME FtpTypeOK, Faithful, NEW h \in Transfers, ses.chan[h].st # "none",
           UNCHANGED <<inbuf, client>>, ses.life # "none", NEW t, t = ses', Rest(t, ses),
           ~t.chan["LIST"].file,
           Answers(t, client.cmd.op, client.cmd.n),
           t.proc = ses.proc \/ ses.life # "up",
           NEW q, q = past', q.early = past.early, q.hasty = past.hasty, q.mixed = past.mixed,
           q.cut = past.cut, q.misfiled = past.misfiled, q.lost = past.lost,
           q.blank = past.blank
    PROVE  Faithful'
<1>1. ~Quiet(ses)
  BY DEF Quiet
<1>2. client.waits /\ inbuf = <<>>
  BY <1>1 DEF Faithful, InTouch, Idle
<1>3. ses.life = "up" \/ past.hasty
  <2>1. ses.life \in {"none", "up", "deleted"}
    BY DEF FtpTypeOK, SessionOK, Sessions
  <2> QED
    BY <1>2, <2>1 DEF Faithful, InTouch
<1>4. t.life = ses.life /\ t.dir = ses.dir /\ t.port = ses.port
  BY DEF Rest
<1>5. InTouch'
  BY <1>2, <1>3, <1>4 DEF Faithful, InTouch, Running
<1>6. SameDir'
  <2>1. Where(client.cmd)' = Where(client.cmd) /\ BareAfter' = BareAfter
    BY DEF Where, BareAfter
  <2> QED
    BY <1>2, <1>4, <2>1 DEF Faithful, SameDir
<1>7. Ported'
  BY <1>2, <1>4 DEF Faithful, Ported
<1> QED
  BY <1>5, <1>6, <1>7 DEF Faithful

LEMMA ConnectedFaithful ==
    ASSUME FtpTypeOK, ses.life # "none" => Session \in inited, Faithful,
           NEW h \in Transfers, Connected(h)
    PROVE  Faithful'
<1>1. SessionOK(ses) /\ ses.chan[h] \in Conns /\ ses.chan[h].st # "none" /\ ses.life # "none"
  BY ConnOK DEF FtpTypeOK, Connected, InLoop
<1>2. PICK t : t = ses'
  OBVIOUS
<1>3. Others(t, ses, h) /\ Rest(t, ses) /\ Quotes(t, ses)
      /\ Handler(t, h, "open", ses.chan[h].file, ses.chan[h].n)
  <2>1. 0 \in 0..MaxChunks /\ 0 \in 0..MaxCmds /\ 0 \in 0..1 /\ FALSE \in BOOLEAN
    BY Bounds
  <2>2. t = [ses EXCEPT !.chan[h].st = "open"]
    BY <1>2 DEF Connected
  <2> QED
    BY <1>1, <2>1, <2>2, FieldsAre
<1>4. Answers(t, client.cmd.op, client.cmd.n)
  <2>1. Answers(ses, client.cmd.op, client.cmd.n)
    BY DEF Faithful, InTouch
  <2>2. ~Quiet(ses)
    BY <1>1 DEF Quiet
  <2> QED
    BY <1>1, <1>3, <2>1, <2>2 DEF Answers, Others, Handler, Quotes
<1>5. ~t.chan["LIST"].file
  <2>1. PICK l \in Transfers : l = "LIST"
    BY DEF Transfers
  <2>2. ~ses.chan[l].file
    BY <2>1 DEF Faithful, InTouch
  <2> QED
    BY <1>3, <2>1, <2>2 DEF Others, Handler
<1>6. PICK q : q = past'
  OBVIOUS
<1>7. q = past /\ UNCHANGED <<inbuf, client>>
  BY <1>6 DEF Connected
<1>8. t.proc = ses.proc
  BY <1>3 DEF Quotes
<1> QED
  BY <1>1, <1>2, <1>3, <1>4, <1>5, <1>6, <1>7, <1>8, BusyFaithful

\* the handlers' write and event callbacks
LEMMA HandlerFaithful ==
    ASSUME FtpTypeOK, Faithful, NEW h \in Transfers, Drained(h) \/ DataEvent(h)
    PROVE  Faithful'
<1>1. SessionOK(ses) /\ ses.chan[h] \in Conns /\ ses.chan[h].st # "none" /\ ses.life # "none"
  BY ConnOK DEF FtpTypeOK, Drained, DataEvent, InLoop
<1>2. PICK t : t = ses'
  OBVIOUS
<1>a. Answers(ses, client.cmd.op, client.cmd.n)
  BY DEF Faithful, InTouch
<1>l. PICK l \in Transfers : l = "LIST"
  BY DEF Transfers
<1>f. ~ses.chan[l].file
  BY <1>l DEF Faithful, InTouch
<1>q. PICK q : q = past'
  OBVIOUS
<1>3. /\ UNCHANGED <<inbuf, client>>
      /\ q.early = past.early /\ q.hasty = past.hasty /\ q.mixed = past.mixed
      /\ q.cut = past.cut /\ q.misfiled = past.misfiled /\ q.lost = past.lost
      /\ q.blank = past.blank
  <2>1. CASE Drained(h)
    BY <1>q, <2>1 DEF Drained
  <2>2. CASE DataEvent(h)
    <3>1. PICK b : b = (past.broken \/ h # "STOR")
      OBVIOUS
    <3>2. q = [past EXCEPT !.broken = b] /\ UNCHANGED <<inbuf, client>>
      BY <1>q, <2>2, <3>1 DEF DataEvent
    <3>3. past \in Pasts
      BY DEF FtpTypeOK, Pasts
    <3> QED
      BY <3>2, <3>3 DEF Pasts
  <2> QED
    BY <2>1, <2>2
<1>4. /\ Rest(t, ses) /\ ~t.chan[l].file
      /\ Answers(t, client.cmd.op, client.cmd.n)
      /\ t.proc = ses.proc \/ ses.life # "up"
  <2>1. CASE Drained(h)
    <3>1. PICK u : u = [ses EXCEPT !.chan[h].out = 0]
      OBVIOUS
    <3>2. t = Write(u, h)
      BY <1>2, <2>1, <3>1 DEF Drained
    <3>3. /\ Others(u, ses, h) /\ Rest(u, ses) /\ Quotes(u, ses)
          /\ Handler(u, h, ses.chan[h].st, ses.chan[h].file, ses.chan[h].n)
      <4>1. 0 \in 0..MaxChunks /\ 0 \in 0..MaxCmds /\ 0 \in 0..1 /\ FALSE \in BOOLEAN
        BY Bounds
      <4> QED
        BY <1>1, <3>1, <4>1, FieldsAre
    <3>4. Same(u, ses)
      BY <3>3, StillSame
    <3>5. SessionOK(u)
      <4>1. [ses.chan[h] EXCEPT !.out = 0] \in Conns /\ [ses.chan[h] EXCEPT !.out = 0].out = 0
        BY <1>1 DEF Conns
      <4> QED
        BY <1>1, <3>1, <4>1, ChanOK
    <3>6. Answers(u, client.cmd.op, client.cmd.n)
      BY <1>a, <3>4, SameAnswers
    <3>7. u.chan[h].st # "none" /\ ~u.chan[l].file
      BY <1>1, <1>f, <3>4 DEF Same, Handler
    <3>8. CASE Same(t, u)
      <4>1. Answers(t, client.cmd.op, client.cmd.n)
        BY <3>6, <3>8, SameAnswers
      <4> QED
        BY <3>4, <3>7, <3>8, <4>1 DEF Same, Handler, Rest, Quotes
    <3>9. CASE Ends(t, u, h)
      <4>1. Answers(t, client.cmd.op, client.cmd.n)
        BY <3>5, <3>6, <3>7, <3>9, EndsAnswers
      <4>2. ~t.chan[l].file
        BY <3>7, <3>9 DEF Ends, Others, Handler
      <4> QED
        BY <3>4, <3>9, <4>1, <4>2 DEF Same, Ends, Rest, Says, Quotes
    <3>10. h = "LIST" => ~u.chan[h].file
      BY <1>l, <3>7
    <3> QED
      BY <3>2, <3>5, <3>8, <3>9, <3>10, WriteIs DEF Finishes
  <2>2. CASE DataEvent(h)
    <3>1. t = EventData(ses, h)
      BY <1>2, <2>2 DEF DataEvent
    <3>2. CASE Breaks(t, ses, h)
      <4>1. Answers(t, client.cmd.op, client.cmd.n)
        BY <1>a, <3>2, BreaksAnswers
      <4> QED
        BY <1>f, <3>2, <4>1 DEF Breaks, Others, Handler, Quotes
    <3>3. CASE Ends(t, ses, h)
      <4>1. Answers(t, client.cmd.op, client.cmd.n)
        BY <1>1, <1>a, <3>3, EndsAnswers
      <4> QED
        BY <1>f, <3>3, <4>1 DEF Ends, Others, Handler, Says
    <3> QED
      BY <1>1, <3>1, <3>2, <3>3, EventDataIs
  <2> QED
    BY <2>1, <2>2
<1>5. ~t.chan["LIST"].file
  BY <1>4, <1>l
<1> QED
  BY <1>1, <1>2, <1>q, <1>3, <1>4, <1>5, BusyFaithful

LEMMA SendCmdFaithful ==
    ASSUME FtpTypeOK, Faithful, NEW op \in Commands, NEW name \in Names, SendCmd(op, name)
    PROVE  Faithful'
<1>1. PICK c : c = [op |-> op, name |-> name, n |-> client.cmd.n + 1]
  OBVIOUS
<1>2. ses.life = "up" /\ ~client.waits /\ Idle(ses) /\ inbuf = <<>> /\ UNCHANGED ses
  BY DEF SendCmd, Faithful, InTouch
<1>3. client' = [client EXCEPT !.cmd = c, !.waits = TRUE] /\ inbuf' = <<c>>
  <2>1. inbuf' = Append(<<>>, c)
    BY <1>1, <1>2 DEF SendCmd
  <2>2. Append(<<>>, c) = <<c>>
    OBVIOUS
  <2>3. client' = [client EXCEPT !.cmd = c, !.waits = TRUE]
    BY <1>1 DEF SendCmd
  <2> QED
    BY <2>1, <2>2, <2>3
<1>4. PICK d : d = client'
  OBVIOUS
<1>5. d.cmd = c /\ d.waits /\ d.where = client.where /\ d.ported = client.ported
      /\ d.bare = client.bare
  BY <1>3, <1>4 DEF FtpTypeOK
<1>6. PICK q : q = past'
  OBVIOUS
<1>7. /\ op \in Transfers /\ ~client.ported => q.early
      /\ past.early => q.early
      /\ q.hasty = past.hasty /\ q.mixed = past.mixed
      /\ q.cut = past.cut /\ q.misfiled = past.misfiled /\ q.lost = past.lost
      /\ q.blank = past.blank
  <2>1. PICK e : e = (past.early \/ (op \in Transfers /\ ~client.ported))
    OBVIOUS
  <2>2. q = [past EXCEPT !.early = e]
    BY <1>6, <2>1 DEF SendCmd
  <2>3. past \in Pasts
    BY DEF FtpTypeOK, Pasts
  <2>4. /\ q.early = e
        /\ q.hasty = past.hasty /\ q.mixed = past.mixed
        /\ q.cut = past.cut /\ q.misfiled = past.misfiled /\ q.lost = past.lost
        /\ q.blank = past.blank
    BY <2>2, <2>3 DEF Pasts
  <2> QED
    BY <2>1, <2>4
<1>8. c.op = op /\ c.name = name
  BY <1>1
<1>9. InTouch'
  <2>1. Answers(ses, c.op, c.n)
    BY <1>2 DEF Idle, Quiet, Answers
  <2> QED
    BY <1>2, <1>3, <1>4, <1>5, <1>6, <1>7, <2>1 DEF Faithful, InTouch, Running
<1>10. SameDir'
  BY <1>2, <1>3, <1>4, <1>5, <1>6, <1>7 DEF Faithful, SameDir
<1>11. Ported'
  <2>1. name # Garbled /\ name # ""
    BY ProperNames
  <2>2. inbuf' # <<>>
    BY <1>3
  <2> QED
    BY <1>2, <1>4, <1>5, <1>6, <1>7, <1>8, <2>1, <2>2 DEF Faithful, Ported
<1> QED
  BY <1>9, <1>10, <1>11 DEF Faithful

LEMMA TakeReplyFaithful ==
    ASSUME FtpTypeOK, Faithful, TakeReply
    PROVE  Faithful'
<1>1. ses \in Sessions /\ past \in Pasts
  BY DEF FtpTypeOK, SessionOK, Pasts
<1>2. PICK rs \in Seq([n : 0..MaxCmds, final : BOOLEAN]) : rs = ses.replies
  BY <1>1 DEF Sessions
<1>3. rs # <<>> /\ client.waits /\ inbuf = <<>> /\ inbuf' = <<>> /\ ses.life # "none"
  BY <1>2 DEF TakeReply, Faithful, InTouch, Idle
<1>4. PICK r : r = Head(rs)
  OBVIOUS
<1>5. Len(rs) \in Nat /\ Len(rs) >= 1 /\ r = rs[1]
  BY <1>2, <1>3, <1>4
<1>6. Answers(ses, client.cmd.op, client.cmd.n)
  BY DEF Faithful, InTouch
<1>7. r.n = client.cmd.n /\ (r.final => Len(rs) = 1 /\ Quiet(ses))
  <2>1. 1 \in 1..Len(rs)
    BY <1>5
  <2>2. /\ rs[1].n = client.cmd.n
        /\ rs[1].final => 1 = Len(rs) /\ Quiet(ses)
    BY <1>2, <1>6, <2>1 DEF Answers
  <2> QED
    BY <1>5, <2>2
<1>8. PICK t : t = ses'
  OBVIOUS
<1>9. /\ t.life = ses.life /\ t.chan = ses.chan /\ t.replies = Tail(rs)
      /\ t.proc = ses.proc /\ t.dir = ses.dir /\ t.port = ses.port
  <2>1. t = [ses EXCEPT !.replies = Tail(rs)]
    BY <1>2, <1>8 DEF TakeReply
  <2> QED
    BY <1>1, <2>1 DEF Sessions
<1>10. PICK q : q = past'
  OBVIOUS
<1>11. /\ ~q.mixed
       /\ q.hasty = past.hasty /\ q.early = past.early
       /\ q.cut = past.cut /\ q.misfiled = past.misfiled /\ q.lost = past.lost
       /\ q.blank = past.blank
  <2>1. PICK m : m = (past.mixed \/ r.n # client.cmd.n)
    OBVIOUS
  <2>2. q = [past EXCEPT !.mixed = m]
    BY <1>2, <1>4, <1>10, <2>1 DEF TakeReply
  <2>3. ~m
    BY <1>7, <2>1 DEF Faithful, InTouch
  <2>4. /\ q.mixed = m
        /\ q.hasty = past.hasty /\ q.early = past.early
        /\ q.cut = past.cut /\ q.misfiled = past.misfiled /\ q.lost = past.lost
        /\ q.blank = past.blank
    BY <1>1, <2>2 DEF Pasts
  <2> QED
    BY <2>3, <2>4
<1>12. Quiet(ses) <=> Quiet(t)
  BY <1>9 DEF Quiet
<1>13. Answers(t, client.cmd.op, client.cmd.n)
  <2>1. Len(Tail(rs)) = Len(rs) - 1 /\ \A i \in 1..Len(Tail(rs)) : Tail(rs)[i] = rs[i + 1]
    BY <1>3
  <2>2. \A i \in 1..Len(Tail(rs)) : i + 1 \in 1..Len(rs) /\ (i + 1 = Len(rs) => i = Len(Tail(rs)))
    BY <1>5, <2>1
  <2>3. \A i \in 1..Len(Tail(rs)) :
           /\ Tail(rs)[i].n = client.cmd.n
           /\ Tail(rs)[i].final => i = Len(Tail(rs)) /\ Quiet(ses)
    BY <1>2, <1>6, <2>1, <2>2 DEF Answers
  <2> QED
    BY <1>6, <1>9, <1>12, <2>3 DEF Answers
<1>14. CASE ~r.final
  <2>1. UNCHANGED client
    BY <1>2, <1>4, <1>14 DEF TakeReply
  <2>2. InTouch'
    BY <1>3, <1>8, <1>9, <1>10, <1>11, <1>13, <2>1 DEF Faithful, InTouch, Running
  <2>3. SameDir'
    <3>1. Where(client.cmd)' = Where(client.cmd) /\ BareAfter' = BareAfter
      BY <2>1 DEF Where, BareAfter
    <3> QED
      BY <1>3, <1>8, <1>9, <1>10, <1>11, <2>1, <3>1 DEF Faithful, SameDir
  <2>4. Ported'
    BY <1>3, <1>8, <1>9, <1>10, <1>11, <2>1 DEF Faithful, Ported
  <2> QED
    BY <2>2, <2>3, <2>4 DEF Faithful
<1>15. CASE r.final
  <2>1. PICK w : w = Where(client.cmd)
    OBVIOUS
  <2>2. PICK b : b = BareAfter
    OBVIOUS
  <2>3. PICK p : p = (client.ported \/ client.cmd.op = "PORT")
    OBVIOUS
  <2>4. client' = [client EXCEPT !.waits = FALSE, !.where = w, !.ported = p, !.bare = b]
    BY <1>2, <1>4, <1>15, <2>1, <2>2, <2>3 DEF TakeReply, BareAfter
  <2>5. PICK d : d = client'
    OBVIOUS
  <2>6. ~d.waits /\ d.where = w /\ d.ported = p /\ d.bare = b /\ d.cmd = client.cmd
    BY <2>4, <2>5 DEF FtpTypeOK
  <2>7. Quiet(t) /\ t.replies = <<>>
    BY <1>3, <1>5, <1>7, <1>9, <1>12, <1>15
  <2>8. InTouch'
    BY <1>3, <1>8, <1>9, <1>10, <1>11, <1>13, <2>5, <2>6, <2>7
       DEF Faithful, InTouch, Running, Idle
  <2>9. SameDir'
    <3>1. ses.life = "up" => /\ past.blank \/ ses.dir.parts = w
                             /\ ses.dir.slash \/ b
      BY <1>3, <2>1, <2>2 DEF Faithful, SameDir
    <3> QED
      BY <1>8, <1>9, <1>10, <1>11, <2>5, <2>6, <3>1 DEF SameDir
  <2>10. Ported'
    <3>1. ses.life = "up" /\ p => ses.port
      BY <1>3, <2>3 DEF Faithful, Ported
    <3> QED
      BY <1>8, <1>9, <2>5, <2>6, <3>1 DEF Faithful, Ported
  <2> QED
    BY <2>8, <2>9, <2>10 DEF Faithful
<1> QED
  BY <1>14, <1>15

LEMMA PastKept ==
    ASSUME FtpTypeOK, [FtpNext]_vars
    PROVE  /\ past.rootUp => past'.rootUp
           /\ past.splits > 0 => past'.splits > 0
<1>0. past \in Pasts
  BY DEF FtpTypeOK, Pasts
<1>1. CASE PoolStep \/ UNCHANGED vars
  BY <1>1 DEF PoolStep, vars, ftpVars
<1>2. ASSUME NEW t \in XThreads, Serve(t)
      PROVE  past' = past
  BY <1>2 DEF Serve
<1>3. CASE CmdRead
  <2>a. PICK k \in 0..Len(inbuf), cut \in BOOLEAN, opened \in BOOLEAN, chunks \in 0..MaxChunks :
          /\ cut => past.splits < MaxSplits
          /\ \E c \in TakenFor(inbuf[1], k, cut) : past' = Noted(c, k, cut, opened, chunks)
    BY <1>3 DEF CmdRead
  <2>1. PICK c \in TakenFor(inbuf[1], k, cut) :
          /\ cut => past.splits < MaxSplits
          /\ past' = Noted(c, k, cut, opened, chunks)
    BY <2>a
  <2>2. PICK q : q = past'
    OBVIOUS
  <2>3. NotedAs(q, c, k, cut, opened)
    <3>1. k \in Nat
      BY DEF FtpTypeOK
    <3>2. q = Noted(c, k, cut, opened, chunks)
      BY <2>1, <2>2
    <3>3. cut => past.splits < MaxSplits
      BY <2>1
    <3> QED
      BY <1>0, <3>1, <3>2, <3>3, NotedIs
  <2>4. past.splits \in Nat
    BY DEF FtpTypeOK
  <2>5. past.splits > 0 => q.splits > 0
    <3>1. q.splits = (IF cut THEN past.splits + 1 ELSE past.splits)
      BY <2>3 DEF NotedAs
    <3> QED
      BY <2>4, <3>1
  <2>6. past.rootUp => q.rootUp
    BY <2>3, Zenon DEF NotedAs
  <2> QED
    BY <2>2, <2>5, <2>6
<1>4. CASE CmdEvent
  BY <1>0, <1>4 DEF CmdEvent, Pasts
<1>5. ASSUME NEW h \in Transfers, Connected(h) \/ Drained(h) \/ DataEvent(h)
      PROVE  past'.rootUp = past.rootUp /\ past'.splits = past.splits
  BY <1>0, <1>5 DEF Connected, Drained, DataEvent, Pasts
<1>6. ASSUME NEW op \in Commands, NEW name \in Names, SendCmd(op, name)
      PROVE  past'.rootUp = past.rootUp /\ past'.splits = past.splits
  BY <1>0, <1>6 DEF SendCmd, Pasts
<1>7. CASE TakeReply
  BY <1>0, <1>7 DEF TakeReply, Pasts
<1> QED
  BY <1>1, <1>2, <1>3, <1>4, <1>5, <1>6, <1>7 DEF FtpNext

-----------------------------------------------------------------------------
(* How many answers there are or will be, of whatever reads: the final       *)
(* replies, and the handlers that owe one.                                   *)

Replies == [n : 0..MaxCmds, final : BOOLEAN]
LastOnes == [n : 0..MaxCmds, final : {TRUE}]
Finals(r) == Cardinality({i \in DOMAIN r : r[i].final})

\* RETR owes its final reply while its file is open, the others while connected
Busy(s, h) == IF h = "RETR" THEN s.chan[h].file ELSE s.chan[h].st # "none"
Owes(s, h) == IF Busy(s, h) THEN 1 ELSE 0
Owed(s) == Owes(s, "LIST") + Owes(s, "RETR") + Owes(s, "STOR")
Debts(s) == Finals(s.replies) + Owed(s)

Counted ==
    /\ ses.life = "none" => Idle(ses) /\ inbuf = <<>> /\ client.waits
    /\ ~ses.chan["LIST"].file
    /\ Debts(ses) + Len(inbuf) <= past.splits + (IF client.waits THEN 1 ELSE 0)

LEMMA FinalsPlaces ==
    ASSUME NEW r \in Seq(Replies)
    PROVE  Finals(r) = Cardinality(Places(r, LastOnes)) /\ Finals(r) \in Nat
<1>1. ASSUME NEW e \in Replies PROVE e.final <=> e \in LastOnes
  <2>1. CASE e.final
    BY <2>1 DEF Replies, LastOnes
  <2>2. CASE ~e.final
    BY <2>2 DEF Replies, LastOnes
  <2> QED
    BY <2>1, <2>2
<1>2. DOMAIN r = 1..Len(r) /\ \A i \in 1..Len(r) : r[i] \in Replies
  OBVIOUS
<1>3. {i \in DOMAIN r : r[i].final} = Places(r, LastOnes)
  BY <1>1, <1>2, Zenon DEF Places
<1> QED
  BY <1>3, PlacesFinite DEF Finals

LEMMA FinalsAppend ==
    ASSUME NEW r \in Seq(Replies), NEW n \in 0..MaxCmds, NEW final \in BOOLEAN
    PROVE  Finals(Append(r, [n |-> n, final |-> final])) = Finals(r) + (IF final THEN 1 ELSE 0)
<1>1. PICK e \in Replies : e = [n |-> n, final |-> final]
  BY DEF Replies
<1>2. Append(r, e) \in Seq(Replies)
  OBVIOUS
<1>3. e \in LastOnes <=> final
  <2>1. CASE final
    BY <1>1, <2>1 DEF LastOnes
  <2>2. CASE ~final
    BY <1>1, <2>2 DEF LastOnes
  <2> QED
    BY <2>1, <2>2
<1>4. Cardinality(Places(Append(r, e), LastOnes)) =
          Cardinality(Places(r, LastOnes)) + (IF e \in LastOnes THEN 1 ELSE 0)
  BY CountAppend
<1>5. /\ Finals(Append(r, e)) = Cardinality(Places(Append(r, e), LastOnes))
      /\ Finals(r) = Cardinality(Places(r, LastOnes))
  BY <1>2, FinalsPlaces
<1>6. (IF e \in LastOnes THEN 1 ELSE 0) = (IF final THEN 1 ELSE 0)
  BY <1>3, Zenon
<1> QED
  BY <1>1, <1>4, <1>5, <1>6, Zenon

LEMMA FinalsTail ==
    ASSUME NEW r \in Seq(Replies), r # <<>>
    PROVE  /\ Finals(Tail(r)) \in Nat /\ Finals(Tail(r)) <= Finals(r)
           /\ Head(r).final => Finals(Tail(r)) = Finals(r) - 1
<1>1. Tail(r) \in Seq(Replies) /\ Head(r) \in Replies
  OBVIOUS
<1>2. Head(r).final => Head(r) \in LastOnes
  BY <1>1 DEF Replies, LastOnes
<1>3. Cardinality(Places(r, LastOnes)) =
          Cardinality(Places(Tail(r), LastOnes)) + (IF Head(r) \in LastOnes THEN 1 ELSE 0)
  BY CountTail
<1>4. /\ Finals(r) = Cardinality(Places(r, LastOnes)) /\ Finals(r) \in Nat
      /\ Finals(Tail(r)) = Cardinality(Places(Tail(r), LastOnes)) /\ Finals(Tail(r)) \in Nat
  BY <1>1, FinalsPlaces
<1>5. PICK a \in Nat, b \in Nat : a = Finals(r) /\ b = Finals(Tail(r))
  BY <1>4
<1>6. a = b + (IF Head(r) \in LastOnes THEN 1 ELSE 0)
  BY <1>3, <1>4, <1>5
<1>7. b <= a /\ (Head(r) \in LastOnes => b = a - 1)
  BY <1>6
<1> QED
  BY <1>2, <1>5, <1>7

LEMMA DebtsOK ==
    ASSUME NEW s, SessionOK(s)
    PROVE  Debts(s) \in Nat /\ Owed(s) \in Nat /\ Finals(s.replies) \in Nat
           /\ s.replies \in Seq(Replies)
<1>1. s.replies \in Seq(Replies)
  BY DEF SessionOK, Sessions, Replies
<1>2. \A h \in Transfers : Owes(s, h) \in Nat
  BY DEF Owes
<1>3. Owed(s) \in Nat
  BY <1>2 DEF Owed, Transfers
<1>4. Finals(s.replies) \in Nat
  BY <1>1, FinalsPlaces
<1> QED
  BY <1>1, <1>3, <1>4 DEF Debts

\* one handler changes
LEMMA OwedChange ==
    ASSUME NEW s, NEW t, NEW h \in Transfers, Others(t, s, h)
    PROVE  /\ Owed(t) <= Owed(s) + 1
           /\ (Busy(t, h) => Busy(s, h)) => Owed(t) <= Owed(s)
           /\ Busy(s, h) /\ ~Busy(t, h) => Owed(t) = Owed(s) - 1
<1>1. \A g \in Transfers : g # h => Owes(t, g) = Owes(s, g)
  BY DEF Others, Owes, Busy
<1>2. \A g \in Transfers : Owes(t, g) \in 0..1 /\ Owes(s, g) \in 0..1
  BY DEF Owes
<1>3. /\ (Busy(t, h) => Busy(s, h)) => Owes(t, h) <= Owes(s, h)
      /\ Busy(s, h) /\ ~Busy(t, h) => Owes(t, h) = 0 /\ Owes(s, h) = 1
  BY DEF Owes
<1> HIDE DEF Busy, Owes
<1>4. CASE h = "LIST"
  BY <1>1, <1>2, <1>3, <1>4 DEF Owed, Transfers
<1>5. CASE h = "RETR"
  BY <1>1, <1>2, <1>3, <1>5 DEF Owed, Transfers
<1>6. CASE h = "STOR"
  BY <1>1, <1>2, <1>3, <1>6 DEF Owed, Transfers
<1> QED
  BY <1>4, <1>5, <1>6 DEF Transfers

LEMMA DebtsChange ==
    ASSUME NEW s, SessionOK(s), NEW t, SessionOK(t), NEW h \in Transfers,
           Others(t, s, h), t.replies = s.replies
    PROVE  /\ Debts(t) <= Debts(s) + 1
           /\ (Busy(t, h) => Busy(s, h)) => Debts(t) <= Debts(s)
<1>1. /\ Owed(t) <= Owed(s) + 1
      /\ (Busy(t, h) => Busy(s, h)) => Owed(t) <= Owed(s)
  BY OwedChange
<1>2. Owed(t) \in Nat /\ Owed(s) \in Nat /\ Finals(s.replies) \in Nat
  BY DebtsOK
<1> QED
  BY <1>1, <1>2 DEF Debts

LEMMA DebtsSame ==
    ASSUME NEW s, NEW t, t.chan = s.chan, t.replies = s.replies
    PROVE  Debts(t) = Debts(s)
BY DEF Debts, Owed, Owes, Busy

LEMMA DebtsStill ==
    ASSUME NEW s, NEW t, Same(t, s)
    PROVE  Debts(t) = Debts(s)
<1>1. \A g \in Transfers : Owes(t, g) = Owes(s, g)
  BY DEF Same, Handler, Owes, Busy
<1>2. Owed(t) = Owed(s)
  BY <1>1 DEF Owed, Transfers
<1>3. t.replies = s.replies
  BY DEF Same, Quotes
<1> QED
  BY <1>2, <1>3 DEF Debts

\* a reply: one debt more if it is a final one
LEMMA SaysDebts ==
    ASSUME NEW s, SessionOK(s), NEW t, NEW n \in 0..MaxCmds, NEW final \in BOOLEAN,
           Says(t, s, n, final)
    PROVE  /\ Finals(t.replies) \in Nat
           /\ Finals(t.replies) <= Finals(s.replies) + (IF final THEN 1 ELSE 0)
           /\ t.chan = s.chan => Debts(t) <= Debts(s) + (IF final THEN 1 ELSE 0)
<1>1. Owed(s) \in Nat /\ Finals(s.replies) \in Nat /\ s.replies \in Seq(Replies)
  BY DebtsOK
<1>2. PICK d \in 0..1 : d = (IF final THEN 1 ELSE 0)
  OBVIOUS
<1>3. Finals(t.replies) \in Nat /\ Finals(t.replies) <= Finals(s.replies) + d
  <2>1. CASE s.life = "up"
    <3>1. t.replies = Append(s.replies, [n |-> n, final |-> final])
      BY <2>1 DEF Says
    <3>2. Finals(t.replies) = Finals(s.replies) + d
      BY <1>1, <1>2, <3>1, FinalsAppend
    <3> QED
      BY <1>1, <3>2
  <2>2. CASE s.life # "up"
    <3>1. t.replies = s.replies
      BY <2>2 DEF Says
    <3> QED
      BY <1>1, <3>1
  <2> QED
    BY <2>1, <2>2
<1>4. t.chan = s.chan => Owed(t) = Owed(s)
  BY DEF Owed, Owes, Busy
<1> QED
  BY <1>1, <1>2, <1>3, <1>4 DEF Debts

\* a handler that says its final reply owes it no more
LEMMA EndsDebts ==
    ASSUME NEW s, SessionOK(s), NEW t, SessionOK(t), NEW h \in Transfers,
           Ends(t, s, h), Busy(s, h)
    PROVE  Debts(t) <= Debts(s)
<1>1. Others(t, s, h) /\ ~Busy(t, h)
  BY DEF Ends, Handler, Busy
<1>2. Owed(t) = Owed(s) - 1
  BY <1>1, OwedChange
<1>3. PICK n \in 0..MaxCmds, f \in BOOLEAN : n = s.chan[h].n /\ f = TRUE
  BY ConnOK DEF Conns
<1>4. Says(t, s, n, f)
  BY <1>3 DEF Ends
<1>5. Finals(t.replies) <= Finals(s.replies) + (IF f THEN 1 ELSE 0)
  BY <1>4, SaysDebts
<1>6. Owed(s) \in Nat /\ Finals(s.replies) \in Nat /\ Finals(t.replies) \in Nat
  BY DebtsOK
<1> QED
  BY <1>2, <1>3, <1>5, <1>6 DEF Debts

LEMMA ParseLISTDebts ==
    ASSUME NEW s, SessionOK(s), ~s.chan["LIST"].file, NEW n \in 0..MaxCmds, NEW chunks,
           NEW t, t = ParseLIST(s, n, chunks), SessionOK(t)
    PROVE  t.life = s.life /\ ~t.chan["LIST"].file /\ Debts(t) <= Debts(s) + 1
<1>0. PICK h \in Transfers : h = "LIST"
  BY DEF Transfers
<1>1. PICK u : u = [s EXCEPT !.chan[h].n = n]
  OBVIOUS
<1>2. PICK v : v = ConnectPORT(u, h)
  OBVIOUS
<1>3. PICK f \in BOOLEAN : f = FALSE
  OBVIOUS
<1>4. PICK w : w = ResCMD(v, n, f)
  OBVIOUS
<1>5. t = w \/ t = Send(w, h)
  BY <1>0, <1>1, <1>2, <1>3, <1>4 DEF ParseLIST
<1>6. SessionOK(u) /\ SessionOK(v) /\ SessionOK(w)
  <2>1. SessionOK(u)
    BY <1>1, NumberOK
  <2>2. SessionOK(v)
    BY <2>1, <1>2, ConnectOK
  <2> QED
    BY <2>1, <2>2, <1>4, ResCMDOK
<1>7. /\ Others(u, s, h) /\ Rest(u, s) /\ Quotes(u, s)
      /\ Handler(u, h, s.chan[h].st, s.chan[h].file, n)
  <2>1. 0 \in 0..MaxChunks /\ 0 \in 0..1 /\ FALSE \in BOOLEAN
    BY Bounds
  <2> QED
    BY <1>1, <2>1, FieldsAre
<1>8. /\ Others(v, u, h) /\ Rest(v, u) /\ Quotes(v, u)
      /\ v.chan[h].file = u.chan[h].file
  BY <1>2, <1>6, ConnectIs DEF Others, Handler, Rest, Quotes
<1>9. w.chan = v.chan /\ Rest(w, v) /\ Says(w, v, n, f)
  BY <1>4, <1>6, ResCMDIs
<1>10. Debts(v) <= Debts(s) + 1
  <2>1. Others(v, s, h) /\ v.replies = s.replies
    BY <1>7, <1>8 DEF Others, Quotes
  <2> QED
    BY <1>6, <2>1, DebtsChange
<1>11. Debts(w) <= Debts(v)
  <2>1. Debts(w) <= Debts(v) + (IF f THEN 1 ELSE 0)
    BY <1>6, <1>9, SaysDebts
  <2>2. Debts(v) \in Nat /\ Debts(w) \in Nat
    BY <1>6, DebtsOK
  <2> QED
    BY <1>3, <2>1, <2>2
<1>12. w.life = s.life /\ ~w.chan[h].file
  BY <1>0, <1>7, <1>8, <1>9 DEF Rest, Handler
<1>13. t.life = w.life /\ t.chan[h].file = w.chan[h].file /\ Debts(t) <= Debts(w)
  <2>0. Debts(w) \in Nat
    BY <1>6, DebtsOK
  <2>1. CASE t = w
    BY <2>0, <2>1
  <2>2. CASE t = Send(w, h)
    <3>1. /\ Others(t, w, h) /\ Handler(t, h, w.chan[h].st, w.chan[h].file, w.chan[h].n)
          /\ Rest(t, w) /\ Quotes(t, w)
      BY <1>6, <2>2, SendIs
    <3>2. Debts(t) = Debts(w)
      BY <3>1, StillSame, DebtsStill
    <3> QED
      BY <2>0, <3>1, <3>2 DEF Rest, Handler
  <2> QED
    BY <1>5, <2>1, <2>2
<1>14. Debts(s) \in Nat /\ Debts(v) \in Nat /\ Debts(w) \in Nat /\ Debts(t) \in Nat
  BY <1>6, DebtsOK
<1> QED
  BY <1>0, <1>10, <1>11, <1>12, <1>13, <1>14

LEMMA BeginDebts ==
    ASSUME NEW s, SessionOK(s), NEW h \in Transfers, h # "LIST", h = "RETR" => s.chan[h].file,
           ~s.chan["LIST"].file, NEW t, t = Begin(s, h), SessionOK(t)
    PROVE  t.life = s.life /\ ~t.chan["LIST"].file /\ Debts(t) <= Debts(s)
<1>0. PICK l \in Transfers : l = "LIST" /\ l # h
  BY DEF Transfers
<1>d. Debts(s) \in Nat
  BY DebtsOK
<1>1. CASE s.chan[h].st = "none"
  <2>1. t = [s EXCEPT !.proc = "crashed"]
    BY <1>1 DEF Begin
  <2>2. t.chan = s.chan /\ t.life = s.life /\ t.replies = s.replies
    BY <2>1 DEF SessionOK, Sessions
  <2>3. Debts(t) = Debts(s)
    BY <2>2, DebtsSame
  <2> QED
    BY <1>d, <2>2, <2>3
<1>2. CASE s.chan[h].st # "none"
  <2>1. t = Write(s, h)
    BY <1>2 DEF Begin
  <2>2. CASE Same(t, s)
    <3>1. Debts(t) = Debts(s)
      BY <2>2, DebtsStill
    <3> QED
      BY <1>0, <1>d, <2>2, <3>1 DEF Same, Handler, Rest
  <2>3. CASE Finishes(t, s, h)
    <3>1. Ends(t, s, h) /\ Busy(s, h)
      BY <1>2, <2>3 DEF Finishes, Busy
    <3>2. Debts(t) <= Debts(s)
      BY <3>1, EndsDebts
    <3> QED
      BY <1>0, <3>1, <3>2 DEF Ends, Others, Rest
  <2> QED
    BY <2>1, <2>2, <2>3, WriteIs
<1> QED
  BY <1>1, <1>2

LEMMA ParseFileDebts ==
    ASSUME NEW s, SessionOK(s), ~s.chan["LIST"].file, NEW h \in Transfers, h # "LIST",
           NEW n \in 0..MaxCmds, NEW opened \in BOOLEAN, NEW chunks \in 0..MaxChunks,
           NEW t, t = ParseFile(s, h, n, opened, chunks), SessionOK(t)
    PROVE  t.life = s.life /\ ~t.chan["LIST"].file /\ Debts(t) <= Debts(s) + 1
<1>0. PICK l \in Transfers : l = "LIST" /\ l # h
  BY DEF Transfers
<1>1. CASE opened
  <2>1. PICK u : u = [s EXCEPT !.chan[h].file = TRUE, !.chan[h].left = chunks, !.chan[h].n = n]
    OBVIOUS
  <2>2. PICK v : v = ConnectPORT(u, h)
    OBVIOUS
  <2>3. PICK f \in BOOLEAN : f = FALSE
    OBVIOUS
  <2>4. PICK w : w = ResCMD(v, n, f)
    OBVIOUS
  <2>5. t = Begin(w, h)
    BY <1>1, <2>1, <2>2, <2>3, <2>4 DEF ParseFile
  <2>6. SessionOK(u) /\ SessionOK(v) /\ SessionOK(w)
    <3>1. SessionOK(u)
      BY <2>1, OpenedOK
    <3>2. SessionOK(v)
      BY <3>1, <2>2, ConnectOK
    <3> QED
      BY <3>1, <3>2, <2>4, ResCMDOK
  <2>7. Others(u, s, h) /\ Rest(u, s) /\ Quotes(u, s) /\ Handler(u, h, s.chan[h].st, TRUE, n)
    BY <2>1, OpenedIs
  <2>8. /\ Others(v, u, h) /\ Rest(v, u) /\ Quotes(v, u)
        /\ v.chan[h].file = u.chan[h].file
    BY <2>2, <2>6, ConnectIs DEF Others, Handler, Rest, Quotes
  <2>9. w.chan = v.chan /\ Rest(w, v) /\ Says(w, v, n, f)
    BY <2>4, <2>6, ResCMDIs
  <2>10. Debts(v) <= Debts(s) + 1
    <3>1. Others(v, s, h) /\ v.replies = s.replies
      BY <2>7, <2>8 DEF Others, Quotes
    <3> QED
      BY <2>6, <3>1, DebtsChange
  <2>11. Debts(w) <= Debts(v)
    <3>1. Debts(w) <= Debts(v) + (IF f THEN 1 ELSE 0)
      BY <2>6, <2>9, SaysDebts
    <3>2. Debts(v) \in Nat /\ Debts(w) \in Nat
      BY <2>6, DebtsOK
    <3> QED
      BY <2>3, <3>1, <3>2
  <2>12. w.life = s.life /\ ~w.chan[l].file /\ w.chan[h].file
    BY <1>0, <2>7, <2>8, <2>9 DEF Rest, Handler, Others
  <2>13. t.life = w.life /\ ~t.chan["LIST"].file /\ Debts(t) <= Debts(w)
    BY <1>0, <2>5, <2>6, <2>12, BeginDebts
  <2>14. Debts(s) \in Nat /\ Debts(v) \in Nat /\ Debts(w) \in Nat /\ Debts(t) \in Nat
    BY <2>6, DebtsOK
  <2> QED
    BY <2>10, <2>11, <2>12, <2>13, <2>14
<1>2. CASE ~opened
  <2>1. PICK u : u = [s EXCEPT !.chan[h].file = FALSE]
    OBVIOUS
  <2>2. PICK f \in BOOLEAN : f = TRUE
    OBVIOUS
  <2>3. t = ResCMD(u, n, f)
    BY <1>2, <2>1, <2>2 DEF ParseFile
  <2>4. SessionOK(u)
    <3>1. FALSE \in BOOLEAN
      OBVIOUS
    <3> QED
      BY <2>1, <3>1, FileOK
  <2>5. Others(u, s, h) /\ Rest(u, s) /\ Quotes(u, s)
        /\ Handler(u, h, s.chan[h].st, FALSE, s.chan[h].n)
    <3>1. 0 \in 0..MaxChunks /\ 0 \in 0..MaxCmds /\ 0 \in 0..1 /\ FALSE \in BOOLEAN
      BY Bounds
    <3> QED
      BY <2>1, <3>1, FieldsAre
  <2>6. t.chan = u.chan /\ Rest(t, u) /\ Says(t, u, n, f)
    BY <2>3, <2>4, ResCMDIs
  <2>7. Debts(u) <= Debts(s)
    <3>1. Busy(u, h) => Busy(s, h)
      BY <2>5 DEF Handler, Busy
    <3>2. u.replies = s.replies
      BY <2>5 DEF Quotes
    <3> QED
      BY <2>4, <2>5, <3>1, <3>2, DebtsChange
  <2>8. Debts(t) <= Debts(u) + (IF f THEN 1 ELSE 0)
    BY <2>4, <2>6, SaysDebts
  <2>9. Debts(s) \in Nat /\ Debts(u) \in Nat /\ Debts(t) \in Nat
    BY <2>4, DebtsOK
  <2>10. t.life = s.life /\ ~t.chan[l].file
    BY <1>0, <2>5, <2>6 DEF Rest, Others
  <2> QED
    BY <1>0, <2>2, <2>7, <2>8, <2>9, <2>10
<1> QED
  BY <1>1, <1>2

\* A read is answered once, but for CDUP at the root.
LEMMA ParseDebts ==
    ASSUME NEW s, SessionOK(s), ~s.chan["LIST"].file, NEW c \in Cmds,
           ~(c.op = "CDUP" /\ s.dir = Root), NEW opened \in BOOLEAN,
           NEW chunks \in 0..MaxChunks, NEW t, t = Parse(s, c, opened, chunks)
    PROVE  t.life = s.life /\ ~t.chan["LIST"].file /\ Debts(t) <= Debts(s) + 1
<1>0. PICK n \in 0..MaxCmds : n = c.n
  BY DEF Cmds
<1>f. PICK f \in BOOLEAN : f = TRUE
  OBVIOUS
<1>t. SessionOK(t)
  BY ParseOK
<1>a. ASSUME NEW u, u.chan = s.chan, u.life = s.life, u.replies = s.replies,
             SessionOK(u), t = ResCMD(u, n, f)
      PROVE  t.life = s.life /\ ~t.chan["LIST"].file /\ Debts(t) <= Debts(s) + 1
  <2>1. t.chan = u.chan /\ Rest(t, u) /\ Says(t, u, n, f)
    BY <1>a, ResCMDIs
  <2>2. Debts(t) <= Debts(u) + (IF f THEN 1 ELSE 0)
    BY <1>a, <2>1, SaysDebts
  <2>3. Debts(u) = Debts(s)
    BY <1>a, DebtsSame
  <2>4. Debts(s) \in Nat /\ Debts(t) \in Nat
    BY <1>t, DebtsOK
  <2> QED
    BY <1>a, <1>f, <2>1, <2>2, <2>3, <2>4 DEF Rest
<1>1. CASE c.op = "USER"
  <2>1. t = ResCMD(s, n, f)
    BY <1>0, <1>f, <1>1 DEF Parse, Moves
  <2> QED
    BY <1>a, <2>1
<1>2. CASE c.op = "PORT"
  <2>1. PICK p \in BOOLEAN : p = (s.port \/ c.name # Garbled)
    OBVIOUS
  <2>3. PICK u : u = [s EXCEPT !.port = p]
    OBVIOUS
  <2>4. t = ResCMD(u, n, f)
    BY <1>0, <1>f, <1>2, <2>1, <2>3 DEF Parse, Moves
  <2>5. u \in Sessions /\ u.chan = s.chan /\ u.life = s.life /\ u.replies = s.replies
    BY <2>3 DEF SessionOK, Sessions
  <2>6. SessionOK(u)
    BY <2>5 DEF SessionOK
  <2> QED
    BY <1>a, <2>4, <2>5, <2>6
<1>3. CASE c.op = "LIST"
  <2>1. t = ParseLIST(s, n, chunks)
    BY <1>0, <1>3 DEF Parse, Moves
  <2> QED
    BY <1>t, <2>1, ParseLISTDebts
<1>4. CASE c.op \in {"RETR", "STOR"}
  <2>1. PICK h \in Transfers : h = c.op /\ h # "LIST"
    BY <1>4 DEF Transfers
  <2>2. t = ParseFile(s, h, n, opened, chunks)
    BY <1>0, <1>4, <2>1 DEF Parse, Moves
  <2> QED
    BY <1>t, <2>1, <2>2, ParseFileDebts
<1>5. CASE c.op \in Moves
  <2>1. PICK d \in Dirs : d = Chdir(s, c)
    BY <1>5, ChdirOK
  <2>2. PICK u : u = [s EXCEPT !.dir = d]
    OBVIOUS
  <2>3. t = ResCMD(u, n, f)
    <3>1. t = ParseMove(s, c)
      BY <1>5 DEF Parse, Moves
    <3> QED
      BY <1>0, <1>f, <2>1, <2>2, <3>1 DEF ParseMove
  <2>5. u \in Sessions /\ u.chan = s.chan /\ u.life = s.life /\ u.replies = s.replies
    BY <2>2 DEF SessionOK, Sessions
  <2>6. SessionOK(u)
    BY <2>5 DEF SessionOK
  <2> QED
    BY <1>a, <2>3, <2>5, <2>6
<1> QED
  BY <1>1, <1>2, <1>3, <1>4, <1>5 DEF Cmds, CmdOps, Transfers

LEMMA FtpInitInv == FtpInit => FtpInv
<1> SUFFICES ASSUME FtpInit PROVE FtpInv
  OBVIOUS
<1>1. ses.life = "none" /\ ses.replies = <<>> /\ ses.dir = Root /\ ses.proc = "ok"
      /\ \A h \in Transfers : ses.chan[h] = NoConn
  BY DEF FtpInit
<1>2. Quiet(ses)
  BY <1>1 DEF Quiet, NoConn
<1>3. client.cmd = Welcome /\ client.waits /\ client.where = <<>> /\ ~client.ported
  BY DEF FtpInit
<1>4. Welcome.op = "USER" /\ Welcome.name # Garbled /\ Welcome.op \notin Moves
  BY DEF Welcome, Garbled, Moves
<1>5. Answers(ses, client.cmd.op, client.cmd.n)
  BY <1>1, <1>2 DEF Answers, Quiet
<1>6. ~ses.chan["LIST"].file
  BY <1>2 DEF Quiet, Transfers
<1>7. InTouch
  BY <1>1, <1>2, <1>3, <1>5, <1>6 DEF FtpInit, InTouch, Idle, Running
<1>8. SameDir /\ Ported
  BY <1>1, <1>3, <1>4 DEF SameDir, Ported, Transfers
<1> QED
  BY <1>1, <1>7, <1>8 DEF FtpInv, Faithful

LEMMA FtpStepInv == FtpTypeOK /\ FtpInv /\ [FtpNext]_vars => FtpInv'
<1> SUFFICES ASSUME FtpTypeOK, FtpInv, [FtpNext]_vars PROVE FtpInv'
  OBVIOUS
<1>1. ses.life # "none" => Session \in inited
  BY DEF FtpInv
<1>2. (ses.life # "none" => Session \in inited)'
  BY <1>1, LifeKept
<1>3. ASSUME ~past'.rootUp, ~(past'.splits > 0) PROVE Faithful'
  <2>0. Faithful
    BY <1>3, PastKept DEF FtpInv
  <2>s. past'.splits = 0
    <3>1. past'.splits \in Nat
      BY FtpStepTypes DEF FtpTypeOK
    <3> QED
      BY <1>3, <3>1
  <2>1. CASE PoolStep \/ UNCHANGED vars
    <3>1. UNCHANGED ftpVars
      BY <2>1 DEF PoolStep, vars
    <3> QED
      BY <2>0, <3>1, StutterFaithful
  <2>2. ASSUME NEW t \in XThreads, Serve(t) PROVE Faithful'
    BY <1>1, <2>0, <2>2, ServeFaithful
  <2>3. CASE CmdRead
    BY <1>3, <2>0, <2>s, <2>3, CmdReadFaithful
  <2>4. CASE CmdEvent
    BY <2>0, <2>4, CmdEventFaithful
  <2>5. ASSUME NEW h \in Transfers, Connected(h) PROVE Faithful'
    BY <1>1, <2>0, <2>5, ConnectedFaithful
  <2>6. ASSUME NEW h \in Transfers, Drained(h) \/ DataEvent(h) PROVE Faithful'
    BY <2>0, <2>6, HandlerFaithful
  <2>7. ASSUME NEW op \in Commands, NEW name \in Names, SendCmd(op, name) PROVE Faithful'
    BY <2>0, <2>7, SendCmdFaithful
  <2>8. CASE TakeReply
    BY <2>0, <2>8, TakeReplyFaithful
  <2> QED
    BY <2>1, <2>2, <2>3, <2>4, <2>5, <2>6, <2>7, <2>8 DEF FtpNext
<1> QED
  BY <1>2, <1>3 DEF FtpInv

LEMMA FtpInvHolds == FtpSpec => []FtpInv
BY FtpInitInv, FtpStepInv, FtpTypeCorrect, PTL DEF FtpSpec

\* a step of a handler by itself
LEMMA CountedKept ==
    ASSUME FtpTypeOK, Counted, UNCHANGED <<inbuf, client>>, ses.life # "none",
           NEW t, t = ses', SessionOK(t), t.life = ses.life, ~t.chan["LIST"].file,
           Debts(t) <= Debts(ses), past'.splits = past.splits
    PROVE  Counted'
<1>1. PICK a \in Nat, b \in Nat, n \in Nat, p \in Nat, w \in Nat :
        /\ a = Debts(ses) /\ b = Debts(t) /\ n = Len(inbuf) /\ p = past.splits
        /\ w = (IF client.waits THEN 1 ELSE 0)
  <2>1. Debts(ses) \in Nat /\ Debts(t) \in Nat
    BY DebtsOK DEF FtpTypeOK
  <2>2. Len(inbuf) \in Nat /\ past.splits \in Nat
    BY DEF FtpTypeOK
  <2> QED
    BY <2>1, <2>2
<1>2. a + n <= p + w /\ b <= a
  BY <1>1 DEF Counted
<1>3. b + n <= p + w
  BY <1>2
<1>4. Debts(ses') + Len(inbuf') <= past'.splits + (IF client'.waits THEN 1 ELSE 0)
  BY <1>1, <1>3
<1> QED
  BY <1>4 DEF Counted

LEMMA CmdReadCounted ==
    ASSUME FtpTypeOK, Counted, CmdRead, ~past'.rootUp
    PROVE  Counted'
<1>0. PICK k \in 0..Len(inbuf), cut \in BOOLEAN, opened \in BOOLEAN, chunks \in 0..MaxChunks :
        /\ k > 0 \/ cut
        /\ cut => k < Len(inbuf) /\ past.splits < MaxSplits
        /\ \E x \in TakenFor(inbuf[1], k, cut) :
              /\ ses' = Parse(ses, x, opened, chunks)
              /\ past' = Noted(x, k, cut, opened, chunks)
        /\ inbuf' = Unread(k, cut)
  BY DEF CmdRead
<1>1. PICK x \in TakenFor(inbuf[1], k, cut) :
        /\ k > 0 \/ cut
        /\ cut => k < Len(inbuf) /\ past.splits < MaxSplits
        /\ ses' = Parse(ses, x, opened, chunks)
        /\ past' = Noted(x, k, cut, opened, chunks)
        /\ inbuf' = Unread(k, cut)
  BY <1>0
<1>2. ses.life = "up" /\ UNCHANGED client /\ inbuf[1] \in Cmds
  BY DEF CmdRead, FtpTypeOK
<1>3. x \in Cmds
  BY <1>2, TakenIsCmd
<1>4. PICK q : q = past'
  OBVIOUS
<1>5. NotedAs(q, x, k, cut, opened)
  <2>1. past \in Pasts /\ k \in Nat
    BY DEF FtpTypeOK, Pasts
  <2>2. q = Noted(x, k, cut, opened, chunks)
    BY <1>1, <1>4
  <2>3. cut => past.splits < MaxSplits
    BY <1>1
  <2> QED
    BY <2>1, <2>2, <2>3, NotedIs
<1>6. ~(x.op = "CDUP" /\ ses.dir = Root)
  BY <1>4, <1>5, Zenon DEF NotedAs
<1>7. PICK t : t = ses'
  OBVIOUS
<1>8. t.life = ses.life /\ ~t.chan["LIST"].file /\ Debts(t) <= Debts(ses) + 1 /\ SessionOK(t)
  <2>1. SessionOK(ses) /\ ~ses.chan["LIST"].file
    BY DEF FtpTypeOK, Counted
  <2>2. t = Parse(ses, x, opened, chunks)
    BY <1>1, <1>7
  <2> QED
    BY <1>3, <1>6, <2>1, <2>2, ParseDebts, ParseOK
<1>9. PICK a \in Nat, b \in Nat, n \in Nat, m \in Nat, p \in Nat, r \in Nat, w \in Nat :
        /\ a = Debts(ses) /\ b = Debts(t) /\ n = Len(inbuf) /\ m = Len(inbuf')
        /\ p = past.splits /\ r = q.splits /\ w = (IF client.waits THEN 1 ELSE 0)
  <2>1. Debts(ses) \in Nat /\ Debts(t) \in Nat
    BY <1>8, DebtsOK DEF FtpTypeOK
  <2>2. Len(inbuf) \in Nat /\ past.splits \in Nat
    BY DEF FtpTypeOK
  <2>3. inbuf' \in Seq(Cmds)
    BY <1>1, UnreadIs DEF FtpTypeOK
  <2>4. Len(inbuf') \in Nat
    BY <2>3
  <2>5. q.splits \in Nat
    <3>1. q \in Pasts
      BY <1>5 DEF NotedAs
    <3> QED
      BY <3>1 DEF Pasts
  <2> QED
    BY <2>1, <2>2, <2>4, <2>5
<1>10. m = n - k
  <2>1. Len(Unread(k, cut)) = Len(inbuf) - k
    BY <1>1, UnreadIs DEF FtpTypeOK
  <2> QED
    BY <1>1, <1>9, <2>1
<1>11. PICK d \in 0..1 : d = (IF cut THEN 1 ELSE 0)
  OBVIOUS
<1>12. r = p + d
  <2>1. q.splits = (IF cut THEN past.splits + 1 ELSE past.splits)
    BY <1>5 DEF NotedAs
  <2> QED
    BY <1>9, <1>11, <2>1
<1>13. k + d >= 1
  BY <1>1, <1>11
<1>14. a + n <= p + w /\ b <= a + 1
  BY <1>8, <1>9 DEF Counted
<1>15. b + m <= r + w
  BY <1>10, <1>12, <1>13, <1>14
<1>16. Debts(ses') + Len(inbuf') <= past'.splits + (IF client'.waits THEN 1 ELSE 0)
  BY <1>2, <1>4, <1>7, <1>9, <1>15
<1> QED
  BY <1>2, <1>7, <1>8, <1>16 DEF Counted

LEMMA ServeCounted ==
    ASSUME FtpTypeOK, ses.life # "none" => Session \in inited, Counted,
           NEW x \in XThreads, Serve(x)
    PROVE  Counted'
<1>1. CASE Session \notin inited' \ inited
  BY <1>1 DEF Serve, Counted
<1>2. CASE Session \in inited' \ inited
  <2>1. ses.life = "none" /\ SessionOK(ses) /\ ses \in Sessions
    BY <1>2 DEF FtpTypeOK, SessionOK
  <2>2. Quiet(ses) /\ ses.replies = <<>> /\ inbuf = <<>> /\ client.waits
    BY <2>1 DEF Counted, Idle
  <2>3. PICK u : u = [ses EXCEPT !.life = "up", !.at = x]
    OBVIOUS
  <2>4. PICK n \in 0..MaxCmds : n = 0
    BY Bounds
  <2>f. PICK f \in BOOLEAN : f = TRUE
    OBVIOUS
  <2>5. ses' = ResCMD(u, n, f) /\ UNCHANGED <<inbuf, client, past>>
    BY <1>2, <2>3, <2>4, <2>f DEF Serve
  <2>6. /\ u \in Sessions /\ u.chan = ses.chan /\ u.replies = ses.replies /\ u.life = "up"
    BY <2>1, <2>3 DEF Sessions
  <2>7. SessionOK(u)
    BY <2>1, <2>6 DEF SessionOK
  <2>8. PICK t : t = ses'
    OBVIOUS
  <2>9. t.chan = u.chan /\ Rest(t, u) /\ Says(t, u, n, f)
    BY <2>5, <2>7, <2>8, ResCMDIs
  <2>10. Debts(t) <= Debts(u) + (IF f THEN 1 ELSE 0)
    BY <2>7, <2>9, SaysDebts
  <2>11. Debts(u) = 0
    <3>1. \A h \in Transfers : Owes(u, h) = 0
      BY <2>2, <2>6 DEF Quiet, Owes, Busy
    <3>2. Owed(u) = 0
      BY <3>1 DEF Owed, Transfers
    <3>3. Finals(u.replies) = 0
      <4>1. <<>> \in Seq(Replies) /\ u.replies = <<>>
        BY <2>2, <2>6
      <4> QED
        BY <4>1, FinalsPlaces, CountEmpty
    <3> QED
      BY <3>2, <3>3 DEF Debts
  <2>12. SessionOK(t)
    BY <2>5, <2>7, <2>8, ResCMDOK
  <2>13. Debts(t) \in Nat /\ past.splits \in Nat
    BY <2>12, DebtsOK DEF FtpTypeOK
  <2>14. Debts(t) <= past.splits + 1
    BY <2>f, <2>10, <2>11, <2>13
  <2>15. t.life = "up" /\ ~t.chan["LIST"].file
    BY <2>6, <2>9 DEF Rest, Counted
  <2>16. Len(inbuf') = 0
    BY <2>2, <2>5
  <2>17. Debts(ses') + Len(inbuf') <= past'.splits + (IF client'.waits THEN 1 ELSE 0)
    BY <2>2, <2>5, <2>8, <2>13, <2>14, <2>16
  <2> QED
    BY <2>8, <2>15, <2>17 DEF Counted
<1> QED
  BY <1>1, <1>2

LEMMA HandlerCounted ==
    ASSUME FtpTypeOK, ses.life # "none" => Session \in inited, Counted,
           NEW h \in Transfers, Connected(h) \/ Drained(h) \/ DataEvent(h)
    PROVE  Counted'
<1>1. SessionOK(ses) /\ ses.chan[h] \in Conns /\ ses.chan[h].st # "none" /\ ses.life # "none"
  BY ConnOK DEF FtpTypeOK, Connected, Drained, DataEvent, InLoop
<1>2. PICK t : t = ses'
  OBVIOUS
<1>t. SessionOK(t) /\ Debts(t) \in Nat /\ Debts(ses) \in Nat
  <2>1. FtpNext
    BY DEF FtpNext
  <2>2. SessionOK(t)
    BY <1>2, <2>1, FtpStepTypes DEF FtpTypeOK
  <2> QED
    BY <1>1, <2>2, DebtsOK
<1>l. PICK l \in Transfers : l = "LIST"
  BY DEF Transfers
<1>f. ~ses.chan[l].file
  BY <1>l DEF Counted
<1>0. 0 \in 0..MaxChunks /\ 0 \in 0..MaxCmds /\ 0 \in 0..1 /\ FALSE \in BOOLEAN
  BY Bounds
<1>3. UNCHANGED <<inbuf, client>> /\ past'.splits = past.splits
  BY DEF Connected, Drained, DataEvent, FtpTypeOK
<1>4. t.life = ses.life /\ ~t.chan[l].file /\ Debts(t) <= Debts(ses)
  <2>1. CASE Connected(h)
    <3>1. t = [ses EXCEPT !.chan[h].st = "open"]
      BY <1>2, <2>1 DEF Connected
    <3>2. Others(t, ses, h) /\ Rest(t, ses) /\ Quotes(t, ses)
          /\ Handler(t, h, "open", ses.chan[h].file, ses.chan[h].n)
      BY <1>0, <1>1, <3>1, FieldsAre
    <3>3. Busy(t, h) => Busy(ses, h)
      BY <1>1, <3>2 DEF Handler, Busy
    <3>4. t.replies = ses.replies
      BY <3>2 DEF Quotes
    <3>5. Debts(t) <= Debts(ses)
      BY <1>1, <1>t, <3>2, <3>3, <3>4, DebtsChange
    <3> QED
      BY <1>f, <3>2, <3>5 DEF Others, Handler, Rest
  <2>2. CASE Drained(h)
    <3>1. PICK u : u = [ses EXCEPT !.chan[h].out = 0]
      OBVIOUS
    <3>2. t = Write(u, h)
      BY <1>2, <2>2, <3>1 DEF Drained
    <3>3. /\ Others(u, ses, h) /\ Rest(u, ses) /\ Quotes(u, ses)
          /\ Handler(u, h, ses.chan[h].st, ses.chan[h].file, ses.chan[h].n)
      BY <1>0, <1>1, <3>1, FieldsAre
    <3>4. Same(u, ses)
      BY <3>3, StillSame
    <3>5. SessionOK(u)
      <4>1. [ses.chan[h] EXCEPT !.out = 0] \in Conns /\ [ses.chan[h] EXCEPT !.out = 0].out = 0
        BY <1>1 DEF Conns
      <4> QED
        BY <1>1, <3>1, <4>1, ChanOK
    <3>6. Debts(u) = Debts(ses)
      BY <3>4, DebtsStill
    <3>7. u.chan[h].st # "none" /\ ~u.chan[l].file /\ u.life = ses.life
      BY <1>1, <1>f, <3>4 DEF Same, Handler, Rest
    <3>8. CASE Same(t, u)
      <4>1. Debts(t) = Debts(u)
        BY <3>8, DebtsStill
      <4> QED
        BY <1>t, <3>6, <3>7, <3>8, <4>1 DEF Same, Handler, Rest
    <3>9. CASE Finishes(t, u, h)
      <4>1. Ends(t, u, h) /\ Busy(u, h)
        BY <3>7, <3>9 DEF Finishes, Busy
      <4>2. Debts(t) <= Debts(u)
        BY <1>t, <3>5, <4>1, EndsDebts
      <4> QED
        BY <3>6, <3>7, <4>1, <4>2 DEF Ends, Others, Handler, Rest
    <3>10. h = "LIST" => ~u.chan[h].file
      BY <1>l, <3>7
    <3> QED
      BY <3>2, <3>5, <3>8, <3>9, <3>10, WriteIs
  <2>3. CASE DataEvent(h)
    <3>1. t = EventData(ses, h)
      BY <1>2, <2>3 DEF DataEvent
    <3>2. CASE Breaks(t, ses, h)
      <4>1. Others(t, ses, h) /\ ~Busy(t, h) /\ t.replies = ses.replies
        BY <3>2 DEF Breaks, Handler, Busy, Quotes
      <4>2. Debts(t) <= Debts(ses)
        BY <1>1, <1>t, <4>1, DebtsChange
      <4> QED
        BY <1>f, <3>2, <4>2 DEF Breaks, Others, Handler, Rest
    <3>3. CASE Ends(t, ses, h) /\ h = "STOR"
      <4>1. Busy(ses, h)
        BY <1>1, <3>3 DEF Busy
      <4>2. Debts(t) <= Debts(ses)
        BY <1>1, <1>t, <3>3, <4>1, EndsDebts
      <4> QED
        BY <1>f, <3>3, <4>2 DEF Ends, Others, Handler, Rest
    <3> QED
      BY <1>1, <3>1, <3>2, <3>3, EventDataIs
  <2> QED
    BY <2>1, <2>2, <2>3
<1>5. ~t.chan["LIST"].file
  BY <1>l, <1>4
<1> QED
  BY <1>1, <1>2, <1>t, <1>3, <1>4, <1>5, CountedKept

LEMMA ClientCounted ==
    ASSUME FtpTypeOK, Counted,
           \/ CmdEvent
           \/ \E op \in Commands, name \in Names : SendCmd(op, name)
           \/ TakeReply
    PROVE  Counted'
<1>0. SessionOK(ses) /\ ses \in Sessions /\ past \in Pasts
  BY DEF FtpTypeOK, SessionOK, Pasts
<1>1. PICK a \in Nat, n \in Nat, p \in Nat :
        a = Debts(ses) /\ n = Len(inbuf) /\ p = past.splits
  BY <1>0, DebtsOK DEF FtpTypeOK
<1>2. a + n <= p + (IF client.waits THEN 1 ELSE 0)
  BY <1>1 DEF Counted
<1>3. PICK t : t = ses'
  OBVIOUS
<1>4. CASE CmdEvent
  <2>1. t.chan = ses.chan /\ t.replies = ses.replies /\ t.life = "deleted"
    BY <1>0, <1>3, <1>4 DEF CmdEvent, Sessions
  <2>2. Debts(t) = a
    BY <1>1, <2>1, DebtsSame
  <2>3. Len(inbuf') = 0 /\ client' = client
    BY <1>4 DEF CmdEvent
  <2>4. PICK b \in BOOLEAN : past' = [past EXCEPT !.hasty = b]
    BY <1>4, Zenon DEF CmdEvent
  <2>5. past'.splits = p
    BY <1>0, <1>1, <2>4 DEF Pasts
  <2>6. a <= p + (IF client.waits THEN 1 ELSE 0)
    BY <1>2
  <2>7. Debts(ses') + Len(inbuf') <= past'.splits + (IF client'.waits THEN 1 ELSE 0)
    BY <1>3, <2>2, <2>3, <2>5, <2>6
  <2> QED
    BY <1>3, <2>1, <2>7 DEF Counted
<1>5. ASSUME NEW op \in Commands, NEW name \in Names, SendCmd(op, name)
      PROVE  Counted'
  <2>1. PICK c : c = [op |-> op, name |-> name, n |-> client.cmd.n + 1]
    OBVIOUS
  <2>2. /\ ~client.waits /\ ses.life = "up" /\ ses' = ses
        /\ client' = [client EXCEPT !.cmd = c, !.waits = TRUE]
        /\ inbuf' = Append(inbuf, c)
    BY <1>5, <2>1 DEF SendCmd
  <2>3. Len(inbuf') = n + 1
    BY <1>1, <2>2 DEF FtpTypeOK
  <2>4. client'.waits
    BY <2>2 DEF FtpTypeOK
  <2>5. past'.splits = p
    BY <1>0, <1>1, <1>5 DEF SendCmd, Pasts
  <2>6. a + n <= p
    BY <1>2, <2>2
  <2>7. Debts(ses') + Len(inbuf') <= past'.splits + (IF client'.waits THEN 1 ELSE 0)
    BY <1>1, <2>2, <2>3, <2>4, <2>5, <2>6
  <2> QED
    BY <2>2, <2>7 DEF Counted
<1>6. CASE TakeReply
  <2>1. client.waits /\ ses.replies # <<>> /\ inbuf' = inbuf
    BY <1>6 DEF TakeReply
  <2>2. PICK r \in Seq(Replies) : r = ses.replies
    BY <1>0, DebtsOK
  <2>3. /\ Finals(Tail(r)) \in Nat /\ Finals(Tail(r)) <= Finals(r)
        /\ Head(r).final => Finals(Tail(r)) = Finals(r) - 1
    BY <2>1, <2>2, FinalsTail
  <2>4. t.chan = ses.chan /\ t.life = ses.life /\ t.replies = Tail(r)
    BY <1>0, <1>3, <1>6, <2>2 DEF TakeReply, Sessions
  <2>5. Owed(t) = Owed(ses)
    BY <2>4 DEF Owed, Owes, Busy
  <2>6. PICK o \in Nat, f \in Nat, g \in Nat :
          o = Owed(ses) /\ f = Finals(r) /\ g = Finals(Tail(r)) /\ a = f + o
    BY <1>0, <1>1, <2>2, <2>3, DebtsOK DEF Debts
  <2>7. Debts(t) = g + o
    BY <2>4, <2>5, <2>6 DEF Debts
  <2>8. past'.splits = p
    BY <1>0, <1>1, <1>6 DEF TakeReply, Pasts
  <2>9. a + n <= p + 1
    BY <1>2, <2>1
  <2>10. CASE Head(r).final
    <3>0. g = f - 1
      BY <2>3, <2>6, <2>10
    <3>a. a = f + o
      BY <2>6
    <3>1. g + o + n <= p
      BY <2>9, <3>0, <3>a
    <3>2. g + o + n <= p + (IF client'.waits THEN 1 ELSE 0)
      BY <3>1
    <3>3. Debts(ses') + Len(inbuf') <= past'.splits + (IF client'.waits THEN 1 ELSE 0)
      BY <1>1, <1>3, <2>1, <2>7, <2>8, <3>2
    <3>4. ses'.life # "none"
      BY <1>3, <2>1, <2>4 DEF Counted, Idle
    <3> QED
      BY <1>3, <2>4, <3>3, <3>4 DEF Counted
  <2>11. CASE ~Head(r).final
    <3>1. client' = client
      BY <1>6, <2>2, <2>11 DEF TakeReply
    <3>2. g + o + n <= p + 1
      BY <2>3, <2>6, <2>9
    <3>3. Debts(ses') + Len(inbuf') <= past'.splits + (IF client'.waits THEN 1 ELSE 0)
      BY <1>1, <1>3, <2>1, <2>7, <2>8, <3>1, <3>2
    <3>4. ses'.life # "none"
      BY <1>3, <2>1, <2>4 DEF Counted, Idle
    <3> QED
      BY <1>3, <2>4, <3>3, <3>4 DEF Counted
  <2> QED
    BY <2>10, <2>11
<1> QED
  BY <1>4, <1>5, <1>6

LEMMA CountedStep ==
    ASSUME FtpTypeOK, FtpInv, past.rootUp \/ Counted, [FtpNext]_vars
    PROVE  (past.rootUp \/ Counted)'
<1> SUFFICES ASSUME ~past'.rootUp PROVE Counted'
  OBVIOUS
<1>0. Counted /\ (ses.life # "none" => Session \in inited)
  BY PastKept DEF FtpInv
<1>1. CASE PoolStep \/ UNCHANGED vars
  <2>1. UNCHANGED ftpVars
    BY <1>1 DEF PoolStep, vars
  <2> QED
    BY <1>0, <2>1 DEF Counted, ftpVars, Idle
<1>2. ASSUME NEW x \in XThreads, Serve(x) PROVE Counted'
  BY <1>0, <1>2, ServeCounted
<1>3. CASE CmdRead
  BY <1>0, <1>3, CmdReadCounted
<1>4. CASE CmdEvent
  BY <1>0, <1>4, ClientCounted
<1>5. ASSUME NEW h \in Transfers, Connected(h) \/ Drained(h) \/ DataEvent(h) PROVE Counted'
  BY <1>0, <1>5, HandlerCounted
<1>6. ASSUME NEW op \in Commands, NEW name \in Names, SendCmd(op, name) PROVE Counted'
  BY <1>0, <1>6, ClientCounted
<1>7. CASE TakeReply
  BY <1>0, <1>7, ClientCounted
<1> QED
  BY <1>1, <1>2, <1>3, <1>4, <1>5, <1>6, <1>7 DEF FtpNext

LEMMA CountedInit == FtpInit => Counted
<1> SUFFICES ASSUME FtpInit PROVE Counted
  OBVIOUS
<1>1. /\ ses.life = "none" /\ ses.replies = <<>> /\ inbuf = <<>> /\ client.waits
      /\ past.splits = 0 /\ \A h \in Transfers : ses.chan[h] = NoConn
  BY DEF FtpInit
<1>2. Idle(ses) /\ ~ses.chan["LIST"].file
  BY <1>1 DEF Idle, Quiet, NoConn, Transfers
<1>3. Owed(ses) = 0
  <2>1. \A h \in Transfers : Owes(ses, h) = 0
    BY <1>1 DEF Owes, Busy, NoConn
  <2> QED
    BY <2>1 DEF Owed, Transfers
<1>4. Finals(ses.replies) = 0
  <2>1. <<>> \in Seq(Replies)
    OBVIOUS
  <2> QED
    BY <1>1, <2>1, FinalsPlaces, CountEmpty
<1>5. Debts(ses) = 0 /\ Len(inbuf) = 0
  BY <1>1, <1>3, <1>4 DEF Debts
<1> QED
  BY <1>1, <1>2, <1>5 DEF Counted

LEMMA CountedHolds == FtpSpec => [](past.rootUp \/ Counted)
BY CountedInit, CountedStep, FtpInvHolds, FtpTypeCorrect, PTL DEF FtpSpec

\* Until the first CDUP at the root there are never more answers, given or to come,
\* than the client waits for and reads that ended within a command; while none has,
\* every reply a client takes is one to the command it sent last, no command is lost in
\* a read, and a client that has its reply and never named a directory with a blank
\* means the directory the session means (XFtpServerCMD::Read, XFtpLIST::Parse).
THEOREM InStepHolds == FtpSpec => []InStep
<1>1. FtpTypeOK /\ FtpInv /\ (past.rootUp \/ Counted) => InStep
  <2> SUFFICES ASSUME FtpTypeOK, FtpInv, Counted, ~past.rootUp PROVE InStep
    BY DEF InStep
  <2>1. FinalReplies + Len(inbuf) <= past.splits + (IF client.waits THEN 1 ELSE 0)
    <3>1. FinalReplies = Finals(ses.replies)
      BY DEF FinalReplies, Finals
    <3>2. Debts(ses) = Finals(ses.replies) + Owed(ses)
          /\ Owed(ses) \in Nat /\ Finals(ses.replies) \in Nat
      BY DebtsOK DEF Debts, FtpTypeOK
    <3>3. Len(inbuf) \in Nat /\ past.splits \in Nat
      BY DEF FtpTypeOK
    <3> QED
      BY <3>1, <3>2, <3>3 DEF Counted
  <2>2. past.splits = 0 => Faithful
    <3>1. past.splits \in Nat
      BY DEF FtpTypeOK
    <3> QED
      BY <3>1 DEF FtpInv
  <2> QED
    BY <2>1, <2>2 DEF Faithful, InTouch, SameDir, InStep
<1> QED
  BY <1>1, FtpTypeCorrect, FtpInvHolds, CountedHolds, PTL

\* Neither a null data connection is triggered nor a deleted session written to, but
\* by a client that left before its reply, asked for a transfer without a PORT or of
\* whom a read ended within a command (XFtpRETR::Parse, XFtpTask::ResCMD).
THEOREM StaysUpHolds == FtpSpec => []StaysUp
<1>1. FtpInv => StaysUp
  BY DEF FtpInv, Faithful, InTouch, StaysUp
<1> QED
  BY <1>1, FtpInvHolds, PTL

\* A file is opened where the client means it, unless its last move left no slash
\* behind the directory or it has named one with a blank, and is closed before the next
\* one, while every read ends with a command (XFtpRETR::Parse, XFtpSTOR::Parse).
THEOREM FilesRightHolds == FtpSpec => []FilesRight
<1>1. FtpInv => FilesRight
  BY DEF FtpInv, Faithful, InTouch, FilesRight
<1> QED
  BY <1>1, FtpInvHolds, PTL

=============================================================================
