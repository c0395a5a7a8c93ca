----------------------------- MODULE FtpServer ------------------------------
(***************************************************************************)
(* The FTP server on libevent (src/libevent_test/ev_ftp_server): one       *)
(* session, an XFtpServerCMD with its handlers, on a thread of XThreadPool *)
(* and the client at the other end.                                        *)
(*                                                                         *)
(* The thread's event loop makes each callback one step.  A handler has at *)
(* most one data connection; file contents and listings are counts of      *)
(* chunks, a directory is the sequence of its names and whether the string *)
(* that names it ends in a slash.  Nothing puts the lines of the client    *)
(* together: each read is answered as one command, whatever is in it.      *)
(***************************************************************************)
EXTENDS XThreadPool, SequencesExt

CONSTANTS Session,   \* the task that is the session looked at
          Names,     \* names of directories
          LastWord,  \* of the names with a blank: what is behind the last one
          Commands,  \* commands the client uses, of CmdOps
          MaxCmds,   \* BOUND: commands the client sends
          MaxSplits, \* BOUND: reads that end within a command
          MaxChunks  \* BOUND: chunks of a file

VARIABLES ses,       \* the session and its handlers
          inbuf,     \* commands on their way to the session
          client,
          past       \* what has happened (history)

ftpVars == <<ses, inbuf, client, past>>
vars == <<poolVars, ftpVars>>

Transfers == {"LIST", "RETR", "STOR"}     \* the handlers with a data connection
Moves == {"CWD name", "CWD /name", "CDUP"}
CmdOps == {"USER", "PORT"} \cup Transfers \cup Moves   \* PWD and unknown ones are like USER

Root == [parts |-> <<>>, slash |-> TRUE]
NoConn == [st |-> "none", out |-> 0, file |-> FALSE, left |-> 0, n |-> 0]
Welcome == [op |-> "USER", name |-> "", n |-> 0]     \* what the client waits for first

\* What is behind the last blank of a read that is not one command may be the name
\* of none: it contains the end of a line, or lacks its own.
Garbled == "name\r\n"
Args == Names \cup {"", Garbled}

ASSUME FtpAssumption ==
    /\ Session \in Tasks /\ Commands \subseteq CmdOps
    /\ MaxCmds \in Nat /\ MaxSplits \in Nat /\ MaxChunks \in Nat
    /\ "" \notin Names /\ Garbled \notin Names
    /\ \A name \in DOMAIN LastWord : name \in Names /\ LastWord[name] \in Names \cup {""}

-----------------------------------------------------------------------------
(* What the session and its handlers do, as functions of the session.      *)

\* a handler holds a pointer to its session and looks through it for the connection
ResCMD(s, n, final) ==
    IF s.life = "up" THEN [s EXCEPT !.replies = Append(@, [n |-> n, final |-> final])]
    ELSE [s EXCEPT !.proc = "wild"]

BadClose(s, h) == s

Close(s, h) == [s EXCEPT !.chan[h].st = "none", !.chan[h].out = 0]

ConnectPORT(s, h) ==
    IF s.port THEN [s EXCEPT !.chan[h].st = "connecting", !.chan[h].out = 0] ELSE s

Send(s, h) ==
    IF s.chan[h].st = "none" THEN s ELSE [s EXCEPT !.chan[h].out = 1]

\* one buffer of the file, or the end of it
WriteRETR(s) ==
    LET c == s.chan["RETR"] IN
    IF ~c.file THEN s
    ELSE IF c.left > 0 THEN Send([s EXCEPT !.chan["RETR"].left = @ - 1], "RETR")
    ELSE Close(ResCMD([s EXCEPT !.chan["RETR"].file = FALSE], c.n, TRUE), "RETR")

Write(s, h) ==
    CASE h = "LIST" -> Close(ResCMD(s, s.chan[h].n, TRUE), h)
      [] h = "RETR" -> WriteRETR(s)
      [] h = "STOR" -> s

\* the data connection ends, by an error or a timeout too
EventData(s, h) ==
    LET t == [Close(s, h) EXCEPT !.chan[h].file = FALSE]
    IN  IF h = "STOR" THEN ResCMD(t, s.chan[h].n, TRUE) ELSE t

\* a name that is not absolute, behind the current directory
Below(d, name) == [parts |-> Append(d.parts, name), slash |-> TRUE]

\* the last slash is looked for before the one at the end is cut off
BadParent(d) == IF d.slash /\ d.parts # <<>> THEN [parts |-> d.parts, slash |-> FALSE]
                ELSE [parts |-> IF d.parts = <<>> THEN <<>> ELSE Front(d.parts), slash |-> FALSE]

\* CDUP: what is left has no slash at its end; of "/" and of "/name" nothing is left
Parent(d) == [parts |-> IF d.parts = <<>> THEN <<>> ELSE Front(d.parts), slash |-> FALSE]

ParseLIST(s, n, chunks) ==
    LET t == ResCMD(ConnectPORT([s EXCEPT !.chan["LIST"].n = n], "LIST"), n, FALSE)
    IN  IF chunks = 0 THEN t ELSE Send(t, "LIST")   \* nothing sent, no callback

\* the transfer is not set going
BadBegin(s, h) == s

\* bufferevent_trigger, which must not be given a null pointer
Begin(s, h) ==
    IF s.chan[h].st = "none" THEN [s EXCEPT !.proc = "crashed"] ELSE Write(s, h)

ParseFile(s, h, n, opened, chunks) ==
    IF opened
    THEN LET t == [s EXCEPT !.chan[h].file = TRUE, !.chan[h].left = chunks, !.chan[h].n = n]
         IN  Begin(ResCMD(ConnectPORT(t, h), n, FALSE), h)
    ELSE ResCMD([s EXCEPT !.chan[h].file = FALSE], n, TRUE)

\* CWD with a name leaves out the slash behind it
BadChdir(s, c) ==
    IF c.op = "CDUP" THEN Parent(s.dir)
    ELSE [parts |-> (IF c.op = "CWD name" THEN s.dir.parts ELSE <<>>) \o <<c.name>>,
          slash |-> FALSE]

\* The path is what is behind the last blank: of a name with a blank, absolute or
\* not, the last word is left, as a name below the current directory.
Chdir(s, c) ==
    IF c.op = "CDUP" THEN Parent(s.dir)
    ELSE IF c.name \in DOMAIN LastWord THEN Below(s.dir, LastWord[c.name])
    ELSE IF c.op = "CWD name" THEN Below(s.dir, c.name)
    ELSE IF c.name = "" THEN Root
    ELSE [parts |-> <<c.name>>, slash |-> FALSE]

\* CDUP at the root answers, and goes on as if it had not
ParseMove(s, c) ==
    LET t == IF c.op = "CDUP" /\ s.dir = Root THEN ResCMD(s, c.n, TRUE) ELSE s
    IN  ResCMD([t EXCEPT !.dir = Chdir(s, c)], c.n, TRUE)

\* XFtpServerCMD::Read: one command; `opened', `chunks': what the file system says
Parse(s, c, opened, chunks) ==
    CASE c.op = "USER" -> ResCMD(s, c.n, TRUE)
      [] c.op = "PORT" -> ResCMD([s EXCEPT !.port = @ \/ c.name # Garbled], c.n, TRUE)
      [] c.op = "LIST" -> ParseLIST(s, c.n, chunks)
      [] c.op \in {"RETR", "STOR"} -> ParseFile(s, c.op, c.n, opened, chunks)
      [] c.op \in Moves -> ParseMove(s, c)

-----------------------------------------------------------------------------
(* The thread of the session.                                              *)

Running == ses.proc = "ok"                               \* the process, all its threads
InLoop == Running /\ ses.life # "none" /\ loop[ses.at] = "loop"

\* XFtpServerCMD::Init, called by Notify
Serve(t) ==
    /\ Running
    /\ RunFirst(t)
    /\ ses' = IF Session \in inited' \ inited
              THEN ResCMD([ses EXCEPT !.life = "up", !.at = t], 0, TRUE) ELSE ses
    /\ UNCHANGED <<inbuf, client, past>>

PoolStep ==
    /\ Running
    /\ \/ \E x \in Tasks : AddTask(x)
       \/ Activate
       \/ \E t \in XThreads : ReadByte(t)
    /\ UNCHANGED ftpVars

Kin(op) == IF op \in {"CWD name", "CWD /name"} THEN {"CWD name", "CWD /name"} ELSE {op}

\* What a read is taken for that holds k whole commands, c the first, and, if it is
\* cut, the first part of one more.  Where one ends and the next begins nobody looks:
\* its first word is that of c, or the part of it that has arrived, and is no command
\* then; its argument is behind the last blank of all.  A PORT with a command behind
\* it has more than six numbers.
TakenFor(c, k, cut) ==
    IF k = 1 /\ ~cut THEN {c}
    ELSE {t \in [op : Kin(c.op) \cup (IF k = 0 THEN {"USER"} ELSE {}), name : Args, n : {c.n}] :
            t.op = "PORT" /\ k > 1 => t.name = Garbled}

\* The rest of a command that was cut begins with no word that is a command.
Unread(k, cut) ==
    LET rest == SubSeq(inbuf, k + 1, Len(inbuf))
    IN  IF cut THEN [rest EXCEPT ![1].op = "USER"] ELSE rest

Noted(c, k, cut, opened, chunks) ==
    LET file  == c.op \in {"RETR", "STOR"}
        moves == c.op \in {"CWD name", "CWD /name"}
        wrong == ~ses.dir.slash \/ (~past.blank /\ ses.dir.parts # client.where)
    IN  [past EXCEPT !.rootUp = @ \/ (c.op = "CDUP" /\ ses.dir = Root),
                     !.blank = @ \/ (moves /\ c.name \in DOMAIN LastWord),
                     !.splits = IF cut THEN @ + 1 ELSE @,
                     !.cut = @ \/ k > 1 \/ (k = 1 /\ cut),
                     !.broken = @ \/ (c.op = "LIST" /\ chunks = 0),
                     !.lost = @ \/ (file /\ ses.chan[c.op].file),
                     !.misfiled = @ \/ (file /\ opened /\ ~client.bare /\ wrong)]

\* one turn of the loop of XFtpServerCMD::Read
CmdRead ==
    /\ InLoop /\ ses.life = "up" /\ inbuf # <<>>
    /\ \E k \in 0..Len(inbuf), cut \in BOOLEAN, opened \in BOOLEAN, chunks \in 0..MaxChunks :
          /\ k > 0 \/ cut
          /\ cut => k < Len(inbuf) /\ past.splits < MaxSplits
          /\ \E c \in TakenFor(inbuf[1], k, cut) :
                /\ ses' = Parse(ses, c, opened, chunks)
                /\ past' = Noted(c, k, cut, opened, chunks)
          /\ inbuf' = Unread(k, cut)
    /\ UNCHANGED <<poolVars, client>>

\* XFtpServerCMD::Event: the client has gone, or nothing arrived for 60 seconds;
\* the session is deleted, its handlers and their connections are not
CmdEvent ==
    /\ InLoop /\ ses.life = "up"
    /\ ses' = [ses EXCEPT !.life = "deleted"]
    /\ past' = [past EXCEPT !.hasty = @ \/ client.waits]
    /\ inbuf' = <<>>
    /\ UNCHANGED <<poolVars, client>>

Connected(h) ==
    /\ InLoop /\ ses.chan[h].st = "connecting"
    /\ ses' = [ses EXCEPT !.chan[h].st = "open"]
    /\ UNCHANGED <<poolVars, inbuf, client, past>>

Drained(h) ==
    /\ InLoop /\ ses.chan[h].st = "open" /\ ses.chan[h].out > 0
    /\ ses' = Write([ses EXCEPT !.chan[h].out = 0], h)
    /\ UNCHANGED <<poolVars, inbuf, client, past>>

DataEvent(h) ==
    /\ InLoop /\ ses.chan[h].st # "none"
    /\ ses' = EventData(ses, h)
    /\ past' = [past EXCEPT !.broken = @ \/ h # "STOR"]
    /\ UNCHANGED <<poolVars, inbuf, client>>

-----------------------------------------------------------------------------
(* The client: a command when the last one has had its final reply.        *)

SendCmd(op, name) ==
    /\ ses.life = "up" /\ ~client.waits /\ client.cmd.n < MaxCmds
    /\ LET c == [op |-> op, name |-> name, n |-> client.cmd.n + 1] IN
       /\ client' = [client EXCEPT !.cmd = c, !.waits = TRUE]
       /\ inbuf' = Append(inbuf, c)
    /\ past' = [past EXCEPT !.early = @ \/ (op \in Transfers /\ ~client.ported)]
    /\ UNCHANGED <<poolVars, ses>>

Where(c) == CASE c.op = "CWD name"  -> Append(client.where, c.name)
              [] c.op = "CWD /name" -> <<c.name>>
              [] c.op = "CDUP"      -> IF client.where = <<>> THEN <<>> ELSE Front(client.where)
              [] OTHER              -> client.where

TakeReply ==
    /\ client.waits /\ ses.replies # <<>>
    /\ LET r == Head(ses.replies) IN
       /\ client' = IF ~r.final THEN client
                    ELSE [client EXCEPT !.waits = FALSE, !.where = Where(client.cmd),
                          !.ported = @ \/ client.cmd.op = "PORT",
                          !.bare = IF client.cmd.op = "CWD name" THEN FALSE
                                   ELSE @ \/ client.cmd.op \in Moves]
       /\ past' = [past EXCEPT !.mixed = @ \/ r.n # client.cmd.n]
    /\ ses' = [ses EXCEPT !.replies = Tail(@)]
    /\ UNCHANGED <<poolVars, inbuf>>

FtpInit ==
    /\ XPoolInit
    /\ ses = [life |-> "none", at |-> 0, dir |-> Root, port |-> FALSE,
              chan |-> [h \in Transfers |-> NoConn], replies |-> <<>>, proc |-> "ok"]
    /\ inbuf = <<>>
    /\ client = [waits |-> TRUE, cmd |-> Welcome, where |-> <<>>,
                 ported |-> FALSE, bare |-> FALSE]
    /\ past = [rootUp |-> FALSE, hasty |-> FALSE, early |-> FALSE, broken |-> FALSE,
               blank |-> FALSE, splits |-> 0,
               cut |-> FALSE, lost |-> FALSE, misfiled |-> FALSE, mixed |-> FALSE]

FtpNext ==
    \/ PoolStep
    \/ \E t \in XThreads : Serve(t)
    \/ CmdRead
    \/ CmdEvent
    \/ \E h \in Transfers : Connected(h) \/ Drained(h) \/ DataEvent(h)
    \/ \E op \in Commands, name \in Names : SendCmd(op, name)
    \/ TakeReply

\* The loops run, the pipe is written, a client that listens takes connections,
\* data and replies and ends what it stores; no timeout and no error is owed.
FtpFairness ==
    /\ WF_vars(PoolStep)
    /\ \A t \in XThreads : WF_vars(Serve(t))
    /\ WF_vars(CmdRead)
    /\ \A h \in Transfers : WF_vars(Connected(h)) /\ WF_vars(Drained(h))
    /\ WF_vars(ses.chan["STOR"].st = "open" /\ DataEvent("STOR"))
    /\ WF_vars(TakeReply)

FtpSpec == FtpInit /\ [][FtpNext]_vars /\ FtpFairness

-----------------------------------------------------------------------------
Dirs == [parts : Seq(Args), slash : BOOLEAN]
Conns == [st : {"none", "connecting", "open"}, out : 0..1, file : BOOLEAN,
          left : 0..MaxChunks, n : 0..MaxCmds]
Sessions == [life : {"none", "up", "deleted"}, at : XThreads, dir : Dirs, port : BOOLEAN,
             chan : [Transfers -> Conns],
             replies : Seq([n : 0..MaxCmds, final : BOOLEAN]),
             proc : {"ok", "crashed", "wild"}]
Cmds == [op : CmdOps, name : Args, n : 0..MaxCmds]

\* nothing is left to send on a connection that is closed
SessionOK(s) ==
    /\ s \in Sessions
    /\ \A h \in Transfers : s.chan[h].st = "none" => s.chan[h].out = 0

FtpTypeOK ==
    /\ SessionOK(ses)
    /\ inbuf \in Seq(Cmds)
    /\ client \in [waits : BOOLEAN, cmd : Cmds, where : Seq(Args),
                   ported : BOOLEAN, bare : BOOLEAN]
    /\ past \in [rootUp : BOOLEAN, hasty : BOOLEAN, early : BOOLEAN, broken : BOOLEAN,
                 blank : BOOLEAN, splits : 0..MaxSplits,
                 cut : BOOLEAN, lost : BOOLEAN, misfiled : BOOLEAN, mixed : BOOLEAN]

FinalReplies == Cardinality({i \in DOMAIN ses.replies : ses.replies[i].final})

\* Client and session keep in step, but for CDUP at the root, which answers twice
\* (XFtpLIST.cpp).  Of the answers that are there or will be, no more than one for each
\* read that ended within a command is for nothing the client waits for.  While every
\* read ends with a command, each reply a client takes is one to the command it sent
\* last, no command is lost in a read, and whenever the client has its reply both mean
\* the same directory, unless the client has named one with a blank
\* (XFtpServerCMD::Read).
InStep ==
    ~past.rootUp =>
        /\ FinalReplies + Len(inbuf) <= past.splits + (IF client.waits THEN 1 ELSE 0)
        /\ past.splits = 0 =>
             /\ ~past.mixed /\ ~past.cut
             /\ ses.life = "up" /\ ~client.waits /\ ~past.blank
                  => client.where = ses.dir.parts

\* The process goes down, or a handler writes through its pointer to a session that
\* was deleted, only for a client whose control connection ended (or was silent for
\* 60 seconds) before its reply, who asked for a transfer without a PORT, or of whom a
\* read ended within a command.
StaysUp == Running \/ past.hasty \/ past.early \/ past.rootUp \/ past.splits > 0

\* A file is opened in the directory the client means, unless its last move was to an
\* absolute name or upwards, which leave no slash for RETR and STOR to put the file
\* name behind, or it has named a directory with a blank; and no open file is
\* overwritten by the next one, while each read ends with a command.
FilesRight == past.rootUp \/ past.splits > 0 \/ (~past.misfiled /\ ~past.lost)

\* A client that is served gets its final reply, unless the session ends, the data
\* connection of a LIST or RETR breaks, the directory is empty, there was no PORT
\* before a transfer, or none that arrived in one read, or a write to the pipe of the
\* pool failed.
EveryCommandAnswered ==
    (client.waits /\ Session \in Listed \cup inited) ~>
        \/ ~client.waits
        \/ ses.life = "deleted" \/ past.broken \/ past.early \/ past.rootUp
        \/ (past.splits > 0 /\ ~ses.port)
        \/ \E t \in XThreads : fails[t] > 0

=============================================================================
