---------------------------- MODULE MCFtpServer -----------------------------
(***************************************************************************)
(* TLC instance of FtpServer: the session and one more task; a directory   *)
(* whose name has a blank and one whose name is its last word.             *)
(***************************************************************************)
EXTENDS FtpServer

MCTasks == {"session", "other"}
MCNames == {"a", "my a"}
MCLastWord == "my a" :> "a"

\* BOUND: after a read that ended within a command, three commands are followed.
Followed == past.splits = 0 \/ client.cmd.n <= 3
=============================================================================
