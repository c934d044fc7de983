-------------------------- MODULE SshLaunchedBinary --------------------------
(***************************************************************************)
(* A binary launched by launch_binary (hydro_deploy/core/src/ssh.rs) and   *)
(* observed through its LaunchedSshBinary: exit_code (100-107), wait       *)
(* (109-115), stop (117-127) and its Drop (217-225).                       *)
(*                                                                         *)
(* The channel was opened with exec, without a pty, so the ^C that stop    *)
(* writes is one byte on the program's stdin, not a signal; send_eof       *)
(* closes the program's stdin.  When the program ends, the SSH server      *)
(* sends, on the one connection, CHANNEL_EOF (its stdout is drained), the  *)
(* exit-status request, and CHANNEL_CLOSE after both (RFC 4254 6.10,       *)
(* 5.3).  The order of the first two is the server's: the constant         *)
(* ExitStatusFirst says whether exit-status always precedes EOF.  The      *)
(* client side (libssh2) processes the messages in order; exit_status()    *)
(* returns the received status, or 0 while none was received.  The TCP    *)
(* connection may be lost at any time (ConnLost): what was not delivered  *)
(* is gone, and an await that needs the socket then fails, while one whose *)
(* condition libssh2 already holds returns at once.                       *)
(***************************************************************************)
EXTENDS Integers, Sequences

CONSTANTS
  Codes,            \* exit codes the program may end with (0 among them)
  ExitStatusFirst,  \* the server sends exit-status before CHANNEL_EOF
  ExitsOnStdinEof   \* the program ends when its stdin is closed

None == -1  \* no exit-status received

VARIABLES
  prog,     \* the remote program: "running" | "exited"
  code,     \* its exit code, once it has exited
  stdinEof, \* the server has received our send_eof
  sent,     \* what the server has sent: [eof, exit, close : BOOLEAN]
  net,      \* server-to-client messages not yet processed by libssh2
  ch,       \* libssh2's channel state: [eof, status, closed]
  op,       \* the LaunchedBinary call in progress, and its step
  reported, \* the exit codes exit_code() and wait() have returned
  stopped,  \* the result of stop(): "none" | "Ok" | "Err"
  conn      \* the session's TCP connection: "up" | "lost"

vars == <<prog, code, stdinEof, sent, net, ch, op, reported, stopped, conn>>

-----------------------------------------------------------------------------
\* The remote side.

\* The program ends by itself (its work is done or it crashed).
ProgExit ==
  /\ prog = "running"
  /\ \E c \in Codes : code' = c
  /\ prog' = "exited"
  /\ UNCHANGED <<stdinEof, sent, net, ch, op, reported, stopped, conn>>

\* A hydro service reads its stdin and ends when it is closed.
ProgExitOnStdinEof ==
  /\ prog = "running" /\ stdinEof /\ ExitsOnStdinEof
  /\ \E c \in Codes : code' = c
  /\ prog' = "exited"
  /\ UNCHANGED <<stdinEof, sent, net, ch, op, reported, stopped, conn>>

ServerSendEof ==
  /\ prog = "exited" /\ ~sent.eof /\ conn = "up"
  /\ ExitStatusFirst => sent.exit
  /\ sent' = [sent EXCEPT !.eof = TRUE]
  /\ net' = Append(net, [kind |-> "eof"])
  /\ UNCHANGED <<prog, code, stdinEof, ch, op, reported, stopped, conn>>

ServerSendExitStatus ==
  /\ prog = "exited" /\ ~sent.exit /\ conn = "up"
  /\ sent' = [sent EXCEPT !.exit = TRUE]
  /\ net' = Append(net, [kind |-> "exit-status", code |-> code])
  /\ UNCHANGED <<prog, code, stdinEof, ch, op, reported, stopped, conn>>

ServerSendClose ==
  /\ sent.eof /\ sent.exit /\ ~sent.close /\ conn = "up"
  /\ sent' = [sent EXCEPT !.close = TRUE]
  /\ net' = Append(net, [kind |-> "close"])
  /\ UNCHANGED <<prog, code, stdinEof, ch, op, reported, stopped, conn>>

\* libssh2 processes the next message of the connection.
Receive ==
  /\ net # <<>>
  /\ LET m == Head(net) IN
       ch' = CASE m.kind = "eof"         -> [ch EXCEPT !.eof = TRUE]
               [] m.kind = "exit-status" -> [ch EXCEPT !.status = m.code]
               [] m.kind = "close"       -> [ch EXCEPT !.closed = TRUE]
  /\ net' = Tail(net)
  /\ UNCHANGED <<prog, code, stdinEof, sent, op, reported, stopped, conn>>

\* The connection to the host breaks; messages in flight are lost.
ConnLost ==
  /\ conn = "up"
  /\ conn' = "lost"
  /\ net' = <<>>
  /\ UNCHANGED <<prog, code, stdinEof, sent, ch, op, reported, stopped>>

-----------------------------------------------------------------------------
\* The client side.

\* channel.exit_status(): the received status, 0 when none arrived yet.
ExitStatus == IF ch.status = None THEN 0 ELSE ch.status

\* An await that needs the socket fails once the connection is lost.
Lost == conn = "lost"

\* exit_code(): Some(exit_status()) once the channel saw EOF, else None.
ExitCode ==
  /\ op = "idle"
  /\ ch.eof
  /\ reported' = reported \cup {ExitStatus}
  /\ UNCHANGED <<prog, code, stdinEof, sent, net, ch, op, stopped, conn>>

\* wait(): wait_eof().unwrap(), exit_status()?, wait_close().unwrap().
StartWait ==
  /\ op = "idle"
  /\ op' = "wait_eof"
  /\ UNCHANGED <<prog, code, stdinEof, sent, net, ch, reported, stopped, conn>>

\* Fault model: the status read before the EOF is awaited.
WaitEofSkipped ==
  /\ op = "wait_eof"
  /\ op' = "wait_close"
  /\ reported' = reported \cup {ExitStatus}
  /\ UNCHANGED <<prog, code, stdinEof, sent, net, ch, stopped, conn>>

\* wait_eof returns once EOF was seen; on a lost connection its error is
\* unwrapped and the task panics.
WaitEof ==
  /\ op = "wait_eof"
  /\ \/ ch.eof /\ op' = "wait_close" /\ reported' = reported \cup {ExitStatus}
     \/ ~ch.eof /\ Lost /\ op' = "panicked" /\ UNCHANGED reported
  /\ UNCHANGED <<prog, code, stdinEof, sent, net, ch, stopped, conn>>

WaitClose ==
  /\ op = "wait_close"
  /\ \/ ch.closed /\ op' = "done"
     \/ ~ch.closed /\ Lost /\ op' = "panicked"
  /\ UNCHANGED <<prog, code, stdinEof, sent, net, ch, reported, stopped, conn>>

\* A step of stop() ends the call with the error its ? returns.
StopErr ==
  /\ op' = "done" /\ stopped' = "Err"
  /\ UNCHANGED <<prog, code, stdinEof, sent, net, ch, reported, conn>>

\* Fault model: the check inverted, so a running program is not stopped.
StartStopEofInverted ==
  /\ op = "idle"
  /\ IF ~ch.eof THEN op' = "done" /\ stopped' = "Ok"
                ELSE op' = "stop_write" /\ UNCHANGED stopped
  /\ UNCHANGED <<prog, code, stdinEof, sent, net, ch, reported, conn>>

\* stop(): if !channel.eof(), write ^C, send_eof, wait_eof, wait_close;
\* an error of any of them is returned by ?.
StartStop ==
  /\ op = "idle"
  /\ IF ch.eof THEN op' = "done" /\ stopped' = "Ok"
               ELSE op' = "stop_write" /\ UNCHANGED stopped
  /\ UNCHANGED <<prog, code, stdinEof, sent, net, ch, reported, conn>>

\* write_all(b"\x03"): fails on a channel the server has closed.
StopWrite ==
  /\ op = "stop_write"
  /\ IF ch.closed \/ Lost
       THEN StopErr
       ELSE /\ op' = "stop_send_eof"
            /\ UNCHANGED <<prog, code, stdinEof, sent, net, ch, reported, stopped, conn>>

\* Fault model: the ^C alone, without send_eof.
StopSendEofSkipped ==
  /\ op = "stop_send_eof"
  /\ op' = "stop_wait_eof"
  /\ UNCHANGED <<prog, code, stdinEof, sent, net, ch, reported, stopped, conn>>

StopSendEof ==
  /\ op = "stop_send_eof"
  /\ IF ch.closed \/ Lost
       THEN StopErr
       ELSE /\ op' = "stop_wait_eof" /\ stdinEof' = TRUE
            /\ UNCHANGED <<prog, code, sent, net, ch, reported, stopped, conn>>

StopWaitEof ==
  /\ op = "stop_wait_eof"
  /\ \/ ch.eof /\ op' = "stop_wait_close"
        /\ UNCHANGED <<prog, code, stdinEof, sent, net, ch, reported, stopped, conn>>
     \/ ~ch.eof /\ Lost /\ StopErr

StopWaitClose ==
  /\ op = "stop_wait_close"
  /\ \/ ch.closed /\ op' = "done" /\ stopped' = "Ok"
        /\ UNCHANGED <<prog, code, stdinEof, sent, net, ch, reported, conn>>
     \/ ~ch.closed /\ Lost /\ StopErr

\* impl Drop: session.disconnect() under block_on, its result unwrapped.
\* The session is gone afterwards.  On a lost connection the disconnect
\* message may still be accepted by the socket or fail (a reset peer).
Drop ==
  /\ op \in {"idle", "done"}
  /\ \/ op' = "dropped"
     \/ Lost /\ op' = "panicked"
  /\ conn' = "lost" /\ net' = <<>>
  /\ UNCHANGED <<prog, code, stdinEof, sent, ch, reported, stopped>>

Init ==
  /\ prog = "running"
  /\ code = 0
  /\ stdinEof = FALSE
  /\ sent = [eof |-> FALSE, exit |-> FALSE, close |-> FALSE]
  /\ net = <<>>
  /\ ch = [eof |-> FALSE, status |-> None, closed |-> FALSE]
  /\ op = "idle"
  /\ reported = {}
  /\ stopped = "none"
  /\ conn = "up"

Remote == ProgExit \/ ProgExitOnStdinEof \/ ServerSendEof \/ ServerSendExitStatus
          \/ ServerSendClose \/ Receive \/ ConnLost
Client == ExitCode \/ StartWait \/ WaitEof \/ WaitClose \/ StartStop \/ StopWrite
          \/ StopSendEof \/ StopWaitEof \/ StopWaitClose \/ Drop

\* A call has returned (or panicked) and the channel has nothing left to do.
Settled ==
  /\ op \in {"done", "panicked", "dropped"}
  /\ Lost \/ (sent.close /\ net = <<>>)

Next == Remote \/ Client \/ (Settled /\ UNCHANGED vars)

(* The server and libssh2 process what they received, a program that     *)
(* ends on stdin EOF does so, and a call in progress keeps being polled.  *)
(* The program ending by itself, the connection breaking and the user     *)
(* starting a call are not assumed.                                       *)
Spec == Init /\ [][Next]_vars
        /\ WF_vars(ProgExitOnStdinEof) /\ WF_vars(ServerSendEof)
        /\ WF_vars(ServerSendExitStatus) /\ WF_vars(ServerSendClose) /\ WF_vars(Receive)
        /\ WF_vars(WaitEof) /\ WF_vars(WaitClose) /\ WF_vars(StopWrite)
        /\ WF_vars(StopSendEof) /\ WF_vars(StopWaitEof) /\ WF_vars(StopWaitClose)

-----------------------------------------------------------------------------
\* exit_code() and wait() only ever return the code the program really
\* ended with: a failing service is never reported as exit code 0.
ExitCodeTruthful ==
  \A r \in reported : prog = "exited" /\ r = code

\* stop() returns Ok only when the program has ended, whether it was
\* running when stop() was called (^C, send_eof and the waits) or had
\* already sent EOF (the early exit of the eof() check).
StopOkMeansStopped ==
  stopped = "Ok" => prog = "exited"

\* A call to stop() returns, Ok or Err, when the program ends on stdin EOF:
\* the ^C byte alone would leave wait_eof waiting forever.  A lost
\* connection makes it return Err.
StopReturns ==
  (op \in {"stop_write", "stop_send_eof", "stop_wait_eof", "stop_wait_close"})
    ~> (op = "done")

\* A lost connection never panics the deployment: wait() returns Result and
\* reports it as Err, as stop() does at the same awaits, and dropping the
\* LaunchedSshBinary afterwards does not unwrap a failed disconnect.
NeverPanics ==
  op # "panicked"
====
