------------------------------ MODULE SshTracing ------------------------------
(***************************************************************************)
(* Profiling of binaries launched over SSH (hydro_deploy/core/src/ssh.rs): *)
(* launch_binary with TracingOptions (421-468) and the perf                *)
(* post-processing of stop() (117-213), for several binaries placed on     *)
(* hosts.                                                                  *)
(*   launch_binary opens the session and the channel; with a              *)
(*   setup_command it runs it on a second channel and bails if its exit    *)
(*   code is not 0; then it execs "perf record ... -o __profile.perf.data  *)
(*   <binary>", a path relative to the SSH user's home directory.          *)
(*   stop() stops the channel (^C, send_eof, the waits; modelled in        *)
(*   SshLaunchedBinary), then downloads PERF_OUTFILE over SFTP when        *)
(*   perf_raw_outfile is set, runs "perf script -i PERF_OUTFILE" on a new  *)
(*   channel and folds its output into tracing_results.                    *)
(* perf record moves an existing output file aside when it starts and      *)
(* writes the header of its own file when the traced program ends.  The    *)
(* setup channel's exit status is read right after wait_eof: when the      *)
(* server sends EOF before exit-status, the read may still see libssh2's   *)
(* 0.  perf starts only when the setup (which installs it) succeeded.      *)
(* Every await with ? may fail; the awaits of one step are one action.     *)
(***************************************************************************)
EXTENDS Integers

CONSTANTS
  Binaries,         \* the launched binaries, each with TracingOptions
  Hosts,            \* the SSH hosts
  HostOf,           \* [Binaries -> Hosts]: where each binary is launched
  Codes,            \* exit codes of the setup command (0 among them)
  ExitStatusFirst,  \* the server sends exit-status before CHANNEL_EOF
  HasSetup,         \* setup_command is Some
  RawOutfile        \* perf_raw_outfile is Some

ASSUME HostOf \in [Binaries -> Hosts] /\ 0 \in Codes

\* The contents of ~/__profile.perf.data: whose perf record wrote it, and
\* whether that perf has written its header (the traced program ended).
Profile(r, d) == [run |-> r, done |-> d]
NoFile == Profile("none", FALSE)        \* no such file on the host
NotCollected == Profile("unset", FALSE)  \* stop() has not got that far
Leftover == Profile("previous", TRUE)   \* written by an earlier deployment
NoCode == -1

VARIABLES
  tpc,       \* [Binaries -> step]: where launch_binary and stop() are
  setupCode, \* [Binaries -> the setup command's real exit code, or NoCode]
  proc,      \* [Binaries -> "none" | "recording" | "exited"]: perf and binary
  perfFile,  \* [Hosts -> Profile]: ~/__profile.perf.data on each host
  raw,       \* [Binaries -> Profile]: what was downloaded to perf_raw_outfile
  folded     \* [Binaries -> Profile]: what tracing_results was folded from

tvars == <<tpc, setupCode, proc, perfFile, raw, folded>>

Goto(b, l) == tpc' = [tpc EXCEPT ![b] = l]
Fail(b, l) == Goto(b, l) /\ UNCHANGED <<setupCode, proc, perfFile, raw, folded>>

\* The header of b's profile is written, if b's file is still at the path.
Finalize(b) ==
  LET h == HostOf[b] IN
  perfFile' = IF perfFile[h].run = b
                THEN [perfFile EXCEPT ![h].done = TRUE] ELSE perfFile

-----------------------------------------------------------------------------
\* open_ssh_session and create_channel (each under async_retry).
Launch(b) ==
  /\ tpc[b] = "launch"
  /\ \/ Goto(b, IF HasSetup THEN "setup" ELSE "exec")
        /\ UNCHANGED <<setupCode, proc, perfFile, raw, folded>>
     \/ Fail(b, "launch_err")

\* The setup channel: exec, wait_eof, exit_status()?, wait_close, and the
\* bail on a non-zero code.
Setup(b) ==
  /\ tpc[b] = "setup"
  /\ \/ \E c \in Codes :
          LET read == IF ExitStatusFirst THEN {c} ELSE {c, 0} IN
          /\ setupCode' = [setupCode EXCEPT ![b] = c]
          /\ \E r \in read : Goto(b, IF r # 0 THEN "launch_err" ELSE "exec")
          /\ UNCHANGED <<proc, perfFile, raw, folded>>
     \/ Fail(b, "launch_err")

\* channel.exec("perf record ... -o __profile.perf.data <binary>"): perf
\* moves a file at the path aside and creates its own; without perf
\* installed the command ends at once and the file is left as it was.
ExecPerf(b) ==
  /\ tpc[b] = "exec"
  /\ \/ /\ Goto(b, "launched")
        /\ IF setupCode[b] \in {0, NoCode}
             THEN /\ proc' = [proc EXCEPT ![b] = "recording"]
                  /\ perfFile' = [perfFile EXCEPT ![HostOf[b]] = Profile(b, FALSE)]
             ELSE /\ proc' = [proc EXCEPT ![b] = "exited"]
                  /\ UNCHANGED perfFile
        /\ UNCHANGED <<setupCode, raw, folded>>
     \/ Fail(b, "launch_err")

\* The traced program ends by itself; perf writes its header and exits.
ProgEnd(b) ==
  /\ proc[b] = "recording"
  /\ proc' = [proc EXCEPT ![b] = "exited"]
  /\ Finalize(b)
  /\ UNCHANGED <<tpc, setupCode, raw, folded>>

\* Fault model: the ? after the force-stopping leaf dropped, so an Err of
\* the channel steps goes on to the post-processing.
StopChannelErrIgnored(b) ==
  /\ tpc[b] = "launched"
  /\ \/ /\ proc[b] = "recording"
        /\ proc' = [proc EXCEPT ![b] = "exited"]
        /\ Finalize(b)
     \/ UNCHANGED <<proc, perfFile>>
  /\ Goto(b, IF RawOutfile THEN "download" ELSE "script")
  /\ UNCHANGED <<setupCode, raw, folded>>

\* stop(): if the channel saw no EOF, ^C, send_eof, wait_eof and wait_close
\* (Ok only once the program has ended), each with ?.
StopChannel(b) ==
  /\ tpc[b] = "launched"
  /\ \/ /\ proc' = [proc EXCEPT ![b] = "exited"]
        /\ IF proc[b] = "recording" THEN Finalize(b) ELSE UNCHANGED perfFile
        /\ Goto(b, IF RawOutfile THEN "download" ELSE "script")
        /\ UNCHANGED <<setupCode, raw, folded>>
     \/ Fail(b, "stop_err")

\* sftp() under async_retry, open(PERF_OUTFILE), File::create, stat and the
\* read loop: a copy of whatever is at the path now.
Download(b) ==
  /\ tpc[b] = "download"
  /\ \/ /\ perfFile[HostOf[b]] # NoFile
        /\ raw' = [raw EXCEPT ![b] = perfFile[HostOf[b]]]
        /\ Goto(b, "script")
        /\ UNCHANGED <<setupCode, proc, perfFile, folded>>
     \/ Fail(b, "stop_err")

\* channel_session, exec("perf script -i PERF_OUTFILE") and the collapse of
\* its stdout; tracing_results is set, then handle_fold_data writes it out
\* (its ? may still return Err).  With no file perf script prints nothing
\* to stdout and the folded data is empty.
Script(b) ==
  /\ tpc[b] = "script"
  /\ \/ /\ folded' = [folded EXCEPT ![b] = perfFile[HostOf[b]]]
        /\ \E r \in {"stop_ok", "stop_err"} : Goto(b, r)
        /\ UNCHANGED <<setupCode, proc, perfFile, raw>>
     \/ Fail(b, "stop_err")

Init ==
  /\ tpc = [b \in Binaries |-> "launch"]
  /\ setupCode = [b \in Binaries |-> NoCode]
  /\ proc = [b \in Binaries |-> "none"]
  /\ perfFile \in [Hosts -> {NoFile, Leftover}]
  /\ raw = [b \in Binaries |-> NotCollected]
  /\ folded = [b \in Binaries |-> NotCollected]

\* Every launch and stop has returned, or a binary is left running.
TracingSettled ==
  \A b \in Binaries : tpc[b] \in {"launch_err", "launched", "stop_err", "stop_ok"}

TracingNext ==
  \/ \E b \in Binaries :
       \/ Launch(b) \/ Setup(b) \/ ExecPerf(b) \/ ProgEnd(b)
       \/ StopChannel(b) \/ Download(b) \/ Script(b)
  \/ TracingSettled /\ UNCHANGED tvars

TracingSpec == Init /\ [][TracingNext]_tvars

-----------------------------------------------------------------------------
\* The profile stop() downloads and the one it folds into tracing_results
\* are both the complete profile of this binary's own perf run: not an
\* unfinished file, not another binary's, and not a leftover of an earlier
\* deployment, which only a perf record that really started (its setup,
\* installing perf, checked for exit code 0) moves aside.
ProfileOwn ==
  \A b \in Binaries :
    /\ raw[b] \in {NotCollected, Profile(b, TRUE)}
    /\ folded[b] \in {NotCollected, Profile(b, TRUE)}
====
