------------------------------ MODULE MCSshHost ------------------------------
(***************************************************************************)
(* The SSH deployment host of hydro_deploy/core/src/ssh.rs in one run:     *)
(* concurrent copy_binary calls (SshCopyBinary), a launched binary's       *)
(* channel under exit_code, wait, stop and Drop (SshLaunchedBinary), and   *)
(* traced binaries through launch_binary and stop() (SshTracing).  The     *)
(* three models share no state; an initial choice of part says which one   *)
(* a behaviour runs, and each keeps its own fairness.                      *)
(***************************************************************************)
EXTENDS TLC

CONSTANTS
  Calls, Chunks, Retries, RenameOverwrites, RenameStatus,
  Codes, ExitStatusFirst, ExitsOnStdinEof,
  Binaries, Hosts, HostOf, HasSetup, RawOutfile,
  b1, b2, h1, h2

VARIABLES
  part,
  pc, tries, fs, result,
  prog, code, stdinEof, sent, net, ch, op, reported, stopped, conn,
  tpc, setupCode, proc, perfFile, raw, folded

C == INSTANCE SshCopyBinary
L == INSTANCE SshLaunchedBinary
T == INSTANCE SshTracing

cvars == <<pc, tries, fs, result>>
lvars == <<prog, code, stdinEof, sent, net, ch, op, reported, stopped, conn>>
tvars == <<tpc, setupCode, proc, perfFile, raw, folded>>
allVars == <<part, cvars, lvars, tvars>>

\* Each traced binary on a host of its own.
OneHostEach == (b1 :> h1) @@ (b2 :> h2)

Init == part \in {"copy", "launch", "trace"} /\ C!Init /\ L!Init /\ T!Init

CopyStep == part = "copy" /\ C!Next /\ UNCHANGED <<part, lvars, tvars>>
LaunchStep(A) == part = "launch" /\ A /\ UNCHANGED <<part, cvars, tvars>>
TraceStep == part = "trace" /\ T!TracingNext /\ UNCHANGED <<part, cvars, lvars>>

Next == CopyStep \/ LaunchStep(L!Next) \/ TraceStep

\* SshLaunchedBinary's fairness, on its steps.
Spec == Init /\ [][Next]_allVars
        /\ WF_allVars(LaunchStep(L!ProgExitOnStdinEof))
        /\ WF_allVars(LaunchStep(L!ServerSendEof))
        /\ WF_allVars(LaunchStep(L!ServerSendExitStatus))
        /\ WF_allVars(LaunchStep(L!ServerSendClose))
        /\ WF_allVars(LaunchStep(L!Receive))
        /\ WF_allVars(LaunchStep(L!WaitEof))
        /\ WF_allVars(LaunchStep(L!WaitClose))
        /\ WF_allVars(LaunchStep(L!StopWrite))
        /\ WF_allVars(LaunchStep(L!StopSendEof))
        /\ WF_allVars(LaunchStep(L!StopWaitEof))
        /\ WF_allVars(LaunchStep(L!StopWaitClose))

-----------------------------------------------------------------------------
\* The properties of the three models, stated there.
TypeOK == C!TypeOK
BinaryIntact == C!BinaryIntact
OkMeansInstalled == C!OkMeansInstalled
NoTempLeftOnOk == C!NoTempLeftOnOk
ExitCodeTruthful == L!ExitCodeTruthful
StopOkMeansStopped == L!StopOkMeansStopped
StopReturns == L!StopReturns
ProfileOwn == T!ProfileOwn
====
