---------------------------- MODULE SshCopyBinary ----------------------------
(***************************************************************************)
(* LaunchedHost::copy_binary of hydro_deploy/core/src/ssh.rs (344-412):    *)
(* concurrent calls that install the same binary (same unique_id, hence    *)
(* the same binary_path) on one host.  Each call is an async task whose    *)
(* awaits interleave with the other calls' at the SFTP server:             *)
(*   open_ssh_session and sftp() under async_retry(10);                   *)
(*   stat(binary_path): if it errs, upload to a fresh temp path            *)
(*   (nanoid!(8)): create, write in 128 KiB chunks, stat, setstat 0o755,   *)
(*   close, rename onto binary_path; SFTP(4) from rename means "file       *)
(*   already exists" and the temp file is unlinked.                        *)
(* Every await with ? may fail and return Err, leaving the remote files as *)
(* they are.  The remote file system maps a path to its size in chunks and *)
(* whether it is executable; the bytes are the same for every call.        *)
(***************************************************************************)
EXTENDS Naturals, FiniteSets, Functions

CONSTANTS
  Calls,            \* the concurrent copy_binary calls
  Chunks,           \* bin_data.len() in write() chunks (at least 1)
  Retries,          \* the count given to async_retry (10)
  RenameOverwrites, \* the server's rename replaces an existing target
  RenameStatus      \* the SFTP statuses a failing rename may report

BinPath == <<"bin", "binary_path">>
TempPath(c) == <<"temp", c>>
Paths == {BinPath} \cup {TempPath(c) : c \in Calls}

\* SFTP status codes (draft-ietf-secsh-filexfer): 4 is SSH_FX_FAILURE.
FX_FAILURE == 4

VARIABLES
  pc,     \* [Calls -> the await each call is at]
  tries,  \* [Calls -> attempts of the current async_retry]
  fs,     \* the remote files: [Paths present -> [size, exec]]
  result  \* [Calls -> "none" | "Ok" | "Err"]

vars == <<pc, tries, fs, result>>

File(size, exec) == [size |-> size, exec |-> exec]

\* fs with path p set to file f, or removed.
Put(p, f) == [q \in DOMAIN fs \cup {p} |-> IF q = p THEN f ELSE fs[q]]
Remove(p) == RestrictDomain(fs, LAMBDA q : q # p)

Return(c, r) ==
  /\ pc' = [pc EXCEPT ![c] = "done"]
  /\ result' = [result EXCEPT ![c] = r]

Goto(c, l) == pc' = [pc EXCEPT ![c] = l]

-----------------------------------------------------------------------------
\* open_ssh_session / sftp() under async_retry: an attempt succeeds, or it
\* fails and is retried after a second, and the count-th failure is
\* returned.
RetryOk(c, next) ==
  /\ pc[c] \in {"session", "sftp"}
  /\ Goto(c, next)
  /\ tries' = [tries EXCEPT ![c] = 0]
  /\ UNCHANGED <<fs, result>>

\* Fault model: one attempt more than the count.
RetryFailOneMore(c) ==
  /\ pc[c] \in {"session", "sftp"}
  /\ tries' = [tries EXCEPT ![c] = @ + 1]
  /\ IF tries[c] = Retries THEN Return(c, "Err") ELSE UNCHANGED <<pc, result>>
  /\ UNCHANGED fs

RetryFail(c) ==
  /\ pc[c] \in {"session", "sftp"}
  /\ tries' = [tries EXCEPT ![c] = @ + 1]
  /\ IF tries[c] + 1 = Retries THEN Return(c, "Err") ELSE UNCHANGED <<pc, result>>
  /\ UNCHANGED fs

OpenSession(c) == pc[c] = "session" /\ RetryOk(c, "sftp")
OpenSftp(c)    == pc[c] = "sftp" /\ RetryOk(c, "stat")

\* Fault model: the check inverted (is_ok), so a missing binary is not
\* uploaded.
StatInverted(c) ==
  /\ pc[c] = "stat"
  /\ IF BinPath \in DOMAIN fs THEN Goto(c, "create") /\ UNCHANGED result
                              ELSE Return(c, "Ok")
  /\ UNCHANGED <<tries, fs>>

\* if sftp.stat(&binary_path).await.is_err(): a present binary ends the
\* call; a missing one, or a failing stat, starts the upload.
Stat(c) ==
  /\ pc[c] = "stat"
  /\ \/ BinPath \in DOMAIN fs /\ Return(c, "Ok")
     \/ Goto(c, "create") /\ UNCHANGED result
  /\ UNCHANGED <<tries, fs>>

\* sftp.create(&temp_path): a new empty file, not yet executable.
Create(c) ==
  /\ pc[c] = "create"
  /\ fs' = Put(TempPath(c), File(0, FALSE))
  /\ Goto(c, "write")
  /\ UNCHANGED <<tries, result>>

\* One created_file.write of the while loop; the loop ends when index
\* reaches bin_data.len().
Write(c) ==
  /\ pc[c] = "write"
  /\ fs[TempPath(c)].size < Chunks
  /\ fs' = [fs EXCEPT ![TempPath(c)].size = @ + 1]
  /\ IF fs[TempPath(c)].size + 1 = Chunks THEN Goto(c, "stat_tmp") ELSE UNCHANGED pc
  /\ UNCHANGED <<tries, result>>

\* Fault model: the permissions are never set.
StatTmpNoSetstat(c) ==
  /\ pc[c] = "stat_tmp"
  /\ Goto(c, "close")
  /\ UNCHANGED <<tries, fs, result>>

\* sftp.stat(&temp_path), then created_file.setstat with perm 0o755.
StatTmp(c) ==
  /\ pc[c] = "stat_tmp"
  /\ Goto(c, "setstat")
  /\ UNCHANGED <<tries, fs, result>>

SetStat(c) ==
  /\ pc[c] = "setstat"
  /\ fs' = [fs EXCEPT ![TempPath(c)].exec = TRUE]
  /\ Goto(c, "close")
  /\ UNCHANGED <<tries, result>>

Close(c) ==
  /\ pc[c] = "close"
  /\ Goto(c, "rename")
  /\ UNCHANGED <<tries, fs, result>>

\* sftp.rename(&temp_path, binary_path, None): the temp file replaces or
\* takes the binary path; onto an existing binary without overwrite it
\* fails with SFTP(4).
RenameOk(c) ==
  /\ pc[c] = "rename"
  /\ BinPath \notin DOMAIN fs \/ RenameOverwrites
  /\ fs' = [q \in (DOMAIN fs \ {TempPath(c)}) \cup {BinPath} |->
              IF q = BinPath THEN fs[TempPath(c)] ELSE fs[q]]
  /\ Return(c, "Ok")
  /\ UNCHANGED tries

\* A failing rename reports status s; the match arm for SFTP(4) unlinks the
\* temp file, any other error is returned.
RenameErr(c) ==
  /\ pc[c] = "rename"
  /\ \E s \in (IF BinPath \in DOMAIN fs /\ ~RenameOverwrites THEN {FX_FAILURE} ELSE {})
                \cup RenameStatus :
       IF s = FX_FAILURE THEN Goto(c, "unlink") /\ UNCHANGED result
                         ELSE Return(c, "Err")
  /\ UNCHANGED <<tries, fs>>

\* Fault model: the temp file is kept after SFTP(4).
UnlinkSkipped(c) ==
  /\ pc[c] = "unlink"
  /\ Return(c, "Ok")
  /\ UNCHANGED <<tries, fs>>

\* sftp.unlink(&temp_path), then anyhow::Ok(()).
Unlink(c) ==
  /\ pc[c] = "unlink"
  /\ fs' = Remove(TempPath(c))
  /\ Return(c, "Ok")
  /\ UNCHANGED tries

\* An await with ? after the session is open fails (connection loss,
\* quota, permissions): the call returns Err and leaves the files as they
\* are.
Fail(c) ==
  /\ pc[c] \in {"create", "write", "stat_tmp", "setstat", "close", "unlink"}
  /\ Return(c, "Err")
  /\ UNCHANGED <<tries, fs>>

Init ==
  /\ pc = [c \in Calls |-> "session"]
  /\ tries = [c \in Calls |-> 0]
  /\ fs = [p \in {} |-> File(0, FALSE)]
  /\ result = [c \in Calls |-> "none"]

Finished == \A c \in Calls : pc[c] = "done"

Next ==
  \/ \E c \in Calls :
       \/ OpenSession(c) \/ OpenSftp(c) \/ RetryFail(c) \/ Stat(c)
       \/ Create(c) \/ Write(c) \/ StatTmp(c) \/ SetStat(c) \/ Close(c)
       \/ RenameOk(c) \/ RenameErr(c) \/ Unlink(c) \/ Fail(c)
  \/ Finished /\ UNCHANGED vars

\* Each call is a task the tokio runtime keeps polling.
Spec == Init /\ [][Next]_vars /\ WF_vars(Next)

-----------------------------------------------------------------------------
Labels == {"session", "sftp", "stat", "create", "write", "stat_tmp", "setstat",
           "close", "rename", "unlink", "done"}

TypeOK ==
  /\ pc \in [Calls -> Labels]
  /\ tries \in [Calls -> 0..Retries]
  /\ DOMAIN fs \subseteq Paths
  /\ \A p \in DOMAIN fs : fs[p] \in [size : 0..Chunks, exec : BOOLEAN]
  /\ result \in [Calls -> {"none", "Ok", "Err"}]

\* Whatever the interleaving of the calls and wherever one fails, a binary
\* at binary_path is whole and executable: the write loop, setstat and
\* close all precede the rename that publishes it.
BinaryIntact ==
  BinPath \in DOMAIN fs => fs[BinPath] = File(Chunks, TRUE)

\* copy_binary returns Ok only when the binary is installed: either it was
\* found by stat, or this call's rename, or a concurrent call's (the SFTP(4)
\* arm), put it there.
OkMeansInstalled ==
  \A c \in Calls : result[c] = "Ok" => BinPath \in DOMAIN fs

\* A call that returns Ok leaves no temp file behind: the temp file is
\* renamed away or unlinked in the SFTP(4) arm.
NoTempLeftOnOk ==
  \A c \in Calls : result[c] = "Ok" => TempPath(c) \notin DOMAIN fs
====
