# TLA+ models of the Hydro compile pipeline

This directory holds TLA+ models of the Hydro repository (the sources under `src/`). TLC checks them. The models cover the part of Hydro that
turns a dataflow IR graph into per-location DFIR programs, and that wires the network edges
between locations. The sections below give the inventory, the plan, what is checked, and what is not modelled.

## 1. The system

| Part | Source | State and operations |
|---|---|---|
| IR graph | `hydro_lang/src/ir.rs` 103-477 | The `HydroNode` variants own their inputs through `Box`. A `Tee` holds an `Rc<RefCell<HydroNode>>`, which is a *cell* whose pointer is its identity. `HydroLeaf` is ForEach, DestSink or CycleSink. `Placeholder` is the transient sentinel. |
| Traversal | ir.rs 157-184, 549-657 | `transform_children` visits the boxed children in order. A Tee consults `SeenTees`, a map from the original cell to the new cell. On a miss it allocates a new cell holding Placeholder and memoises it. It then moves the node out of the old cell (the old cell keeps a Placeholder), transforms the node, stores it in the new cell and redirects the Tee. |
| Network synthesis | ir.rs 132-155, 483-535, 1397-1568 | `compile_network` runs post-order. Every `Network` in state `Building` goes through `instantiate_network`, which looks up providers, allocates ports and registers external keys. It panics on Tick, on E→E, on unregistered ids, on a missing key, and on E↔C (todo). The node becomes `Finalized(sink, source, Some(connect_fn))`, and a second finalize panics. `connect_network` calls `connect_fn.take().unwrap()()`. |
| Locations | `location/external_process.rs`; `LocationId` (not under src) | `Process`, `Cluster`, `ExternalProcess`, and `Tick(id, inner)` with `root()`. `source_external_bytes`/`_bincode` build `Persist(Network(Source ExternalNetwork))` with a fresh `next_external_out` port as `from_key`. |
| Emission | ir.rs 187-255, 660-1358 | `emit` lowers every leaf. It threads three pieces of state: `graph_builders` (a `BTreeMap<usize, FlatGraphBuilder>` keyed by the bare location id), `built_tees` (a memo keyed by cell) and `next_stmt_id` (one counter for all locations). An operand wrapped directly in `Persist` gets a `'static` lifetime in Join and CrossProduct (both sides), in Difference and AntiJoin (the neg side only), and in Fold and Reduce. Network emits the sender half at the input's location and the receiver half, with a fresh id, at `to_location`. CycleSink asserts that its root is the input's location. |
| Cycle markers | `hydro_lang/src/cycle.rs` | `ForwardRef` and `TickCycle` carry a `completed` flag, and dropping an incomplete one panics. `complete_next_tick` wraps the stream in `defer_tick`. |
| Keyed aggregation | `dfir_lang/src/graph/ops/fold_keyed.rs` | A hash table whose persistence rule decides its output. Tick/None drains it. Loop iterates it. Static replays it on the first run of a tick. Mutable applies Persist/Delete entries and outputs on every run. There is a Stratum barrier on the input, and Static/Mutable reschedule the subgraph lazily. |
| defer_tick_lazy | `hydroflow_lang/.../defer_tick_lazy.rs` | Operator constraints: a TickLazy delay and an identity write. |
| SSH host | `hydro_deploy/core/src/ssh.rs` | `copy_binary` does stat, then a temp upload, setstat and rename; on SFTP(4) it unlinks the temp file. Other parts: `deploy_stdout` (one receiver), `forward_port` (one connection), `async_retry` (10 tries), and `stop` (^C, then the perf download). The launched program's channel is read by `exit_code`, `wait` and `stop`, and `Drop` disconnects the session. With `TracingOptions`, `launch_binary` first runs a setup command and then wraps the binary in `perf record -o __profile.perf.data`; `stop` downloads that file and folds the output of `perf script`. |
| Retwis flow | `hydro_test/src/cluster/ved_retwis_2.rs` | A cluster of clients each runs a `source_iter`: createAccount, then random followUser, post and readOwnTimeline. The stream is cloned into four filters, and op k is sent to coordinator k. Each coordinator's `for_each` prints the operation and reads `args[0]`. Coordinators 1-3 also read `args[1]`. |
| Plumbing, examples, macros | hydroflow builders, `dfir_rs/examples`, `hydroflow_internalmacro`, `hydro_test` | No state of their own. The retwis flows also give the graph shapes of the MC instances. |

The parts interact in this order:

1. Flow building creates the graph, with Networks in `Building`.
2. `compile_network` finalizes every Network, with a fresh `SeenTees`.
3. `connect_network` calls each `connect_fn`, with another fresh `SeenTees`.
4. `emit` lowers the graph, using `built_tees`.

The persistence rule of fold_keyed is what the `'static`/`'tick` lifetimes chosen in emission select.

## 2. Modules

* **IRGraph.tla**: the graph as CONSTANTS. It has the node ids, `Kind`, `Children`, each Tee's initial cell `TeeCell0`, the initial cell contents `CellContent0` and the leaves. `ReachFrom` (RECURSIVE) is the set of nodes a traversal reaches.
* **Location.tla**: `LocationId` as records, with RECURSIVE `Root`.
* **NetworkSynthesis.tla**: both passes of `transform_children`. The recursion is an explicit stack of frames.
  * Variables:
    * `cell`/`teeCell`/`nextCell`: the Rc cells and the Tee pointers.
    * `seenTees`.
    * `inst`: Building or Finalized.
    * `connectFn`: the Option.
    * `compiled`/`connected`: how many times each Network was instantiated and connected.
    * `registered`: the external ports.
    * `panicked`.
  * Actions, one per arm:
    * `Descend`: a boxed child.
    * `TeeHit`, `TeeMiss` and `TeeFinish`: the three steps of the Tee arm.
    * `FinishNode`: a node that is not a Network.
    * `CompileNetwork`: `instantiate_network` with every panic, in match order.
    * `ConnectNetwork`.
    * `StartLeaf` and `EndPass`: the driver.
  * `Init` is the graph the flow builder produces. Its Network endpoints range over `EndpointChoices`.
* **Emission.tla**: `emit` as an explicit stack of frames. Each frame collects the `(ident, location key)` results of its inputs.
  * Variables: `builders` (statements per key), `builtTees`, `nextStmtId`, `teeResults` and `panicked`.
  * A statement keeps its node, the idents it defines, the idents it reads, and the lifetimes of its inputs. The DFIR text is left out.
  * Actions, one per arm group:
    * `LowerSource` and `LowerCycleSource`.
    * `TeeHit`, `TeeMiss` and `LowerTee`.
    * `LowerUnary` and `LowerBinary` (with the location assert).
    * `LowerNetwork`.
    * `LowerLeaf`.
    * `Descend`, which carries the Unpersist and not-finalized panics that happen before any input is emitted.
* **KeyedAggregate.tla**: what fold_keyed promises its consumer, per persistence, at the level of ticks. The variables are `policy`, the accumulated table `acc`, the entries of the current tick `batch`, the number of outputs in the tick `published`, and the last output `out`. The actions are:
  * `Receive`: an entry arrives before the tick's first output.
  * `Publish`: the first output, the retained table folded with the whole batch.
  * `Republish`: a later output, with the same table. It is not allowed under Static.
  * `NextTick`: the tick ends. A tick with entries, or with a non-empty retained table, must have produced an output first.
* **FoldKeyed.tla**: the code that fold_keyed.rs generates, run by the scheduler.
  * Variables: `persistence`, `phase` (the producer's stratum or the operator's), the `handoff`, the hash `table`, `runs` and `emits` in the tick, `out`, and `sched`/`resched` (scheduled now, and lazily rescheduled for the next tick).
  * `Activate` is one run of the subgraph. It applies the Persist/Delete loop (`Absorb`), then the output rule of `iter_expr` (`Outputs`, `AfterOutput` for `drain()`), then `write_iterator_after` (`Reschedules`).
  * `EndTick` applies the lifespan hook (`Lifespan`) and starts the lazy reschedule.
  * `Barrier` is `DelayType::Stratum`.
  * `Produce` and `Reactivate` are the scheduler's side, which is not under `src/`. They are modelled from the spec.
  * `KA` instantiates KeyedAggregate with the refinement mapping `table -> acc`, `handoff -> batch`, `emits -> published`.
* **SshCopyBinary.tla**: `copy_binary` (ssh.rs 344-412), with several calls for one binary running concurrently on one host.
  * Variables: each call's `pc` (the await it is at), its `tries` in the current `async_retry`, its `result`, and the remote files `fs` (a path maps to its size in write chunks and whether it is executable).
  * There is one action per await: `OpenSession`, `OpenSftp`, `RetryFail`, `Stat`, `Create`, `Write`, `StatTmp`, `SetStat`, `Close`, `RenameOk`, `RenameErr` and `Unlink`.
  * `Fail` is the `?` of any later await returning Err.
  * Two constants describe the server's rename: `RenameOverwrites` (it replaces an existing target) and `RenameStatus` (the statuses it may report on failure).
* **SshLaunchedBinary.tla**: the channel of a program started by `launch_binary` (ssh.rs 421-468). The program is run with `exec` and no pty. It is observed through `exit_code` (100-107), `wait` (109-115) and `stop` (117-127).
  * Remote state:
    * `prog` and `code`: the program, running or exited, and its exit code.
    * `stdinEof`: our `send_eof` reached the server.
    * `sent`: which of CHANNEL_EOF, exit-status and CHANNEL_CLOSE the server has sent.
    * `net`: the messages libssh2 has not yet processed, in order.
  * Client state:
    * `ch`: libssh2's channel, that is EOF seen, the received status (`None` until one arrives) and closed.
    * `op`: the call in progress and its await.
    * `reported`: the codes `exit_code`/`wait` returned.
    * `stopped`: `stop`'s result.
    * `conn`: the session's TCP connection, up or lost.
  * Remote actions, modelled from RFC 4254 because the SSH server and libssh2 are not under `src/`:
    * `ProgExit`: the program ends by itself.
    * `ProgExitOnStdinEof`: a hydro service ends when its stdin closes.
    * `ServerSendEof`, `ServerSendExitStatus` and `ServerSendClose`, with close after both.
    * `Receive`.
    * `ConnLost`: the connection breaks and the messages in flight are lost. From then on, an await that needs the socket fails, and one whose condition libssh2 already holds returns at once.
  * The constant `ExitStatusFirst` says whether the server always sends exit-status before EOF.
  * Client actions, one per await: `ExitCode`; `StartWait`, `WaitEof`, `WaitClose`; `StartStop` (the `!eof()` check), `StopWrite` (the ^C byte), `StopSendEof`, `StopWaitEof` and `StopWaitClose`. An await on a closed channel, or after `ConnLost`, returns Err through `?` in `stop` (`StopErr`). In `wait` the error is unwrapped, and the model marks the call `panicked`. `Drop` (217-225), once no call is in progress, disconnects the session and unwraps the result; on a lost connection the disconnect may fail, which is a panic. `ExitStatus` is libssh2's `exit_status()`, which is 0 while no status has arrived.
* **SshTracing.tla**: profiling over SSH, for several binaries placed on hosts by `HostOf`. Modelled from `launch_binary` with `TracingOptions` (ssh.rs 421-468) and from the post-processing of `stop` (117-213).
  * State: `tpc` (the step of each binary's `launch_binary` and `stop`), `setupCode` (the setup command's real exit code), `proc` (perf and the binary: never run, recording, exited), `perfFile` (for each host, whose perf wrote `~/__profile.perf.data` and whether its header is written), and `raw`/`folded` (the profile `stop` downloaded and the one it folded into `tracing_results`).
  * Actions: `Launch` (session and channel); `Setup` (the setup channel, with the exit status read right after `wait_eof`, so 0 may be read when the server sends EOF first); `ExecPerf` (perf moves a file at the path aside and creates its own; without a successful setup, perf is not there and the command ends at once); `ProgEnd` (perf writes its header, if its file is still at the path); `StopChannel` (the force-stopping steps, Ok only once the program ended, else Err through `?`); `Download`; `Script` (sets `tracing_results`, then `handle_fold_data` may still fail). Each may fail with Err. The channel steps are abstracted to their outcome; SshLaunchedBinary models them message by message.
* **MCSshHost.tla**: SshCopyBinary, SshLaunchedBinary and SshTracing in one run. They share no state. An initial choice of `part` picks the model a behaviour runs, and SshLaunchedBinary's fairness applies to its steps only. **MCSshTracing.tla** puts two traced binaries on one host.
* **Retwis2.tla**: the `ved_retwis_2` flow once it is deployed.
  * State:
    * `prog`: what each member's `source_iter` yields, chosen in `Init` from `Programs`, that is createAccount followed by `NumRandom` draws of `RandomOp`.
    * `emitted`: how far each member has got through it.
    * `chan`: one FIFO connection per (member, coordinator). The hydro_deploy transport is not under `src/`, and a TCP connection per pair is assumed.
    * `handled`: what each coordinator printed, with the sender's tag.
    * `panicked`.
  * Actions:
    * `Emit`: the next item passes through the four clones, and each `OpFilter` that accepts it sends it.
    * `Handle`: a coordinator takes the head of one connection and runs its `for_each`. Indexing `args[1]` on a one-element args panics (`IndexesArg1`, `ArgCount`).
  * Usernames are client ids. The password and the hashtag are abstracted to `NoArg`.
* **CycleMarkers.tla**: the handles of cycle.rs while a flow is built.
  * Variables: each handle's `state` (none, open, completed or dropped), its `expected` location, the CycleSink leaves `sinks`, and the builder `status`.
  * Actions:
    * `Declare`, modelled from the spec, since the constructors are not under `src/`.
    * `Complete` and `CompleteNextTick`. They share `Bind`: set the flag, then `S::complete` checks the location and adds the sink.
    * `DropHandle`.
    * `Finalize`, which drops the handles left in scope.
    * `Unwind`: a second panic from `Drop` aborts the process.
  * MCCycleMarkers declares one ForwardRef and one TickCycle over two locations.
* **MCNetworkSynthesis.tla / MCEmission.tla**: instances of the graph for TLC.
  * A cluster source (node 1) is cloned through cell 1 into filters and sent to two processes, as in `ved_retwis_2`.
  * A process source is sent to a coordinator and the result is cloned through cell 2, as in `ved_retwis`.
  * An external bincode source is wrapped in Persist, as `source_external_bincode` builds it.
  * A Chain of a third clone with a CycleSource closes a cycle.
  * MCEmission adds a Join of `Persist(Tee)` with a Tee of a third cell, and a Fold over a Persist. It also puts the cycle at `Tick(0, Cluster 1)`, where TickCycle places it.

Each fault-model operator sits just before the definition it could replace and is marked "Fault model". These operators are not part of `Next`. Each one is a plausible bug in the mapped code, and each property is shown to catch one of them (see `mutants` in PROJECT.json).

## 3. Runs

| Run | What it checks | Result |
|---|---|---|
| `net_wellformed` (MCNetworkSynthesis.cfg) | Two families of initial graphs in one run: the retwis-shaped graph in all 720 leaf orders, and Network 9 between every pair of six locations, with and without keys, in two orders. `AbortsOnlyOnBadEdge`: a panic (second finalize, Placeholder walk, connect of a Building node, unsupported edge) happens only if some reachable edge is unsupported, judged by an independent table of supported shapes and provider ids; `NoSilentTransport`: no step finalizes an unsupported edge; `EveryEdgeWiredOnce` (at the end, every reachable Network was instantiated once and its connect_fn called once); `SharingPreserved` (after each pass, two Tees share a cell iff they did before, and the cell holds the original node); `TypeOK` | pass, 56 102 states |
| `emit_wellformed` (MCEmission.cfg) | `NoPanic`; `TeeLoweredOnce` (one tee() statement per cell, and all Tees of a cell return its ident); `ProgramsSelfContained` (every stream read is defined earlier in the same location's program, and every cycle ident read is defined there by the end); `TypeOK` | pass, 297 360 states, all 5 040 leaf orders |
| `fold_persistence` (MCFoldKeyed.cfg) | All four persistences, two keys, values {1, 2}, three entries (Delete too under Mutable), up to two runs per tick. `ImplementsKeyedAggregate`: every behaviour of the operator is one of KeyedAggregate's, so outputs are never stale, never early and never replayed twice under Static. `ReplayEventually`: under Static and Mutable, a key in the table is eventually output again, in a later tick too. `TypeOK`. | pass, 3 153 states |
| `ssh_host` (MCSshHost.cfg) | The three SSH models in one run. SshCopyBinary: two calls, two chunks, `async_retry` count 10; the server's rename fails with SFTP(4) exactly when the target exists, and otherwise only with a connection error. `BinaryIntact`: a file at binary_path is always whole and executable. `OkMeansInstalled`: Ok is returned only with the binary in place. `NoTempLeftOnOk`: a call that returns Ok leaves no temp file. `TypeOK`. SshLaunchedBinary: exit codes {0, 1}; the server sends exit-status before EOF, and the program ends on stdin EOF. `ExitCodeTruthful`: `exit_code`/`wait` only return the program's real exit code. `StopOkMeansStopped`: `stop` returns Ok only after the program ended. `StopReturns`: a `stop` in progress always returns, with Err if the connection is lost. SshTracing: two traced binaries, each on a host of its own, with a setup command and `perf_raw_outfile`. Each host may start with a profile left by an earlier deployment. `ProfileOwn`: the profile `stop` downloads and the one it folds are the binary's own, complete: not unfinished, not the other binary's, not the leftover (which only a perf that really started moves aside, so it rests on the setup's exit-code check). | pass, 7 325 states |
| `ssh_rename_generic_failure` (MCSshCopyBinaryFailure.cfg) | `OkMeansInstalled`, where rename may also fail with status 4 for another reason | **violation**: status 4 is SSH_FX_FAILURE, the generic code. ssh.rs 395 reads it as "file already exists", unlinks the temp file and returns Ok with no binary. |
| `ssh_tracing_shared_host` (MCSshTracingSharedHost.cfg) | `ProfileOwn`, with two traced binaries on one host | **violation**: the second `perf record` takes over `~/__profile.perf.data` (ssh.rs 464) while the first binary still runs, and the first binary's `stop` downloads and folds the second one's unfinished profile. `copy_binary` names binaries by `unique_id` for exactly this placement, but the perf output path is fixed. |
| `ssh_wait_conn_lost` (MCSshWaitConnLost.cfg) | `NeverPanics` | **violation**: the connection is lost and the binary is dropped; `Drop` unwraps the failed `disconnect` (ssh.rs 221-223) and panics. The same property also fails when `wait` is called and `wait_eof().unwrap()` (ssh.rs 110) panics on the lost connection, where `stop` returns Err at the same awaits. |
| `ssh_exit_status_after_eof` (MCSshExitStatusAfterEof.cfg) | `ExitCodeTruthful`, where the server may send CHANNEL_EOF before exit-status | **violation**: the program exits with 1, EOF arrives, and `exit_code` (ssh.rs 102) returns `exit_status()` = 0. `wait` (111) does the same before `wait_close`. |
| `retwis2_routing` (MCRetwis2.cfg) | Two cluster members with two random operations each (625 initial programs). `RoutedExactlyOnce`: for every client and coordinator, what was printed followed by what is in the connection is exactly that client's emitted operations of the coordinator's kind, and no `for_each` panics. | pass, 179 840 states |
| `retwis2_account_order` (MCRetwis2AccountOrder.cfg) | `AccountBeforeUse` with three members and one random operation each | **violation**: client 0 emits createAccount and then a follow. The follow reaches coord2 over its own connection and is printed while createAccount still waits in coord1's connection. |
| `cycle_markers` (MCCycleMarkers.cfg) | `CyclesClosed`: a finalized flow has exactly one CycleSink per declared handle, at its expected location, and none for undeclared handles. | pass, 188 states |
| `emit_difference_pos` (MCEmissionDifference.cfg) | `PersistOperandsStatic` with node 18 as `Difference(Persist(..), ..)` | **violation**: ir.rs 955 unwraps only `neg`. The spec (4.5) says each operand is inspected. |

**Bounds.** Every permutation of the leaves is checked, and that permutation is what orders the memo hits and misses. There are six cells for NetworkSynthesis, which is exactly the two original cells plus two new cells in each pass, so the cell bound never cuts a behaviour. The graph has 17 or 24 nodes and contains every kind of edge and sharing the sources build.

**Fairness.** In FoldKeyed the fairness is weak fairness on `Barrier`, `Activate` and `EndTick`. The runtime runs every scheduled subgraph before it ends a tick, and a location keeps running ticks until it is stopped. The producer (`Produce`) and extra activations (`Reactivate`) get no fairness, because they are the environment. Two runs per tick are enough to show the Static suppression and the Mutable republish. Three entries are enough for an insert, an update and a delete in one or across ticks.

In SshCopyBinary, two calls are enough for the rename race and for one call to fail while the other succeeds. Two chunks give a partly written temp file. The retry count is the code's 10.

In SshLaunchedBinary the fairness is weak fairness on these actions:
* the server's sends and libssh2's `Receive`, since a live connection delivers what was sent;
* the awaits of a call in progress, since the future is polled;
* `ProgExitOnStdinEof`, since a hydro service ends when its stdin closes.

`ProgExit` (the program ending by itself), `ConnLost`, `Drop` and the user starting a call get no fairness. Without a pty the ^C is only a byte, so `StopReturns` rests on `send_eof`.

Retwis2 assumes no fairness: its properties are invariants. Two members and two draws give every pair of kinds from one client, and two clients interleaving at one coordinator. The violation needs only one draw.

In SshTracing no fairness is assumed: its properties are invariants. Two binaries are the least that can share a host; one host each in the passing run isolates the profile-sharing question to its violation run. The passing run fixes `ExitStatusFirst = TRUE`. With EOF first, the setup's exit code read at ssh.rs 454 may be libssh2's 0; a failed setup then launches the binary without perf, and `stop` downloads the leftover profile, which violates `ProfileOwn`. This is the same read that `ssh_exit_status_after_eof` shows for `exit_code`, and no run of its own checks it for the setup.

In NetworkSynthesis, Emission and SshCopyBinary the fairness is `WF_vars(Next)` only. The passes are sequential code. The model stops in a `Finished` state, either when the passes are done or when a panic aborts the process. That state is the only one with no successors, so deadlock checking stays on.

## 4. Not modelled, and the plan

The plan, with what is done so far:

1. **FoldKeyed** (done). The Mutable open question is whether it should output the whole table again on a re-activation in the same tick. The spec does not settle it, so the contract allows the republish. The refinement does check that such a republish is the same table.
2. **CycleMarkers** (done).
3. **SSH host** (done for `copy_binary`, the launched binary's channel and `Drop`, and tracing). Several parts remain:
   * `deploy_stdout` depends on `prioritized_broadcast`, which is not under `src/`.
   * The stdin forwarding task and `forward_port`'s single accept have no state a property could judge beyond what their hazards state.
   * A temp file left by an Err is by design and is not judged by any property.
   * A collision of two `nanoid!(8)` temp names is out of reach of a useful bound.
4. **A composed pipeline**: compile, then connect, then emit on one graph, so the "emit of a Building Network" panic is reached from real states.

These parts are left out:

* The DFIR text, the serialization closures and the Debug printing of Tees.
* `transform_bottom_up`.
* `ved_retwis.rs`: three processes, each sending five numbers to one coordinator that prints them. It has one connection per client and no routing, so it has no question beyond FIFO delivery. The `hydro_test` example main only deploys on localhost and waits for ctrl-c.
* The example binaries under `dfir_rs/examples` and the proc macro, which are CLI or code generation. Their client and server modules are not under `src/`.
* SSH session I/O, the stdin/stdout forwarding of `launch_binary`, and `forward_port` (one channel, no shared state). The reading of the setup command's output lines (ssh.rs 448-451) is folded into `Setup`.
* `next_external_out`, which is a counter bumped under a RefCell borrow. Its uniqueness is not a concurrency question.
* The usize key collision of `graph_builders`, which depends on id allocation that is not among the sources.
