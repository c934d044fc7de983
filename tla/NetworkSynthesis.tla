--------------------------- MODULE NetworkSynthesis ---------------------------
(***************************************************************************)
(* The two network passes of hydro_lang/src/ir.rs over a graph of leaves:  *)
(*   compile_network (ir.rs 132-146, 483-522, 1397-1568): post-order walk  *)
(*     that turns each Network from Building into Finalized(sink, source,  *)
(*     Some(connect_fn)) through the provider dispatch instantiate_network;*)
(*   connect_network (ir.rs 148-155, 524-535): post-order walk that takes  *)
(*     and calls every connect_fn.                                         *)
(* Both walk the graph with transform_children (ir.rs 157-184, 549-657),   *)
(* whose Tee arm memoises each Rc cell in SeenTees, moving the node out of *)
(* its cell (leaving a Placeholder) into a fresh cell.  The recursion is an *)
(* explicit stack of frames; each frame is one activation of the walk.     *)
(***************************************************************************)
EXTENDS IRGraph, SequencesExt

CONSTANTS
  LeafOrders,     \* the orders in which a flow may list its leaves
  NumInitCells,   \* the cells 1..NumInitCells exist when compile_network starts
  Processes,      \* ids in the provider's processes map
  Clusters,       \* ids in the provider's clusters map
  Externals,      \* ids in the provider's externals map
  EndpointChoices \* set of [NetNodes -> Endpoints]: the graphs' network edges

ASSUME /\ InitCells = 1..NumInitCells
       /\ LeafOrders \subseteq SetToSeqs(1..Len(Leaves))
       /\ Cells = 1..Cardinality(Cells)

NoCell == 0

VARIABLES
  pass,       \* "compile", "connect" or "done": which walk the driver is in
  order,      \* the order in which the flow lists its leaves
  leaf,       \* index in order of the next leaf the driver walks
  stack,      \* frames of the recursive walk, top at the end
  cell,       \* [Cells -> Nodes \cup {Placeholder}]: RefCell contents
  nextCell,   \* the next Rc cell Rc::new allocates
  teeCell,    \* [TeeNodes -> Cells]: the cell each TeeNode's Rc points to
  seenTees,   \* [Cells -> Cells \cup {NoCell}]: SeenTees of the current walk
  endpoints,  \* [NetNodes -> edge]: from/to locations and keys of each Network
  inst,       \* [NetNodes -> {"Building","Finalized"}]: DebugInstantiate
  connectFn,  \* [NetNodes -> BOOLEAN]: the Option<connect_fn> is Some
  compiled,   \* [NetNodes -> Nat]: times instantiate_network ran for it
  connected,  \* [NetNodes -> Nat]: times its connect_fn was called
  registered, \* set of <<external id, key>> registered with the provider
  panicked    \* "none", or the reason the walk aborted

vars == <<pass, order, leaf, stack, cell, nextCell, teeCell, seenTees,
          endpoints, inst, connectFn, compiled, connected, registered, panicked>>

-----------------------------------------------------------------------------
(* Frames.  node: the HydroNode being transformed; next: its next child;   *)
(* for a Tee after its miss, old/new are the memoised and the fresh cell   *)
(* and orig the node moved out of the old cell.                            *)
Frame(n) == [node |-> n, next |-> 1, old |-> NoCell, new |-> NoCell, orig |-> Placeholder]

Top == stack[Len(stack)]
Pop == SubSeq(stack, 1, Len(stack) - 1)
SetTop(f) == [stack EXCEPT ![Len(stack)] = f]

Running == pass \in {"compile", "connect"} /\ panicked = "none"

-----------------------------------------------------------------------------
(* instantiate_network (ir.rs 1397-1568): the panic it raises for an edge,  *)
(* or "none" when a provider capability allocates the pair of ports.       *)
\* Fault model: a cluster looked up in the processes map.
InstantiatedClusterAsProcess(l) ==
  CASE l.kind = "Process"         -> l.id \in Processes
    [] l.kind = "Cluster"         -> l.id \in Processes
    [] l.kind = "ExternalProcess" -> l.id \in Externals
    [] OTHER                      -> FALSE

Instantiated(l) ==
  CASE l.kind = "Process"         -> l.id \in Processes
    [] l.kind = "Cluster"         -> l.id \in Clusters
    [] l.kind = "ExternalProcess" -> l.id \in Externals
    [] OTHER                      -> FALSE

\* Fault model: the external/cluster arms fall through to the lookups.
InstantiateErrorNoNYI(e) ==
  LET shape == <<e.from.kind, e.to.kind>> IN
  CASE "Tick" \in {e.from.kind, e.to.kind}                  -> "tick endpoint"
    [] shape = <<"ExternalProcess", "ExternalProcess">>      -> "external to external"
    [] ~Instantiated(e.from)                                 -> "location not instantiated"
    [] ~Instantiated(e.to)                                   -> "location not instantiated"
    [] OTHER                                                 -> "none"

InstantiateError(e) ==
  LET shape == <<e.from.kind, e.to.kind>> IN
  CASE "Tick" \in {e.from.kind, e.to.kind}                  -> "tick endpoint"
    [] shape = <<"ExternalProcess", "ExternalProcess">>      -> "external to external"
    [] shape \in {<<"ExternalProcess", "Cluster">>,
                  <<"Cluster", "ExternalProcess">>}          -> "not yet implemented"
    [] ~Instantiated(e.from)                                 -> "location not instantiated"
    [] ~Instantiated(e.to)                                   -> "location not instantiated"
    [] shape = <<"ExternalProcess", "Process">> /\ e.fromKey = {} -> "from_key unwrap"
    [] shape = <<"Process", "ExternalProcess">> /\ e.toKey = {}   -> "to_key unwrap"
    [] OTHER                                                 -> "none"

\* Fault model: the E->P port registered on the receiving process.
RegistrationOnProcess(e) ==
  CASE e.from.kind = "ExternalProcess" -> {<<e.to.id, k>> : k \in e.fromKey}
    [] e.to.kind = "ExternalProcess"   -> {<<e.to.id, k>> : k \in e.toKey}
    [] OTHER                           -> {}

\* from_node.register / to_node.register of the external arms (1517, 1551).
Registration(e) ==
  CASE e.from.kind = "ExternalProcess" -> {<<e.from.id, k>> : k \in e.fromKey}
    [] e.to.kind = "ExternalProcess"   -> {<<e.to.id, k>> : k \in e.toKey}
    [] OTHER                           -> {}

-----------------------------------------------------------------------------
(* The driver (hydro_lang builder, not among the sources): walk every leaf  *)
(* with one SeenTees per pass, compile_network first, connect_network next. *)
StartLeaf ==
  /\ Running
  /\ stack = <<>>
  /\ leaf <= Len(order)
  \* HydroLeaf::transform_children: transform(&mut input, seen_tees)
  /\ stack' = <<Frame(Leaves[order[leaf]])>>
  /\ leaf' = leaf + 1
  /\ UNCHANGED <<pass, order, cell, nextCell, teeCell, seenTees, endpoints,
                 inst, connectFn, compiled, connected, registered, panicked>>

EndPass ==
  /\ Running
  /\ stack = <<>>
  /\ leaf > Len(order)
  /\ pass' = IF pass = "compile" THEN "connect" ELSE "done"
  /\ leaf' = 1
  /\ seenTees' = [c \in Cells |-> NoCell]
  /\ UNCHANGED <<order, stack, cell, nextCell, teeCell, endpoints, inst,
                 connectFn, compiled, connected, registered, panicked>>

-----------------------------------------------------------------------------
(* transform_children on a boxed variant: transform each child in turn.    *)
Descend ==
  /\ Running
  /\ stack # <<>>
  /\ Kind[Top.node] # "Tee"
  /\ Top.next <= Len(Children[Top.node])
  /\ stack' = Append(SetTop([Top EXCEPT !.next = @ + 1]),
                     Frame(Children[Top.node][Top.next]))
  /\ UNCHANGED <<pass, order, leaf, cell, nextCell, teeCell, seenTees,
                 endpoints, inst, connectFn, compiled, connected, registered,
                 panicked>>

\* After its children, a node that is not a Network is left as it is.
FinishNode ==
  /\ Running
  /\ stack # <<>>
  /\ Kind[Top.node] \notin {"Tee", "Network"}
  /\ Top.next > Len(Children[Top.node])
  /\ stack' = Pop
  /\ UNCHANGED <<pass, order, leaf, cell, nextCell, teeCell, seenTees,
                 endpoints, inst, connectFn, compiled, connected, registered,
                 panicked>>

(* HydroNode::compile_network on a Network after its input (ir.rs 496-521): *)
(* Building is instantiated, Finalized panics "network already finalized". *)
CompileNetwork ==
  /\ Running
  /\ pass = "compile"
  /\ stack # <<>>
  /\ Kind[Top.node] = "Network"
  /\ Top.next > 1
  /\ LET n   == Top.node
         err == IF inst[n] = "Finalized" THEN "network already finalized"
                ELSE InstantiateError(endpoints[n])
     IN /\ panicked' = err
        /\ inst' = IF err = "none" THEN [inst EXCEPT ![n] = "Finalized"] ELSE inst
        /\ connectFn' = IF err = "none" THEN [connectFn EXCEPT ![n] = TRUE] ELSE connectFn
        /\ compiled' = [compiled EXCEPT ![n] = @ + 1]
        /\ registered' = IF err = "none" THEN registered \cup Registration(endpoints[n])
                         ELSE registered
  /\ stack' = Pop
  /\ UNCHANGED <<pass, order, leaf, cell, nextCell, teeCell, seenTees, endpoints,
                 connected>>

\* Fault model: the Option is taken but the closure is dropped, not called.
ConnectNetworkNoCall ==
  /\ Running
  /\ pass = "connect"
  /\ stack # <<>>
  /\ Kind[Top.node] = "Network"
  /\ Top.next > 1
  /\ panicked' = panicked
  /\ connectFn' = [connectFn EXCEPT ![Top.node] = FALSE]
  /\ stack' = Pop
  /\ UNCHANGED <<pass, order, leaf, cell, nextCell, teeCell, seenTees, endpoints,
                 inst, compiled, connected, registered>>

(* HydroNode::connect_network on a Network after its input (ir.rs 526-533): *)
(* Building panics "network not built"; Finalized takes the Option and     *)
(* calls it, and unwrap panics when an earlier call already took it.       *)
ConnectNetwork ==
  /\ Running
  /\ pass = "connect"
  /\ stack # <<>>
  /\ Kind[Top.node] = "Network"
  /\ Top.next > 1
  /\ LET n == Top.node IN
     /\ panicked' = CASE inst[n] = "Building" -> "network not built"
                      [] ~connectFn[n]        -> "connect_fn unwrap"
                      [] OTHER                -> "none"
     /\ connectFn' = [connectFn EXCEPT ![n] = FALSE]
     /\ connected' = IF inst[n] = "Finalized" /\ connectFn[n]
                     THEN [connected EXCEPT ![n] = @ + 1] ELSE connected
  /\ stack' = Pop
  /\ UNCHANGED <<pass, order, leaf, cell, nextCell, teeCell, seenTees, endpoints,
                 inst, compiled, registered>>

-----------------------------------------------------------------------------
(* The Tee arm of transform_children (ir.rs 563-579).                      *)

\* Fault model: a memo hit that keeps the Tee on its old cell.
TeeHitStale ==
  /\ Running
  /\ stack # <<>>
  /\ Kind[Top.node] = "Tee"
  /\ Top.next = 1
  /\ seenTees[teeCell[Top.node]] # NoCell
  /\ stack' = Pop
  /\ UNCHANGED <<pass, order, leaf, cell, nextCell, teeCell, seenTees, endpoints,
                 inst, connectFn, compiled, connected, registered, panicked>>

\* The cell was transformed already in this walk: point at its result.
TeeHit ==
  /\ Running
  /\ stack # <<>>
  /\ Kind[Top.node] = "Tee"
  /\ Top.next = 1
  /\ seenTees[teeCell[Top.node]] # NoCell
  /\ teeCell' = [teeCell EXCEPT ![Top.node] = seenTees[teeCell[Top.node]]]
  /\ stack' = Pop
  /\ UNCHANGED <<pass, order, leaf, cell, nextCell, seenTees, endpoints, inst,
                 connectFn, compiled, connected, registered, panicked>>

\* Fault model: the fresh cell is never inserted into SeenTees.
TeeMissNoMemo ==
  /\ Running
  /\ stack # <<>>
  /\ Kind[Top.node] = "Tee"
  /\ Top.next = 1
  /\ seenTees[teeCell[Top.node]] = NoCell
  /\ nextCell \in Cells
  /\ LET old  == teeCell[Top.node]
         orig == cell[old]
     IN /\ cell' = [cell EXCEPT ![nextCell] = Placeholder, ![old] = Placeholder]
        /\ nextCell' = nextCell + 1
        /\ panicked' = IF orig = Placeholder THEN "transform of Placeholder" ELSE "none"
        /\ stack' = IF orig = Placeholder THEN stack
                    ELSE Append(SetTop([Top EXCEPT !.next = 2, !.old = old,
                                                   !.new = nextCell, !.orig = orig]),
                                Frame(orig))
  /\ UNCHANGED <<pass, order, leaf, teeCell, seenTees, endpoints, inst, connectFn,
                 compiled, connected, registered>>

(* First visit: memoise a fresh Placeholder cell, move the node out of the *)
(* old cell (replace(Placeholder)) and transform it; transforming a        *)
(* Placeholder panics in transform_children (ir.rs 555-557).               *)
TeeMiss ==
  /\ Running
  /\ stack # <<>>
  /\ Kind[Top.node] = "Tee"
  /\ Top.next = 1
  /\ seenTees[teeCell[Top.node]] = NoCell
  /\ nextCell \in Cells
  /\ LET old  == teeCell[Top.node]
         orig == cell[old]
     IN /\ seenTees' = [seenTees EXCEPT ![old] = nextCell]
        /\ cell' = [cell EXCEPT ![nextCell] = Placeholder, ![old] = Placeholder]
        /\ nextCell' = nextCell + 1
        /\ panicked' = IF orig = Placeholder THEN "transform of Placeholder" ELSE "none"
        /\ stack' = IF orig = Placeholder THEN stack
                    ELSE Append(SetTop([Top EXCEPT !.next = 2, !.old = old,
                                                   !.new = nextCell, !.orig = orig]),
                                Frame(orig))
  /\ UNCHANGED <<pass, order, leaf, teeCell, endpoints, inst, connectFn,
                 compiled, connected, registered>>

\* The moved node is transformed: put it in the fresh cell and point at it.
TeeFinish ==
  /\ Running
  /\ stack # <<>>
  /\ Kind[Top.node] = "Tee"
  /\ Top.next = 2
  /\ cell' = [cell EXCEPT ![Top.new] = Top.orig]
  /\ teeCell' = [teeCell EXCEPT ![Top.node] = Top.new]
  /\ stack' = Pop
  /\ UNCHANGED <<pass, order, leaf, nextCell, seenTees, endpoints, inst,
                 connectFn, compiled, connected, registered, panicked>>

-----------------------------------------------------------------------------
Init ==
  /\ pass = "compile"
  /\ order \in LeafOrders
  /\ leaf = 1
  /\ stack = <<>>
  /\ cell = CellContent0
  /\ nextCell = NumInitCells + 1
  /\ teeCell = TeeCell0
  /\ seenTees = [c \in Cells |-> NoCell]
  /\ endpoints \in EndpointChoices
  /\ inst = [n \in NetNodes |-> "Building"]
  /\ connectFn = [n \in NetNodes |-> FALSE]
  /\ compiled = [n \in NetNodes |-> 0]
  /\ connected = [n \in NetNodes |-> 0]
  /\ registered = {}
  /\ panicked = "none"

\* The program stops: both walks are over, or a panic aborted it.
Finished == (pass = "done" \/ panicked # "none") /\ UNCHANGED vars

Next ==
  \/ StartLeaf \/ EndPass \/ Descend \/ FinishNode
  \/ CompileNetwork \/ ConnectNetwork
  \/ TeeHit \/ TeeMiss \/ TeeFinish
  \/ Finished

Spec == Init /\ [][Next]_vars /\ WF_vars(Next)

-----------------------------------------------------------------------------
TypeOK ==
  /\ pass \in {"compile", "connect", "done"}
  /\ leaf \in 1..Len(Leaves) + 1
  /\ cell \in [Cells -> Nodes \cup {Placeholder}]
  /\ teeCell \in [TeeNodes -> Cells]
  /\ seenTees \in [Cells -> Cells \cup {NoCell}]
  /\ inst \in [NetNodes -> {"Building", "Finalized"}]
  /\ connectFn \in [NetNodes -> BOOLEAN]
  /\ compiled \in [NetNodes -> Nat]
  /\ connected \in [NetNodes -> Nat]
  /\ registered \subseteq Externals \X Nat

ReachableNets == NetNodes \cap Reachable

(* When both walks are over, each Network reachable from the leaves was    *)
(* instantiated exactly once and its connect_fn called exactly once, so    *)
(* every edge has one pair of ports and one handshake whatever the sharing.*)
EveryEdgeWiredOnce ==
  pass = "done" =>
    \A n \in ReachableNets : compiled[n] = 1 /\ connected[n] = 1

(* At the end of a walk, two reachable Tees share a cell exactly when they *)
(* shared one before the walk, and that cell holds the node the shared     *)
(* cell held: transform_children keeps the sharing of the graph.           *)
SharingPreserved ==
  (stack = <<>> /\ leaf > Len(order) /\ panicked = "none") =>
    \A t1, t2 \in TeeNodes \cap Reachable :
      /\ (teeCell[t1] = teeCell[t2]) <=> (TeeCell0[t1] = TeeCell0[t2])
      /\ cell[teeCell[t1]] = CellContent0[TeeCell0[t1]]

(* The edges a deployment can wire (spec 4.4): one of the six location-pair *)
(* shapes with a transport, both ends known to the provider, and the key   *)
(* of the external end present.                                            *)
TransportShapes ==
  {<<"Process", "Process">>, <<"Process", "Cluster">>, <<"Cluster", "Process">>,
   <<"Cluster", "Cluster">>, <<"ExternalProcess", "Process">>,
   <<"Process", "ExternalProcess">>}
ProviderIds == [Process |-> Processes, Cluster |-> Clusters, ExternalProcess |-> Externals]

Supported(e) ==
  /\ <<e.from.kind, e.to.kind>> \in TransportShapes
  /\ e.from.id \in ProviderIds[e.from.kind]
  /\ e.to.id \in ProviderIds[e.to.kind]
  /\ e.from.kind = "ExternalProcess" => e.fromKey # {}
  /\ e.to.kind = "ExternalProcess" => e.toKey # {}

(* compile_network and connect_network abort only on a graph with an edge *)
(* of a shape without a transport or an endpoint the provider does not    *)
(* know: a well-formed graph, walked by both passes in any leaf order, is  *)
(* never rejected (no second finalize of a shared Network, no walk into a  *)
(* Placeholder left behind by a Tee, no connect of a Building node).       *)
AbortsOnlyOnBadEdge ==
  panicked # "none" => \E n \in ReachableNets : ~Supported(endpoints[n])

(* compile_network never finalizes an edge of a shape without a transport  *)
(* or between locations the provider does not know: such an edge aborts   *)
(* the walk instead of producing a no-op transport.                        *)
NoSilentTransport ==
  [][\A n \in NetNodes :
        (inst[n] = "Building" /\ inst'[n] = "Finalized") => Supported(endpoints[n])]_vars
=============================================================================
