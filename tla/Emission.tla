------------------------------- MODULE Emission -------------------------------
(***************************************************************************)
(* HydroLeaf::emit and HydroNode::emit (hydro_lang/src/ir.rs 187-255,      *)
(* 660-1358): lowering of a finalized graph into one DFIR statement list    *)
(* per location key, with built_tees memoising each Tee cell and one       *)
(* next_stmt_id shared by all locations.  The recursion is an explicit     *)
(* stack; a frame collects the (ident, location) results of the emits it   *)
(* makes, then lowers its node.  Statements keep what the properties tell  *)
(* apart: the identifier they define, the identifiers they read and the    *)
(* lifetimes of their inputs; the DFIR text is left out.                   *)
(***************************************************************************)
EXTENDS IRGraph, Integers

LOCAL Loc == INSTANCE Location

CONSTANTS
  NodeLoc,          \* [Source and CycleSource nodes -> LocationId]: location_kind
  ExternalSources,  \* the Source nodes with HydroSource::ExternalNetwork
  CycleIdent,       \* [CycleSource nodes -> idents]
  NetTo,            \* [NetNodes -> LocationId]: to_location
  Finalized,        \* the Networks whose instantiate_fn is Finalized
  LeafCycle,        \* [CycleSink leaf index -> ident]
  LeafLoc,          \* [CycleSink leaf index -> LocationId]: location_kind
  LocKeys,          \* the usize keys of graph_builders
  LeafOrders        \* the orders in which the flow lists its leaves

NoKey == -1

VARIABLES
  order,       \* the order of the leaves
  leaf,        \* index in order of the next leaf to emit
  stack,       \* frames of the recursive emit, top at the end
  builders,    \* [LocKeys -> Seq(Stmt)]: graph_builders
  builtTees,   \* [Cells -> result or None]: built_tees
  nextStmtId,  \* next_stmt_id
  teeResults,  \* [TeeNodes -> result or None]: what each Tee's emit returned
  panicked     \* "none", or the reason emit aborted

vars == <<order, leaf, stack, builders, builtTees, nextStmtId, teeResults, panicked>>

None == [ident |-> [k |-> "none", n |-> 0], loc |-> NoKey]

Stream(i)  == [k |-> "stream", n |-> i]
CycleId(c) == [k |-> "cycle", n |-> c]
Dummy      == [k |-> "dummy", n |-> 0]
Result(i, l) == [ident |-> i, loc |-> l]

\* A statement of a builder: its node, defined idents, read idents, and the
\* lifetime ("static" or "tick") given to each input it reads.
Stmt(n, defs, uses, life) == [node |-> n, defs |-> defs, uses |-> uses, life |-> life]

-----------------------------------------------------------------------------
(* The usize key a location gives in each arm (Tick panics).               *)
\* Fault model: a cycle's location taken as is, without root().
CycleKeyNoRoot(l) == IF l.kind \in {"Process", "Cluster"} THEN l.id ELSE NoKey

SourceKey(l) == IF l.kind = "Tick" THEN NoKey ELSE l.id             \* ir.rs 722-727
CycleKey(l) == IF Loc!Root(l).kind \in {"Process", "Cluster"}
                THEN Loc!Root(l).id ELSE NoKey                      \* ir.rs 777-782
NetToKey(l) == IF l.kind = "Tick" THEN NoKey ELSE l.id             \* ir.rs 1327-1332

\* A Persist operand is consumed directly with a 'static lifetime.
Unwrap(c) == IF Kind[c] = "Persist" THEN Children[c][1] ELSE c
Life(c)   == IF Kind[c] = "Persist" THEN "static" ELSE "tick"

StaticBoth  == {"CrossProduct", "Join"}                    \* ir.rs 884-909
StaticNeg   == {"Difference", "AntiJoin"}                  \* ir.rs 942-960
StaticInput == {"Fold", "FoldKeyed", "Reduce", "ReduceKeyed"} \* ir.rs 1197-1219, 1242-1260

\* The nodes a frame emits, in order.
EmitSeq(f) ==
  IF f.leaf > 0 THEN <<Leaves[f.leaf]>>
  ELSE LET n == f.node IN
       CASE Kind[n] \in StaticBoth  -> <<Unwrap(Children[n][1]), Unwrap(Children[n][2])>>
         [] Kind[n] \in StaticNeg   -> <<Children[n][1], Unwrap(Children[n][2])>>
         [] Kind[n] \in StaticInput -> <<Unwrap(Children[n][1])>>
         [] Kind[n] = "Tee"         -> <<CellContent0[TeeCell0[n]]>>
         [] OTHER                   -> Children[n]

\* The lifetimes the lowered operator gives its inputs.
InputLife(n) ==
  CASE Kind[n] \in StaticBoth  -> <<Life(Children[n][1]), Life(Children[n][2])>>
    [] Kind[n] \in StaticNeg   -> <<"tick", Life(Children[n][2])>>
    [] Kind[n] \in StaticInput -> <<Life(Children[n][1])>>
    [] OTHER                   -> [i \in 1..Len(Children[n]) |-> "tick"]

NodeFrame(n) == [node |-> n, leaf |-> 0, res |-> <<>>]
LeafFrame(i) == [node |-> 0, leaf |-> i, res |-> <<>>]

Top == stack[Len(stack)]
Running == panicked = "none" /\ stack # <<>>

\* Fault model: the result is handed to the frame that made it.
ReturnNoPop(r) == [stack EXCEPT ![Len(stack)].res = Append(@, r)]

\* Pop the top frame, handing result r to the frame below.
Return(r) ==
  LET s == SubSeq(stack, 1, Len(stack) - 1) IN
  IF s = <<>> THEN s ELSE [s EXCEPT ![Len(s)].res = Append(@, r)]

\* Add statement st to the builder of key k (entry(k).or_default()).
AddTo(b, k, st) == [b EXCEPT ![k] = Append(@, st)]

Idents(rs) == {rs[i].ident : i \in DOMAIN rs}

-----------------------------------------------------------------------------
\* The driver (not among the sources) emits every leaf in flow order.
StartLeaf ==
  /\ panicked = "none"
  /\ stack = <<>>
  /\ leaf <= Len(order)
  /\ stack' = <<LeafFrame(order[leaf])>>
  /\ leaf' = leaf + 1
  /\ UNCHANGED <<order, builders, builtTees, nextStmtId, teeResults, panicked>>

(* Emit the next input of the top frame.  A Network is first checked to be *)
(* Finalized (ir.rs 1294-1302) and an Unpersist panics (692-694), before   *)
(* anything below them is emitted.                                         *)
Descend ==
  /\ Running
  /\ Top.leaf = 0 => Kind[Top.node] \notin SourceKinds \cup {"Tee"}
  /\ Len(Top.res) < Len(EmitSeq(Top))
  /\ LET err == IF Top.leaf > 0 THEN "none"
                ELSE CASE Kind[Top.node] = "Network" /\ Top.node \notin Finalized
                                            -> "Expected the network to be finalized"
                       [] Kind[Top.node] = "Unpersist" -> "Unpersist is a marker node"
                       [] OTHER                        -> "none"
     IN /\ panicked' = err
        /\ stack' = IF err # "none" THEN stack
                    ELSE Append(stack, NodeFrame(EmitSeq(Top)[Len(Top.res) + 1]))
  /\ UNCHANGED <<order, leaf, builders, builtTees, nextStmtId, teeResults>>

\* HydroNode::Source (ir.rs 717-770): an ExternalNetwork source is DUMMY at
\* the external, any other adds a source statement with a fresh identifier.
LowerSource ==
  /\ Running
  /\ Top.leaf = 0 /\ Kind[Top.node] = "Source"
  /\ LET n == Top.node
         k == SourceKey(NodeLoc[n])
     IN IF k = NoKey
        THEN /\ panicked' = "source in a tick"
             /\ UNCHANGED <<stack, builders, nextStmtId>>
        ELSE \/ /\ n \in ExternalSources
                /\ stack' = Return(Result(Dummy, k))
                /\ UNCHANGED <<builders, nextStmtId, panicked>>
             \/ /\ n \notin ExternalSources
                /\ builders' = AddTo(builders, k, Stmt(n, {Stream(nextStmtId)}, {}, <<>>))
                /\ nextStmtId' = nextStmtId + 1
                /\ stack' = Return(Result(Stream(nextStmtId), k))
                /\ UNCHANGED panicked
  /\ UNCHANGED <<order, leaf, builtTees, teeResults>>

\* HydroNode::CycleSource (ir.rs 772-785): the cycle's ident at its root.
LowerCycleSource ==
  /\ Running
  /\ Top.leaf = 0 /\ Kind[Top.node] = "CycleSource"
  /\ LET k == CycleKey(NodeLoc[Top.node]) IN
     /\ panicked' = IF k = NoKey THEN "cycle source at an external" ELSE "none"
     /\ stack' = IF k = NoKey THEN stack
                 ELSE Return(Result(CycleId(CycleIdent[Top.node]), k))
  /\ UNCHANGED <<order, leaf, builders, builtTees, nextStmtId, teeResults>>

-----------------------------------------------------------------------------
(* HydroNode::Tee (ir.rs 787-820).                                         *)
TeeHit ==
  /\ Running
  /\ Top.leaf = 0 /\ Kind[Top.node] = "Tee" /\ Top.res = <<>>
  /\ builtTees[TeeCell0[Top.node]] # None
  /\ teeResults' = [teeResults EXCEPT ![Top.node] = builtTees[TeeCell0[Top.node]]]
  /\ stack' = Return(builtTees[TeeCell0[Top.node]])
  /\ UNCHANGED <<order, leaf, builders, builtTees, nextStmtId, panicked>>

\* Not built yet: emit the node in the cell (a Placeholder panics, 667-669).
TeeMiss ==
  /\ Running
  /\ Top.leaf = 0 /\ Kind[Top.node] = "Tee" /\ Top.res = <<>>
  /\ builtTees[TeeCell0[Top.node]] = None
  /\ LET inner == CellContent0[TeeCell0[Top.node]] IN
     /\ panicked' = IF inner = Placeholder THEN "emit of Placeholder" ELSE "none"
     /\ stack' = IF inner = Placeholder THEN stack ELSE Append(stack, NodeFrame(inner))
  /\ UNCHANGED <<order, leaf, builders, builtTees, nextStmtId, teeResults>>

\* Fault model: the tee statement is added but built_tees is not updated.
LowerTeeNoMemo ==
  /\ Running
  /\ Top.leaf = 0 /\ Kind[Top.node] = "Tee" /\ Len(Top.res) = 1
  /\ LET r == Result(Stream(nextStmtId), Top.res[1].loc) IN
     /\ builders' = AddTo(builders, r.loc,
                          Stmt(Top.node, {r.ident}, {Top.res[1].ident}, <<"tick">>))
     /\ nextStmtId' = nextStmtId + 1
     /\ teeResults' = [teeResults EXCEPT ![Top.node] = r]
     /\ stack' = Return(r)
  /\ UNCHANGED <<order, leaf, builtTees, panicked>>

\* The inner node is emitted: add the tee statement and memoise its result.
LowerTee ==
  /\ Running
  /\ Top.leaf = 0 /\ Kind[Top.node] = "Tee" /\ Len(Top.res) = 1
  /\ LET n == Top.node
         r == Result(Stream(nextStmtId), Top.res[1].loc)
     IN /\ builders' = AddTo(builders, r.loc,
                             Stmt(n, {r.ident}, {Top.res[1].ident}, <<"tick">>))
        /\ nextStmtId' = nextStmtId + 1
        /\ builtTees' = [builtTees EXCEPT ![TeeCell0[n]] = r]
        /\ teeResults' = [teeResults EXCEPT ![n] = r]
        /\ stack' = Return(r)
  /\ UNCHANGED <<order, leaf, panicked>>

-----------------------------------------------------------------------------
\* Persist, Delta and the stateless and stateful unary operators (ir.rs
\* 671-715, 993-1260): one statement at the input's location.
LowerUnary ==
  /\ Running
  /\ Top.leaf = 0 /\ Kind[Top.node] \in UnaryKinds \ {"Network", "Unpersist"}
  /\ Len(Top.res) = 1
  /\ LET r == Result(Stream(nextStmtId), Top.res[1].loc) IN
     /\ builders' = AddTo(builders, r.loc,
                          Stmt(Top.node, {r.ident}, Idents(Top.res), InputLife(Top.node)))
     /\ nextStmtId' = nextStmtId + 1
     /\ stack' = Return(r)
  /\ UNCHANGED <<order, leaf, builtTees, teeResults, panicked>>

\* Chain, CrossSingleton, CrossProduct/Join, Difference/AntiJoin (822-991):
\* both inputs are emitted, then their locations are asserted equal.
LowerBinary ==
  /\ Running
  /\ Top.leaf = 0 /\ Kind[Top.node] \in BinaryKinds
  /\ Len(Top.res) = 2
  /\ LET r == Result(Stream(nextStmtId), Top.res[1].loc) IN
     IF Top.res[1].loc # Top.res[2].loc
     THEN /\ panicked' = "inputs must be in the same location"
          /\ UNCHANGED <<stack, builders, nextStmtId>>
     ELSE /\ builders' = AddTo(builders, r.loc,
                          Stmt(Top.node, {r.ident}, Idents(Top.res), InputLife(Top.node)))
          /\ nextStmtId' = nextStmtId + 1
          /\ stack' = Return(r)
          /\ UNCHANGED panicked
  /\ UNCHANGED <<order, leaf, builtTees, teeResults>>

\* HydroNode::Network (1262-1354): the sender half goes to the input's
\* builder, the receiver half, with a fresh identifier, to to_location's.
LowerNetworkAt(k, r) ==
  /\ builders' = AddTo(AddTo(builders, Top.res[1].loc,
                             Stmt(Top.node, {}, Idents(Top.res), <<"tick">>)),
                       k, Stmt(Top.node, {r.ident}, {}, <<>>))
  /\ nextStmtId' = nextStmtId + 1
  /\ stack' = Return(r)

\* Fault model: the receiver stream reported at the sender's location.
LowerNetworkAtSender ==
  /\ Running
  /\ Top.leaf = 0 /\ Kind[Top.node] = "Network" /\ Len(Top.res) = 1
  /\ NetToKey(NetTo[Top.node]) # NoKey
  /\ LowerNetworkAt(NetToKey(NetTo[Top.node]), Result(Stream(nextStmtId), Top.res[1].loc))
  /\ UNCHANGED <<order, leaf, builtTees, teeResults, panicked>>

LowerNetwork ==
  /\ Running
  /\ Top.leaf = 0 /\ Kind[Top.node] = "Network" /\ Len(Top.res) = 1
  /\ LET k == NetToKey(NetTo[Top.node]) IN
     IF k = NoKey
     THEN /\ panicked' = "network to a tick"
          /\ UNCHANGED <<stack, builders, nextStmtId>>
     ELSE /\ LowerNetworkAt(k, Result(Stream(nextStmtId), k))
          /\ UNCHANGED panicked
  /\ UNCHANGED <<order, leaf, builtTees, teeResults>>

\* HydroLeaf::emit (187-255): for_each / dest_sink at the input's location;
\* a CycleSink defines the cycle's ident at its root, asserted to be the
\* input's location.
LowerLeaf ==
  /\ Running
  /\ Top.leaf > 0 /\ Len(Top.res) = 1
  /\ LET i  == Top.leaf
         in == Top.res[1]
         k  == IF LeafKind[i] = "CycleSink" THEN CycleKey(LeafLoc[i]) ELSE in.loc
         err == CASE k = NoKey    -> "cycle sink at an external"
                  [] k # in.loc   -> "cycle_sink location mismatch"
                  [] OTHER        -> "none"
         defs == IF LeafKind[i] = "CycleSink" THEN {CycleId(LeafCycle[i])} ELSE {}
     IN /\ panicked' = err
        /\ builders' = IF err = "none"
                       THEN AddTo(builders, k, Stmt(0, defs, {in.ident}, <<"tick">>))
                       ELSE builders
        /\ stack' = IF err = "none" THEN <<>> ELSE stack
  /\ UNCHANGED <<order, leaf, builtTees, nextStmtId, teeResults>>

-----------------------------------------------------------------------------
Init ==
  /\ order \in LeafOrders
  /\ leaf = 1
  /\ stack = <<>>
  /\ builders = [k \in LocKeys |-> <<>>]
  /\ builtTees = [c \in Cells |-> None]
  /\ nextStmtId = 0
  /\ teeResults = [t \in TeeNodes |-> None]
  /\ panicked = "none"

Done == panicked = "none" /\ stack = <<>> /\ leaf > Len(order)

\* Emission stops when every leaf is emitted or a panic aborts it.
Finished == (Done \/ panicked # "none") /\ UNCHANGED vars

Next ==
  \/ StartLeaf \/ Descend \/ LowerSource \/ LowerCycleSource
  \/ TeeHit \/ TeeMiss \/ LowerTee
  \/ LowerUnary \/ LowerBinary \/ LowerNetwork \/ LowerLeaf
  \/ Finished

Spec == Init /\ [][Next]_vars /\ WF_vars(Next)

-----------------------------------------------------------------------------
AllIdents == {Stream(i) : i \in 0..nextStmtId} \cup {CycleId(CycleIdent[n]) : n \in DOMAIN CycleIdent}
          \cup {Dummy}
Results == {Result(i, k) : i \in AllIdents, k \in LocKeys}

TypeOK ==
  /\ leaf \in 1..Len(order) + 1
  /\ stack \in Seq([node : Nodes \cup {0}, leaf : 0..Len(Leaves), res : Seq(Results)])
  /\ \A i \in DOMAIN stack : Len(stack[i].res) <= Len(EmitSeq(stack[i]))
  /\ builtTees \in [Cells -> Results \cup {None}]
  /\ teeResults \in [TeeNodes -> Results \cup {None}]
  /\ nextStmtId \in Nat
  /\ \A k \in LocKeys : \A i \in DOMAIN builders[k] :
        builders[k][i].defs \cup builders[k][i].uses \subseteq AllIdents

\* Every statement of every builder, as <<key, index>>.
AllStmts == UNION {{<<k, i>> : i \in DOMAIN builders[k]} : k \in LocKeys}
StmtAt(p) == builders[p[1]][p[2]]

\* The graphs given to emit are complete: emission never panics.
NoPanic == panicked = "none"

\* built_tees: whichever Tee of a shared cell the leaves reach first, the
\* cell's node is lowered into one tee() statement, never again, and every
\* Tee of the cell hands its consumers that one statement's identifier.
TeeLoweredOnce ==
  /\ \A c \in Cells :
       Cardinality({p \in AllStmts : StmtAt(p).node \in TeeNodes
                                      /\ TeeCell0[StmtAt(p).node] = c}) <= 1
  /\ Done => \A t, u \in TeeNodes \cap Reachable :
               /\ teeResults[t] # None
               /\ TeeCell0[t] = TeeCell0[u] => teeResults[t] = teeResults[u]

\* Each location's program reads only streams defined before, in the same
\* program: a result's location key is where its stream was defined, so a
\* consumer (the receiver half of a Network above all) is added to the
\* builder that defines its input.  DUMMY, the placeholder of an external
\* source, is never defined.  When emission ends, every cycle ident read
\* is defined by a CycleSink of the same program.
ProgramsSelfContained ==
  \A p \in AllStmts : \A x \in StmtAt(p).uses :
     /\ x.k = "stream" =>
          \E j \in 1..p[2] - 1 : x \in builders[p[1]][j].defs
     /\ x.k = "cycle" /\ Done =>
          \E j \in DOMAIN builders[p[1]] : x \in builders[p[1]][j].defs

\* A binary or aggregating operator whose operand is wrapped directly in
\* Persist reads that operand with a 'static lifetime, each operand on its
\* own (the persistence rule of the lowering of Join, CrossProduct,
\* Difference, AntiJoin, Fold and Reduce).
PersistOperandsStatic ==
  \A p \in AllStmts :
     LET n == StmtAt(p).node IN
     n \in Nodes /\ Kind[n] \in StaticBoth \cup StaticNeg \cup StaticInput =>
       \A i \in DOMAIN Children[n] :
          Kind[Children[n][i]] = "Persist" => StmtAt(p).life[i] = "static"
====
