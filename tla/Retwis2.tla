------------------------------- MODULE Retwis2 -------------------------------
(***************************************************************************)
(* The flow ved_retwis_2 (hydro_test/src/cluster/ved_retwis_2.rs) once it *)
(* is deployed: a cluster of clients and four coordinator processes,       *)
(* coord1..coord4, one per Retwis operation.                               *)
(*   Each cluster member runs its own source_iter: createAccount (op 1),  *)
(*   then random operations drawn from followUser (2), post (3) and        *)
(*   readOwnTimeline (4).  The stream is cloned into four filters, and     *)
(*   op k's filter is sent with send_bincode to coord k.  Each coordinator *)
(*   runs a for_each that prints the operation, tagged with the sender's   *)
(*   ClusterId.                                                            *)
(* The transport between a cluster member and a process is one ordered,    *)
(* reliable connection per pair: a FIFO channel (hydro_deploy, not under   *)
(* src).  Usernames are "tweeter" + raw_id, so a user is a client id; the  *)
(* hashtag of a post and the password are left out (NoArg).                *)
(***************************************************************************)
EXTENDS Naturals, Sequences, SequencesExt

CONSTANTS
  Clients,    \* CLUSTER_SELF_ID.raw_id of the cluster members
  NumRandom   \* how many random operations follow createAccount (4)

Coords == 1..4            \* coord k runs the for_each of op k
FollowTargets == {0, 1, 2} \* choices2 = ["0", "1", "2"]
NoArg == -1                \* an argument the properties do not tell apart

\* (op, args): args[0] is the username, args[1] the operation's argument.
Op(o, u, a) == [op |-> o, user |-> u, arg |-> a]
ArgCount(o) == IF o.op = 4 THEN 1 ELSE 2

\* iter::once((1, [tweeter<id>, "password"])).
CreateAccount(c) == Op(1, c, NoArg)

\* One draw of the map closure: op from choices, args by its match arm.
RandomOp(c) ==
  {Op(2, c, t) : t \in FollowTargets} \cup {Op(3, c, NoArg), Op(4, c, NoArg)}

\* The source_iter of cluster member c: createAccount, then NumRandom draws.
Programs(c) ==
  {<<CreateAccount(c)>> \o s : s \in [1..NumRandom -> RandomOp(c)]}

VARIABLES
  prog,     \* [Clients -> Seq(Op)]: what each member's source_iter yields
  emitted,  \* [Clients -> Nat]: how many of them went through the filters
  chan,     \* [Clients -> [Coords -> Seq(Op)]]: the send_bincode connections
  handled,  \* [Coords -> Seq([from, op])]: what each for_each has printed
  panicked  \* the coordinators whose for_each panicked

vars == <<prog, emitted, chan, handled, panicked>>

-----------------------------------------------------------------------------
\* The filter of op k's stream: |(op, _args)| op == &k.
OpFilter(k, o) == o.op = k

\* The next item of c's source_iter goes to every clone; each filter that
\* passes it sends it to its coordinator.
Emit(c) ==
  /\ emitted[c] < Len(prog[c])
  /\ LET o == prog[c][emitted[c] + 1] IN
     chan' = [chan EXCEPT ![c] = [k \in Coords |->
                IF OpFilter(k, o) THEN Append(@[k], o) ELSE @[k]]]
  /\ emitted' = [emitted EXCEPT ![c] = @ + 1]
  /\ UNCHANGED <<prog, handled, panicked>>

\* Fault model: readOwnTimeline's for_each copied from post's, args[1] too.
IndexesArg1AllHandlers(k) == k \in 1..4

\* The for_each of coords 1..3 reads args[1]; coord 4's only args[0].
IndexesArg1(k) == k \in 1..3

\* Coordinator k receives the next item of c's connection and its for_each
\* prints it; coords 1..3 index args[1], which panics on a shorter args.
Handle(c, k) ==
  /\ k \notin panicked
  /\ chan[c][k] # <<>>
  /\ LET o == Head(chan[c][k]) IN
       IF IndexesArg1(k) /\ ArgCount(o) < 2
         THEN /\ panicked' = panicked \cup {k}
              /\ UNCHANGED handled
         ELSE /\ handled' = [handled EXCEPT ![k] = Append(@, [from |-> c, op |-> o])]
              /\ UNCHANGED panicked
  /\ chan' = [chan EXCEPT ![c][k] = Tail(@)]
  /\ UNCHANGED <<prog, emitted>>

AllPrograms == UNION {Programs(c) : c \in Clients}

Init ==
  /\ prog \in {p \in [Clients -> AllPrograms] : \A c \in Clients : p[c] \in Programs(c)}
  /\ emitted = [c \in Clients |-> 0]
  /\ chan = [c \in Clients |-> [k \in Coords |-> <<>>]]
  /\ handled = [k \in Coords |-> <<>>]
  /\ panicked = {}

\* Every item emitted and every connection drained: the deployment idles
\* until it is stopped.
Quiescent ==
  /\ \A c \in Clients : emitted[c] = Len(prog[c])
  /\ \A c \in Clients, k \in Coords : chan[c][k] = <<>> \/ k \in panicked

Next ==
  \/ \E c \in Clients : Emit(c)
  \/ \E c \in Clients, k \in Coords : Handle(c, k)
  \/ Quiescent /\ UNCHANGED vars

Spec == Init /\ [][Next]_vars

-----------------------------------------------------------------------------
\* What coordinator k has printed from client c, in order.
HandledFrom(k, c) ==
  LET s == SelectSeq(handled[k], LAMBDA h : h.from = c)
  IN [i \in 1..Len(s) |-> s[i].op]

\* Client c's operations of kind k, among those it has emitted so far.
EmittedOfKind(c, k) ==
  SelectSeq(SubSeq(prog[c], 1, emitted[c]), LAMBDA o : o.op = k)

\* Each coordinator sees exactly the operations of its kind from every
\* client, each once and in the client's order: what it printed followed by what is still in the
\* connection is the client's own sequence of that kind, and no for_each
\* meets an args it cannot index.  It fails if a filter lets an operation
\* through to the wrong coordinator or to none, or if the transport drops,
\* duplicates or reorders.
RoutedExactlyOnce ==
  /\ panicked = {}
  /\ \A c \in Clients, k \in Coords :
       HandledFrom(k, c) \o chan[c][k] = EmittedOfKind(c, k)

\* Retwis semantics: a user's follow, post or timeline read, and the user
\* it follows, are handled only after that account's createAccount was.
\* The comment at the source_iter puts createAccount first for this.
AccountBeforeUse ==
  \A k \in Coords \ {1} : \A i \in DOMAIN handled[k] :
    LET o == handled[k][i].op
        Created(u) == \E j \in DOMAIN handled[1] : handled[1][j].op.user = u
    IN  /\ Created(o.user)
        /\ o.op = 2 => Created(o.arg)
====
