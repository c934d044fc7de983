------------------------------ MODULE FoldKeyed ------------------------------
(***************************************************************************)
(* The fold_keyed operator as dfir_lang/src/graph/ops/fold_keyed.rs        *)
(* generates it, run by a location's scheduler tick after tick.            *)
(*                                                                         *)
(* The operator's state is one hash table (add_state, 135).  Its input     *)
(* edge has DelayType::Stratum (83): the producer's stratum finishes       *)
(* before the operator's subgraph runs in a tick.  Each run drains the     *)
(* input into the table, then outputs according to the persistence        *)
(* (192-222): Tick drains the table, Loop iterates it, Static iterates it  *)
(* on the first run of the tick only, Mutable applies Persist/Delete and   *)
(* iterates it.  Static and Mutable reschedule their subgraph lazily       *)
(* (258-264), and a state lifespan hook drops Tick and Loop tables at the  *)
(* end of their lifespan (137-142).  The scheduler (dfir_rs, not among the *)
(* sources) is modelled from the spec: a handoff write schedules the       *)
(* consumer in the same tick, a scheduled subgraph runs before the tick    *)
(* ends, a lazy reschedule takes effect in the next tick, and any          *)
(* subgraph may be activated again within a tick.                          *)
(***************************************************************************)
EXTENDS Naturals, Sequences, SequencesExt

CONSTANTS
  Keys, Vals,    \* keys and values of the input entries
  Policies,      \* the persistence arguments checked
  MaxInputs,     \* bound on the entries consumed in a behaviour
  MaxRuns        \* bound on the activations of the subgraph in one tick

VARIABLES
  persistence, \* the operator's persistence argument (Tick when absent, 111-115)
  phase,       \* "produce": the producer's stratum runs; "fold": the operator's
  handoff,     \* the entries waiting on the input edge
  table,       \* the hash table
  runs,        \* activations of the subgraph in this tick
  emits,       \* outputs (non-suppressed activations) in this tick
  out,         \* the table the last output iterated
  sched,       \* the subgraph is scheduled in this tick
  resched,     \* the subgraph was rescheduled lazily for the next tick
  received     \* entries consumed so far

vars == <<persistence, phase, handoff, table, runs, emits, out, sched, resched, received>>

\* The input item type: (K, V) pairs, PersistenceKeyed Persist/Delete under Mutable.
InputItems(p) ==
  {[op |-> "persist", k |-> k, v |-> v] : k \in Keys, v \in Vals}
  \cup (IF p = "Mutable" THEN {[op |-> "delete", k |-> k, v |-> 0] : k \in Keys} ELSE {})

KA == INSTANCE KeyedAggregate WITH Entries <- InputItems("Mutable"), policy <- persistence,
        acc <- table, batch <- handoff, published <- emits, out <- out

EmptyTable == [k \in {} |-> 0]

-----------------------------------------------------------------------------
\* Fault model: Delete(k) resets k's accumulator to initfn() instead of
\* removing the entry.
AbsorbDeleteResets(t, s) ==
  LET Step(h, e) ==
        CASE e.op = "delete" /\ e.k \in DOMAIN h -> [h EXCEPT ![e.k] = 0]
          [] e.op = "delete"                     -> h
          [] e.k \in DOMAIN h                    -> [h EXCEPT ![e.k] = @ + e.v]
          [] OTHER                               -> h @@ (e.k :> 0 + e.v)
  IN FoldLeft(Step, t, s)

\* The loop of write_iterator over the input (174-184, 246-251).
Absorb(t, s) ==
  LET Step(h, e) ==
        CASE e.op = "delete"      -> [k \in DOMAIN h \ {e.k} |-> h[k]]      \* remove(&k)
          [] e.k \in DOMAIN h    -> [h EXCEPT ![e.k] = @ + e.v]          \* aggfn(entry, v)
          [] OTHER               -> h @@ (e.k :> 0 + e.v)               \* or_insert_with(initfn)
  IN FoldLeft(Step, t, s)

\* Fault model: Static replays on every run, without is_first_run_this_tick.
OutputsEveryRun(p, first) == TRUE

\* Whether a run outputs: all but Static, which outputs on the first run of
\* the tick only (205-220).
Outputs(p, first) == p # "Static" \/ first

\* The table after a run's output: drain() empties it (193-195).
AfterOutput(p, t) == IF p = "Tick" THEN EmptyTable ELSE t

\* Fault model: the lazy reschedule left out.
ReschedulesNone(p) == FALSE

\* write_iterator_after (258-264).
Reschedules(p) == p \in {"Static", "Mutable"}

\* persistence_as_state_lifespan: the hook that takes the table at the end
\* of a tick (Tick) or of the loop that runs within it (Loop).
Lifespan(p) == p \in {"Tick", "Loop"}

-----------------------------------------------------------------------------
\* The producer's stratum pushes an entry into the handoff; the write
\* schedules the consumer's subgraph.
Produce(e) ==
  /\ phase = "produce"
  /\ received < MaxInputs
  /\ handoff' = Append(handoff, e)
  /\ sched' = TRUE
  /\ received' = received + 1
  /\ UNCHANGED <<persistence, phase, table, runs, emits, out, resched>>

\* DelayType::Stratum: the producer's stratum is done for this tick.
Barrier ==
  /\ phase = "produce"
  /\ phase' = "fold"
  /\ UNCHANGED <<persistence, handoff, table, runs, emits, out, sched, resched, received>>

(* One run of the subgraph (write_iterator and write_iterator_after): the  *)
(* whole handoff is folded into the table, the output is taken as the      *)
(* persistence says, and Static/Mutable schedule the next tick's run.      *)
Activate ==
  /\ phase = "fold"
  /\ sched
  /\ runs < MaxRuns
  /\ LET t == Absorb(table, handoff)
         o == Outputs(persistence, runs = 0)
     IN /\ table' = AfterOutput(persistence, t)
        /\ out' = IF o THEN t ELSE out
        /\ emits' = IF o THEN emits + 1 ELSE emits
  /\ handoff' = <<>>
  /\ runs' = runs + 1
  /\ sched' = FALSE
  /\ resched' = (resched \/ Reschedules(persistence))
  /\ UNCHANGED <<persistence, phase, received>>

\* The scheduler activates the subgraph again within the tick.
Reactivate ==
  /\ phase = "fold"
  /\ ~sched
  /\ 0 < runs /\ runs < MaxRuns
  /\ sched' = TRUE
  /\ UNCHANGED <<persistence, phase, handoff, table, runs, emits, out, resched, received>>

\* Every scheduled subgraph has run: the tick ends, the lifespan hook takes
\* a Tick or Loop table, and a lazy reschedule schedules the next tick's run.
EndTick ==
  /\ phase = "fold"
  /\ ~sched
  /\ table' = IF Lifespan(persistence) THEN EmptyTable ELSE table
  /\ phase' = "produce"
  /\ runs' = 0
  /\ emits' = 0
  /\ sched' = resched
  /\ resched' = FALSE
  /\ UNCHANGED <<persistence, handoff, out, received>>

Init ==
  /\ persistence \in Policies
  /\ phase = "produce"
  /\ handoff = <<>>
  /\ table = EmptyTable
  /\ runs = 0
  /\ emits = 0
  /\ out = EmptyTable
  /\ sched = FALSE
  /\ resched = FALSE
  /\ received = 0

Next ==
  \/ \E e \in InputItems(persistence) : Produce(e)
  \/ Barrier \/ Activate \/ Reactivate \/ EndTick

\* The runtime runs every scheduled subgraph and keeps running ticks (the
\* location runs until it is stopped); the producer is the environment.
Spec == Init /\ [][Next]_vars /\ WF_vars(Barrier) /\ WF_vars(Activate) /\ WF_vars(EndTick)

-----------------------------------------------------------------------------
MaxAcc == MaxInputs * (IF Vals = {} THEN 0 ELSE CHOOSE m \in Vals : \A v \in Vals : v <= m)
Tables == UNION {[D -> 1..MaxAcc] : D \in SUBSET Keys}

TypeOK ==
  /\ persistence \in Policies
  /\ phase \in {"produce", "fold"}
  /\ handoff \in Seq(InputItems(persistence))
  /\ table \in Tables
  /\ out \in Tables
  /\ runs \in 0..MaxRuns /\ emits \in 0..runs
  /\ received \in 0..MaxInputs

\* The operator implements KeyedAggregate: its outputs are the contract's,
\* under the refinement mapping table -> acc, handoff -> batch, emits ->
\* published.  This covers the Stratum barrier, the Static suppression of
\* re-runs, drain() for Tick, the lifespan hook and the lazy reschedule.
ImplementsKeyedAggregate == KA!Spec

\* Under Static and Mutable, a non-empty table is output again: whatever
\* tick it was built in, a later activation iterates it (the lazy
\* reschedule of write_iterator_after).
ReplayEventually ==
  \A k \in Keys :
    (persistence \in {"Static", "Mutable"} /\ k \in DOMAIN table)
      ~> (k \notin DOMAIN table \/ (emits > 0 /\ k \in DOMAIN out))
====
