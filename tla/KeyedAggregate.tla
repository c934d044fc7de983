--------------------------- MODULE KeyedAggregate ---------------------------
(***************************************************************************)
(* What a keyed-aggregation operator promises its consumers, per           *)
(* persistence policy, at the granularity of ticks (epochs):               *)
(*  - the entries of a tick all arrive before its first output (barrier);  *)
(*  - an output is the table folded over every entry the policy retains:   *)
(*    this tick's for Tick, this tick's across activations for Loop, all   *)
(*    ticks' for Static and Mutable (Mutable entries may delete a key);    *)
(*  - Static outputs once per tick, the others on every activation;        *)
(*  - a tick with entries outputs them, and under Static and Mutable a     *)
(*    tick with a non-empty table replays it.                              *)
(* A table is a function from the keys present to their accumulators; the *)
(* initializer is 0 and the combiner +, the keyed sum of the examples.     *)
(***************************************************************************)
EXTENDS Naturals, Sequences, SequencesExt

CONSTANTS
  Entries,  \* the entries the operator may consume
  Policies  \* a subset of {"Tick", "Loop", "Static", "Mutable"}

VARIABLES
  policy,    \* the persistence, fixed for a behaviour
  acc, batch, published, out

EmptyTable == [k \in {} |-> 0]

\* One entry folded into a table: Persist(k, v) combines v into k's
\* accumulator (created by the initializer when k is unseen), Delete(k)
\* removes k.
ApplyEntry(t, e) ==
  IF e.op = "delete"
  THEN [k \in DOMAIN t \ {e.k} |-> t[k]]
  ELSE [k \in DOMAIN t \cup {e.k} |->
          (IF k \in DOMAIN t THEN t[k] ELSE 0) + (IF k = e.k THEN e.v ELSE 0)]

FoldEntries(t, s) == FoldLeft(ApplyEntry, t, s)

Retained == policy \in {"Static", "Mutable"}

Init ==
  /\ policy \in Policies
  /\ acc = EmptyTable
  /\ batch = <<>>
  /\ published = 0
  /\ out = EmptyTable

\* An entry of the current tick, before any output of the tick.
Receive(e) ==
  /\ published = 0
  /\ batch' = Append(batch, e)
  /\ UNCHANGED <<policy, acc, published, out>>

\* The first output of the tick: everything retained, with the whole batch.
Publish ==
  /\ published = 0
  /\ out' = FoldEntries(acc, batch)
  /\ acc' = IF policy = "Tick" THEN EmptyTable ELSE FoldEntries(acc, batch)
  /\ batch' = <<>>
  /\ published' = 1
  /\ UNCHANGED policy

\* A later activation in the same tick outputs the table again, except
\* under Static, where it is suppressed.
Republish ==
  /\ published > 0
  /\ policy # "Static"
  /\ out' = acc
  /\ published' = published + 1
  /\ UNCHANGED <<policy, acc, batch>>

\* The tick ends: entries were output, a retained table was replayed, and
\* Tick and Loop tables are dropped.
NextTick ==
  /\ batch # <<>> => published > 0
  /\ Retained /\ acc # EmptyTable => published > 0
  /\ acc' = IF Retained THEN acc ELSE EmptyTable
  /\ published' = 0
  /\ UNCHANGED <<policy, batch, out>>

vars == <<policy, acc, batch, published, out>>

Next == (\E e \in Entries : Receive(e)) \/ Publish \/ Republish \/ NextTick

Spec == Init /\ [][Next]_vars
====
