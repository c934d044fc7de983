------------------------------ MODULE Location ------------------------------
(***************************************************************************)
(* LocationId of hydro_lang (location/mod.rs, not among the sources; its   *)
(* variants are used throughout ir.rs and external_process.rs):            *)
(*   Process(id) | Cluster(id) | ExternalProcess(id) | Tick(id, Box<root>) *)
(* A location is a record; a Tick carries the location it is nested in.    *)
(***************************************************************************)
EXTENDS Naturals

RootKinds == {"Process", "Cluster", "ExternalProcess"}

Process(i)         == [kind |-> "Process", id |-> i]
Cluster(i)         == [kind |-> "Cluster", id |-> i]
ExternalProcess(i) == [kind |-> "ExternalProcess", id |-> i]
Tick(i, l)         == [kind |-> "Tick", id |-> i, inner |-> l]

\* LocationId::root: a Tick resolves to the root it is nested in.
RECURSIVE Root(_)
Root(l) == IF l.kind = "Tick" THEN Root(l.inner) ELSE l

\* Location::is_top_level (external_process.rs 87-89 for ExternalProcess).
IsTopLevel(l) == l.kind \in RootKinds
=============================================================================
