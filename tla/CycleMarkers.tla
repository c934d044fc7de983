----------------------------- MODULE CycleMarkers -----------------------------
(***************************************************************************)
(* The cycle markers of hydro_lang/src/cycle.rs while a flow is built.     *)
(* A ForwardRef or TickCycle handle carries a completed flag, the ident of *)
(* its CycleSource and the expected location.  complete (47-51) and        *)
(* complete_next_tick (70-74) set the flag and hand the stream to          *)
(* S::complete, which checks the location and adds a CycleSink leaf        *)
(* (stream.rs, not among the sources: modelled from the spec, 4.3);        *)
(* complete_next_tick wraps the stream in defer_tick first.  Dropping a    *)
(* handle whose flag is unset panics (38-44, 61-67); a handle dropped      *)
(* while a panic unwinds, and panicking again, aborts the process.         *)
(***************************************************************************)
EXTENDS Naturals, FiniteSets

CONSTANTS
  Markers,     \* the handles a flow declares
  MarkerKind,  \* [Markers -> {"ForwardRef", "TickCycle"}]
  Locs         \* the locations a handle or a stream may be at

VARIABLES
  state,    \* [Markers -> "none" | "open" | "completed" | "dropped"]
  expected, \* [Markers -> Locs]: expected_location
  sinks,    \* the CycleSink leaves: [ident, loc, deferred]
  status    \* "building" | "panicking" | "panicked" | "aborted" | "finalized"

vars == <<state, expected, sinks, status>>

-----------------------------------------------------------------------------
\* Fault model: Drop without the completed check.
DropPanicsNever(m) == FALSE

\* impl Drop: a handle whose completed flag is unset panics.
DropPanics(m) == state[m] = "open"

\* forward_ref / tick_cycle: a fresh handle and its CycleSource ident.
Declare(m, l) ==
  /\ status = "building"
  /\ state[m] = "none"
  /\ state' = [state EXCEPT ![m] = "open"]
  /\ expected' = [expected EXCEPT ![m] = l]
  /\ UNCHANGED <<sinks, status>>

\* self.completed = true, then S::complete(stream, ident, expected_location):
\* a stream at another location panics, otherwise the CycleSink is added.
\* The handle, moved into the call, is dropped completed.
Bind(m, l, deferred) ==
  /\ status = "building"
  /\ state[m] = "open"
  /\ state' = [state EXCEPT ![m] = "completed"]
  /\ IF l = expected[m]
       THEN /\ sinks' = sinks \cup {[ident |-> m, loc |-> l, deferred |-> deferred]}
            /\ UNCHANGED status
       ELSE /\ status' = "panicking"
            /\ UNCHANGED sinks
  /\ UNCHANGED expected

\* ForwardRef::complete.
Complete(m, l) == MarkerKind[m] = "ForwardRef" /\ Bind(m, l, FALSE)

\* TickCycle::complete_next_tick: the stream goes through defer_tick().
CompleteNextTick(m, l) == MarkerKind[m] = "TickCycle" /\ Bind(m, l, TRUE)

\* A handle goes out of scope.
DropHandle(m) ==
  /\ status = "building"
  /\ state[m] = "open"
  /\ status' = IF DropPanics(m) THEN "panicking" ELSE status
  /\ state' = [state EXCEPT ![m] = "dropped"]
  /\ UNCHANGED <<expected, sinks>>

\* The unwinding drops every handle still in scope; a second panic aborts.
Unwind ==
  /\ status = "panicking"
  /\ status' = IF \E m \in Markers : DropPanics(m) THEN "aborted" ELSE "panicked"
  /\ UNCHANGED <<state, expected, sinks>>

\* The flow-building function returns: the handles left in scope are
\* dropped, then the graph is finalized.
Finalize ==
  /\ status = "building"
  /\ status' = IF \E m \in Markers : DropPanics(m) THEN "panicking" ELSE "finalized"
  /\ UNCHANGED <<state, expected, sinks>>

Init ==
  /\ state = [m \in Markers |-> "none"]
  /\ expected \in [Markers -> Locs]   \* unused until a handle is declared
  /\ sinks = {}
  /\ status = "building"

Stopped == status \in {"panicked", "aborted", "finalized"}

Next ==
  \/ \E m \in Markers, l \in Locs :
       Declare(m, l) \/ Complete(m, l) \/ CompleteNextTick(m, l)
  \/ \E m \in Markers : DropHandle(m)
  \/ Unwind \/ Finalize
  \/ Stopped /\ UNCHANGED vars

Spec == Init /\ [][Next]_vars

-----------------------------------------------------------------------------
\* A finalized flow closes every cycle it declared: each declared handle
\* has exactly one CycleSink with its ident, at its expected location, and
\* no CycleSink exists without a declared handle.  This is what the panic
\* of Drop guarantees for every path out of the builder, handles dropped
\* early included.
CyclesClosed ==
  status = "finalized" =>
    /\ \A m \in Markers : state[m] # "none" =>
         \E s \in sinks : /\ s.ident = m /\ s.loc = expected[m]
                          /\ \A t \in sinks : t.ident = m => t = s
    /\ \A s \in sinks : state[s.ident] # "none"
====
