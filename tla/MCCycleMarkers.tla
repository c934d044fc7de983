---------------------------- MODULE MCCycleMarkers ----------------------------
EXTENDS CycleMarkers, TLC

\* One handle of each kind, the TickCycle declared at a tick location.
MCMarkers == {"fwd", "tick"}
MCMarkerKind == "fwd" :> "ForwardRef" @@ "tick" :> "TickCycle"
MCLocs == {"P1", "T1"}
====
