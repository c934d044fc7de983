----------------------------- MODULE MCSshTracing -----------------------------
(***************************************************************************)
(* Two traced binaries launched on the same SSH host, as a deployment does *)
(* when it places two services on one machine.                             *)
(***************************************************************************)
EXTENDS SshTracing

CONSTANTS b1, b2, h1

SharedHost == [b \in Binaries |-> h1]
====
