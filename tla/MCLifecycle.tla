---------------------------- MODULE MCLifecycle ----------------------------
(***************************************************************************)
(* Small instances of Lifecycle: two objects, of kinds whose handlers take *)
(* the object out of a DeletedFinalStateUnknown, and one Ingress.          *)
(***************************************************************************)
EXTENDS Lifecycle

TwoTasks == {[kind |-> "VirtualServer", name |-> 1], [kind |-> "TransportServer", name |-> 1]}
IngressTask == {[kind |-> "Ingress", name |-> 1]}
=============================================================================
