-------------------------- MODULE SnapshotDelivery --------------------------
(***************************************************************************)
(* What the control plane promises of the snapshots the nodes serve: a     *)
(* node only ever moves to a snapshot that had been published under that   *)
(* version, one node at a time, and it stops serving only when it          *)
(* restarts.                                                               *)
(***************************************************************************)
CONSTANTS Nodes, Records, AppliedOf(_), None

VARIABLES delivered, serving

Init == delivered = {} /\ serving = [n \in Nodes |-> None]

Deliver ==
    /\ delivered' \in SUBSET Records
    /\ delivered \subseteq delivered'
    /\ UNCHANGED serving

Serve(n) ==
    /\ \E record \in delivered : serving' = [serving EXCEPT ![n] = AppliedOf(record)]
    /\ UNCHANGED delivered

Stop(n) ==
    /\ serving' = [serving EXCEPT ![n] = None]
    /\ UNCHANGED delivered

Next == Deliver \/ \E n \in Nodes : Serve(n) \/ Stop(n)

Spec == Init /\ [][Next]_<<delivered, serving>>
=============================================================================
