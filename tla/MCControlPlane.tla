--------------------------- MODULE MCControlPlane ---------------------------
(* Two nodes, three snapshots: one with an enforced attestation, one       *)
(* that needs a staged acknowledgement and one with discovery,             *)
(* and two versions of which one is also spelled with white space.         *)
EXTENDS ControlPlane

CONSTANTS n1, n2, d1, d2, d3, signer

MCTrim == [v \in {"v1", "v2", " v1", "?"} |-> IF v = " v1" THEN "v1" ELSE v]

MCContent ==
    LET snapshot(routes) == [listeners |-> [l \in {"web"} |-> 0],
                             routes    |-> routes,
                             clusters  |-> [c \in {"api"} |-> 0]]
    IN [d \in {d1, d2, d3} |-> snapshot([r \in {"r1"} |-> IF d = d1 THEN 0 ELSE 1])]

MCSecurity ==
    [d \in {d1, d2, d3} |-> [enforced |-> d = d1, trusted |-> {signer},
                         devMode |-> TRUE, acknowledged |-> TRUE]]

Signed(d) == [signer |-> signer, digest |-> d, signed |-> TRUE]

Good(version, digest) ==
    [version |-> version, digest |-> digest, attestation |-> Signed(digest),
     expected |-> None, fieldsOk |-> TRUE]

MCRequests ==
    {Good("v1", d1), Good("v1", d2), Good("v2", d2), Good(" v1", d2), Good("v2", d3)}
    \cup {[Good("v1", d1) EXCEPT !.attestation = Signed(d2)]}

Mix(publish, upkeep, nodes, fleet, faults) ==
    [publish |-> publish, upkeep |-> upkeep, node |-> nodes, fleet |-> fleet,
     faults |-> faults]

MCBudgets ==
    {Mix(3, 3, 0, 0, 0), Mix(2, 1, 2, 0, 0), Mix(2, 0, 1, 1, 0),
     Mix(2, 1, 0, 1, 1), Mix(2, 0, 0, 2, 0)}

MCNodeIds == <<n1, n2>>

MCStrategies ==
    {[kind |-> "immediate"], [kind |-> "sequential"], [kind |-> "canary", nodes |-> 1]}

MCSignals == {[ready |-> 99, error |-> 0], [ready |-> 90, error |-> 9]}
=============================================================================
