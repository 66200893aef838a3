--------------------------- MODULE MCSupervisor ---------------------------
(***************************************************************************)
(* Instances of Supervisor: public listeners, 1 and 3, and an admin        *)
(* listener, 2.                                                            *)
(***************************************************************************)
EXTENDS Supervisor, TLC

Public(protocol, bind, policy) ==
    [class |-> "public", protocol |-> protocol, bind |-> bind, policy |-> policy]

Admin(protocol, bind, policy) ==
    [class |-> "admin", protocol |-> protocol, bind |-> bind, policy |-> policy]

\* From "ephemeral", which can be warm-restarted: "moved" retires the public
\* listener, replaces the admin listener and adds a third, "tuned" asks for new
\* settings of both, which only the admin listener takes over, and "broken" does
\* not compile.
MCListenersOf ==
    [ephemeral |-> <<Public("http3", 0, 1), Admin("http1", 12, 1)>>,
     moved     |-> 2 :> Admin("http1", 13, 1) @@ 3 :> Public("http1", 11, 1),
     tuned     |-> <<Public("http3", 0, 2), Admin("http1", 12, 2)>>]

MCNames == {1, 2, 3}
=============================================================================
