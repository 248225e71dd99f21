--------------------------- MODULE MCHostSession ---------------------------
(* A terminal and a channel of one line each, two firings and one            *)
(* request to stop it next to the watcher.                                   *)
EXTENDS HostSession, TLC

CONSTANTS f1, f2, k1, w

MCFiring == {f1, f2}
MCRequest == {k1}
MCWatcher == w

Session(c, a, n) == [color |-> c, allow |-> a, session |-> TRUE, attempts |-> n]
OneShot(c, a, n) == [color |-> c, allow |-> a, session |-> FALSE, attempts |-> n]

MCSetup == {(f1 :> Session("result", FALSE, 1)) @@ (f2 :> Session("chunk", TRUE, 1)),
            (f1 :> Session("result", TRUE, 2)),
            (f2 :> OneShot("result", TRUE, 2))}
=============================================================================
