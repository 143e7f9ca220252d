------------------------------ MODULE MCEmpire ------------------------------
(* A chain, app on api on store, and two nodes that need each other, with  *)
(* every readiness receipt.  The first run meets an api that was made ready*)
(* too early, and one node of the cycle ready and one not.                 *)
EXTENDS Empire

MCDeps == [store |-> {}, api |-> {"store"}, app |-> {"api"}, left |-> {"right"}, right |-> {"left"}]

MCManifest0 ==
    {[status |-> [store |-> "planned", api |-> "ready", app |-> "planned",
                  left |-> "ready", right |-> "blocked"], evidence |-> Nodes]}
=============================================================================
