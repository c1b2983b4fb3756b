--------------------------- MODULE MCEngineServer ---------------------------
(***************************************************************************)
(* Two processes whose engines prefer the same port: the one under test    *)
(* has three callers (two that start it and one that shuts it down, or a   *)
(* fourth that starts it again), the other one holds the port or not.      *)
(***************************************************************************)
EXTENDS EngineServer, TLC

CONSTANTS e1, e2, c1, c2, c3, c4

MCOf == c1 :> e1 @@ c2 :> e1 @@ c3 :> e1 @@ c4 :> e2

MCJobs == c1 :> {"start_with", "prepare"} @@ c2 :> {"prepare", "shutdown"}
          @@ c3 :> {"start", "shutdown"} @@ c4 :> {"start"}

MCPortText == e1 :> 0 @@ e2 :> 1
MCDefaultPort == e1 :> 1 @@ e2 :> 2
=============================================================================
