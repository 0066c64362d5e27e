----------------------------- MODULE MCPipeline -----------------------------
EXTENDS Pipeline, TLC

Op(kind, a, b, dest, target) ==
  [kind |-> kind, a |-> a, b |-> b, dest |-> dest, target |-> target]

Program == (0 :> Op("load", 0, 0, 1, 0)) @@ (1 :> Op("branch", 1, 0, 0, 4))
           @@ (2 :> Op("multiply", 1, 0, 1, 0)) @@ (3 :> Op("eret", 0, 0, 0, 1))
           @@ (4 :> Op("likely", 1, 0, 0, 0)) @@ (5 :> Op("move", 0, 1, 1, 0))
HostCode == { Op("jump", 0, 0, 0, 5), Op("load", 0, 1, 1, 0) }
=============================================================================
