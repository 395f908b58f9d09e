---------------------------- MODULE MCMirrorStore ----------------------------
(***************************************************************************)
(* A diamond g <- a, b <- c, a chain g <- a <- d, and a second signature   *)
(* g2 of g, on which nothing builds.  Keys put c before a and g2 before g. *)
(***************************************************************************)
EXTENDS MirrorStore, TLC

CONSTANTS g, g2, a, b, c, d

MCContent ==
    [x \in Id |-> (g :> "G" @@ g2 :> "G" @@ a :> "A" @@ b :> "B" @@ c :> "C" @@ d :> "D")[x]]
MCPreds ==
    [x \in Id |-> (g :> {} @@ g2 :> {} @@ a :> {g} @@ b :> {g} @@ c :> {a, b} @@ d :> {a})[x]]
MCKey ==
    [x \in Id |-> (c :> 1 @@ g2 :> 2 @@ g :> 3 @@ d :> 4 @@ b :> 5 @@ a :> 6)[x]]

=============================================================================
