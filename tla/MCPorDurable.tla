----------------------------- MODULE MCPorDurable -----------------------------
(***************************************************************************)
(* Two outcomes of a round that project to different weights.  The source  *)
(* of round r ends in wave r - 1 and is final with wave r; the third       *)
(* output is rewritten by the weights of outcome "b".                      *)
(***************************************************************************)
EXTENDS PorDurable

MCOutcome == {"a", "b"}
MCProjection == [o \in MCOutcome |-> "weights_" \o o]
MCRounds == [r \in 1 .. MaxRound |-> r - 1]
MCSourceAt == [r \in 1 .. MaxRound |-> r]
MCRefused == {<<"weights_b", 3>>}
MCPaths == {"wave", "checkpoint", "epoch"}

===============================================================================
