----------------------------- MODULE RatingRound -----------------------------
(***************************************************************************)
(* What a rating round promises, without the outboxes, the directory, the  *)
(* marker and the polling that bring it about: a runner completes in one   *)
(* step a round that the finalized outputs call for, and if the round is   *)
(* bound to a checkpoint all runners complete the same one.  Nothing that  *)
(* was completed is taken back.                                            *)
(***************************************************************************)
CONSTANT Validator

VARIABLES
    single,   \* the round is bound to a checkpoint
    called,   \* the rounds that finalized outputs call for: output and batch
    closed    \* the rounds each runner has completed

RoundInit == closed = [v \in Validator |-> {}]

Complete(v, c) ==
    /\ c \in called
    /\ single => \A w \in Validator : closed[w] \subseteq {c}
    /\ closed' = [closed EXCEPT ![v] = @ \cup {c}]
    /\ UNCHANGED <<single, called>>

RoundNext == \E v \in Validator, c \in called : Complete(v, c)

RoundSpec == RoundInit /\ [][RoundNext]_<<single, called, closed>>
=============================================================================
