---------------------------- MODULE MCAttestation -----------------------------
EXTENDS Attestation, TLC

CONSTANTS v1, v2, v3

MCValidator == {v1, v2, v3}
MCKey == v1 :> 1 @@ v2 :> 2 @@ v3 :> 3
MCBonds == v1 :> 7 @@ v2 :> 6 @@ v3 :> 6

\* v1 in every quorum of two; v3 has equivocated, in two rounds.
Authorization(i, p, r, ok) == [id |-> i, offender |-> p, proof_round |-> r, sound |-> ok]
Setting(mode, policy, n, w, producers, carriers_, faulty, restarts) ==
    [mode |-> mode, policy |-> policy, rounds |-> n, waves |-> w, bonds |-> MCBonds, producers |-> producers,
     carriers |-> carriers_, faulty |-> faulty, restarts |-> restarts, crashes |-> 1]

Clean == <<{}, {}>>
Slash == <<{Authorization(1, v3, 1, TRUE), Authorization(2, v3, 2, TRUE)}, {}>>
Stale == <<{Authorization(1, v3, 1, TRUE), Authorization(2, v2, 1, FALSE)}, {Authorization(3, v3, 2, TRUE)}>>

MCConfigs == {
    Setting("wave", "CarryForward", 1, 1, <<{v1}>>, Clean, {v1}, {}),
    Setting("wave", "CarryForward", 1, 1, <<{v1}>>, Clean, {}, {v1}),
    Setting("wave", "CarryForward", 1, 2, <<{v1}>>, Clean, {}, {}),
    Setting("wave", "Neutral", 2, 2, <<{v3}, {v1}>>, Slash, {}, {}),
    Setting("checkpoint", "CarryForward", 2, 2, <<{v1, v3}, {v1, v2}>>, Stale, {}, {})}

\* One validator restarts after it has published.
RestartConfigs == {Setting("wave", "CarryForward", 1, 1, <<{v1}>>, Clean, {}, {v1})}

=============================================================================
