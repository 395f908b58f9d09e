-------------------------- MODULE MCBlockProduction ---------------------------
(***************************************************************************)
(* Two proposers, one equivocator with two first blocks, and at most four  *)
(* more blocks.                                                            *)
(***************************************************************************)
EXTENDS BlockProduction

CONSTANTS v1, v2, x, a1

D1 == [id |-> 1, valid_after |-> 0, timestamp |-> 1, expires |-> 0, price |-> 1]
D2 == [id |-> 2, valid_after |-> 2, timestamp |-> 0, expires |-> 0, price |-> 1]
D3 == [id |-> 3, valid_after |-> 0, timestamp |-> 1, expires |-> 1, price |-> 1]
D4 == [id |-> 4, valid_after |-> 0, timestamp |-> 2, expires |-> 0, price |-> 0]

MCProposer == {v1, v2}
MCDeploy == {D1, D2, D3, D4}
MCForkDeploys == {D1}
MCAuth == {a1}
\* The hash order is unrelated to the order of creation.
MCHash == <<4, 1, 2, 6, 5, 3>>

\* Deploys without a fork, in two windows; deploys and the fork; expiration and
\* the cap; penalties with a strict runtime, and with a formatter that refuses;
\* penalties and the fork.
MCConfigs ==
    LET base == [compatible |-> TRUE, strict |-> FALSE, formats |-> TRUE, forks |-> FALSE,
                 proofs |-> FALSE, submits |-> {}, authorizes |-> {}, cap |-> 2,
                 lifespan |-> 2, min_price |-> 1, blocks |-> 5, time |-> 0]
    IN {[base EXCEPT !.submits = {D1, D2}, !.lifespan = 1],
        [base EXCEPT !.submits = {D1}, !.blocks = 6],
        [base EXCEPT !.submits = {D1}, !.forks = TRUE],
        [base EXCEPT !.submits = {D1, D3, D4}, !.cap = 1, !.time = 2, !.blocks = 4],
        [base EXCEPT !.strict = TRUE, !.proofs = TRUE, !.authorizes = {a1}],
        [base EXCEPT !.formats = FALSE, !.proofs = TRUE, !.authorizes = {a1}],
        [base EXCEPT !.compatible = FALSE, !.forks = TRUE, !.proofs = TRUE, !.blocks = 4]}
=============================================================================
