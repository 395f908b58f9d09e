------------------------------ MODULE Reputation ------------------------------
(***************************************************************************)
(* The deterministic transition of the proof-of-reputation library: from   *)
(* the ledger of one round, the signed ratings of the next round and the   *)
(* finalized penalties to the ledger of the next round.                    *)
(*                                                                         *)
(* A ledger maps every known validator to its entry: the active weight,    *)
(* the balance that survived a slash, and whether the key is ejected.      *)
(* Values are fixed-point naturals; scale stands for 1.                    *)
(***************************************************************************)
EXTENDS Integers, FiniteSets, FiniteSetsExt

CONSTANTS scale, liquid_rank_alpha, initial_reputation, minimum_rating, maximum_rating,
          correlation_threshold, base_slash_penalty

\* PorConfig.validate.
ASSUME PorConfigAssumption ==
    /\ {scale, liquid_rank_alpha, initial_reputation, minimum_rating, maximum_rating,
        correlation_threshold, base_slash_penalty} \subseteq Nat
    /\ scale > 0 /\ minimum_rating <= maximum_rating
    /\ \A x \in {liquid_rank_alpha, initial_reputation, correlation_threshold,
                 base_slash_penalty} : x <= scale

MissingEntryPolicy == {"Reject", "CarryForward", "Neutral"}

entry(r) == [reputation |-> r, retained |-> 0, excluded |-> FALSE]
ejected(kept) == [reputation |-> 0, retained |-> kept, excluded |-> TRUE]
is_ejected(L, p) == L[p].excluded
active(L) == {p \in DOMAIN L : ~ is_ejected(L, p)}
weight_of(L, S) == MapThenSumSet(LAMBDA p : L[p].reputation, S)

(***************************************************************************)
(* Ratings of one recipient are normalized against each other, weighted by *)
(* the reputation of their raters and blended with what the recipient had. *)
(***************************************************************************)
group(B, p) == {x \in B : x.recipient = p}
rated(B) == {x.recipient : x \in B}

normalize_score(B, x) ==
    LET scores == {y.score : y \in group(B, x.recipient)} IN
    (((x.score - Min(scores)) + scale) * scale) \div ((Max(scores) - Min(scores)) + scale)

compute_liquid_rank_contribution(L, B, p) ==
    MapThenSumSet(LAMBDA x : normalize_score(B, x) * L[x.rater].reputation, group(B, p)) \div scale

contribution_for_unrated_node(L, p, policy) ==
    IF policy = "Neutral" THEN initial_reputation ELSE L[p].reputation

blend_reputation(contribution, previous) ==
    (liquid_rank_alpha * contribution + (scale - liquid_rank_alpha) * previous) \div scale

blend_reputation_transition(L, B, p, policy) ==
    blend_reputation(IF p \in rated(B) THEN compute_liquid_rank_contribution(L, B, p)
                                       ELSE contribution_for_unrated_node(L, p, policy),
                     L[p].reputation)

(***************************************************************************)
(* The clamp R / sqrt(1 + R^2), rounded to the nearest value.  It is not   *)
(* idempotent, so a value carried forward is restored, not clamped again.  *)
(***************************************************************************)
integer_sqrt(n) == CHOOSE r \in 0..n : r * r <= n /\ n < (r + 1) * (r + 1)

clamp_reputation_value(r) ==
    LET denom == integer_sqrt(scale * scale + r * r) IN
    IF r = 0 THEN 0 ELSE (r * scale + denom \div 2) \div denom

clamp_every_entry(L, B, p, policy) ==
    clamp_reputation_value(blend_reputation_transition(L, B, p, policy))

clamp_reputation_transition(L, B, p, policy) ==
    IF policy = "CarryForward" /\ p \notin rated(B)
    THEN L[p].reputation
    ELSE clamp_reputation_value(blend_reputation_transition(L, B, p, policy))

next_list(L, B, policy) ==
    [p \in DOMAIN L |-> IF is_ejected(L, p) THEN ejected(L[p].retained)
                        ELSE entry(clamp_reputation_transition(L, B, p, policy))]

(***************************************************************************)
(* Penalties E: one equivocation for every offender, with the round the    *)
(* conflicting blocks are of.  The slash is correlated: it is total once   *)
(* the offenders of one round outweigh the threshold.  A slash is taken    *)
(* from the previous weight, and what survives no longer votes.            *)
(***************************************************************************)
offenders(E) == {e.offender : e \in E}
equivocating_weight(L, E, e) == weight_of(L, offenders({f \in E : f.proof_round = e.proof_round}))

compute_slash_penalty(equivocating, total) ==
    IF equivocating * scale <= total * correlation_threshold THEN base_slash_penalty ELSE scale

apply_slash_to_reputation(weight, penalty) == (weight * (scale - penalty)) \div scale

retained_after(L, E, p) ==
    LET e == CHOOSE f \in E : f.offender = p IN
    apply_slash_to_reputation(L[p].reputation,
        compute_slash_penalty(equivocating_weight(L, E, e), weight_of(L, active(L))))

apply_reputation_penalties(next, L, E) ==
    [p \in DOMAIN next |-> IF p \in offenders(E) THEN ejected(retained_after(L, E, p)) ELSE next[p]]

replay_reputation_transition(L, B, E, policy) ==
    apply_reputation_penalties(next_list(L, B, policy), L, E)

\* The replay fails for an unknown rater, an entry the policy rejects, and a
\* penalty of an unknown or ejected key or without any weight to compare with.
replayable(L, B, E, policy) ==
    /\ {x.rater : x \in B} \subseteq DOMAIN L
    /\ policy = "Reject" => DOMAIN L \subseteq rated(B)
    /\ offenders(E) \subseteq active(L)
    /\ E # {} => weight_of(L, active(L)) > 0

(***************************************************************************)
(* A strict fraction of a total weight.                                    *)
(***************************************************************************)
strict_required_weight(total, numerator, denominator) ==
    (total \div denominator) * numerator + ((total % denominator) * numerator) \div denominator + 1

is_reached(L, all, some) ==
    weight_of(L, all) > 0 /\ weight_of(L, some) >= strict_required_weight(weight_of(L, all), 2, 3)

=============================================================================
