------------------------------ MODULE Ordering -------------------------------
(***************************************************************************)
(* The total order each node computes from its view: xsort, the chain of   *)
(* previous final leaders and tau, in the native and the weighted rule,    *)
(* without and with the ordering cache.                                    *)
(***************************************************************************)
EXTENDS Finality, Sequences, SequencesExt

CONSTANT Rank   \* the natural order of consensus identities

ASSUME RankAssumption ==
    /\ Rank \in [Block -> Nat]
    /\ \A b, c \in Block : Rank[b] = Rank[c] => b = c

the(S) == CHOOSE x \in S : TRUE

least(S) == CHOOSE b \in S : \A c \in S : Rank[b] <= Rank[c]

(***************************************************************************)
(* xsort: Kahn's algorithm over the predecessor edges inside S; of the     *)
(* ready blocks the one with the least identity goes next.                 *)
(***************************************************************************)
xsort(S) ==
    LET rest[done \in SUBSET S] ==
            IF done = S THEN <<>>
            ELSE LET next == least({b \in S \ done : Preds[b] \cap S \subseteq done})
                 IN  <<next>> \o rest[done \cup {next}]
    IN  rest[{}]

\* Mutant of approved_blocks_for_leader: conflicting blocks are kept.
observed_blocks_for_leader(n, leader) == {b \in blocks[n] : b \in past[n][leader]}

approved_blocks_for_leader(n, leader) == {b \in blocks[n] : approves(n, leader, b)}

(***************************************************************************)
(* previous_final_leader: the newest earlier wave whose final leader, as   *)
(* this view sees it now, is ratified by the current leader.               *)
(***************************************************************************)
previous_final_leader(rule, n, leader) ==
    LET ratified(w) == {p \in final_leader_for_wave(rule, n, w) : ratifies(rule, n, leader, p)}
        earlier == 0 .. (wave_of_round(round[n][leader]) - 1)
    IN  UNION {ratified(w) : w \in {v \in earlier : \A u \in earlier : u > v => ratified(u) = {}}}

(***************************************************************************)
(* tau_from_leader: the order of the previous final leader, then the       *)
(* approved blocks not yet emitted, sorted on their own.                   *)
(***************************************************************************)
tau_from_leader(rule, n, leader) ==
    LET order[l \in blocks[n]] ==
            LET previous == previous_final_leader(rule, n, l)
                emitted == IF previous = {} THEN <<>> ELSE order[the(previous)]
            IN  emitted \o xsort(approved_blocks_for_leader(n, l) \ ToSet(emitted))
    IN  order[leader]

(***************************************************************************)
(* tau_from_leader_cached: sorts the whole approved fragment and drops the *)
(* emitted blocks afterwards.                                              *)
(***************************************************************************)
tau_from_leader_cached(rule, n, leader) ==
    LET order[l \in blocks[n]] ==
            LET previous == previous_final_leader(rule, n, l)
                emitted == IF previous = {} THEN <<>> ELSE order[the(previous)]
            IN  emitted \o SelectSeq(xsort(approved_blocks_for_leader(n, l)),
                                     LAMBDA b : b \notin ToSet(emitted))
    IN  order[leader]

tau(rule, n) ==
    LET anchor == latest_final_leader(rule, n)
    IN  IF anchor = {} THEN <<>> ELSE tau_from_leader(rule, n, the(anchor))

tau_with_cache(rule, n) ==
    LET anchor == latest_final_leader(rule, n)
    IN  IF anchor = {} THEN <<>> ELSE tau_from_leader_cached(rule, n, the(anchor))
-----------------------------------------------------------------------------
\* Blocks that were output are never reordered or removed by a later call:
\* "earlier output remains a prefix of later output".
TauMonotone ==
    [][\A rule \in Rule, n \in Node : IsPrefix(tau(rule, n), tau(rule, n)')]_laceVars

=============================================================================
