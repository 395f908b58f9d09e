------------------------------ MODULE Finality -------------------------------
(***************************************************************************)
(* Approval, ratification and leader finality over the views of Blocklace, *)
(* in the two rules the code has: "native" counts distinct creators,       *)
(* "weighted" sums their bonded stake.                                     *)
(***************************************************************************)
EXTENDS Blocklace

CONSTANTS
    F,           \* tolerated number of faulty validators
    Stake,       \* Stake[S]: total bonded weight of a set of validators
    Wavelength,  \* rounds per wave
    Leader,      \* leader_selection, per wave
    Honest,      \* validators that never equivocate
    Seqno,       \* position of a block in its creator's chain
    Rule         \* the quorum rules in use: "native", "weighted" or both

ASSUME RuleAssumption == Rule \subseteq {"native", "weighted"}

\* The parameters of consensus: n and f, the weight table and the leader
\* schedule.  Stake is additive, as a sum over a weight table is.
ASSUME QuorumAssumption ==
    /\ IsFiniteSet(Validator)
    /\ F \in Nat
    /\ Wavelength \in Nat \ {0}
    /\ Leader \in [0 .. MaxRound -> Validator]
    /\ Stake \in [SUBSET Validator -> Nat]
    /\ Stake[{}] = 0
    /\ \A S, T \in SUBSET Validator :
          Stake[S \cup T] + Stake[S \cap T] = Stake[S] + Stake[T]

\* A validator that follows the protocol puts its own tip among the
\* predecessors of its next block, so its blocks form one chain.
ASSUME HonestAssumption ==
    /\ Honest \subseteq Validator
    /\ Seqno \in [Block -> Nat]
    /\ \A b \in Block : Creator[b] \in Honest =>
          /\ Seqno[b] # 0 => \E p \in Preds[b] :
                                 /\ Creator[p] = Creator[b]
                                 /\ Seqno[p] = Seqno[b] - 1
          /\ \A c \in Block : Creator[c] = Creator[b] /\ Seqno[c] = Seqno[b] => c = b

\* The fault bound of each rule.
ASSUME FaultAssumption ==
    /\ Cardinality(Validator \ Honest) <= F
    /\ 3 * Stake[Validator \ Honest] <= Stake[Validator]
-----------------------------------------------------------------------------
(***************************************************************************)
(* AncestorIndex::approves: b observes t and no block that conflicts with  *)
(* t.                                                                      *)
(***************************************************************************)
approves(n, b, t) ==
    /\ t \in past[n][b]
    /\ \A s \in past[n][b] : ~ equivocating(n, s, t)

(***************************************************************************)
(* approving_blocks / weighted_approving_creators: the creators of the     *)
(* blocks in S that approve t; the weighted rule drops those with no stake.*)
(***************************************************************************)
approving_creators(rule, n, S, t) ==
    {v \in Validator :
        /\ rule = "weighted" => Stake[{v}] > 0
        /\ \E x \in S : Creator[x] = v /\ approves(n, x, t)}

\* Mutant of is_supermajority: half of the validators and faults is enough.
is_supermajority_inclusive(S) == Cardinality(S) >= (Cardinality(Validator) + F) \div 2

is_supermajority(S) == Cardinality(S) > (Cardinality(Validator) + F) \div 2

is_weighted_supermajority(S) == 3 * Stake[S] > 2 * Stake[Validator]

supermajority(rule, S) ==
    IF rule = "native" THEN is_supermajority(S) ELSE is_weighted_supermajority(S)

(***************************************************************************)
(* ratifies: the blocks b observes include approvals of t by a             *)
(* supermajority.                                                          *)
(***************************************************************************)
ratifies(rule, n, b, t) == supermajority(rule, approving_creators(rule, n, past[n][b], t))

ratifying_creators(rule, n, W, t) ==
    {v \in Validator :
        /\ rule = "weighted" => Stake[{v}] > 0
        /\ \E x \in W : Creator[x] = v /\ ratifies(rule, n, x, t)}

\* Mutant of super_ratifies: a quorum of the creators seen at the last round.
super_ratifies_of_present(rule, n, W, t) ==
    LET present == {Creator[x] : x \in {y \in W : \A z \in W : round[n][z] <= round[n][y]}}
    IN  3 * Cardinality(ratifying_creators(rule, n, W, t)) > 2 * Cardinality(present)

super_ratifies(rule, n, W, t) == supermajority(rule, ratifying_creators(rule, n, W, t))

wave_of_round(r) == r \div Wavelength
leader_round_of_wave(w) == w * Wavelength
last_round_of_wave(w) == w * Wavelength + (Wavelength - 1)

leader_blocks_of_wave(n, w) ==
    {b \in blocks[n] : round[n][b] = leader_round_of_wave(w) /\ Creator[b] = Leader[w]}

witness_blocks(n, w) ==
    {b \in blocks[n] : round[n][b] \in leader_round_of_wave(w) .. last_round_of_wave(w)}

(***************************************************************************)
(* is_final_leader: a leader block of its wave that is super-ratified by   *)
(* the blocks of the wave.  An equivocating leader's blocks qualify too.   *)
(***************************************************************************)
is_final_leader(rule, n, b) ==
    /\ b \in blocks[n]
    /\ LET w == wave_of_round(round[n][b])
       IN  /\ b \in leader_blocks_of_wave(n, w)
           /\ super_ratifies(rule, n, witness_blocks(n, w), b)

(***************************************************************************)
(* final_leader_for_wave, as the set of at most one block it returns: the  *)
(* wave must have exactly one leader block in the view.                    *)
(***************************************************************************)
final_leader_for_wave(rule, n, w) ==
    {b \in leader_blocks_of_wave(n, w) :
        leader_blocks_of_wave(n, w) = {b} /\ is_final_leader(rule, n, b)}

(***************************************************************************)
(* latest_final_leader: the backward scan stops at the newest wave whose   *)
(* unique leader block is final.                                           *)
(***************************************************************************)
latest_final_leader(rule, n) ==
    UNION {final_leader_for_wave(rule, n, w) : w \in {v \in 0 .. wave_of_round(MaxRound) :
              \A u \in (v + 1) .. wave_of_round(MaxRound) : final_leader_for_wave(rule, n, u) = {}}}
-----------------------------------------------------------------------------
RowsAgree ==
    \A m, n \in Node : \A b \in blocks[m] \cap blocks[n] :
        past[m][b] = past[n][b] /\ round[m][b] = round[n][b]

\* Views built from the same blocks agree on what each block observes and on
\* its depth, whatever order the blocks arrived in: without this no
\* consensus decision of two nodes could be compared.  (Stated with the types
\* of the views.)
ViewsAgree == TypeOK /\ RowsAgree

\* No two conflicting blocks of one creator and round are both ratified, by
\* any blocks in any two views and under either rule, while faults stay
\* within the bound (ratifies, weighted_ratifies).
RatificationExclusive ==
    \A rule \in Rule, m, n \in Node : \A s \in blocks[m], t \in blocks[n] :
        (s # t /\ Creator[s] = Creator[t] /\ round[m][s] = round[n][t]) =>
            ~ (/\ \E b \in blocks[m] : ratifies(rule, m, b, s)
               /\ \E c \in blocks[n] : ratifies(rule, n, c, t))

\* Any two nodes that hold some leader block of a wave to be final hold the
\* same one, even when the leader equivocated (is_final_leader,
\* is_weighted_final_leader).
FinalLeadersAgree ==
    \A rule \in Rule, m, n \in Node : \A s \in blocks[m], t \in blocks[n] :
        (/\ is_final_leader(rule, m, s)
         /\ is_final_leader(rule, n, t)
         /\ wave_of_round(round[m][s]) = wave_of_round(round[n][t])) => s = t

\* No view, however partial, shows a validator that keeps to one chain as an
\* equivocator (find_equivacators): late or missing blocks accuse nobody.
HonestNeverAccused ==
    \A n \in Node : find_equivacators(n) \cap Honest = {}

FinalityKept ==
    \A rule \in Rule, n \in Node, b \in Block :
        is_final_leader(rule, n, b) => is_final_leader(rule, n, b)'

\* A block that is_final_leader once accepted is accepted in every later view
\* of that node: no block that arrives late takes its finality away.
FinalityIrrevocable == [][FinalityKept]_laceVars

=============================================================================
