----------------------------- MODULE Attestation ------------------------------
(***************************************************************************)
(* Validators take consecutive reputation rounds to a committed checkpoint.*)
(*                                                                         *)
(* In mode "wave" a coordinator broadcasts its ratings, collects those of  *)
(* its peers and closes the round with whatever complete batches it has,   *)
(* by weighted quorum or once a later wave is final.  It then admits the   *)
(* finalized penalties, signs and publishes its reputation block, and      *)
(* commits it when more than two thirds of the weight published the same.  *)
(*                                                                         *)
(* In mode "checkpoint" the round is bound to the finalized prefix, closes *)
(* with the complete batch of every active rater only, and is committed    *)
(* without attestation.                                                    *)
(***************************************************************************)
EXTENDS Reputation

CONSTANTS
    Validator,
    Key,        \* order of their keys
    Configs     \* settings, see AttAssumption

\* bonds: genesis weights; producers and carriers: creators of finalized blocks
\* of the window of a round, and the equivocation authorizations in them.
ASSUME AttAssumption ==
    /\ IsFiniteSet(Validator) /\ Key \in [Validator -> Nat]
    /\ \A c \in Configs :
        /\ c.mode \in {"wave", "checkpoint"} /\ c.policy \in MissingEntryPolicy
        /\ c.bonds \in [Validator -> 0..scale] /\ c.faulty \subseteq Validator
        /\ {c.rounds, c.waves, c.crashes} \subseteq Nat /\ c.restarts \subseteq Validator
        /\ \A r \in 1..c.rounds :
            /\ c.producers[r] \subseteq Validator
            /\ \A a \in c.carriers[r] :
                a \in [id : Nat, offender : Validator, proof_round : Nat, sound : BOOLEAN]

VARIABLES
    config,
    state,       \* durable ReputationState of each validator
    wave,        \* finalized windows each validator has observed
    pc,          \* where its round is: open, closed, attesting
    local_batch, \* it has produced its ratings
    outbound,    \* recipients whose envelopes are still to be sent
    collected,   \* ratings in its collector
    batch,       \* ratings the round was closed with
    penalties,   \* equivocations admitted for the round
    counted,     \* attesters whose publications its collector has counted
    envelopes,   \* ratings that have been broadcast
    published,   \* signed reputation blocks
    crashes

memory == <<pc, local_batch, outbound, collected, batch, penalties, counted>>
network == <<envelopes, published>>
vars == <<config, state, wave, memory, network, crashes>>

checkpoint == config.mode = "checkpoint"
list(v) == state[v].list
round(v) == state[v].round + 1

\* The round after the committed one is open once its window is final.
opened(v) == pc[v] = "open" /\ round(v) <= config.rounds /\ wave[v] >= round(v)

(***************************************************************************)
(* Ratings of the open round: every active rater rates every other active  *)
(* producer of the finalized window.                                       *)
(***************************************************************************)
recipients(v, r) == {p \in config.producers[round(v)] : p # r /\ p \in active(list(v))}
rating(n, r, p) == [round |-> n, rater |-> r, recipient |-> p, score |-> maximum_rating]
owed(v, r) == IF r \in active(list(v)) THEN {rating(round(v), r, p) : p \in recipients(v, r)} ELSE {}
is_rater_complete(v, r) == owed(v, r) \subseteq collected[v]
complete_raters(v) == {r \in active(list(v)) : is_rater_complete(v, r)}
build_complete_batch(v) == {x \in collected[v] : is_rater_complete(v, x.rater)}

(***************************************************************************)
(* The finalized authorizations of the round.  Wave rounds must admit them *)
(* all; checkpoint rounds leave out those that are definitely invalid.     *)
(* An offender is penalized once, for its first authorization.  Wave rounds*)
(* are authorized against the latest output of the validator, which must   *)
(* still be the one of the round.                                          *)
(***************************************************************************)
carriers(v) == config.carriers[round(v)]
authorize(v, a) ==
    a.sound /\ wave[v] = round(v) /\ a.offender \in active(list(v)) /\ list(v)[a.offender].reputation > 0
authorize_checkpoint(v, a) == a.sound /\ a.offender \in active(list(v))
first_of_offender(S) == {a \in S : \A b \in S : b.offender = a.offender => a.id <= b.id}
events(S) == {[offender |-> a.offender, proof_round |-> a.proof_round] : a \in first_of_offender(S)}

any_subset(v, raw) == raw \subseteq carriers(v)
validate_complete_authorizations(v, raw) ==
    raw = IF checkpoint THEN {a \in carriers(v) : authorize_checkpoint(v, a)} ELSE carriers(v)

(***************************************************************************)
(* Reputation blocks and their audit against the auditor's own state and   *)
(* completed round.                                                        *)
(***************************************************************************)
build_reputation_block(v) ==
    [round |-> round(v), previous |-> state[v].latest, ratings |-> batch[v], penalties |-> penalties[v],
     list |-> replay_reputation_transition(list(v), batch[v], penalties[v], config.policy)]

verify_reputation_transition(v, b) ==
    /\ b.round = round(v) /\ b.previous = state[v].latest
    /\ b.ratings = batch[v] /\ b.penalties = penalties[v]
    /\ replayable(list(v), batch[v], penalties[v], config.policy)
    /\ b.list = build_reputation_block(v).list

one_third_reached(v) ==
    weight_of(list(v), counted[v]) >= strict_required_weight(weight_of(list(v), active(list(v))), 1, 3)
attestation_reached(v) == is_reached(list(v), active(list(v)), counted[v])

Init ==
    /\ config \in Configs
    /\ state = [v \in Validator |->
                  [round |-> 0, list |-> [p \in Validator |-> entry(config.bonds[p])], latest |-> <<>>]]
    /\ wave = [v \in Validator |-> 0]
    /\ pc = [v \in Validator |-> "open"]
    /\ local_batch = [v \in Validator |-> FALSE]
    /\ outbound = [v \in Validator |-> {}] /\ collected = [v \in Validator |-> {}]
    /\ batch = [v \in Validator |-> {}] /\ penalties = [v \in Validator |-> {}]
    /\ counted = [v \in Validator |-> {}]
    /\ envelopes = {} /\ published = {}
    /\ crashes = 0

goto(v, l) == pc' = [pc EXCEPT ![v] = l]

\* The coordinator, the collectors and what they hold are in memory only.
forget(v) ==
    /\ goto(v, "open")
    /\ local_batch' = [local_batch EXCEPT ![v] = FALSE]
    /\ outbound' = [outbound EXCEPT ![v] = {}]
    /\ collected' = [collected EXCEPT ![v] = {}]
    /\ batch' = [batch EXCEPT ![v] = {}]
    /\ penalties' = [penalties EXCEPT ![v] = {}]
    /\ counted' = [counted EXCEPT ![v] = {}]

\* Cordial finality reaches the validator: the next window of the output.
observe_finalized_output(v) ==
    /\ wave[v] < config.waves
    /\ wave' = [wave EXCEPT ![v] = @ + 1]
    /\ UNCHANGED <<config, state, memory, network, crashes>>

\* An ejected validator fails to rate anyone.
produce_local_batch(v) ==
    /\ opened(v) /\ ~ local_batch[v]
    /\ v \in active(list(v)) \/ recipients(v, v) = {}
    /\ local_batch' = [local_batch EXCEPT ![v] = TRUE]
    /\ outbound' = [outbound EXCEPT ![v] = recipients(v, v)]
    /\ collected' = [collected EXCEPT ![v] = @ \cup owed(v, v)]
    /\ UNCHANGED <<config, state, wave, pc, batch, penalties, counted, network, crashes>>

\* Sends the next envelope in the order of recipients; a failed attempt is
\* resumed where it stopped.
broadcast_pending(v) ==
    /\ opened(v) /\ local_batch[v]
    /\ \E p \in outbound[v] :
        /\ \A q \in outbound[v] : Key[p] <= Key[q]
        /\ envelopes' = envelopes \cup {rating(round(v), v, p)}
        /\ outbound' = [outbound EXCEPT ![v] = @ \ {p}]
    /\ UNCHANGED <<config, state, wave, pc, local_batch, collected, batch, penalties, counted,
                   published, crashes>>

\* An envelope that the collector has already, or that no finalized block of
\* the open round supports, changes nothing.
receive_envelope(v, x) ==
    /\ opened(v)
    /\ x \in owed(v, x.rater) \ collected[v]
    /\ collected' = [collected EXCEPT ![v] = @ \cup {x}]
    /\ UNCHANGED <<config, state, wave, pc, local_batch, outbound, batch, penalties, counted,
                   network, crashes>>

require_close_prerequisites(v) ==
    /\ opened(v) /\ outbound[v] = {}
    /\ local_batch[v] \/ (checkpoint /\ v \notin active(list(v)))

finalize(v) ==
    /\ goto(v, "closed")
    /\ batch' = [batch EXCEPT ![v] = build_complete_batch(v)]
    /\ collected' = [collected EXCEPT ![v] = {}]
    /\ UNCHANGED <<config, state, wave, local_batch, outbound, penalties, counted, network, crashes>>

close_if_quorum(v) ==
    /\ ~ checkpoint /\ require_close_prerequisites(v)
    /\ is_reached(list(v), active(list(v)), complete_raters(v))
    /\ finalize(v)

wave_after_next(v) == round(v) + 2
required_finalized_wave(v) == round(v) + 1

close_at_finalized_wave(v) ==
    /\ ~ checkpoint /\ require_close_prerequisites(v)
    /\ wave[v] >= required_finalized_wave(v)
    /\ finalize(v)

complete(v) ==
    /\ checkpoint /\ require_close_prerequisites(v)
    /\ active(list(v)) # {} /\ complete_raters(v) = active(list(v))
    /\ finalize(v)

\* The host hands in the proofs it has retained; each must verify and be
\* authorized by a finalized block.
authorize_equivocations(v, raw) ==
    /\ pc[v] = "closed"
    /\ \A a \in raw : IF checkpoint THEN authorize_checkpoint(v, a) ELSE authorize(v, a)
    /\ validate_complete_authorizations(v, raw)
    /\ penalties' = [penalties EXCEPT ![v] = events(raw)]
    /\ goto(v, "attesting")
    /\ UNCHANGED <<config, state, wave, local_batch, outbound, collected, batch, counted, network, crashes>>

publication(v, b) == [publisher |-> v, block |-> b]

broadcast_reputation_block(v) ==
    /\ ~ checkpoint /\ pc[v] = "attesting"
    /\ replayable(list(v), batch[v], penalties[v], config.policy)
    /\ published' = published \cup {publication(v, build_reputation_block(v))}
    /\ UNCHANGED <<config, state, wave, memory, envelopes, crashes>>

\* A faulty validator signs whichever block it has seen.
sign_again(v, p) ==
    /\ v \in config.faulty
    /\ published' = published \cup {publication(v, p.block)}
    /\ UNCHANGED <<config, state, wave, memory, envelopes, crashes>>

\* A duplicate, a conflicting, an unauthorized or an unaudited publication is
\* refused without effect.
observe(v, p) ==
    /\ ~ checkpoint /\ pc[v] = "attesting" /\ ~ attestation_reached(v)
    /\ p.publisher \in active(list(v)) \ counted[v]
    /\ verify_reputation_transition(v, p.block)
    /\ counted' = [counted EXCEPT ![v] = @ \cup {p.publisher}]
    /\ UNCHANGED <<config, state, wave, pc, local_batch, outbound, collected, batch, penalties, network,
                   crashes>>

commit_audited_block(v, b) ==
    /\ verify_reputation_transition(v, b)
    /\ state' = [state EXCEPT ![v] = [round |-> b.round, list |-> b.list, latest |-> <<b>>]]
    /\ forget(v)
    /\ UNCHANGED <<config, wave, network, crashes>>

commit_attested_checkpoint(v) ==
    /\ ~ checkpoint /\ pc[v] = "attesting" /\ attestation_reached(v)
    /\ commit_audited_block(v, build_reputation_block(v))

commit_completed_checkpoint_round(v) ==
    /\ checkpoint /\ pc[v] = "attesting"
    /\ commit_audited_block(v, build_reputation_block(v))

crash(v) ==
    /\ crashes < config.crashes /\ v \in config.restarts
    /\ crashes' = crashes + 1
    /\ forget(v)
    /\ UNCHANGED <<config, state, wave, network>>

rate(v) ==
    \/ produce_local_batch(v)
    \/ broadcast_pending(v)
    \/ close_if_quorum(v)
    \/ close_at_finalized_wave(v)
    \/ complete(v)

Next ==
    \E v \in Validator :
        \/ observe_finalized_output(v)
        \/ rate(v)
        \/ \E x \in envelopes : receive_envelope(v, x)
        \/ pc[v] = "closed" /\ \E raw \in SUBSET carriers(v) : authorize_equivocations(v, raw)
        \/ broadcast_reputation_block(v)
        \/ \E p \in published : sign_again(v, p) \/ observe(v, p)
        \/ commit_attested_checkpoint(v)
        \/ commit_completed_checkpoint_round(v)
        \/ crash(v)

Fairness == \A v \in Validator : WF_vars(rate(v)) /\ WF_vars(observe_finalized_output(v))

Spec == Init /\ [][Next]_vars /\ Fairness

Weight == 0..scale
Entry == [reputation : Weight, retained : Weight, excluded : BOOLEAN]
Rating == [round : 1..config.rounds, rater : Validator, recipient : Validator, score : {maximum_rating}]

\* Types; every weight that replays of the reputation transition install is at
\* most the scale, which the clamp has to ensure for sums of many ratings, and an
\* ejected key has no weight, a key in good standing no retained balance.
AttTypeOK ==
    /\ config \in Configs /\ crashes \in 0..config.crashes
    /\ \A v \in Validator :
        /\ state[v].round \in 0..config.rounds /\ list(v) \in [Validator -> Entry]
        /\ \A p \in Validator : IF list(v)[p].excluded THEN list(v)[p].reputation = 0
                                                       ELSE list(v)[p].retained = 0
        /\ wave[v] \in 0..config.waves /\ pc[v] \in {"open", "closed", "attesting"}
        /\ local_batch[v] \in BOOLEAN /\ outbound[v] \subseteq Validator
        /\ collected[v] \subseteq Rating /\ batch[v] \subseteq Rating /\ counted[v] \subseteq Validator
        /\ offenders(penalties[v]) \subseteq Validator
    /\ envelopes \subseteq Rating /\ {p.publisher : p \in published} \subseteq Validator

\* The blocks a validator has committed, newest first.
Chain(v) ==
    LET first == IF state[v].latest = <<>> THEN {} ELSE {state[v].latest[1]} IN
    first \cup UNION {IF b.previous = <<>> THEN {} ELSE {b.previous[1]} : b \in first}
Preceding(b) ==
    IF b.previous = <<>> THEN [p \in Validator |-> entry(config.bonds[p])] ELSE b.previous[1].list
Signers(b) == {p.publisher : p \in {q \in published : q.block = b}}
DoubleSigners(b, c) == Signers(b) \cap Signers(c)

\* Two validators commit different successors of one reputation block only if
\* more than a third of the weight of that block published both: attestation by
\* a two-thirds quorum makes diverging weights impossible without signers of
\* two blocks.  Checkpoint rounds, closed with the batches of all raters and
\* committed without attestation, never diverge.
DivergenceNeedsDoubleSigners ==
    AttTypeOK /\ \A v, w \in Validator : \A b \in Chain(v), c \in Chain(w) :
        b # c /\ b.previous = c.previous =>
            /\ ~ checkpoint
            /\ LET L == Preceding(b) IN 3 * weight_of(L, DoubleSigners(b, c)) > weight_of(L, active(L))

\* Every sound equivocation authorization that was finalized in the window of a
\* committed round has ejected its offender, whichever ratings and attestations
\* the validator happened to receive: completed rounds cannot omit a penalty.
FinalizedPenaltiesApplied ==
    \A v \in Validator : \A r \in 1..state[v].round : \A a \in config.carriers[r] :
        a.sound => list(v)[a.offender].excluded

\* Under CarryForward a validator that nobody rated and that is not penalized
\* keeps exactly its weight: the clamp is not applied a second time, so that a
\* sparse round is not a hidden inactivity penalty.
UnratedKeepWeight ==
    [][\A v \in Validator : state[v]' # state[v] /\ config.policy = "CarryForward" =>
         \A p \in Validator \ (rated(batch[v]) \cup offenders(penalties[v])) :
             list(v)'[p] = list(v)[p]]_vars

\* A stalled rating quorum does not keep a round of an active validator open:
\* finality of the following wave closes it with whatever is complete, even if
\* every envelope of the peers is lost.
RoundsClose ==
    \A v \in Validator :
        ~ checkpoint /\ opened(v) /\ v \in active(list(v)) /\ round(v) < config.waves
            ~> pc[v] # "open"

\* What the production commit path promises: attested checkpoints prevent
\* diverging weights across honest validators.
HonestNeverDiverge ==
    config.faulty = {} =>
        \A v, w \in Validator : \A b \in Chain(v), c \in Chain(w) :
            b.previous = c.previous => b = c

=============================================================================
