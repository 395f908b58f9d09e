------------------------------- MODULE Pruning -------------------------------
(***************************************************************************)
(* Checkpoint garbage collection.  A pruned blocklace and an unpruned one  *)
(* receive the same blocks; the pruned one advances its checkpoint to the  *)
(* latest final leader at any moment and forgets the history below it.     *)
(***************************************************************************)
EXTENDS Ordering

CONSTANTS
    Pruned,      \* the node that prunes
    Reference    \* the node that never does

ASSUME PruningAssumption == Pruned # Reference /\ Node = {Pruned, Reference}

VARIABLES
    caller_rule, \* the finality helper the caller uses: native or weighted
    checkpoint,  \* Blocklace.checkpoint, a set of at most one block
    prefix,      \* the checkpoint order prefix of this rule
    output,      \* the order last asked for, per node
    settled,     \* the waves that were final then
    fresh        \* the order has been asked for since the last change

pruneVars == <<blocks, past, round, caller_rule, checkpoint, prefix, output, settled, fresh>>

\* The depth of a block whose ancestry no longer resolves: depth returns None
\* and the block belongs to no round and no wave.
NoDepth == (MaxRound + 1) * Wavelength

floor_of(n) == IF n = Pruned THEN checkpoint ELSE {}

(***************************************************************************)
(* observe and depth_recursive over the retained blocks S, predecessors    *)
(* first: both stop at the checkpoint c, which keeps its stored depth.     *)
(***************************************************************************)
rows(S, c) ==
    LET extend(row, b) ==
            [row EXCEPT ![b] = IF b \in c THEN {b} ELSE {b} \cup UNION {row[p] : p \in Preds[b] \cap S}]
    IN  FoldLeft(extend, [b \in S |-> {}], xsort(S))

depths(S, c, stored) ==
    LET extend(dep, b) ==
            [dep EXCEPT ![b] =
                IF b \in c THEN stored
                ELSE IF Preds[b] = {} THEN 0
                ELSE IF ~ Preds[b] \subseteq S \/ (\E p \in Preds[b] : dep[p] = NoDepth) THEN NoDepth
                ELSE 1 + Max({dep[p] : p \in Preds[b]})]
    IN  FoldLeft(extend, [b \in S |-> 0], xsort(S))

(***************************************************************************)
(* unique_leader_block_from_index and the checkpoint trusted in place of a *)
(* proof: latest_final_leader, latest_weighted_final_leader.               *)
(***************************************************************************)
leader_block_for_wave(n, w) ==
    {b \in leader_blocks_of_wave(n, w) : leader_blocks_of_wave(n, w) = {b}}

trusted_final_leader(n, w) ==
    {b \in leader_block_for_wave(n, w) : b \in floor_of(n) \/ is_final_leader(caller_rule, n, b)}

Waves == 0 .. wave_of_round(MaxRound)

\* Of leaders of different waves the one of the newest wave.
newest(n, leaders) == {b \in leaders : \A c \in leaders : round[n][c] <= round[n][b]}

latest_trusted_leader(n) == newest(n, UNION {trusted_final_leader(n, w) : w \in Waves})

checkpoint_predecessor(n, leader) == {c \in floor_of(n) : c # leader /\ c \in past[n][leader]}

(***************************************************************************)
(* checkpoint_floor: the checkpoint stands in for the previous final       *)
(* leader when it is the unique leader block of its wave.                  *)
(***************************************************************************)
checkpoint_floor(n, leader) ==
    {c \in checkpoint_predecessor(n, leader) :
        c \in leader_block_for_wave(n, wave_of_round(round[n][c]))}

\* Mutant of previous_trusted_leader: the search goes forward and takes the
\* oldest wave.
oldest_trusted_leader(n, leader) ==
    LET earlier == 0 .. (wave_of_round(round[n][leader]) - 1)
        ratified == {p \in UNION {final_leader_for_wave(caller_rule, n, w) : w \in earlier} :
                        ratifies(caller_rule, n, leader, p)}
    IN  {b \in ratified : \A c \in ratified : round[n][b] <= round[n][c]}

(***************************************************************************)
(* previous_final_leader with a checkpoint: only waves above its wave are  *)
(* searched, and it is what the search falls back to.                      *)
(***************************************************************************)
previous_trusted_leader(n, leader) ==
    LET floor == checkpoint_floor(n, leader)
        above == {w \in 0 .. (wave_of_round(round[n][leader]) - 1) :
                     \A c \in floor : w > wave_of_round(round[n][c])}
        previous == newest(n, {p \in UNION {final_leader_for_wave(caller_rule, n, w) : w \in above} :
                                  ratifies(caller_rule, n, leader, p)})
    IN  IF previous = {} THEN floor ELSE previous

\* Mutant of emit_checkpoint_prefix: nothing stands for the pruned history.
emit_no_prefix(n, leader) == <<>>

emit_checkpoint_prefix(n, leader) == IF leader \in floor_of(n) THEN prefix ELSE <<>>

(***************************************************************************)
(* tau_from_leader with a checkpoint: at the checkpoint the stored prefix  *)
(* stands for the history that is gone.                                    *)
(***************************************************************************)
pruned_tau(n) ==
    LET order[l \in blocks[n]] ==
            LET previous == previous_trusted_leader(n, l)
                below == checkpoint_predecessor(n, l)
                emitted == IF previous # {} THEN order[the(previous)]
                           ELSE IF below # {} THEN emit_checkpoint_prefix(n, the(below))
                           ELSE <<>>
                stored == emit_checkpoint_prefix(n, l)
            IN  IF stored # <<>> THEN stored
                ELSE emitted \o xsort(approved_blocks_for_leader(n, l) \ ToSet(emitted))
        anchor == latest_trusted_leader(n)
    IN  IF anchor = {} THEN <<>> ELSE order[the(anchor)]

\* Mutant of protected_candidate_closure: only direct predecessors are kept.
protected_candidates_direct(candidates, leader) ==
    candidates \cap UNION {Preds[b] : b \in blocks[Pruned] \ (candidates \cup {leader})}

(***************************************************************************)
(* protected_candidate_closure: the candidates that retained blocks other  *)
(* than the checkpoint reach through candidates.                           *)
(***************************************************************************)
protected_candidate_closure(candidates, leader) ==
    LET direct == candidates \cap UNION {Preds[b] : b \in blocks[Pruned] \ (candidates \cup {leader})}
        below == rows(candidates, {})
    IN  UNION {below[b] : b \in direct}

(***************************************************************************)
(* checkpoint_after_finality and checkpoint_after_weighted_finality: the   *)
(* latest final leader becomes the checkpoint unless it is it already;     *)
(* refused without effect when shallower than the checkpoint or not        *)
(* observing it.                                                           *)
(***************************************************************************)
checkpoint_after_finality ==
    fresh /\ \E leader \in latest_trusted_leader(Pruned) \ checkpoint :
        LET candidates == past[Pruned][leader] \ {leader}
            kept == blocks[Pruned] \ (candidates \ protected_candidate_closure(candidates, leader))
        IN  /\ \A c \in checkpoint : /\ round[Pruned][leader] >= round[Pruned][c]
                                     /\ c \in past[Pruned][leader]
            /\ prefix' = output[Pruned]
            /\ checkpoint' = {leader}
            /\ blocks' = [blocks EXCEPT ![Pruned] = kept]
            /\ past' = [past EXCEPT ![Pruned] =
                   LET row == rows(kept, {leader})
                   IN  [b \in Block |-> IF b \in kept THEN row[b] ELSE {}]]
            /\ round' = [round EXCEPT ![Pruned] =
                   LET dep == depths(kept, {leader}, round[Pruned][leader])
                   IN  [b \in Block |-> IF b \in kept THEN dep[b] ELSE 0]]
            /\ fresh' = FALSE
            /\ UNCHANGED <<caller_rule, output, settled>>

(***************************************************************************)
(* A block reaches both nodes.  Blocklace::insert of the pruned node       *)
(* refuses it when a predecessor is gone.                                  *)
(***************************************************************************)
insert_block(b) ==
    /\ fresh /\ b \notin blocks[Reference]
    /\ Preds[b] \subseteq blocks[Reference]
    /\ LET at == {n \in Node : Preds[b] \subseteq blocks[n]}
           deep(n) == IF Preds[b] = {} THEN 0
                      ELSE IF \E p \in Preds[b] : round[n][p] = NoDepth THEN NoDepth
                      ELSE 1 + Max({round[n][p] : p \in Preds[b]})
       IN  /\ blocks' = [n \in Node |-> blocks[n] \cup (IF n \in at THEN {b} ELSE {})]
           /\ past' = [n \in Node |-> IF n \in at THEN [past[n] EXCEPT ![b] = observe(n, b)] ELSE past[n]]
           /\ round' = [n \in Node |-> IF n \in at THEN [round[n] EXCEPT ![b] = deep(n)] ELSE round[n]]
    /\ fresh' = FALSE
    /\ UNCHANGED <<caller_rule, checkpoint, prefix, output, settled>>

(***************************************************************************)
(* tau and weighted_tau, asked of both nodes after every change.           *)
(***************************************************************************)
poll ==
    /\ ~ fresh
    /\ output' = [n \in Node |-> pruned_tau(n)]
    /\ settled' = [n \in Node |-> {w \in Waves : final_leader_for_wave(caller_rule, n, w) # {}}]
    /\ fresh' = TRUE
    /\ UNCHANGED <<blocks, past, round, caller_rule, checkpoint, prefix>>

PruneInit ==
    /\ LaceInit
    /\ caller_rule \in Rule
    /\ checkpoint = {}
    /\ prefix = <<>>
    /\ output = [n \in Node |-> <<>>]
    /\ settled = [n \in Node |-> {}]
    /\ fresh = TRUE

PruneNext == poll \/ checkpoint_after_finality \/ \E b \in Block : insert_block(b)

PruneSpec == PruneInit /\ [][PruneNext]_pruneVars
-----------------------------------------------------------------------------
\* The output of an unpruned blocklace lists no block twice, never lists both
\* branches of an equivocation, and lists a block after those of its
\* predecessors that are listed, across all fragments (tau, weighted_tau).
TauSound ==
    LET t == output[Reference]
    IN  \A i, j \in DOMAIN t : i < j =>
            /\ t[i] # t[j]
            /\ t[j] \notin Preds[t[i]]
            /\ ~ equivocating(Reference, t[i], t[j])

\* The output only grows (tau), unless a wave older than its anchor becomes
\* final: with an insertion, and when the checkpoint advances, on both nodes.
OutputExtends ==
    [][\A n \in Node :
          (\A a \in ToSet(output[n]) : \A w \in settled'[n] \ settled[n] :
              w >= wave_of_round(round[Reference][a]))
          => IsPrefix(output[n], output'[n])]_pruneVars

forgotten == UNION {past[Reference][b] : b \in checkpoint} \ blocks[Pruned]

forgot_a_fork ==
    \E x \in forgotten, y \in blocks[Reference] : equivocating(Reference, x, y)

\* A pruned node outputs a prefix of what an unpruned node with the same
\* blocks does, and the same when no block was refused for a forgotten
\* predecessor: as long as no branch of an equivocation was forgotten, which
\* the approvals of later leaders depend on (prune_below_checkpoint_with_prefix,
\* checkpoint_floor).
PrunedAgrees ==
    fresh /\ ~ forgot_a_fork =>
        /\ IsPrefix(output[Pruned], output[Reference])
        /\ blocks[Reference] \subseteq blocks[Pruned] \cup forgotten
              => output[Pruned] = output[Reference]

\* Every retained block has all its predecessors and its depth, unless it is a
\* present or former checkpoint or depends on a former one
\* (protected_candidate_closure, depth_recursive).
RetainedClosed ==
    LET leaders == UNION {final_leader_for_wave(caller_rule, Reference, w) : w \in Waves}
        open == {b \in blocks[Pruned] \ checkpoint : ~ Preds[b] \subseteq blocks[Pruned]}
    IN  /\ open \subseteq leaders
        /\ \A b \in blocks[Pruned] :
              IF past[Pruned][b] \cap open = {} THEN round[Pruned][b] = round[Reference][b]
              ELSE round[Pruned][b] = NoDepth

=============================================================================
