----------------------------- MODULE LiveIngress -----------------------------
(***************************************************************************)
(* The live mirror of the f1r3node adapter: blocks arrive in any order,    *)
(* wait in the pending buffer for their predecessors, and polls publish    *)
(* the weighted order, extending the last published prefix when that is    *)
(* known to be safe and recomputing it otherwise.  A reputation round      *)
(* changes the weights of the validators once, at once or from a future    *)
(* wave on, and the deploy tracer follows deploys from the ingress to the  *)
(* published order.                                                        *)
(* Blocks are only ever added here, so the generation of the blocklace and *)
(* the number of mirrored blocks move together: one size stands for both.  *)
(***************************************************************************)
EXTENDS Ordering

CONSTANTS
    Recovered,      \* blocks replayed from the store at startup
    MaxPending,     \* bound: blocks buffered at once
    PorStake,       \* the weights a reputation round projects, summed over sets
    CheckpointLen,  \* POR_FINALIZED_BLOCKS_PER_CHECKPOINT
    DelayWaves,     \* PorWeightEpochPolicy.delay_waves
    Carriers        \* Carriers[d]: the blocks whose payload holds the deploy d

VARIABLES
    pending,     \* LiveBlocklaceMirror.pending
    output,      \* SharedOrderedOutput.latest, as a set of at most one
    fingerprint, \* size and weights at the last publication, at most one
    reuse,       \* finalized_prefix_reuse, as a set of at most one
    bonds,       \* the weight table in force: "bonded" or "por"
    epoch,       \* future_epoch, as a set of at most one
    pool,        \* DeployPool of the Casper adapter
    trace        \* DeployTracer.inner: at most one entry per deploy

liveVars == <<blocks, past, round, pending, output, fingerprint, reuse, bonds, epoch, pool, trace>>

Weighted == "weighted"
Deploy == DOMAIN Carriers
size(n) == Cardinality(blocks[n])

\* The ordering under the projected weights.
Por == INSTANCE Ordering WITH Stake <- PorStake

ASSUME RecoveredAssumption ==
    /\ \A b \in Recovered : b \in Block /\ Preds[b] \subseteq Recovered
    /\ MaxPending \in Nat /\ CheckpointLen \in Nat \ {0} /\ DelayWaves \in Nat \ {0}
    /\ PorStake \in [SUBSET Validator -> Nat]
    /\ \A d \in Deploy : Carriers[d] \subseteq Block
-----------------------------------------------------------------------------
(***************************************************************************)
(* Rows and depths after inserting the causally closed set S of new blocks *)
(* into a view holding the rows p and depths d.                            *)
(***************************************************************************)
rows(S, p) ==
    LET row[b \in S] == {b} \cup UNION {IF q \in S THEN row[q] ELSE p[q] : q \in Preds[b]}
    IN  [b \in Block |-> IF b \in S THEN row[b] ELSE p[b]]

depths(S, d) ==
    LET above[b \in S] ==
            LET below == {IF q \in S THEN above[q] ELSE d[q] : q \in Preds[b]}
            IN  IF below = {} THEN 0 ELSE 1 + Max(below)
    IN  [b \in Block |-> IF b \in S THEN above[b] ELSE d[b]]

(***************************************************************************)
(* release_pending after inserting b: buffered blocks are inserted until   *)
(* none has all its predecessors.                                          *)
(***************************************************************************)
release_pending(n, b) ==
    LET released[k \in 0 .. Cardinality(pending[n])] ==
            IF k = 0 THEN {b}
            ELSE released[k - 1] \cup
                 {p \in pending[n] : Preds[p] \subseteq blocks[n] \cup released[k - 1]}
    IN  released[Cardinality(pending[n])]

\* Mutant of record_strict_mirror_update: the depth of the block is not
\* compared with the wave of the anchor.
record_any_mirror_update(n, before, inserted, depthOf) ==
    {IF Cardinality(inserted) = 1 /\ r.observed = before
     THEN [r EXCEPT !.observed = before + 1]
     ELSE [r EXCEPT !.safe_append = FALSE] : r \in reuse[n]}

(***************************************************************************)
(* record_strict_mirror_update: a single block deeper than the wave of the *)
(* published anchor keeps the prefix reusable; anything else, a buffered   *)
(* block included, does not.                                               *)
(***************************************************************************)
record_strict_mirror_update(n, before, inserted, depthOf) ==
    {IF /\ Cardinality(inserted) = 1
        /\ r.observed = before
        /\ \A b \in inserted : depthOf[b] > r.anchor_wave_end
     THEN [r EXCEPT !.observed = before + 1]
     ELSE [r EXCEPT !.safe_append = FALSE] : r \in reuse[n]}

(***************************************************************************)
(* DeployTracer: an entry is created by record_observed, keeps the first   *)
(* block found to hold the deploy, and is finalized when a published order *)
(* holds that block.                                                       *)
(***************************************************************************)
Observed == 1
Accepted == 2
BlockIncluded == 3
FinalizedOrdered == 4

record_observed(entry) ==
    IF entry = {} THEN {[state |-> Observed, block |-> {}, anchor |-> {}]} ELSE entry

advance_accepted(entry) ==
    {IF t.state < Accepted THEN [t EXCEPT !.state = Accepted] ELSE t : t \in entry}

\* Mutant of advance_block_included: a later block replaces the first one.
advance_block_included_again(t, b) ==
    [t EXCEPT !.state = Max({t.state, BlockIncluded}), !.block = {b}]

advance_block_included(t, b) ==
    IF t.state < BlockIncluded THEN [t EXCEPT !.state = BlockIncluded, !.block = {b}] ELSE t

correlate_block(n, sigs, b) ==
    [d \in Deploy |-> IF d \in sigs
                       THEN {advance_block_included(t, b) : t \in trace[n][d]}
                       ELSE trace[n][d]]

\* A payload that does not decode holds no deploy.
correlate_block_payload(n, b) == correlate_block(n, {d \in Deploy : b \in Carriers[d]}, b)

correlate_finalized_output(n, o) ==
    [d \in Deploy |->
        {IF t.state = BlockIncluded /\ t.block \subseteq ToSet(o.blocks)
         THEN [t EXCEPT !.state = FinalizedOrdered, !.anchor = o.anchor]
         ELSE t : t \in trace[n][d]}]

advance_deploy_trace(n, o) == IF o.anchor = {} THEN trace[n] ELSE correlate_finalized_output(n, o)

(***************************************************************************)
(* CasperAdapter::deploy: the pool refuses a signature it holds; a deploy  *)
(* may also be refused for its expiration, price or empty signature, or    *)
(* because another thread holds the lock of the pool.                      *)
(***************************************************************************)
deploy(n, d, refused) == ~ refused /\ d \notin pool[n]

(***************************************************************************)
(* observe_and_admit: the deploy is traced when it arrives and accepted    *)
(* when the pool takes it.                                                 *)
(***************************************************************************)
observe_and_admit(n, d, refused) ==
    /\ IF deploy(n, d, refused)
       THEN /\ pool' = [pool EXCEPT ![n] = @ \cup {d}]
            /\ trace' = [trace EXCEPT ![n][d] = advance_accepted(record_observed(@))]
       ELSE /\ trace' = [trace EXCEPT ![n][d] = record_observed(@)]
            /\ UNCHANGED pool
    /\ UNCHANGED <<blocks, past, round, pending, output, fingerprint, reuse, bonds, epoch>>

(***************************************************************************)
(* LiveBlocklaceMirror::ingest: a duplicate changes nothing, a block with  *)
(* a missing predecessor is buffered, any other inserted with the buffered *)
(* blocks it releases.                                                     *)
(***************************************************************************)
duplicate(n, b) == b \in blocks[n] \cup pending[n]

inserted(n, b) == IF Preds[b] \subseteq blocks[n] THEN release_pending(n, b) ELSE {}

mirror_ingest(n, b) ==
    IF duplicate(n, b) THEN UNCHANGED <<blocks, past, round, pending>>
    ELSE \E S \in {inserted(n, b)} :
            /\ blocks' = [blocks EXCEPT ![n] = @ \cup S]
            /\ past' = [past EXCEPT ![n] = rows(S, @)]
            /\ round' = [round EXCEPT ![n] = depths(S, @)]
            /\ pending' = [pending EXCEPT ![n] = (@ \cup {b}) \ S]
            /\ S # {} \/ Cardinality(pending[n]) < MaxPending

(***************************************************************************)
(* ingest_trusted_block.  The deploys of the block are correlated whatever *)
(* becomes of it, a duplicate included.                                    *)
(***************************************************************************)
ingest_trusted_block(n, b) ==
    /\ mirror_ingest(n, b)
    /\ reuse' = IF duplicate(n, b) THEN reuse
                ELSE [reuse EXCEPT ![n] =
                         record_strict_mirror_update(n, size(n), inserted(n, b), round'[n])]
    /\ trace' = [trace EXCEPT ![n] = correlate_block_payload(n, b)]
    /\ UNCHANGED <<output, fingerprint, bonds, epoch, pool>>

(***************************************************************************)
(* ingest_block_message: the translated message takes the same path.       *)
(***************************************************************************)
ingest_block_message(n, b) == ingest_trusted_block(n, b)

(***************************************************************************)
(* ingest_native_block_message: refused unless every parent is mirrored;   *)
(* it does not report to record_strict_mirror_update.                      *)
(***************************************************************************)
ingest_native_block_message(n, b) ==
    /\ ~ duplicate(n, b)
    /\ Preds[b] \subseteq blocks[n]
    /\ mirror_ingest(n, b)
    /\ trace' = [trace EXCEPT ![n] = correlate_block_payload(n, b)]
    /\ UNCHANGED <<output, fingerprint, reuse, bonds, epoch, pool>>
-----------------------------------------------------------------------------
(***************************************************************************)
(* try_ordered_block_identities_with_cache, for two or more validators,    *)
(* under the weight table w.                                               *)
(***************************************************************************)
ordered_output(w, n) ==
    IF w = "bonded"
    THEN [anchor |-> latest_final_leader(Weighted, n), blocks |-> tau_with_cache(Weighted, n)]
    ELSE [anchor |-> Por!latest_final_leader(Weighted, n), blocks |-> Por!tau_with_cache(Weighted, n)]

final_leader(w, n, k) ==
    IF w = "bonded" THEN final_leader_for_wave(Weighted, n, k) ELSE Por!final_leader_for_wave(Weighted, n, k)

previous_leader(w, n, l) ==
    IF w = "bonded" THEN previous_final_leader(Weighted, n, l) ELSE Por!previous_final_leader(Weighted, n, l)

wave(n, b) == wave_of_round(round[n][b])

full_output(n) == ordered_output(bonds[n], n)

(***************************************************************************)
(* weighted_tau_suffix_from_leader_cached: the fragments of the leaders    *)
(* between the previous anchor and the given one, appended to the prefix;  *)
(* empty when the chain of final leaders does not reach that anchor.       *)
(***************************************************************************)
weighted_tau_suffix_from_leader(n, prefix, anchor, leader) ==
    LET extend[l \in blocks[n]] ==
            IF l = anchor THEN {prefix}
            ELSE {e \o SelectSeq(xsort(approved_blocks_for_leader(n, l)),
                                 LAMBDA b : b \notin ToSet(e)) :
                     e \in UNION {extend[p] : p \in previous_leader(bonds[n], n, l)}}
    IN  extend[leader]

(***************************************************************************)
(* weighted_tau_suffix_with_cache: tried only from an anchor that ends the *)
(* prefix and is still the final leader of its wave.                       *)
(***************************************************************************)
weighted_tau_suffix(n, prefix, anchor) ==
    IF /\ prefix # <<>> /\ Last(prefix) = anchor
       /\ final_leader(bonds[n], n, wave(n, anchor)) = {anchor}
    THEN UNION {{[anchor |-> {l}, blocks |-> e] :
                    e \in weighted_tau_suffix_from_leader(n, prefix, anchor, l)} :
                   l \in full_output(n).anchor}
    ELSE {}

(***************************************************************************)
(* try_extend_finalized_prefix, as the set of at most one output it gives. *)
(***************************************************************************)
try_extend_finalized_prefix(n) ==
    UNION {weighted_tau_suffix(n, o.blocks, the(r.anchor)) :
              <<o, r>> \in {<<p, q>> \in output[n] \X reuse[n] :
                               /\ q.safe_append
                               /\ q.observed = size(n)
                               /\ q.size < size(n)
                               /\ q.bonds = bonds[n]}}

poll_result(n) ==
    LET extension == try_extend_finalized_prefix(n)
    IN  IF extension # {} THEN the(extension) ELSE full_output(n)

\* SharedOrderedOutput::update takes only an output that extends the latest.
extends(n, o) == \A p \in output[n] : IsPrefix(p.blocks, o.blocks)

current_fingerprint(n) == [size |-> size(n), bonds |-> bonds[n]]

(***************************************************************************)
(* update_finalized_prefix_reuse: an output without an anchor leaves       *)
(* nothing to reuse.                                                       *)
(***************************************************************************)
update_finalized_prefix_reuse(n, o) ==
    {[anchor |-> {a}, size |-> size(n), bonds |-> bonds[n], observed |-> size(n),
      safe_append |-> TRUE,
      anchor_wave_end |-> last_round_of_wave(wave(n, a))] : a \in o.anchor}

(***************************************************************************)
(* latest_finalized_ordered_output without a future epoch.  An output that *)
(* does not extend the published one is refused by SharedOrderedOutput and *)
(* the poll fails without changing anything.                               *)
(***************************************************************************)
poll(n) ==
    /\ epoch[n] = {}
    /\ IF output[n] # {} /\ fingerprint[n] = {current_fingerprint(n)}
       THEN /\ trace' = [trace EXCEPT ![n] = advance_deploy_trace(n, the(output[n]))]
            /\ UNCHANGED <<output, fingerprint, reuse>>
       ELSE \E o \in {poll_result(n)} :
              /\ extends(n, o)
              /\ output' = [output EXCEPT ![n] = {o}]
              /\ fingerprint' = [fingerprint EXCEPT ![n] = {current_fingerprint(n)}]
              /\ reuse' = [reuse EXCEPT ![n] = update_finalized_prefix_reuse(n, o)]
              /\ trace' = [trace EXCEPT ![n] = advance_deploy_trace(n, o)]
    /\ UNCHANGED <<blocks, past, round, pending, bonds, epoch, pool>>
-----------------------------------------------------------------------------
(***************************************************************************)
(* finalized_prefix_checkpoint of the first reputation round: the output   *)
(* reaches the fixed length of its source.                                 *)
(***************************************************************************)
finalized_prefix_checkpoint(o) == o.anchor # {} /\ Len(o.blocks) >= CheckpointLen

\* Mutant of checked_por_weights: only the source checkpoint is required.
checked_por_source(n) == \E o \in output[n] : finalized_prefix_checkpoint(o)

(***************************************************************************)
(* checked_por_weights: the source checkpoint is published, and under the  *)
(* projected weights the published anchor is still the final leader of its *)
(* wave and the published order still a prefix.                            *)
(***************************************************************************)
checked_por_weights(n) ==
    \E o \in output[n] :
        /\ finalized_prefix_checkpoint(o)
        /\ final_leader("por", n, wave(n, the(o.anchor))) = o.anchor
        /\ extends(n, ordered_output("por", n))

(***************************************************************************)
(* apply_por_weights: the new weights are in force from the next poll on.  *)
(***************************************************************************)
apply_por_weights(n) ==
    /\ epoch[n] = {} /\ bonds[n] = "bonded"
    /\ checked_por_weights(n)
    /\ bonds' = [bonds EXCEPT ![n] = "por"]
    /\ reuse' = [reuse EXCEPT ![n] = {[r EXCEPT !.safe_append = FALSE] : r \in @}]
    /\ UNCHANGED <<blocks, past, round, pending, output, fingerprint, epoch, pool, trace>>

(***************************************************************************)
(* weighted_tau_from_epoch_leader: leaders of the new epoch must descend   *)
(* from the sealed one; the newest earlier leader of the epoch that the    *)
(* current one ratifies comes first.                                       *)
(***************************************************************************)
epoch_order(n, e, leader) ==
    LET ratified(l, k) == {p \in final_leader("por", n, k) : Por!ratifies(Weighted, n, l, p)}
        inside(l) == e.effective_wave .. (wave(n, l) - 1)
        order[l \in blocks[n]] ==
            LET previous == UNION {ratified(l, k) :
                    k \in {v \in inside(l) : \A u \in inside(l) : u > v => ratified(l, u) = {}}}
                sealed == IF previous = {} THEN {e.prefix} ELSE order[the(previous)]
            IN  IF wave(n, l) < e.effective_wave \/ e.leader \notin past[n][l] THEN {}
                ELSE {s \o xsort(approved_blocks_for_leader(n, l) \ ToSet(s)) : s \in sealed}
    IN  order[leader]

(***************************************************************************)
(* weighted_tau_at_leader under the weights before the boundary.           *)
(***************************************************************************)
weighted_tau_at_leader(n, l) == tau_from_leader(Weighted, n, l)

(***************************************************************************)
(* weighted_tau_after_epoch_boundary: the old weights must still finalize  *)
(* the sealed leader and reproduce the sealed prefix; empty when they do   *)
(* not.                                                                    *)
(***************************************************************************)
weighted_tau_after_epoch_boundary(n, e) ==
    LET latest == Por!latest_final_leader(Weighted, n)
    IN  IF \/ final_leader("bonded", n, wave(n, e.leader)) # {e.leader}
           \/ weighted_tau_at_leader(n, e.leader) # e.prefix
        THEN {}
        ELSE IF latest = {} \/ \E l \in latest : wave(n, l) < e.effective_wave
        THEN {[anchor |-> {e.leader}, blocks |-> e.prefix]}
        ELSE UNION {{[anchor |-> {l}, blocks |-> s] : s \in epoch_order(n, e, l)} : l \in latest}

\* PorWeightEpochPolicy::effective_wave: fixed by the terminal block of the
\* source checkpoint, whatever the head of the observer.
effective_wave(n, ordered) == wave(n, ordered[CheckpointLen]) + DelayWaves

(***************************************************************************)
(* preview_checkpoint_weight_epoch: the published anchor must be in the    *)
(* wave just before the effective one, and the order across the boundary   *)
(* computable.                                                             *)
(***************************************************************************)
preview_checkpoint_weight_epoch(n, o) ==
    /\ finalized_prefix_checkpoint(o)
    /\ effective_wave(n, o.blocks) = wave(n, the(o.anchor)) + 1
    /\ weighted_tau_after_epoch_boundary(n,
           [leader |-> the(o.anchor), prefix |-> o.blocks,
            effective_wave |-> effective_wave(n, o.blocks)]) # {}

(***************************************************************************)
(* PorWeightEpochRecord::prepare on the published output, as a set of at   *)
(* most one record.                                                        *)
(***************************************************************************)
prepare(n) ==
    {[leader |-> the(o.anchor), prefix |-> o.blocks, effective_wave |-> effective_wave(n, o.blocks)] :
        o \in {p \in output[n] : preview_checkpoint_weight_epoch(n, p)}}

(***************************************************************************)
(* verify_replay: the record must still fit the mirror, then the order     *)
(* across the boundary is the output.                                      *)
(***************************************************************************)
verify_replay(n, e) ==
    IF /\ wave(n, e.leader) + 1 = e.effective_wave
       /\ effective_wave(n, e.prefix) = e.effective_wave
    THEN weighted_tau_after_epoch_boundary(n, e)
    ELSE {}

(***************************************************************************)
(* install_future_epoch of a record prepared in the same call, as          *)
(* commit_completed_checkpoint_round_with_epoch does.                      *)
(***************************************************************************)
install_future_epoch(n) ==
    /\ epoch[n] = {} /\ bonds[n] = "bonded"
    /\ \E e \in prepare(n) : \E o \in verify_replay(n, e) :
          /\ extends(n, o)
          /\ output' = [output EXCEPT ![n] = {o}]
          /\ epoch' = [epoch EXCEPT ![n] = {e}]
    /\ bonds' = [bonds EXCEPT ![n] = "por"]
    /\ UNCHANGED <<blocks, past, round, pending, fingerprint, reuse, pool, trace>>

(***************************************************************************)
(* latest_finalized_ordered_output in a future epoch: replayed on every    *)
(* poll, never from the fingerprint or the prefix.                         *)
(***************************************************************************)
poll_epoch(n) ==
    /\ \E e \in epoch[n] : \E o \in verify_replay(n, e) :
          /\ extends(n, o)
          /\ output' = [output EXCEPT ![n] = {o}]
          /\ trace' = [trace EXCEPT ![n] = advance_deploy_trace(n, o)]
    /\ fingerprint' = [fingerprint EXCEPT ![n] = {}]
    /\ reuse' = [reuse EXCEPT ![n] = {}]
    /\ UNCHANGED <<blocks, past, round, pending, bonds, epoch, pool>>

(***************************************************************************)
(* with_persistent_store: the mirror starts with the recovered blocks and  *)
(* nothing published.                                                      *)
(***************************************************************************)
LiveInit ==
    /\ blocks = [n \in Node |-> Recovered]
    /\ past = [n \in Node |-> rows(Recovered, [b \in Block |-> {}])]
    /\ round = [n \in Node |-> depths(Recovered, [b \in Block |-> 0])]
    /\ pending = [n \in Node |-> {}]
    /\ output = [n \in Node |-> {}]
    /\ fingerprint = [n \in Node |-> {}]
    /\ reuse = [n \in Node |-> {}]
    /\ bonds = [n \in Node |-> "bonded"]
    /\ epoch = [n \in Node |-> {}]
    /\ pool = [n \in Node |-> {}]
    /\ trace = [n \in Node |-> [d \in Deploy |-> {}]]

LiveNext ==
    \E n \in Node :
        \/ \E b \in Block :
              \/ ingest_trusted_block(n, b)
              \/ ingest_block_message(n, b)
              \/ ingest_native_block_message(n, b)
        \/ \E d \in Deploy, refused \in BOOLEAN : observe_and_admit(n, d, refused)
        \/ poll(n) \/ poll_epoch(n)
        \/ apply_por_weights(n) \/ install_future_epoch(n)

LiveSpec == LiveInit /\ [][LiveNext]_liveVars
-----------------------------------------------------------------------------
\* Type invariant of the live mirror.
LiveTypeOK ==
    /\ TypeOK
    /\ \A n \in Node :
          /\ pending[n] \subseteq Block /\ Cardinality(pending[n]) <= MaxPending
          /\ Cardinality(output[n]) <= 1 /\ Cardinality(reuse[n]) <= 1
          /\ \A o \in output[n] : o.anchor \subseteq Block /\ ToSet(o.blocks) \subseteq Block
          /\ \A f \in fingerprint[n] : f.size \in 0 .. Cardinality(Block)
          /\ bonds[n] \in {"bonded", "por"} /\ Cardinality(epoch[n]) <= 1
          /\ \A d \in Deploy : Cardinality(trace[n][d]) <= 1

\* Whenever a poll would extend the published prefix instead of recomputing,
\* it publishes exactly what recomputing gives (try_extend_finalized_prefix,
\* record_strict_mirror_update): the reuse conditions miss no mutation that
\* changes the order.
ExtensionIsRecomputation ==
    \A n \in Node : epoch[n] = {} =>
        \A o \in try_extend_finalized_prefix(n) : o = full_output(n)

\* The mirror is well typed, no block waits in the buffer while all its
\* predecessors are mirrored (release_pending), and a poll that finds the
\* fingerprint unchanged returns the order of the current mirror
\* (latest_finalized_ordered_output).  When only the weights changed since
\* the publication, the next poll keeps the published anchor or a later one
\* and extends the published order (checked_por_weights); in a future epoch
\* the replay of the sealed prefix never fails (install_future_epoch).
PublishedStaysCurrent ==
    /\ LiveTypeOK
    /\ \A n \in Node :
          /\ \A b \in pending[n] : b \notin blocks[n] /\ ~ (Preds[b] \subseteq blocks[n])
          /\ epoch[n] = {} => \A f \in fingerprint[n] : f.size = size(n) =>
                IF f.bonds = bonds[n] THEN output[n] = {full_output(n)} ELSE extends(n, full_output(n))
          /\ \A e \in epoch[n] : verify_replay(n, e) # {}

\* A trace never goes back and never changes its block; one that is Accepted
\* is in the pool; a block it names was delivered here and holds the deploy;
\* and a trace is FinalizedOrdered only if the published order holds its
\* block up to its anchor, which every poll that publishes a new order sees
\* to (correlate_block, correlate_finalized_output, advance_deploy_trace).
TraceSound ==
    /\ [](\A n \in Node, d \in Deploy : \A t \in trace[n][d] :
            /\ t.block \subseteq Carriers[d] \cap (blocks[n] \cup pending[n])
            /\ t.state = Accepted => d \in pool[n]
            /\ t.state >= BlockIncluded => t.block # {}
            /\ t.state = FinalizedOrdered => \E o \in output[n] :
                  \E i, j \in DOMAIN o.blocks : i <= j /\ {o.blocks[i]} = t.block /\ {o.blocks[j]} = t.anchor)
    /\ [][\A n \in Node, d \in Deploy :
            /\ \A t \in trace[n][d] : \E u \in trace[n][d]' :
                  u.state >= t.state /\ t.block \subseteq u.block
            /\ output'[n] # output[n] /\ epoch'[n] = epoch[n] =>
                  \A u \in trace[n][d]' : \A o \in output'[n] :
                      u.state = BlockIncluded => ~ (u.block \subseteq ToSet(o.blocks))]_liveVars

=============================================================================
