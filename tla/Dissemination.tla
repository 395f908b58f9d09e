---------------------------- MODULE Dissemination ----------------------------
(***************************************************************************)
(* A disseminating node: blocks arrive in any order and more than once,    *)
(* are validated against the local view, wait in a bounded buffer while a  *)
(* predecessor is missing, and leave proof behind when they are refused as *)
(* an equivocation.  From its view the node selects the predecessors of    *)
(* its next block and ranks the tips.                                      *)
(* Hashes and signatures are sound: Forged are the blocks that fail those  *)
(* checks.  A block refers to its predecessors by content (hash and        *)
(* creator), and two blocks may be signatures of one content.              *)
(***************************************************************************)
EXTENDS Naturals, FiniteSets, Sequences, FiniteSetsExt, Sorting

CONSTANTS
    Block,    \* blocks that are sent
    Creator,  \* BlockIdentity.creator
    Content,  \* the block that stands for the content of a block
    Preds,    \* BlockContent.predecessors, as contents
    Key,      \* the place of a block's identity in their order
    Forged,   \* blocks with a wrong hash or signature
    Configs   \* bonds, ValidationConfig and BufferPolicy of the node; and, as a
              \* bound, the blocks sent to it and those that may be sent twice

\* Blocks refer to each other by hash, so predecessors never form a cycle.
ASSUME DisseminationAssumption ==
    /\ IsFiniteSet(Block)
    /\ \A b \in Block : LET c == Content[b] IN
          /\ c \in Block /\ Content[c] = c /\ Creator[c] = Creator[b] /\ Preds[c] = Preds[b]
          /\ \A p \in Preds[b] : p \in Block /\ Content[p] = p
    /\ \A S \in SUBSET Block : S # {} => \E b \in S : Preds[b] \cap S = {}
    /\ Key \in [Block -> Nat] /\ \A a, b \in Block : Key[a] = Key[b] => a = b
    /\ \A c \in Configs :
          /\ IsFiniteSet(DOMAIN c.bonds) /\ \A v \in DOMAIN c.bonds : c.bonds[v] \in Nat
          /\ c.chain \in BOOLEAN /\ c.cordial \in BOOLEAN
          /\ c.max_entries \in Nat /\ c.max_entries_per_creator \in Nat /\ c.max_retry_passes \in Nat
          /\ c.sent \subseteq Block /\ c.twice \subseteq Block

VARIABLES
    config,    \* chosen at the start
    inflight,  \* blocks the network still has to deliver
    spare,     \* blocks it may still deliver once more
    view,      \* blocks of the local blocklace
    pending,   \* buffered blocks in order of arrival
    missing,   \* missing_predecessors of the buffered blocks
    passes,    \* retry_passes
    evidence,  \* records of the evidence pool
    refused,   \* blocks refused as an equivocation
    retried    \* bound: the buffer is retried once after a delivery

vars == <<config, inflight, spare, view, pending, missing, passes, evidence, refused, retried>>

\* observe, by content, and depth, of a block whose history is in the view.
Past ==
    LET past[b \in Block] == {Content[b]} \cup UNION {past[p] : p \in Preds[b]}
    IN  [b \in Block |-> past[b]]
Depth ==
    LET deep[b \in Block] == IF Preds[b] = {} THEN 0 ELSE 1 + Max({deep[p] : p \in Preds[b]})
    IN  [b \in Block |-> deep[b]]
observed(P) == UNION {Past[p] : p \in P}
known(V) == {Content[b] : b \in V}

\* The blocks held in the buffer, and the orders in which it lists them.
held == {pending[i] : i \in DOMAIN pending}
by_identity(S) == {p \in S \X S : Key[p[1]] < Key[p[2]]}
by_arrival ==
    {p \in held \X held :
        \E i, j \in DOMAIN pending : i < j /\ p = <<pending[i], pending[j]>>}

incomparable(x, y) ==
    /\ x # y /\ Creator[x] = Creator[y]
    /\ Content[x] \notin Past[y] /\ Content[y] \notin Past[x]

blocks_by(V, v) == {b \in V : Creator[b] = v}
find_equivacators(V) == {Creator[x] : x \in {y \in V : \E z \in V : incomparable(y, z)}}

\* The tips of the bonded validators whose blocks are a chain.
collect_validator_tips(V) ==
    LET suspects == find_equivacators(V)
    IN  {t \in V : /\ Creator[t] \in DOMAIN config.bonds \ suspects
                   /\ \A b \in blocks_by(V, Creator[t]) : Content[b] \in Past[t]}

\* The branches of the equivocations within one round.
all_equivocations(V) ==
    {x \in V : \E y \in V : x # y /\ Creator[x] = Creator[y] /\ Depth[x] = Depth[y]}

missing_known_tips(V, b) == known(collect_validator_tips(V)) \ (Preds[b] \cup {Content[b]})
hidden_equivocations(V, b) == known(all_equivocations(V)) \ observed(Preds[b])

\* The blocks that make b an equivocation; whichever comes first is reported.
conflicts(V, b) ==
    {c \in blocks_by(V, Creator[b]) :
        /\ c # b /\ Content[c] \notin observed(Preds[b] \cap known(V))
        /\ b \in V => Content[b] \notin Past[c]}

\* Mutant of complete: an incomplete block is already compared.
complete_assumed(V, b) == TRUE

\* missing_predecessors.is_empty()
complete(V, b) == Preds[b] \subseteq known(V)

(***************************************************************************)
(* The errors validate_block collects.  The comparisons with the history   *)
(* of b wait until it is complete.                                         *)
(***************************************************************************)
validate_block(V, b) ==
    {e \in {"InvalidSignature", "UnknownSender", "MissingPredecessors", "IdentityCollision",
            "Equivocation", "NotCordial", "HiddenEquivocation"} :
        CASE e = "InvalidSignature" -> b \in Forged
          [] e = "UnknownSender" -> Creator[b] \notin DOMAIN config.bonds
          [] e = "MissingPredecessors" -> ~ (Preds[b] \subseteq known(V))
          [] e = "IdentityCollision" ->
                b \notin V /\ \E c \in V : Content[c] = Content[b]
          [] e = "Equivocation" ->
                config.chain /\ complete(V, b) /\ conflicts(V, b) # {}
          [] e = "NotCordial" ->
                config.cordial /\ complete(V, b) /\ missing_known_tips(V, b) # {}
          [] e = "HiddenEquivocation" ->
                config.cordial /\ complete(V, b) /\ hidden_equivocations(V, b) # {}}

\* candidate_depth, and the record record_rejected_equivocation stores.
proof(b, c) ==
    [validator |-> Creator[b], round |-> Min({Depth[b], Depth[c]}), blocks |-> {b, c}]

\* validated_insert of a delivered block succeeds.
insert_block(b) ==
    /\ validate_block(view, b) = {}
    /\ view' = view \cup {b}
    /\ UNCHANGED <<config, pending, missing, passes, evidence, refused>>

(***************************************************************************)
(* buffer_block_with_missing_predecessors_known: an entry that is held is  *)
(* refreshed, a creator has a quota, and a full buffer loses the oldest    *)
(* entry.                                                                  *)
(***************************************************************************)
buffer_block(b) ==
    /\ validate_block(view, b) = {"MissingPredecessors"}
    /\ LET admit == /\ config.max_entries > 0 /\ b \notin held
                    /\ Cardinality(blocks_by(held, Creator[b])) < config.max_entries_per_creator
           full == Len(pending) >= config.max_entries
       IN  /\ pending' = IF ~ admit THEN pending
                         ELSE Append(IF full THEN Tail(pending) ELSE pending, b)
           /\ missing' = [c \in Block |->
                  CASE c = b /\ (admit \/ b \in held) -> Preds[b] \ known(view)
                    [] admit /\ full /\ c = Head(pending) -> {}
                    [] OTHER -> missing[c]]
           /\ passes' = [c \in Block |->
                  IF admit /\ (c = b \/ (full /\ c = Head(pending))) THEN 0 ELSE passes[c]]
    /\ UNCHANGED <<config, view, evidence, refused>>

\* Any other error refuses the block; an equivocation leaves proof.
reject_block(b) ==
    /\ validate_block(view, b) \notin {{}, {"MissingPredecessors"}}
    /\ IF "Equivocation" \in validate_block(view, b)
       THEN /\ refused' = refused \cup {b}
            /\ \E c \in conflicts(view, b) : evidence' = evidence \cup {proof(b, c)}
       ELSE UNCHANGED <<refused, evidence>>
    /\ UNCHANGED <<config, view, pending, missing, passes>>

receive_block(b) == insert_block(b) \/ buffer_block(b) \/ reject_block(b)

\* Mutants of retry_block: a ready block is committed without validation; a
\* block that is rejected now leaves no proof.
retry_unvalidated(r, b) ==
    {IF b \in r.view \/ ~ (Preds[b] \subseteq known(r.view)) THEN r
     ELSE [r EXCEPT !.view = @ \cup {b}, !.resolved = @ \cup {b}, !.progress = TRUE]}

retry_unrecorded(r, b) ==
    {CASE b \in r.view -> [r EXCEPT !.resolved = @ \cup {b}]
       [] b \notin r.view /\ ~ (Preds[b] \subseteq known(r.view)) -> r
       [] OTHER ->
            IF validate_block(r.view, b) = {}
            THEN [r EXCEPT !.view = @ \cup {b}, !.resolved = @ \cup {b}, !.progress = TRUE]
            ELSE [r EXCEPT !.resolved = @ \cup {b},
                           !.refused = IF "Equivocation" \in validate_block(r.view, b)
                                       THEN @ \cup {b} ELSE @]}

(***************************************************************************)
(* One block of a retry with the result r so far: known, still waiting,    *)
(* inserted, or rejected now, and then recorded with a conflict it has.    *)
(***************************************************************************)
retry_block(r, b) ==
    LET errors == validate_block(r.view, b)
        gone == [r EXCEPT !.resolved = @ \cup {b}]
    IN  IF b \in r.view THEN {gone}
        ELSE IF ~ (Preds[b] \subseteq known(r.view)) THEN {r}
        ELSE IF errors = {} THEN {[gone EXCEPT !.view = @ \cup {b}, !.progress = TRUE]}
        ELSE IF "Equivocation" \in errors
        THEN {[gone EXCEPT !.refused = @ \cup {b}, !.evidence = @ \cup {proof(b, c)}] :
                  c \in conflicts(r.view, b)}
        ELSE {gone}

\* A pass over the buffer in the order of the identities, after progress.
retry_pass(r) ==
    LET order == sorted(r.held, by_identity(r.held))
        after[k \in 0 .. Len(order)] ==
            IF k = 0 THEN {[r EXCEPT !.progress = FALSE]}
            ELSE UNION {retry_block(t, order[k]) : t \in after[k - 1]}
    IN  IF r.progress THEN {[t EXCEPT !.held = @ \ t.resolved] : t \in after[Len(order)]}
        ELSE {r}

before_retry == [view |-> view, held |-> held, resolved |-> {}, refused |-> refused,
                 evidence |-> evidence, progress |-> TRUE]

\* Passes are made while they insert something: never more than blocks held.
retry_all ==
    LET after[k \in 0 .. Len(pending)] ==
            IF k = 0 THEN {before_retry} ELSE UNION {retry_pass(r) : r \in after[k - 1]}
    IN  after[Len(pending)]

(***************************************************************************)
(* take_resolved_predecessors, retry_buffered_blocks and the recording of  *)
(* what it rejected.  What is left has failed one more pass, and goes when *)
(* it has failed too many.                                                 *)
(***************************************************************************)
retry_buffered_blocks ==
    /\ ~ retried /\ retried' = TRUE
    /\ \E r \in retry_all :
           LET stays == {b \in r.held : passes[b] < config.max_retry_passes}
           IN  /\ view' = r.view
               /\ pending' = sorted(stays, by_arrival)
               /\ missing' = [b \in Block |-> IF b \in stays THEN missing[b] \ known(view) ELSE {}]
               /\ passes' = [b \in Block |-> IF b \in stays THEN passes[b] + 1 ELSE 0]
               /\ refused' = r.refused /\ evidence' = r.evidence
    /\ UNCHANGED <<config, inflight, spare>>

\* The network delivers a block, or delivers it once more.
deliver(b) ==
    /\ b \in inflight /\ inflight' = inflight \ {b}
    /\ retried' = FALSE
    /\ receive_block(b)
    /\ UNCHANGED spare

duplicate(b) ==
    /\ b \in spare /\ spare' = spare \ {b}
    /\ retried' = FALSE
    /\ receive_block(b)
    /\ UNCHANGED inflight

Init ==
    /\ config \in Configs
    /\ inflight = config.sent /\ spare = config.twice
    /\ view = {} /\ pending = <<>>
    /\ missing = [b \in Block |-> {}] /\ passes = [b \in Block |-> 0]
    /\ evidence = {} /\ refused = {} /\ retried = TRUE

Next ==
    \/ \E b \in Block : deliver(b) \/ duplicate(b)
    \/ retry_buffered_blocks

Spec == Init /\ [][Next]_vars

\* Every block is delivered in the end, and the buffer is retried.
FairSpec ==
    Spec /\ WF_vars(\E b \in Block : deliver(b)) /\ WF_vars(retry_buffered_blocks)
-------------------------------------------------------------------------------
\* Mutant of select_predecessors_with_mode: the tips alone.
select_tips(V, mode) == collect_validator_tips(V)

(***************************************************************************)
(* The honest tips and, in compatibility mode, the equivocating branches   *)
(* they do not observe.                                                    *)
(***************************************************************************)
select_predecessors_with_mode(V, mode) ==
    LET tips == collect_validator_tips(V)
    IN  IF tips = {} \/ mode = "Strict" THEN tips
        ELSE tips \cup {b \in all_equivocations(V) : Content[b] \notin observed(tips)}

required_acknowledgements ==
    IF DOMAIN config.bonds = {} THEN 0 ELSE (2 * Cardinality(DOMAIN config.bonds)) \div 3 + 1

\* The branches a block on the predecessors P would hide.
missing_equivocation_branches(V, P) == known(all_equivocations(V)) \ observed(P)

\* The predecessors of the next block, a set of at most one: none on an error.
next_block_predecessors_with_mode(V, mode) ==
    {P \in {select_predecessors_with_mode(V, mode)} :
        V # {} => /\ P # {}
                  /\ mode = "Strict" => missing_equivocation_branches(V, P) = {}
                  /\ Cardinality(collect_validator_tips(V)) >= required_acknowledgements}

\* The content to be signed names its predecessors without their signatures.
build_block_candidate_with_mode(V, mode) ==
    {[predecessors |-> known(P)] : P \in next_block_predecessors_with_mode(V, mode)}

\* The claims of the pool that can be acted on.
verify_equivocation_evidence(V, e) ==
    /\ \A x \in e.blocks :
          /\ Creator[x] = e.validator /\ x \notin Forged
          /\ Past[x] \ {Content[x]} \subseteq known(V)
          /\ e.round <= Depth[x]
    /\ \E x \in e.blocks : e.round = Depth[x]
    /\ \A x, y \in e.blocks : x # y => Content[x] \notin Past[y]

\* compute_lca: any maximal common ancestor of the tips.
compute_lca(tips) ==
    LET common == {b \in observed(tips) : \A t \in tips : b \in Past[t]}
    IN  {b \in common : \A c \in common \ {b} : b \notin Past[c]}

\* Mutant of walk_to_lca: the walk takes one step only.
walk_one_step(start, target) ==
    {start} \cup {p \in Preds[start] : start # target /\ target \in Past[p]}

\* walk_to_lca: breadth first over the predecessors that observe the target.
walk_to_lca(start, target) ==
    LET reached[k \in 0 .. Depth[start]] ==
            IF k = 0 THEN {Content[start]}
            ELSE reached[k - 1] \cup {p \in UNION {Preds[b] : b \in reached[k - 1] \ {target}} :
                                           target \in Past[p]}
    IN  reached[Depth[start]]

stake(T) == MapThenSumSet(LAMBDA t : config.bonds[Creator[t]], T)
score(tips, lca, b) == stake({t \in tips : Content[b] \in walk_to_lca(t, lca)})

\* fork_choice: the tips by score, then by hash.
by_score(points) ==
    {p \in (DOMAIN points) \X (DOMAIN points) :
        \/ points[p[1]] > points[p[2]]
        \/ points[p[1]] = points[p[2]] /\ Key[p[1]] < Key[p[2]]}
ranked_tips(tips, lca) == sorted(tips, by_score([t \in tips |-> score(tips, lca, t)]))
-------------------------------------------------------------------------------
(***************************************************************************)
(* Type invariant.  The buffer stays within its policy, and what it says   *)
(* is missing of a block includes what is missing (BufferPolicy,           *)
(* take_resolved_predecessors).                                            *)
(***************************************************************************)
DissTypeOK ==
    /\ config \in Configs /\ inflight \subseteq Block /\ spare \subseteq Block /\ view \subseteq Block
    /\ refused \subseteq Block /\ retried \in BOOLEAN
    /\ pending \in Seq(Block) /\ IsInjective(pending)
    /\ Len(pending) <= config.max_entries
    /\ \A b \in held :
          /\ Cardinality(blocks_by(held, Creator[b])) <= config.max_entries_per_creator
          /\ passes[b] <= config.max_retry_passes
          /\ Preds[b] \ known(view) \subseteq missing[b] /\ missing[b] \subseteq Preds[b]

(***************************************************************************)
(* Whatever arrives in whatever order, and whether it was buffered or not, *)
(* the buffer stays within its policy, and the view is closed, holds       *)
(* blocks of bonded validators only and one signature of each, and where   *)
(* the chain axiom is checked the blocks of every validator form a chain   *)
(* (validated_insert, retry_buffered_blocks).                              *)
(***************************************************************************)
ViewSound ==
    /\ DissTypeOK
    /\ \A b \in view :
          /\ Preds[b] \subseteq known(view)
          /\ b \notin Forged /\ Creator[b] \in DOMAIN config.bonds
    /\ \A b, c \in view :
          /\ Content[b] = Content[c] => b = c
          /\ config.chain => ~ incomparable(b, c)

(***************************************************************************)
(* Proof of an equivocation is never lost: every block with a sound hash   *)
(* and signature that was refused as one, when it arrived or when it was   *)
(* retried, is in a record that verify_equivocation_evidence accepts,      *)
(* unless the view has another signature of it.  What it accepts are       *)
(* contents that really conflict.                                          *)
(***************************************************************************)
EvidenceIsProof ==
    /\ \A b \in refused \ Forged : Content[b] \notin known(view) =>
          \E e \in evidence : b \in e.blocks /\ verify_equivocation_evidence(view, e)
    /\ \A e \in evidence : verify_equivocation_evidence(view, e) =>
          \E x, y \in e.blocks : incomparable(x, y) /\ Creator[x] = e.validator

(***************************************************************************)
(* In both modes a block with the selected predecessors is cordial in the  *)
(* view: it hides no equivocation of a round, it extends the chain of any  *)
(* honest proposer, and it acknowledges a supermajority                    *)
(* (next_block_predecessors_with_mode, build_block_candidate_with_mode).   *)
(***************************************************************************)
CandidateCordial ==
    \A mode \in {"Compatibility", "Strict"} :
        \A candidate \in build_block_candidate_with_mode(view, mode) :
          LET P == candidate.predecessors
          IN  /\ P \subseteq known(view)
              /\ missing_equivocation_branches(view, P) = {}
              /\ \A v \in DOMAIN config.bonds \ find_equivacators(view) :
                     known(blocks_by(view, v)) \subseteq observed(P)
              /\ view # {} => 3 * Cardinality({Creator[p] : p \in P}) > 2 * Cardinality(DOMAIN config.bonds)

(***************************************************************************)
(* The score of a block is the stake of the validators whose tips observe  *)
(* it, and the ranking does not depend on which common ancestor            *)
(* compute_lca happens to find (fork_choice).                              *)
(***************************************************************************)
ForkChoiceSound ==
    LET tips == collect_validator_tips(view)
    IN  \A l, m \in compute_lca(tips) :
            /\ \A b \in view : l \in Past[b] =>
                   score(tips, l, b)
                     = stake({t \in tips : Content[b] \in Past[t]})
            /\ ranked_tips(tips, l) = ranked_tips(tips, m)

Honest(b) ==
    /\ b \notin Forged /\ Creator[b] \in DOMAIN config.bonds
    /\ \A c \in config.sent : c # b => ~ incomparable(b, c) /\ Content[b] # Content[c]

(***************************************************************************)
(* With room in the buffer, a block with an honest history that is         *)
(* delivered once, before or after that history, is in the view in the     *)
(* end.                                                                    *)
(***************************************************************************)
HonestBlocksArrive ==
    config.max_entries >= Cardinality(Block) =>
        <>(\A b \in config.sent :
              (\A a \in Past[b] : a \in config.sent /\ Honest(a)) => b \in view)

===============================================================================
