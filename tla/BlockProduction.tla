--------------------------- MODULE BlockProduction ----------------------------
(***************************************************************************)
(* How validators make blocks: the deploy pool, the proposer, the runtime  *)
(* that executes a proposal, and the network node that inserts the block   *)
(* and sends it to its peers.                                              *)
(*                                                                         *)
(* A proposal points at the tips of the bonded validators that have not    *)
(* equivocated, executes on the predecessor with the highest block number, *)
(* slashes every offender with retained evidence and includes deploys of   *)
(* the pool that no ancestor within their lifespan includes.               *)
(***************************************************************************)
EXTENDS Integers, FiniteSets, FiniteSetsExt, Sequences

CONSTANTS
    Proposer,       \* validators that run this code
    Equivocator,    \* a bonded validator with two first blocks
    Deploy,         \* signed deploys: see BpAssumption
    ForkDeploys,    \* deploys of the second of those blocks
    Auth,           \* authorizations of reputation penalties
    Hash,           \* order of the content hashes of blocks
    MaxBlocks,      \* bound on the number of blocks
    Configs         \* settings

\* The equivocator's block includes deploys that may enter a block of number 0.
\* id orders signatures; expires is 0 for a deploy without expiration. In a
\* setting, compatible tells the tip selection, strict a runtime that executes
\* only on states it has produced, formats a formatter that can encode a slash;
\* submits and authorizes are what users and the host ask for, forks whether the
\* equivocator's blocks are sent, proofs whether the fork is recorded as evidence,
\* blocks and time the bounds.
ASSUME BpAssumption ==
    /\ IsFiniteSet(Proposer) /\ Equivocator \notin Proposer /\ MaxBlocks \in Nat
    /\ \A d \in Deploy : {d.id, d.valid_after, d.timestamp, d.expires, d.price} \subseteq Nat
    /\ \A d \in ForkDeploys : d \in Deploy /\ d.valid_after = 0
    /\ Hash \in [1..MaxBlocks -> Nat] /\ \A i, j \in 1..MaxBlocks : Hash[i] = Hash[j] => i = j
    /\ \A c \in Configs :
        /\ {c.compatible, c.strict, c.formats, c.forks, c.proofs} \subseteq BOOLEAN
        /\ c.submits \subseteq Deploy /\ c.authorizes \subseteq Auth
        /\ c.blocks \in 2..MaxBlocks /\ c.time \in Nat
        /\ {c.lifespan, c.min_price} \subseteq Nat /\ c.cap \in Nat \ {0}

VARIABLES
    config,
    chain,       \* all signed blocks; a block is named by its position
    lace,        \* blocks in the blocklace of each proposer
    pool,        \* deploy pool
    bonds,       \* bonded validators the next proposal selects tips with
    queue,       \* authorizations for the next proposal
    evidence,    \* offenders in the evidence pool
    known,       \* states the runtime has produced
    clock

vars == <<config, chain, lace, pool, bonds, queue, evidence, known, clock>>

Validator == Proposer \cup {Equivocator}

(***************************************************************************)
(* The blocklace of a proposer.                                            *)
(***************************************************************************)
observe[i \in DOMAIN chain] ==
    {i} \cup UNION {observe[j] : j \in chain[i].predecessors}
blocks_by(v, c) == {i \in lace[v] : chain[i].creator = c}
incomparable(i, j) == i \notin observe[j] /\ j \notin observe[i]
find_equivacators(v) ==
    {c \in Validator : \E i, j \in blocks_by(v, c) : incomparable(i, j)}
all_equivocations(v) ==
    {i \in lace[v] : \E j \in blocks_by(v, chain[i].creator) :
        incomparable(i, j) /\ chain[i].depth = chain[j].depth}
collect_validator_tips(v, B) ==
    {i \in lace[v] :
        /\ chain[i].creator \in B \ find_equivacators(v)
        /\ \A j \in blocks_by(v, chain[i].creator) : j \in observe[i]}

select_predecessors(v) ==
    LET tips == collect_validator_tips(v, bonds[v]) IN
    IF tips = {} \/ ~ config.compatible THEN tips
    ELSE tips \cup (all_equivocations(v) \ UNION {observe[i] : i \in tips})

\* The execution parent: the highest block number, then the greatest hash.
derive_chain_head(P) ==
    CHOOSE i \in P : \A j \in P \ {i} :
        \/ chain[i].number > chain[j].number
        \/ chain[i].number = chain[j].number /\ Hash[i] > Hash[j]

(***************************************************************************)
(* Selection of deploys for block number n at time t.                      *)
(***************************************************************************)
is_block_expired(d, n) == n >= config.lifespan /\ d.valid_after <= n - config.lifespan
is_time_expired(d, t) == d.expires # 0 /\ t > d.expires
always(d, n) == TRUE
not_future(d, n) == d.valid_after <= n

\* The walk over the ancestry stops at blocks before the window.
compute_deploys_in_scope(P, n) ==
    LET walk[i \in DOMAIN chain] ==
            IF chain[i].number < n - config.lifespan THEN {}
            ELSE chain[i].deploys \cup UNION {walk[j] : j \in chain[i].predecessors}
    IN UNION {walk[i] : i \in P}

older(d, e) ==
    \/ d.valid_after < e.valid_after
    \/ d.valid_after = e.valid_after /\ d.timestamp < e.timestamp
    \/ d.valid_after = e.valid_after /\ d.timestamp = e.timestamp /\ d.id < e.id

\* All but one of the places go to the oldest, the last one to the newest.
oldest_plus_newest(D) ==
    {d \in D : \/ Cardinality({e \in D : older(e, d)}) < config.cap - 1
               \/ \A e \in D : ~ older(d, e)}

select_for_block(v, P, n) ==
    LET valid == {d \in pool[v] \ compute_deploys_in_scope(P, n) :
                    not_future(d, n) /\ ~ is_block_expired(d, n) /\ ~ is_time_expired(d, clock)}
    IN IF Cardinality(valid) <= config.cap THEN valid ELSE oldest_plus_newest(valid)

(***************************************************************************)
(* Execution: a state is the sequence of transitions that produced it, so  *)
(* equal hashes are equal histories.  A slash removes the bond.            *)
(***************************************************************************)
execute_block(pre, n, deploys, B, offenders) ==
    Append(pre, [number |-> n, deploys |-> deploys, slashed |-> offenders,
                 succeeded |-> offenders \cap B, bonds |-> B \ offenders])
post(b) == b.state[Len(b.state)]

\* Every offender in the evidence pool is slashed by every proposal.
slash_system_deploys(v) == evidence[v]

\* What propose_at_time signs in the current state, if it gets that far.
proposal(v) ==
    LET P    == select_predecessors(v)
        head == chain[derive_chain_head(P)]
        n    == IF P = {} THEN 0 ELSE head.number + 1
        pre  == IF P = {} THEN <<>> ELSE head.state
        B    == IF P = {} THEN bonds[v] ELSE post(head).bonds
        D    == select_for_block(v, P, n)
    IN [creator |-> v, predecessors |-> P, number |-> n, deploys |-> D,
        depth |-> IF P = {} THEN 0 ELSE 1 + Max({chain[i].depth : i \in P}),
        authorizations |-> queue[v], state |-> execute_block(pre, n, D, B, slash_system_deploys(v))]

\* The early returns before signing: no tips, no encoding for a slash, a state
\* the runtime does not know.
prepares(v) ==
    /\ Len(chain) < config.blocks
    /\ select_predecessors(v) # {} \/ lace[v] = {}
    /\ slash_system_deploys(v) = {} \/ config.formats
    /\ LET s == proposal(v).state
       IN  config.strict => SubSeq(s, 1, Len(s) - 1) \in known[v]

remember(v) ==
    known' = IF config.strict THEN [known EXCEPT ![v] = @ \cup {proposal(v).state}] ELSE known

\* The network node inserts the block before it sends it to the peers.
create_block(v, b) ==
    /\ chain' = Append(chain, b)
    /\ lace' = [lace EXCEPT ![v] = @ \cup {Len(chain) + 1}]

(***************************************************************************)
(* Actions.                                                                *)
(***************************************************************************)
Init ==
    LET fork(D) == [creator |-> Equivocator, predecessors |-> {}, number |-> 0, deploys |-> D,
                    depth |-> 0, authorizations |-> {},
                    state |-> execute_block(<<>>, 0, D, Validator, {})]
    IN /\ config \in Configs
       /\ chain = <<fork({}), fork(ForkDeploys)>>
       /\ lace = [v \in Proposer |-> {}]
       /\ pool = [v \in Proposer |-> {}]
       /\ bonds = [v \in Proposer |-> Validator]
       /\ queue = [v \in Proposer |-> {}]
       /\ evidence = [v \in Proposer |-> {}]
       /\ known = [v \in Proposer |-> {<<>>}]
       /\ clock = 0

add(v, d) ==
    /\ d \in config.submits \ pool[v] /\ d.price >= config.min_price
    /\ pool' = [pool EXCEPT ![v] = @ \cup {d}]
    /\ UNCHANGED <<config, chain, lace, bonds, queue, evidence, known, clock>>

remove(v, d) ==
    /\ d \in pool[v]
    /\ pool' = [pool EXCEPT ![v] = @ \ {d}]
    /\ UNCHANGED <<config, chain, lace, bonds, queue, evidence, known, clock>>

\* The host prunes for a block number it has reached.
prune_expired(v, n) ==
    /\ \E i \in lace[v] : chain[i].number = n
    /\ pool' = [pool EXCEPT ![v] =
                    {d \in @ : ~ is_block_expired(d, n) /\ ~ is_time_expired(d, clock)}]
    /\ UNCHANGED <<config, chain, lace, bonds, queue, evidence, known, clock>>

queue_por_equivocation_authorization(v, a) ==
    /\ a \in config.authorizes
    /\ queue' = [queue EXCEPT ![v] = @ \cup {a}]
    /\ UNCHANGED <<config, chain, lace, pool, bonds, evidence, known, clock>>

\* The evidence pool holds the proof of a fork from then on. It is filled by the
\* validation of received blocks, also of blocks that the blocklace refuses.
record_evidence(v) ==
    /\ config.proofs
    /\ evidence' = [evidence EXCEPT ![v] = {Equivocator}]
    /\ UNCHANGED <<config, chain, lace, pool, bonds, queue, known, clock>>

propose_draining(v) ==
    /\ prepares(v) /\ create_block(v, proposal(v)) /\ remember(v)
    /\ bonds' = [bonds EXCEPT ![v] = post(proposal(v)).bonds]
    /\ queue' = [queue EXCEPT ![v] = {}]
    /\ evidence' = [evidence EXCEPT ![v] = {}]
    /\ UNCHANGED <<config, pool, clock>>
propose_at_time(v) ==
    /\ prepares(v)
    /\ create_block(v, proposal(v))
    /\ remember(v)
    /\ bonds' = [bonds EXCEPT ![v] = post(proposal(v)).bonds]
    /\ queue' = [queue EXCEPT ![v] = {}]
    /\ UNCHANGED <<config, pool, evidence, clock>>

\* Signing or broadcasting fails after the runtime has executed the block.
fails_clearing(v) ==
    /\ prepares(v) /\ remember(v) /\ queue' = [queue EXCEPT ![v] = {}]
    /\ UNCHANGED <<config, chain, lace, pool, bonds, evidence, clock>>
fails_activating(v) ==
    /\ prepares(v) /\ remember(v)
    /\ bonds' = [bonds EXCEPT ![v] = post(proposal(v)).bonds]
    /\ UNCHANGED <<config, chain, lace, pool, queue, evidence, clock>>
propose_fails(v) ==
    /\ prepares(v)
    /\ remember(v)
    /\ UNCHANGED <<config, chain, lace, pool, bonds, queue, evidence, clock>>

\* A broadcast, a response to a request or a sync brings a block; without its
\* predecessors it is dropped.
receive_block(v, i) ==
    /\ i \notin lace[v] /\ chain[i].predecessors \subseteq lace[v]
    /\ chain[i].creator = Equivocator => config.forks
    /\ lace' = [lace EXCEPT ![v] = @ \cup {i}]
    /\ UNCHANGED <<config, chain, pool, bonds, queue, evidence, known, clock>>

tick ==
    /\ clock < config.time
    /\ clock' = clock + 1
    /\ UNCHANGED <<config, chain, lace, pool, bonds, queue, evidence, known>>

Next ==
    \/ \E v \in Proposer :
        \/ \E d \in Deploy : add(v, d) \/ remove(v, d)
        \/ \E n \in 0..MaxBlocks : prune_expired(v, n)
        \/ \E a \in Auth : queue_por_equivocation_authorization(v, a)
        \/ \E i \in 1..Len(chain) : receive_block(v, i)
        \/ record_evidence(v)
        \/ propose_at_time(v)
        \/ propose_fails(v)
    \/ tick

Spec == Init /\ [][Next]_vars

(***************************************************************************)
(* Properties.                                                             *)
(***************************************************************************)
\* Types: every proposer holds signed blocks, pooled deploys above the minimum
\* price, and bonds of validators.
BpTypeOK ==
    /\ config \in Configs /\ clock \in 0..config.time /\ Len(chain) \in 2..config.blocks
    /\ \A v \in Proposer :
        /\ lace[v] \subseteq 1..Len(chain)
        /\ \A d \in pool[v] : d \in config.submits /\ d.price >= config.min_price
        /\ bonds[v] \subseteq Validator
        /\ queue[v] \subseteq Auth
        /\ evidence[v] \subseteq {Equivocator}

\* The state has its types, and no block executes a deploy that one of its ancestors executed, although the
\* search for duplicates stops at the lifespan window: a deploy that left the
\* window must also have expired (compute_deploys_in_scope, select_for_block).
NoRepeatedDeploy ==
    BpTypeOK /\
    \A i \in 1..Len(chain) : \A j \in observe[i] \ {i} :
        chain[i].deploys \cap chain[j].deploys = {}

\* After a proposer has slashed an offender none of its later blocks bonds the
\* offender again, even when it executes on a peer's branch that still does
\* (slash_system_deploys is repeated from the retained evidence).
SlashSticks ==
    \A j \in 1..Len(chain) : \A i \in observe[j] :
        chain[i].creator = chain[j].creator
            => post(chain[i]).slashed \cap post(chain[j]).bonds = {}

\* The bonds a proposer selects tips with are those of its newest block: a failed
\* proposal leaves its consensus view unchanged (proposer.rs, end of
\* propose_at_time).
BondsOfNewestBlock ==
    \A v \in Proposer : LET own == blocks_by(v, v) IN
        bonds[v] = IF own = {} THEN Validator ELSE post(chain[Max(own)]).bonds

\* An authorization leaves the queue only inside a new block of its proposer's
\* blocklace: a failed proposal retains it (por_authorizations).
AuthorizationsSurvive ==
    [][\A v \in Proposer : \A a \in queue[v] \ queue'[v] :
            \E i \in lace'[v] \ lace[v] :
                chain'[i].creator = v /\ a \in chain'[i].authorizations]_vars
=============================================================================
