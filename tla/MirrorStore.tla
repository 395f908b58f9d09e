----------------------------- MODULE MirrorStore -----------------------------
(***************************************************************************)
(* ingest_and_persist and restart of the live mirror: a block is written   *)
(* to LMDB, then shown to the adapter, then mirrored or buffered; a crash  *)
(* may fall between any two steps and recovery replays the store.          *)
(* A block is named by its full identity; identities with one content (and *)
(* creator) and different signatures are variants of each other.           *)
(***************************************************************************)
EXTENDS Naturals, FiniteSets, FiniteSetsExt, Sequences, Sorting

CONSTANTS
    Id,        \* block identities
    Content,   \* content hash and creator of an identity
    Preds,     \* predecessor identities, signatures included
    Key,       \* order of the serialised identities in LMDB
    Refused    \* identities BlocklaceAdapter::on_block refuses

\* The content hash covers the predecessors, so that variants have the same
\* ones and no block is among its own ancestors.
ASSUME StoreAssumption ==
    /\ Preds \in [Id -> SUBSET Id]
    /\ \A b \in Id : IsFiniteSet(Preds[b])
    /\ \A b, c \in Id : Content[b] = Content[c] => Preds[b] = Preds[c]
    /\ \A S \in SUBSET Id : S # {} => \E b \in S : Preds[b] \cap S = {}
    /\ Key \in [Id -> Nat]
    /\ \A b, c \in Id : Key[b] = Key[c] => b = c
    /\ Refused \subseteq Id

VARIABLES
    stored,    \* the cordial-blocks database
    cursor,    \* the finalized cursor in cordial-meta, as a set of at most one
    mirror,    \* identities in the blocklace of the mirror
    pending,   \* identities in its buffer
    task,      \* the call in progress: the block it has persisted
    up         \* the process runs

storeVars == <<stored, cursor, mirror, pending, task, up>>

(***************************************************************************)
(* compute_height: heights are looked up by content, a block whose         *)
(* predecessors are not stored has height one.                             *)
(***************************************************************************)
compute_height(S, b) ==
    LET height[x \in Id] ==
            IF Preds[x] # {} /\ \E y \in S : Content[y] = Content[x]
            THEN 1 + Max({height[p] : p \in Preds[x]})
            ELSE 0
    IN  height[b]

\* Mutant of topo_sort_blocks: the store is replayed in key order.
key_order_blocks(S) == sorted(S, {p \in S \X S : Key[p[1]] < Key[p[2]]})

\* Lower blocks first, blocks of one height in the order of the scan.
lower(S) ==
    {p \in S \X S :
        LET h == compute_height(S, p[1])
            k == compute_height(S, p[2])
        IN  h < k \/ (h = k /\ Key[p[1]] < Key[p[2]])}

(***************************************************************************)
(* topo_sort_blocks: stable sort of the scan by height.                    *)
(***************************************************************************)
topo_sort_blocks(S) == sorted(S, lower(S))

variant(b, c) == b # c /\ Content[b] = Content[c]

(***************************************************************************)
(* Blocklace::insert into the blocks M: refused with a missing predecessor *)
(* or next to a variant.                                                   *)
(***************************************************************************)
insert(M, b) ==
    IF Preds[b] \subseteq M /\ ~ \E c \in M : variant(b, c) THEN M \cup {b} ELSE M

(***************************************************************************)
(* recover_into_engine: refused blocks are skipped.                        *)
(***************************************************************************)
recover_into_engine(S) ==
    LET t == topo_sort_blocks(S)
        engine[k \in 0 .. Len(t)] == IF k = 0 THEN {} ELSE insert(engine[k - 1], t[k])
    IN  engine[Len(t)]
-----------------------------------------------------------------------------
\* Mutant of put_block: nothing is written.
put_nothing(b) ==
    /\ up /\ task = {}
    /\ task' = {b}
    /\ UNCHANGED <<stored, cursor, mirror, pending, up>>

(***************************************************************************)
(* ingest_and_persist, first half: put_block commits.                      *)
(***************************************************************************)
put_block(b) ==
    /\ up /\ task = {}
    /\ stored' = stored \cup {b}
    /\ task' = {b}
    /\ UNCHANGED <<cursor, mirror, pending, up>>

duplicate_or_identity_conflict(b) ==
    b \in mirror \cup pending \/ \E c \in mirror \cup pending : variant(b, c)

\* Mutant of release_pending: one pass over the buffer.
release_pending_once(M) == M \cup {p \in pending : Preds[p] \subseteq M}

(***************************************************************************)
(* release_pending: buffered blocks enter until none is ready.             *)
(***************************************************************************)
release_pending(M) ==
    LET released(R) == M \subseteq R /\ \A p \in pending : Preds[p] \subseteq R => p \in R
    IN  {b \in M \cup pending : \A R \in SUBSET (M \cup pending) : released(R) => b \in R}

(***************************************************************************)
(* ingest_trusted_block of the persisted block: the adapter may refuse it; *)
(* a duplicate or a variant of a known block leaves the mirror alone;      *)
(* otherwise it is buffered or inserted.                                   *)
(***************************************************************************)
ingest_trusted_block(b) ==
    /\ b \in task
    /\ task' = {}
    /\ IF b \in Refused \/ duplicate_or_identity_conflict(b) THEN UNCHANGED <<mirror, pending>>
       ELSE IF Preds[b] \subseteq mirror
       THEN /\ mirror' = release_pending(mirror \cup {b})
            /\ pending' = pending \ mirror'
       ELSE pending' = pending \cup {b} /\ UNCHANGED mirror
    /\ UNCHANGED <<stored, cursor, up>>

(***************************************************************************)
(* persist_finalized_cursor: the anchor of the published output, a block   *)
(* of the mirror.                                                          *)
(***************************************************************************)
persist_finalized_cursor(b) ==
    /\ up /\ task = {}
    /\ b \in mirror
    /\ cursor' = {b}
    /\ UNCHANGED <<stored, mirror, pending, task, up>>

crash ==
    /\ up
    /\ up' = FALSE /\ mirror' = {} /\ pending' = {} /\ task' = {}
    /\ UNCHANGED <<stored, cursor>>

(***************************************************************************)
(* with_persistent_store.                                                  *)
(***************************************************************************)
with_persistent_store ==
    /\ ~ up
    /\ up' = TRUE
    /\ mirror' = recover_into_engine(stored)
    /\ UNCHANGED <<stored, cursor, pending, task>>

StoreInit ==
    /\ stored = {} /\ cursor = {}
    /\ mirror = {} /\ pending = {} /\ task = {}
    /\ up = FALSE

StoreNext ==
    \/ \E b \in Id : put_block(b) \/ ingest_trusted_block(b) \/ persist_finalized_cursor(b)
    \/ crash
    \/ with_persistent_store

StoreSpec == StoreInit /\ [][StoreNext]_storeVars
-----------------------------------------------------------------------------
\* Type invariant of the store and the mirror.
StoreTypeOK ==
    /\ stored \subseteq Id /\ mirror \subseteq Id /\ pending \subseteq Id
    /\ Cardinality(task) <= 1 /\ Cardinality(cursor) <= 1
    /\ up \in BOOLEAN

\* The state has its types, the mirror is closed and holds one variant of a
\* content, and no block waits with its predecessors mirrored, through
\* crashes and replays (ingest, release_pending, recover_into_engine).
MirrorConsistent ==
    /\ StoreTypeOK
    /\ \A b \in mirror : Preds[b] \subseteq mirror
    /\ \A b, c \in mirror \cup pending : ~ variant(b, c)
    /\ \A b \in pending : b \notin mirror /\ ~ (Preds[b] \subseteq mirror)

\* "Every block appears after all of its predecessors" in the replay,
\* whatever subset of the blocks was stored (topo_sort_blocks).
ReplayIsTopological ==
    LET t == topo_sort_blocks(stored)
    IN  \A i, j \in DOMAIN t : i < j => t[j] \notin Preds[t[i]]

\* b and its ancestors.
past(b) ==
    {a \in Id : \A P \in SUBSET Id : b \in P /\ (\A x \in P : Preds[x] \subseteq P) => a \in P}

\* A crash in any state loses no mirrored block, and not the one the cursor
\* names, unless a variant of it or of an ancestor was written too
\* (ingest_and_persist, persist_finalized_cursor, recover_into_engine).
CrashLosesNothing ==
    \A b \in mirror \cup cursor :
        (\A a \in past(b), c \in stored : ~ variant(a, c)) => b \in recover_into_engine(stored)

=============================================================================
