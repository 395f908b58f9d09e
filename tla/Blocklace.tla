------------------------------ MODULE Blocklace ------------------------------
(***************************************************************************)
(* The blocklace of cordial-miners-core: every node holds a set of blocks  *)
(* closed under predecessors and, for each block, its observed past (the   *)
(* rows of AncestorIndex) and its depth.  Blocks are content addressed, so *)
(* the blocks that can ever exist are constants of the model and a node's  *)
(* view grows by inserting them in any causal order.                       *)
(* Checkpoint pruning and trusted boundaries are off in this module.       *)
(***************************************************************************)
EXTENDS Naturals, FiniteSets

CONSTANTS
    Node,       \* the nodes whose views are compared
    Validator,  \* the validator set
    Block,      \* every block some validator ever signs
    Creator,    \* BlockIdentity.creator
    Preds,      \* BlockContent.predecessors
    MaxRound    \* bound: no block is deeper than this

ASSUME BlockAssumption ==
    /\ Creator \in [Block -> Validator]
    /\ Preds \in [Block -> SUBSET Block]
    /\ MaxRound \in Nat

VARIABLES
    blocks,     \* blocks[n]: the identities node n has inserted
    past,       \* past[n][b]: b and everything b observes, as n indexed it
    round       \* round[n][b]: the depth of b in the view of n

laceVars == <<blocks, past, round>>

(***************************************************************************)
(* depth_recursive: 0 without predecessors, else one more than the deepest *)
(* predecessor.                                                            *)
(***************************************************************************)
depth(n, b, r) ==
    /\ \A p \in Preds[b] : round[n][p] < r
    /\ r # 0 => \E p \in Preds[b] : round[n][p] = r - 1

(***************************************************************************)
(* The row Closure::build computes: the block itself and the rows of all   *)
(* its predecessors.                                                       *)
(***************************************************************************)
observe(n, b) == {b} \cup UNION {past[n][p] : p \in Preds[b]}

(***************************************************************************)
(* commit_validated: the block is stored, and its row and depth are those  *)
(* the next generation of the index gives it.  No block has two signatures *)
(* here, so no identity conflicts.                                         *)
(***************************************************************************)
commit_validated(n, b) ==
    /\ blocks' = [blocks EXCEPT ![n] = @ \cup {b}]
    /\ past' = [past EXCEPT ![n][b] = observe(n, b)]
    /\ \E r \in 0 .. MaxRound :
          /\ depth(n, b, r)
          /\ round' = [round EXCEPT ![n][b] = r]

\* Mutant of insert: the predecessor check is missing.
insert_unchecked(n, b) ==
    /\ b \notin blocks[n]
    /\ commit_validated(n, b)

(***************************************************************************)
(* Blocklace::insert: every predecessor must resolve in the view; then     *)
(* commit_validated stores the block.                                      *)
(***************************************************************************)
insert(n, b) ==
    /\ b \notin blocks[n]
    /\ Preds[b] \subseteq blocks[n]
    /\ commit_validated(n, b)

LaceInit ==
    /\ blocks = [n \in Node |-> {}]
    /\ past = [n \in Node |-> [b \in Block |-> {}]]
    /\ round = [n \in Node |-> [b \in Block |-> 0]]

LaceNext == \E n \in Node, b \in Block : insert(n, b)

LaceSpec == LaceInit /\ [][LaceNext]_laceVars

\* Mutant of equivocating: only one direction of observation is looked at.
equivocating_one_way(n, x, y) ==
    /\ x # y
    /\ Creator[x] = Creator[y]
    /\ x \notin past[n][y]

(***************************************************************************)
(* Two blocks of one creator neither of which observes the other           *)
(* (incomparable_pairs).                                                   *)
(***************************************************************************)
equivocating(n, x, y) ==
    /\ x # y
    /\ Creator[x] = Creator[y]
    /\ x \notin past[n][y]
    /\ y \notin past[n][x]

(***************************************************************************)
(* find_equivacators: the creators whose blocks are not a chain in the     *)
(* view of n.                                                              *)
(***************************************************************************)
find_equivacators(n) ==
    {Creator[x] : x \in {y \in blocks[n] : \E z \in blocks[n] : equivocating(n, y, z)}}
-----------------------------------------------------------------------------
\* Type invariant of the views.
TypeOK ==
    /\ blocks \in [Node -> SUBSET Block]
    /\ past \in [Node -> [Block -> SUBSET Block]]
    /\ round \in [Node -> [Block -> 0 .. MaxRound]]

=============================================================================
