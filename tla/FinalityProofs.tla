--------------------------- MODULE FinalityProofs ----------------------------
(***************************************************************************)
(* Proofs, for every set of nodes, validators, blocks, weights and leader  *)
(* schedule, that finality is safe (nodes agree on the final leader of a   *)
(* wave and never lose it), that nodes with the same blocks output the     *)
(* same order, and that the order is sound.                                *)
(***************************************************************************)
EXTENDS Pruning, OrderProofs, SequenceTheorems

(***************************************************************************)
(* The inductive invariant, in the parts the proofs use one at a time.     *)
(***************************************************************************)
\* A stored block's past is stored, and is what observe computes from it.
Closed ==
    \A n \in Node : \A b \in blocks[n] :
        /\ Preds[b] \subseteq blocks[n]
        /\ past[n][b] = observe(n, b)
        /\ past[n][b] \subseteq blocks[n]

\* Observation is transitive.
Transitive ==
    \A n \in Node : \A b \in blocks[n] : \A x \in past[n][b] : past[n][x] \subseteq past[n][b]

\* A block is deeper than everything else it observes.
Layered ==
    \A n \in Node : \A b \in blocks[n] : \A x \in past[n][b] : x # b => round[n][x] < round[n][b]

\* Depth is the function of the predecessors that depth_recursive computes.
Depths ==
    \A n \in Node : \A b \in blocks[n] : depth(n, b, round[n][b])

\* A block of an honest validator observes all its creator's earlier blocks.
HonestChain ==
    \A n \in Node : \A y \in blocks[n] : Creator[y] \in Honest =>
        \A z \in Block : (Creator[z] = Creator[y] /\ Seqno[z] <= Seqno[y]) => z \in past[n][y]

LaceInv ==
    /\ TypeOK
    /\ Closed
    /\ Transitive
    /\ Layered
    /\ Depths
    /\ HonestChain
    /\ RowsAgree
-----------------------------------------------------------------------------
\* What one insert (Blocklace::insert) does to the rows it writes and that it
\* leaves every other row alone.
LEMMA InsertEffect ==
  ASSUME TypeOK, NEW n \in Node, NEW b \in Block, insert(n, b)
  PROVE  /\ b \notin blocks[n]
         /\ Preds[b] \subseteq blocks[n]
         /\ blocks'[n] = blocks[n] \cup {b}
         /\ \A m \in Node : m # n => blocks'[m] = blocks[m]
         /\ past'[n][b] = observe(n, b)
         /\ \A m \in Node, c \in Block : (m # n \/ c # b) => past'[m][c] = past[m][c]
         /\ round'[n][b] \in 0 .. MaxRound
         /\ depth(n, b, round'[n][b])
         /\ \A m \in Node, c \in Block : (m # n \/ c # b) => round'[m][c] = round[m][c]
  BY DEF insert, commit_validated, TypeOK

\* insert keeps the type of the view.
LEMMA TypeStep ==
  ASSUME TypeOK, [LaceNext]_laceVars
  PROVE  TypeOK'
<1>1. CASE UNCHANGED laceVars
  BY <1>1 DEF TypeOK, laceVars
<1>2. ASSUME NEW n \in Node, NEW b \in Block, insert(n, b) PROVE TypeOK'
  <2>1. observe(n, b) \subseteq Block
    BY BlockAssumption DEF TypeOK, observe
  <2> QED
    BY <1>2, <2>1 DEF insert, commit_validated, TypeOK
<1> QED
  BY <1>1, <1>2 DEF LaceNext

\* insert preserves the inductive invariant (Blocklace::insert,
\* Closure::build, depth_recursive).
LEMMA InsertStep ==
  ASSUME LaceInv, NEW n \in Node, NEW b \in Block, insert(n, b)
  PROVE  LaceInv'
<1> USE DEF LaceInv
<1>t. TypeOK'
  BY TypeStep DEF LaceNext
<1>e. /\ b \notin blocks[n]
      /\ Preds[b] \subseteq blocks[n]
      /\ blocks'[n] = blocks[n] \cup {b}
      /\ \A m \in Node : m # n => blocks'[m] = blocks[m]
      /\ past'[n][b] = observe(n, b)
      /\ \A m \in Node, c \in Block : (m # n \/ c # b) => past'[m][c] = past[m][c]
      /\ round'[n][b] \in 0 .. MaxRound
      /\ depth(n, b, round'[n][b])
      /\ \A m \in Node, c \in Block : (m # n \/ c # b) => round'[m][c] = round[m][c]
  BY InsertEffect
<1>ty. /\ \A m \in Node : blocks[m] \subseteq Block
       /\ \A m \in Node, c \in Block : past[m][c] \subseteq Block
       /\ \A m \in Node, c \in Block : round[m][c] \in 0 .. MaxRound
       /\ \A c \in Block : Preds[c] \subseteq Block
       /\ MaxRound \in Nat
  BY BlockAssumption DEF TypeOK
\* rows of blocks stored before the step are untouched
<1>o. \A m \in Node : \A c \in blocks[m] : past'[m][c] = past[m][c] /\ round'[m][c] = round[m][c]
  BY <1>e, <1>ty
<1>op. \A m \in Node : \A c \in blocks[m] : \A p \in Preds[c] :
          p \in blocks[m] /\ past'[m][p] = past[m][p] /\ round'[m][p] = round[m][p]
  BY <1>o DEF Closed
<1>np. \A p \in Preds[b] : p \in blocks[n] /\ past'[n][p] = past[n][p] /\ round'[n][p] = round[n][p]
  BY <1>e, <1>o
<1>g. \A m \in Node : blocks[m] \subseteq blocks'[m]
  BY <1>e
<1>new. \A m \in Node : \A c \in blocks'[m] : c \in blocks[m] \/ (m = n /\ c = b)
  BY <1>e
<1>ob. past'[n][b] \subseteq blocks'[n] /\ \A x \in past'[n][b] : x = b \/ \E p \in Preds[b] : x \in past[n][p]
  BY <1>e DEF observe, Closed
<1>1. Closed'
  <2> SUFFICES ASSUME NEW m \in Node, NEW c \in blocks'[m]
               PROVE  /\ Preds[c] \subseteq blocks'[m]
                      /\ past'[m][c] = {c} \cup UNION {past'[m][p] : p \in Preds[c]}
                      /\ past'[m][c] \subseteq blocks'[m]
    BY DEF Closed, observe
  <2>1. CASE c \in blocks[m]
    <3>1. past[m][c] = {c} \cup UNION {past[m][p] : p \in Preds[c]} /\ past[m][c] \subseteq blocks[m]
      BY <2>1 DEF Closed, observe
    <3> QED BY <2>1, <3>1, <1>o, <1>op, <1>g
  <2>2. CASE m = n /\ c = b
    <3>1. past'[n][b] = {b} \cup UNION {past[n][p] : p \in Preds[b]}
      BY <1>e DEF observe
    <3> QED BY <2>2, <3>1, <1>np, <1>ob, <1>g
  <2> QED BY <2>1, <2>2, <1>new
<1>2. Transitive'
  <2> SUFFICES ASSUME NEW m \in Node, NEW c \in blocks'[m], NEW x \in past'[m][c]
               PROVE  past'[m][x] \subseteq past'[m][c]
    BY DEF Transitive
  <2>1. CASE c \in blocks[m]
    <3>1. x \in past[m][c] /\ x \in blocks[m]
      BY <2>1, <1>o DEF Closed
    <3> QED BY <2>1, <3>1, <1>o DEF Transitive
  <2>2. CASE m = n /\ c = b /\ x # b
    <3>1. PICK p \in Preds[b] : x \in past[n][p]
      BY <2>2, <1>ob
    <3>2. p \in blocks[n] /\ x \in blocks[n] /\ past[n][x] \subseteq past[n][p]
      BY <3>1, <1>np DEF Closed, Transitive
    <3>3. past[n][p] \subseteq past'[n][b]
      BY <1>e DEF observe
    <3> QED BY <2>2, <3>2, <3>3, <1>o
  <2> QED BY <2>1, <2>2, <1>new
<1>3. Layered'
  <2> SUFFICES ASSUME NEW m \in Node, NEW c \in blocks'[m], NEW x \in past'[m][c], x # c
               PROVE  round'[m][x] < round'[m][c]
    BY DEF Layered
  <2>1. CASE c \in blocks[m]
    <3>1. x \in past[m][c] /\ x \in blocks[m]
      BY <2>1, <1>o DEF Closed
    <3> QED BY <2>1, <3>1, <1>o DEF Layered
  <2>2. CASE m = n /\ c = b
    <3>1. PICK p \in Preds[b] : x \in past[n][p]
      BY <2>2, <1>ob
    <3>2. p \in blocks[n] /\ x \in blocks[n] /\ p \in Block /\ x \in Block
      BY <3>1, <1>np, <1>ty DEF Closed
    <3>3. round[n][x] <= round[n][p]
      BY <3>1, <3>2, <1>ty DEF Layered
    <3>4. round[n][p] < round'[n][b]
      BY <1>e, <3>1 DEF depth
    <3> QED BY <2>2, <3>2, <3>3, <3>4, <1>o, <1>ty, <1>e
  <2> QED BY <2>1, <2>2, <1>new
<1>4. Depths'
  <2> SUFFICES ASSUME NEW m \in Node, NEW c \in blocks'[m]
               PROVE  /\ \A p \in Preds[c] : round'[m][p] < round'[m][c]
                      /\ round'[m][c] # 0 => \E p \in Preds[c] : round'[m][p] = round'[m][c] - 1
    BY DEF Depths, depth
  <2>1. CASE c \in blocks[m]
    <3>1. depth(m, c, round[m][c])
      BY <2>1 DEF Depths
    <3> QED BY <2>1, <3>1, <1>o, <1>op DEF depth
  <2>2. CASE m = n /\ c = b
    BY <2>2, <1>e, <1>np DEF depth
  <2> QED BY <2>1, <2>2, <1>new
<1>5. HonestChain'
  <2> SUFFICES ASSUME NEW m \in Node, NEW y \in blocks'[m], Creator[y] \in Honest,
                      NEW z \in Block, Creator[z] = Creator[y], Seqno[z] <= Seqno[y]
               PROVE  z \in past'[m][y]
    BY DEF HonestChain
  <2>1. CASE y \in blocks[m]
    BY <2>1, <1>o DEF HonestChain
  <2>2. CASE m = n /\ y = b
    <3>1. b \in past'[n][b]
      BY <1>e DEF observe
    <3>2. CASE Seqno[z] = Seqno[b]
      BY <2>2, <3>1, <3>2, HonestAssumption
    <3>3. CASE Seqno[z] # Seqno[b]
      <4>1. Seqno[b] # 0 /\ Seqno[z] \in Nat /\ Seqno[b] \in Nat /\ Seqno[z] <= Seqno[b] - 1
        BY <2>2, <3>3, HonestAssumption
      <4>2. PICK p \in Preds[b] : Creator[p] = Creator[b] /\ Seqno[p] = Seqno[b] - 1
        BY <2>2, <4>1, HonestAssumption
      <4>3. z \in past[n][p]
        BY <4>1, <4>2, <2>2, <1>np DEF HonestChain
      <4> QED BY <4>2, <4>3, <2>2, <1>e DEF observe
    <3> QED BY <3>2, <3>3
  <2> QED BY <2>1, <2>2, <1>new
<1>6. RowsAgree'
  <2>0. \A m \in Node : b \in blocks[m] =>
            /\ past[m][b] = observe(n, b)
            /\ round[m][b] = round'[n][b]
    <3> SUFFICES ASSUME NEW m \in Node, b \in blocks[m]
                 PROVE  past[m][b] = observe(n, b) /\ round[m][b] = round'[n][b]
      OBVIOUS
    <3>1. \A p \in Preds[b] : past[m][p] = past[n][p] /\ round[m][p] = round[n][p]
      BY <1>np DEF Closed, RowsAgree
    <3>2. past[m][b] = {b} \cup UNION {past[m][p] : p \in Preds[b]}
      BY DEF Closed, observe
    <3>3. past[m][b] = observe(n, b)
      BY <3>1, <3>2 DEF observe
    <3>4. depth(m, b, round[m][b])
      BY DEF Depths
    <3>5. round[m][b] \in Nat /\ round'[n][b] \in Nat /\ \A p \in Preds[b] : round[n][p] \in Nat
      BY <1>ty, <1>e
    <3>6. /\ \A p \in Preds[b] : round[n][p] < round[m][b]
          /\ round[m][b] # 0 => \E p \in Preds[b] : round[n][p] = round[m][b] - 1
      BY <3>1, <3>4 DEF depth
    <3>7. /\ \A p \in Preds[b] : round[n][p] < round'[n][b]
          /\ round'[n][b] # 0 => \E p \in Preds[b] : round[n][p] = round'[n][b] - 1
      BY <1>e DEF depth
    <3>8. round[m][b] = round'[n][b]
      BY <3>5, <3>6, <3>7
    <3> QED BY <3>3, <3>8
  <2> SUFFICES ASSUME NEW k \in Node, NEW m \in Node, NEW c \in blocks'[k], c \in blocks'[m]
               PROVE  past'[k][c] = past'[m][c] /\ round'[k][c] = round'[m][c]
    BY DEF RowsAgree
  <2>1. CASE c \in blocks[k] /\ c \in blocks[m]
    BY <2>1, <1>o DEF RowsAgree
  <2>2. CASE k = n /\ c = b /\ m # n
    BY <2>2, <2>0, <1>e, <1>new, <1>o
  <2>3. CASE m = n /\ c = b /\ k # n
    BY <2>3, <2>0, <1>e, <1>new, <1>o
  <2> QED BY <2>1, <2>2, <2>3, <1>new
<1> QED
  BY <1>t, <1>1, <1>2, <1>3, <1>4, <1>5, <1>6

\* Every reachable view satisfies the inductive invariant: rows, depths and
\* honest chains are right whatever the order of arrival (Blocklace::insert).
THEOREM LaceInvariant == LaceSpec => []LaceInv
<1>1. LaceInit => LaceInv
  BY BlockAssumption DEF LaceInit, LaceInv, TypeOK, Closed, Transitive, Layered, Depths,
     HonestChain, RowsAgree
<1>2. LaceInv /\ [LaceNext]_laceVars => LaceInv'
  <2> SUFFICES ASSUME LaceInv, [LaceNext]_laceVars PROVE LaceInv'
    OBVIOUS
  <2>1. CASE UNCHANGED laceVars
    BY <2>1 DEF laceVars, LaceInv, TypeOK, Closed, observe, Transitive, Layered, Depths, depth,
       HonestChain, RowsAgree
  <2>2. CASE LaceNext
    BY <2>2, InsertStep DEF LaceNext
  <2> QED BY <2>1, <2>2
<1> QED
  BY <1>1, <1>2, PTL DEF LaceSpec

\* The views are well typed, and two nodes that both hold a block agree on what
\* it observes and on its depth (Closure::build, depth_recursive).
THEOREM LaceViewsAgree == LaceSpec => []ViewsAgree
<1>1. LaceInv => ViewsAgree
  BY DEF LaceInv, ViewsAgree
<1> QED BY <1>1, LaceInvariant, PTL

\* No view shows an honest validator as an equivocator (find_equivacators).
THEOREM HonestAreNeverAccused == LaceSpec => []HonestNeverAccused
<1>1. ASSUME LaceInv PROVE HonestNeverAccused
  <2> SUFFICES ASSUME NEW n \in Node, NEW x \in blocks[n], NEW y \in blocks[n],
                      Creator[x] \in Honest, equivocating(n, x, y)
               PROVE  FALSE
    BY DEF HonestNeverAccused, find_equivacators
  <2>1. x \in Block /\ y \in Block
    BY <1>1 DEF LaceInv, TypeOK
  <2>2. Seqno[x] \in Nat /\ Seqno[y] \in Nat
    BY <2>1, HonestAssumption
  <2>3. CASE Seqno[x] <= Seqno[y]
    BY <1>1, <2>1, <2>3 DEF LaceInv, HonestChain, equivocating
  <2>4. CASE Seqno[y] <= Seqno[x]
    BY <1>1, <2>1, <2>4 DEF LaceInv, HonestChain, equivocating
  <2> QED BY <2>2, <2>3, <2>4
<1> QED BY <1>1, LaceInvariant, PTL
-----------------------------------------------------------------------------
\* Stake is monotone: a set of validators never outweighs a superset
\* (is_weighted_supermajority).
LEMMA StakeMonotone ==
  ASSUME NEW S \in SUBSET Validator, NEW T \in SUBSET Validator, S \subseteq T
  PROVE  Stake[S] <= Stake[T]
<1>1. S \cup (T \ S) = T /\ S \cap (T \ S) = {} /\ T \ S \in SUBSET Validator
  OBVIOUS
<1>2. Stake[T] + Stake[{}] = Stake[S] + Stake[T \ S]
  BY <1>1, QuorumAssumption, Zenon
<1>3. Stake[T] \in Nat /\ Stake[S] \in Nat /\ Stake[T \ S] \in Nat /\ Stake[{}] = 0
  BY <1>1, QuorumAssumption
<1> QED BY <1>2, <1>3

\* A supermajority stays one when validators join it (is_supermajority,
\* is_weighted_supermajority).
LEMMA SupermajorityMonotone ==
  ASSUME NEW rule \in Rule, NEW S \in SUBSET Validator, NEW T \in SUBSET Validator,
         S \subseteq T, supermajority(rule, S)
  PROVE  supermajority(rule, T)
<1>1. CASE rule = "native"
  <2>1. IsFiniteSet(T) /\ IsFiniteSet(S)
    BY FS_Subset, QuorumAssumption
  <2>2. Cardinality(S) <= Cardinality(T) /\ Cardinality(S) \in Nat /\ Cardinality(T) \in Nat
    BY <2>1, FS_Subset, FS_CardinalityType
  <2>3. Cardinality(Validator) \in Nat /\ F \in Nat
    BY FS_CardinalityType, QuorumAssumption
  <2>4. Cardinality(S) > (Cardinality(Validator) + F) \div 2
    BY <1>1 DEF supermajority, is_supermajority
  <2>5. Cardinality(T) > (Cardinality(Validator) + F) \div 2
    BY <2>2, <2>3, <2>4
  <2> QED BY <1>1, <2>5 DEF supermajority, is_supermajority
<1>2. CASE rule = "weighted"
  <2>1. Stake[S] <= Stake[T] /\ Stake[S] \in Nat /\ Stake[T] \in Nat /\ Stake[Validator] \in Nat
    BY StakeMonotone, QuorumAssumption
  <2> QED BY <1>2, <2>1 DEF supermajority, is_weighted_supermajority
<1> QED BY <1>1, <1>2, RuleAssumption

\* Any two supermajorities share an honest validator while faults stay within
\* the bound (is_supermajority, is_weighted_supermajority).
LEMMA QuorumIntersection ==
  ASSUME NEW rule \in Rule, NEW S \in SUBSET Validator, NEW T \in SUBSET Validator,
         supermajority(rule, S), supermajority(rule, T)
  PROVE  \E v \in S \cap T : v \in Honest
<1> DEFINE Faulty == Validator \ Honest
<1> SUFFICES ASSUME S \cap T \subseteq Faulty PROVE FALSE
  OBVIOUS
<1>1. CASE rule = "native"
  <2>1. IsFiniteSet(S) /\ IsFiniteSet(T) /\ IsFiniteSet(Faulty) /\ IsFiniteSet(Validator)
    BY FS_Subset, QuorumAssumption
  <2>2. Cardinality(S \cup T) = Cardinality(S) + Cardinality(T) - Cardinality(S \cap T)
    BY <2>1, FS_Union
  <2>3. Cardinality(S \cap T) <= Cardinality(Faulty) /\ IsFiniteSet(S \cap T)
    BY <2>1, FS_Subset
  <2>4. Cardinality(S \cup T) <= Cardinality(Validator) /\ IsFiniteSet(S \cup T)
    BY <2>1, FS_Subset, S \cup T \in SUBSET Validator
  <2>5. /\ Cardinality(S) \in Nat /\ Cardinality(T) \in Nat /\ Cardinality(S \cap T) \in Nat
        /\ Cardinality(S \cup T) \in Nat /\ Cardinality(Validator) \in Nat
        /\ Cardinality(Faulty) \in Nat
    BY <2>1, <2>3, <2>4, FS_CardinalityType
  <2>6. Cardinality(Faulty) <= F /\ F \in Nat
    BY FaultAssumption, QuorumAssumption
  <2>7. /\ Cardinality(S) > (Cardinality(Validator) + F) \div 2
        /\ Cardinality(T) > (Cardinality(Validator) + F) \div 2
    BY <1>1 DEF supermajority, is_supermajority
  <2> HIDE DEF Faulty
  <2> QED BY <2>2, <2>3, <2>4, <2>5, <2>6, <2>7
<1>2. CASE rule = "weighted"
  <2>1. Stake[S \cup T] + Stake[S \cap T] = Stake[S] + Stake[T]
    BY QuorumAssumption, Zenon
  <2>2. Stake[S \cap T] <= Stake[Faulty] /\ Stake[S \cup T] <= Stake[Validator]
    BY StakeMonotone, S \cap T \in SUBSET Validator, S \cup T \in SUBSET Validator,
       Faulty \in SUBSET Validator, Validator \in SUBSET Validator
  <2>3. /\ Stake[S] \in Nat /\ Stake[T] \in Nat /\ Stake[S \cap T] \in Nat
        /\ Stake[S \cup T] \in Nat /\ Stake[Validator] \in Nat /\ Stake[Faulty] \in Nat
    BY QuorumAssumption, S \cap T \in SUBSET Validator, S \cup T \in SUBSET Validator,
       Faulty \in SUBSET Validator, Validator \in SUBSET Validator
  <2>4. 3 * Stake[Faulty] <= Stake[Validator]
    BY FaultAssumption
  <2>5. 3 * Stake[S] > 2 * Stake[Validator] /\ 3 * Stake[T] > 2 * Stake[Validator]
    BY <1>2 DEF supermajority, is_weighted_supermajority
  <2> HIDE DEF Faulty
  <2> QED BY <2>1, <2>2, <2>3, <2>4, <2>5
<1> QED BY <1>1, <1>2, RuleAssumption
-----------------------------------------------------------------------------
\* Blocks of one honest creator cannot approve two conflicting blocks of one
\* round, even in the views of two nodes: the later of them observes both
\* (AncestorIndex::approves).
LEMMA HonestApprovesOne ==
  ASSUME LaceInv, NEW m \in Node, NEW n \in Node,
         NEW s \in blocks[m], NEW t \in blocks[n],
         s # t, Creator[s] = Creator[t], round[m][s] = round[n][t],
         NEW x \in blocks[m], NEW y \in blocks[n],
         Creator[x] = Creator[y], Creator[x] \in Honest, Seqno[x] <= Seqno[y],
         approves(m, x, s), approves(n, y, t)
  PROVE  FALSE
<1> USE DEF LaceInv
<1>1. x \in Block /\ y \in Block /\ s \in Block /\ t \in Block
  BY DEF TypeOK
<1>2. x \in past[n][y] /\ x \in blocks[n]
  BY <1>1 DEF HonestChain, Closed
<1>3. past[m][x] = past[n][x]
  BY <1>2 DEF RowsAgree
<1>4. s \in past[n][y] /\ s \in blocks[n]
  BY <1>2, <1>3 DEF approves, Transitive, Closed
<1>5. round[n][s] = round[n][t] /\ round[n][t] \in Nat
  BY <1>1, <1>4, BlockAssumption DEF RowsAgree, TypeOK
<1>6. s \notin past[n][t] /\ t \notin past[n][s]
  BY <1>4, <1>5 DEF Layered
<1> QED
  BY <1>4, <1>6 DEF approves, equivocating

\* The invariant implies that conflicting blocks are not both ratified.
LEMMA ExclusiveFromInv ==
  ASSUME LaceInv
  PROVE  RatificationExclusive
<1> SUFFICES ASSUME NEW rule \in Rule, NEW m \in Node, NEW n \in Node,
                    NEW s \in blocks[m], NEW t \in blocks[n],
                    s # t, Creator[s] = Creator[t], round[m][s] = round[n][t],
                    NEW b \in blocks[m], NEW c \in blocks[n],
                    ratifies(rule, m, b, s), ratifies(rule, n, c, t)
             PROVE  FALSE
  BY DEF RatificationExclusive
<1> DEFINE S == approving_creators(rule, m, past[m][b], s)
           T == approving_creators(rule, n, past[n][c], t)
<1>1. S \in SUBSET Validator /\ T \in SUBSET Validator
  BY DEF approving_creators
<1>2. supermajority(rule, S) /\ supermajority(rule, T)
  BY DEF ratifies
<1>3. PICK v \in S \cap T : v \in Honest
  <2> HIDE DEF S, T
  <2> QED BY <1>1, <1>2, QuorumIntersection
<1>4. PICK x \in past[m][b] : Creator[x] = v /\ approves(m, x, s)
  BY <1>3 DEF approving_creators
<1>5. PICK y \in past[n][c] : Creator[y] = v /\ approves(n, y, t)
  BY <1>3 DEF approving_creators
<1>6. x \in blocks[m] /\ y \in blocks[n]
  BY <1>4, <1>5 DEF LaceInv, Closed
<1>7. Seqno[x] \in Nat /\ Seqno[y] \in Nat
  BY <1>6, HonestAssumption DEF LaceInv, TypeOK
<1>8. CASE Seqno[x] <= Seqno[y]
  BY <1>3, <1>4, <1>5, <1>6, <1>8, HonestApprovesOne
<1>9. CASE Seqno[y] <= Seqno[x]
  BY <1>3, <1>4, <1>5, <1>6, <1>9, HonestApprovesOne
<1> QED BY <1>7, <1>8, <1>9

\* Conflicting blocks of one creator and round are never both ratified, in
\* any views, under either rule (ratifies, weighted_ratifies).
THEOREM RatificationIsExclusive == LaceSpec => []RatificationExclusive
<1>1. LaceInv => RatificationExclusive
  BY ExclusiveFromInv
<1> QED BY <1>1, LaceInvariant, PTL

\* A super-ratified block is ratified by some witness: the empty set is no
\* supermajority (super_ratifies).
LEMMA SuperRatifiedIsRatified ==
  ASSUME NEW rule \in Rule, NEW n \in Node, NEW W, NEW t, super_ratifies(rule, n, W, t)
  PROVE  \E x \in W : ratifies(rule, n, x, t)
<1> SUFFICES ASSUME ratifying_creators(rule, n, W, t) = {} PROVE FALSE
  BY DEF ratifying_creators
<1>1. supermajority(rule, {})
  BY DEF super_ratifies
<1>2. PICK v \in {} \cap {} : v \in Honest
  BY <1>1, QuorumIntersection, {} \in SUBSET Validator
<1> QED BY <1>2

\* All nodes that consider some leader block of a wave final consider the
\* same one final (is_final_leader, is_weighted_final_leader).
THEOREM FinalLeadersAlwaysAgree == LaceSpec => []FinalLeadersAgree
<1>1. LaceInv => FinalLeadersAgree
  <2> SUFFICES ASSUME LaceInv, NEW rule \in Rule, NEW m \in Node, NEW n \in Node,
                      NEW s \in blocks[m], NEW t \in blocks[n],
                      is_final_leader(rule, m, s), is_final_leader(rule, n, t),
                      wave_of_round(round[m][s]) = wave_of_round(round[n][t]), s # t
               PROVE  FALSE
    BY DEF FinalLeadersAgree
  <2> DEFINE w == wave_of_round(round[m][s])
  <2>1. /\ s \in leader_blocks_of_wave(m, w) /\ super_ratifies(rule, m, witness_blocks(m, w), s)
        /\ t \in leader_blocks_of_wave(n, w) /\ super_ratifies(rule, n, witness_blocks(n, w), t)
    BY DEF is_final_leader
  <2> HIDE DEF w
  <2>2. Creator[s] = Creator[t] /\ round[m][s] = round[n][t]
    BY <2>1 DEF leader_blocks_of_wave
  <2>3. PICK b \in witness_blocks(m, w) : ratifies(rule, m, b, s)
    BY <2>1, SuperRatifiedIsRatified
  <2>4. PICK c \in witness_blocks(n, w) : ratifies(rule, n, c, t)
    BY <2>1, SuperRatifiedIsRatified
  <2>5. b \in blocks[m] /\ c \in blocks[n]
    BY <2>3, <2>4 DEF witness_blocks
  <2> QED BY <2>2, <2>3, <2>4, <2>5, ExclusiveFromInv DEF RatificationExclusive
<1> QED BY <1>1, LaceInvariant, PTL
-----------------------------------------------------------------------------
\* An insert does not change whether stored blocks approve or ratify each
\* other: both read only the rows of stored blocks (approves, ratifies).
LEMMA JudgementsStable ==
  ASSUME LaceInv, NEW k \in Node, NEW d \in Block, insert(k, d),
         NEW rule \in Rule, NEW n \in Node, NEW b \in blocks[n], NEW t \in blocks[n],
         ratifies(rule, n, b, t)
  PROVE  ratifies(rule, n, b, t)'
<1> USE DEF LaceInv
<1>1. /\ b \in Block /\ t \in Block /\ past[n][b] \subseteq blocks[n]
      /\ blocks[n] \subseteq Block
  BY DEF TypeOK, Closed
<1>2. \A c \in blocks[n] : past'[n][c] = past[n][c]
  BY <1>1, InsertEffect
<1>3. \A x \in past[n][b] : approves(n, x, t) <=> approves(n, x, t)'
  <2> SUFFICES ASSUME NEW x \in past[n][b] PROVE approves(n, x, t) <=> approves(n, x, t)'
    OBVIOUS
  <2>1. x \in blocks[n] /\ past[n][x] \subseteq blocks[n]
    BY <1>1 DEF Closed
  <2>2. past'[n][x] = past[n][x] /\ past'[n][t] = past[n][t]
    BY <1>2, <2>1
  <2>3. \A s \in past[n][x] : past'[n][s] = past[n][s]
    BY <1>2, <2>1
  <2> QED BY <2>2, <2>3 DEF approves, equivocating
<1>4. past'[n][b] = past[n][b]
  BY <1>2
<1>5. approving_creators(rule, n, past[n][b], t)' = approving_creators(rule, n, past[n][b], t)
  BY <1>3, <1>4 DEF approving_creators
<1> QED
  BY <1>5 DEF ratifies, supermajority, is_supermajority, is_weighted_supermajority

\* Finality is never taken back: a block is_final_leader accepts stays
\* accepted when any block is inserted into any view.
THEOREM FinalityIsIrrevocable == LaceSpec => FinalityIrrevocable
<1>1. ASSUME LaceInv, [LaceNext]_laceVars
      PROVE  [FinalityKept]_laceVars
  <2> SUFFICES ASSUME NEW k \in Node, NEW d \in Block, insert(k, d),
                      NEW rule \in Rule, NEW n \in Node, NEW b \in Block,
                      is_final_leader(rule, n, b)
               PROVE  is_final_leader(rule, n, b)'
    BY <1>1 DEF LaceNext, FinalityKept
  <2> DEFINE w == wave_of_round(round[n][b])
             R == ratifying_creators(rule, n, witness_blocks(n, w), b)
             RP == ratifying_creators(rule, n, witness_blocks(n, w), b)'
  <2>0. TypeOK
    BY <1>1 DEF LaceInv
  <2>1. /\ b \in blocks[n] /\ b \in leader_blocks_of_wave(n, w) /\ supermajority(rule, R)
    BY DEF is_final_leader, super_ratifies
  <2>2. blocks[n] \subseteq blocks'[n] /\ \A c \in blocks[n] : round'[n][c] = round[n][c]
    <3>1. blocks[n] \subseteq Block
      BY <2>0 DEF TypeOK
    <3> QED BY <2>0, <3>1, InsertEffect
  <2>3. wave_of_round(round'[n][b]) = w
    BY <2>1, <2>2
  <2>4. b \in blocks'[n] /\ b \in leader_blocks_of_wave(n, w)'
    BY <2>1, <2>2, <2>3 DEF leader_blocks_of_wave, leader_round_of_wave, wave_of_round
  <2>5. \A x \in witness_blocks(n, w) : x \in blocks[n] /\ x \in witness_blocks(n, w)'
    BY <2>2, <2>3 DEF witness_blocks, leader_round_of_wave, last_round_of_wave, wave_of_round
  <2>6. \A x \in witness_blocks(n, w) : ratifies(rule, n, x, b) => ratifies(rule, n, x, b)'
    BY <1>1, <2>1, <2>5, JudgementsStable, Zenon
  <2>7. R \in SUBSET Validator /\ RP \in SUBSET Validator /\ R \subseteq RP
    BY <2>5, <2>6, Zenon DEF ratifying_creators
  <2>8. supermajority(rule, RP)
    <3> HIDE DEF R, RP
    <3> QED BY <2>1, <2>7, SupermajorityMonotone
  <2>9. super_ratifies(rule, n, witness_blocks(n, w), b)'
    BY <2>8 DEF super_ratifies, supermajority, is_supermajority, is_weighted_supermajority
  <2> QED BY <2>3, <2>4, <2>9 DEF is_final_leader, wave_of_round
<1> QED
  BY <1>1, LaceInvariant, PTL DEF LaceSpec, FinalityIrrevocable

-----------------------------------------------------------------------------
\* Nothing is recorded of a block that is not stored.
Blank ==
    \A n \in Node : \A b \in Block \ blocks[n] : past[n][b] = {} /\ round[n][b] = 0

\* Two nodes with the same blocks and the same rows.
SameView(m, n) == blocks[m] = blocks[n] /\ past[m] = past[n] /\ round[m] = round[n]

\* The order of a node is a function of the set of its blocks: whatever the
\* order in which they arrived, nodes that hold the same blocks output the same
\* sequence, with and without the ordering cache (tau, weighted_tau,
\* tau_with_cache).
OrdersAgree ==
    \A rule \in Rule, m, n \in Node : blocks[m] = blocks[n] =>
        /\ tau(rule, m) = tau(rule, n)
        /\ tau_with_cache(rule, m) = tau_with_cache(rule, n)

\* What nodes with the same view judge of a block is the same (approves,
\* ratifies, is_final_leader).
LEMMA SameJudgements ==
    ASSUME NEW m, NEW n, SameView(m, n), NEW rule
    PROVE  /\ \A b, t : approves(m, b, t) <=> approves(n, b, t)
           /\ \A b, t : ratifies(rule, m, b, t) <=> ratifies(rule, n, b, t)
           /\ \A b : is_final_leader(rule, m, b) <=> is_final_leader(rule, n, b)
           /\ \A w : final_leader_for_wave(rule, m, w) = final_leader_for_wave(rule, n, w)
<1> DEFINE backs(k, W, t) == ratifying_creators(rule, k, W, t)
<1>1. \A b, t : approves(m, b, t) <=> approves(n, b, t)
  BY DEF SameView, approves, equivocating
<1>2. \A S, t : approving_creators(rule, m, S, t) = approving_creators(rule, n, S, t)
  BY <1>1 DEF approving_creators
<1>3. \A b, t : ratifies(rule, m, b, t) <=> ratifies(rule, n, b, t)
  BY <1>2 DEF ratifies, SameView
<1>4. \A W, t : backs(m, W, t) = backs(n, W, t)
  BY <1>3 DEF ratifying_creators
<1>5. \A W, t : super_ratifies(rule, m, W, t) <=> super_ratifies(rule, n, W, t)
  BY <1>4 DEF super_ratifies
<1>6. \A w : /\ leader_blocks_of_wave(m, w) = leader_blocks_of_wave(n, w)
             /\ witness_blocks(m, w) = witness_blocks(n, w)
  BY DEF SameView, leader_blocks_of_wave, witness_blocks
<1>7. \A b : is_final_leader(rule, m, b) <=> is_final_leader(rule, n, b)
  BY <1>5, <1>6 DEF SameView, is_final_leader
<1>8. \A w : final_leader_for_wave(rule, m, w) = final_leader_for_wave(rule, n, w)
  BY <1>6, <1>7 DEF final_leader_for_wave
<1> QED
  BY <1>1, <1>3, <1>7, <1>8

\* The same anchors, previous leaders and fragments (latest_final_leader,
\* previous_final_leader, approved_blocks_for_leader).
LEMMA SameChain ==
    ASSUME NEW m, NEW n, SameView(m, n), NEW rule
    PROVE  /\ latest_final_leader(rule, m) = latest_final_leader(rule, n)
           /\ \A l : previous_final_leader(rule, m, l) = previous_final_leader(rule, n, l)
           /\ \A l : approved_blocks_for_leader(m, l) = approved_blocks_for_leader(n, l)
<1>1. \A w : final_leader_for_wave(rule, m, w) = final_leader_for_wave(rule, n, w)
  BY SameJudgements
<1>2. latest_final_leader(rule, m) = latest_final_leader(rule, n)
  BY <1>1 DEF latest_final_leader
<1>3. ASSUME NEW l PROVE previous_final_leader(rule, m, l) = previous_final_leader(rule, n, l)
  <2> DEFINE ratified(k, w) == {p \in final_leader_for_wave(rule, k, w) : ratifies(rule, k, l, p)}
  <2>1. \A w : ratified(m, w) = ratified(n, w)
    BY <1>1, SameJudgements
  <2>2. round[m][l] = round[n][l]
    BY DEF SameView
  <2> QED
    BY <2>1, <2>2 DEF previous_final_leader
<1>4. \A l : approved_blocks_for_leader(m, l) = approved_blocks_for_leader(n, l)
  <2>1. \A l, b : approves(m, l, b) <=> approves(n, l, b)
    BY SameJudgements
  <2> QED
    BY <2>1 DEF approved_blocks_for_leader, SameView
<1> QED
  BY <1>2, <1>3, <1>4

\* The same order (tau_from_leader, tau_from_leader_cached).
LEMMA SameOrder ==
    ASSUME NEW m, NEW n, SameView(m, n), NEW rule
    PROVE  /\ tau(rule, m) = tau(rule, n)
           /\ tau_with_cache(rule, m) = tau_with_cache(rule, n)
<1> DEFINE emitted(k, f, l) ==
               IF previous_final_leader(rule, k, l) = {} THEN <<>> ELSE f[the(previous_final_leader(rule, k, l))]
           G(k, f) ==
               [l \in blocks[k] |->
                   emitted(k, f, l) \o xsort(approved_blocks_for_leader(k, l) \ ToSet(emitted(k, f, l)))]
           without(s, t) == SelectSeq(s, LAMBDA b : b \notin ToSet(t))
           H(k, f) ==
               [l \in blocks[k] |->
                   emitted(k, f, l) \o without(xsort(approved_blocks_for_leader(k, l)), emitted(k, f, l))]
<1>1. /\ latest_final_leader(rule, m) = latest_final_leader(rule, n)
      /\ \A l : previous_final_leader(rule, m, l) = previous_final_leader(rule, n, l)
      /\ \A l : approved_blocks_for_leader(m, l) = approved_blocks_for_leader(n, l)
      /\ blocks[m] = blocks[n]
  <2>1. blocks[m] = blocks[n]
    BY DEF SameView
  <2> QED
    BY <2>1, SameChain
<1>2. \A f, l : emitted(m, f, l) = emitted(n, f, l)
  BY <1>1
<1>3. \A f : G(m, f) = G(n, f)
  <2> HIDE DEF emitted
  <2> QED
    BY <1>1, <1>2, Zenon
<1>4. \A f : H(m, f) = H(n, f)
  <2> HIDE DEF emitted, without
  <2> QED
    BY <1>1, <1>2, Zenon
<1>5. \A l : tau_from_leader(rule, m, l) = tau_from_leader(rule, n, l)
  <2>1. (CHOOSE f : f = G(m, f)) = (CHOOSE f : f = G(n, f))
    <3> HIDE DEF G
    <3>1. \A f : (f = G(m, f)) <=> (f = G(n, f))
      BY <1>3
    <3> QED
      BY <3>1, Zenon
  <2>2. \A k, l : tau_from_leader(rule, k, l) = (CHOOSE f : f = G(k, f))[l]
    BY Zenon DEF tau_from_leader
  <2> HIDE DEF G
  <2> QED
    BY <2>1, <2>2, Zenon
<1>6. \A l : tau_from_leader_cached(rule, m, l) = tau_from_leader_cached(rule, n, l)
  <2>1. (CHOOSE f : f = H(m, f)) = (CHOOSE f : f = H(n, f))
    <3> HIDE DEF H
    <3>1. \A f : (f = H(m, f)) <=> (f = H(n, f))
      BY <1>4
    <3> QED
      BY <3>1, Zenon
  <2>2. \A k, l : tau_from_leader_cached(rule, k, l) = (CHOOSE f : f = H(k, f))[l]
    BY Zenon DEF tau_from_leader_cached
  <2> HIDE DEF H
  <2> QED
    BY <2>1, <2>2, Zenon
<1> QED
  BY <1>1, <1>5, <1>6 DEF tau, tau_with_cache

\* Nodes that hold the same blocks output the same order, whatever the order
\* in which the blocks arrived (Blocklace::insert, tau, tau_with_cache).
THEOREM OrdersAlwaysAgree == LaceSpec => []OrdersAgree
<1>1. LaceInit => Blank
  BY DEF LaceInit, Blank
<1>2. LaceInv /\ Blank /\ [LaceNext]_laceVars => Blank'
  <2> SUFFICES ASSUME LaceInv, Blank, [LaceNext]_laceVars PROVE Blank'
    OBVIOUS
  <2>1. ASSUME NEW n \in Node, NEW b \in Block, insert(n, b) PROVE Blank'
    BY <2>1 DEF insert, commit_validated, Blank, LaceInv, TypeOK
  <2>2. CASE UNCHANGED laceVars
    BY <2>2 DEF laceVars, Blank
  <2> QED
    BY <2>1, <2>2 DEF LaceNext
<1>3. LaceInv /\ Blank => OrdersAgree
  <2> SUFFICES ASSUME LaceInv, Blank, NEW rule \in Rule, NEW m \in Node, NEW n \in Node,
                      blocks[m] = blocks[n]
               PROVE  /\ tau(rule, m) = tau(rule, n)
                      /\ tau_with_cache(rule, m) = tau_with_cache(rule, n)
    BY DEF OrdersAgree
  <2>1. \A b \in Block : past[m][b] = past[n][b] /\ round[m][b] = round[n][b]
    <3> SUFFICES ASSUME NEW b \in Block PROVE past[m][b] = past[n][b] /\ round[m][b] = round[n][b]
      OBVIOUS
    <3>1. CASE b \in blocks[m]
      BY <3>1 DEF LaceInv, RowsAgree
    <3>2. CASE b \notin blocks[m]
      BY <3>2, Zenon DEF Blank
    <3> QED
      BY <3>1, <3>2
  <2>2. /\ past[m] \in [Block -> SUBSET Block] /\ past[n] \in [Block -> SUBSET Block]
        /\ round[m] \in [Block -> 0 .. MaxRound] /\ round[n] \in [Block -> 0 .. MaxRound]
    BY DEF LaceInv, TypeOK
  <2>3. SameView(m, n)
    BY <2>1, <2>2 DEF SameView
  <2> QED
    BY <2>3, SameOrder
<1> QED
  BY <1>1, <1>2, <1>3, LaceInvariant, PTL DEF LaceSpec

-----------------------------------------------------------------------------
\* Every two members of the list are related by Q in the order of the list.
Ordered(t, Q) == \A i, j \in DOMAIN t : i < j => <<t[i], t[j]>> \in Q

\* A concatenation is ordered when its parts are and every member of the
\* first goes before every member of the second.
LEMMA OrderedJoin ==
    ASSUME NEW X, NEW s \in Seq(X), NEW t \in Seq(X), NEW Q, Ordered(s, Q), Ordered(t, Q),
           \A x \in ToSet(s), y \in ToSet(t) : <<x, y>> \in Q
    PROVE  /\ s \o t \in Seq(X) /\ ToSet(s \o t) = ToSet(s) \cup ToSet(t)
           /\ Ordered(s \o t, Q)
<1> DEFINE u == s \o t
           m == Len(s)
           n == Len(t)
<1>1. /\ m \in Nat /\ n \in Nat /\ DOMAIN s = 1 .. m /\ DOMAIN t = 1 .. n
      /\ u \in Seq(X) /\ Len(u) = m + n /\ DOMAIN u = 1 .. m + n
      /\ \A i \in 1 .. m + n : u[i] = IF i <= m THEN s[i] ELSE t[i - m]
  BY ConcatProperties
<1> HIDE DEF u, m, n
<1>2. ASSUME NEW i \in 1 .. m PROVE i \in 1 .. m + n /\ u[i] = s[i]
  BY <1>1
<1>3. ASSUME NEW i \in 1 .. n PROVE i + m \in 1 .. m + n /\ u[i + m] = t[i]
  BY <1>1
<1>4. ASSUME NEW i \in 1 .. m + n
      PROVE  \/ i \in 1 .. m /\ u[i] = s[i]
             \/ i > m /\ i - m \in 1 .. n /\ u[i] = t[i - m]
  BY <1>1
<1>5. ToSet(u) = ToSet(s) \cup ToSet(t)
  <2>1. ToSet(u) \subseteq ToSet(s) \cup ToSet(t)
    BY <1>1, <1>4, Zenon DEF ToSet
  <2>2. ToSet(s) \subseteq ToSet(u)
    BY <1>1, <1>2, Zenon DEF ToSet
  <2>3. ASSUME NEW y \in ToSet(t) PROVE y \in ToSet(u)
    <3>1. PICK i \in 1 .. n : t[i] = y
      BY <1>1 DEF ToSet
    <3>2. i + m \in 1 .. m + n /\ u[i + m] = y
      BY <1>3, <3>1, Zenon
    <3> QED
      BY <1>1, <3>2, Zenon DEF ToSet
  <2> QED
    BY <2>1, <2>2, <2>3
<1>6. ASSUME NEW i \in 1 .. m + n, NEW j \in 1 .. m + n, i < j PROVE <<u[i], u[j]>> \in Q
  <2>1. CASE i \in 1 .. m /\ j \in 1 .. m
    BY <1>1, <1>2, <1>6, <2>1, Zenon DEF Ordered
  <2>2. CASE i \in 1 .. m /\ j > m
    <3>1. j - m \in 1 .. n
      BY <1>1, <2>2
    <3>2. s[i] \in ToSet(s) /\ t[j - m] \in ToSet(t)
      BY <1>1, <2>2, <3>1, Zenon DEF ToSet
    <3>3. u[i] = s[i] /\ u[j] = t[j - m]
      BY <1>1, <2>2
    <3> QED
      BY <3>2, <3>3
  <2>3. CASE i > m
    <3>1. i - m \in 1 .. n /\ j - m \in 1 .. n /\ i - m < j - m
      BY <1>1, <1>6, <2>3
    <3>2. u[i] = t[i - m] /\ u[j] = t[j - m]
      BY <1>1, <1>6, <2>3
    <3> QED
      BY <1>1, <3>1, <3>2, Zenon DEF Ordered
  <2> QED
    BY <1>1, <1>6, <2>1, <2>2, <2>3
<1> QED
  BY <1>1, <1>5, <1>6 DEF u, Ordered

\* A list of one, and the empty list.
LEMMA OrderedShort ==
    ASSUME NEW X, NEW x \in X, NEW Q
    PROVE  /\ <<x>> \in Seq(X) /\ ToSet(<<x>>) = {x} /\ Ordered(<<x>>, Q)
           /\ <<>> \in Seq(X) /\ ToSet(<<>>) = {} /\ Ordered(<<>>, Q)
<1>1. /\ <<x>> \in Seq(X) /\ DOMAIN <<x>> = {1} /\ <<x>>[1] = x
      /\ <<>> \in Seq(X) /\ DOMAIN <<>> = {}
  OBVIOUS
<1>2. ToSet(<<x>>) = {x} /\ ToSet(<<>>) = {}
  BY <1>1 DEF ToSet
<1>3. Ordered(<<x>>, Q) /\ Ordered(<<>>, Q)
  BY <1>1 DEF Ordered
<1> QED
  BY <1>1, <1>2, <1>3

(***************************************************************************)
(* xsort: the block that goes next when the blocks done were taken, and    *)
(* the list of the blocks that are left.                                   *)
(***************************************************************************)
ready(S, done) == {b \in S \ done : Preds[b] \cap S \subseteq done}
following(S, done) == least(ready(S, done))

Taken(S, f) ==
    [done \in SUBSET S |->
        IF done = S THEN <<>>
        ELSE <<following(S, done)>> \o f[done \cup {following(S, done)}]]

\* How many blocks are left.
Left(S, done) == Cardinality(S \ done)

\* Blocks without a cycle of predecessors.
Causal(S) ==
    /\ S \in SUBSET Block /\ IsFiniteSet(S)
    /\ \A T \in SUBSET S : T # {} => \E b \in T : Preds[b] \cap T = {}

\* A block may follow a block other than itself that does not refer to it.
Apart == {p \in Block \X Block : p[1] # p[2] /\ p[2] \notin Preds[p[1]]}

\* A set of blocks has one of least rank.
LEMMA LeastIs ==
    ASSUME NEW S \in SUBSET Block, S # {}
    PROVE  least(S) \in S
<1> DEFINE N == {Rank[b] : b \in S}
<1>1. N \in SUBSET Nat /\ N # {}
  BY RankAssumption
<1>2. PICK k \in N : \A l \in N : k <= l
  BY <1>1, LeastNumber, Zenon
<1>3. PICK b \in S : Rank[b] = k
  BY <1>2
<1>4. \A c \in S : Rank[b] <= Rank[c]
  BY <1>2, <1>3
<1> QED
  BY <1>3, <1>4 DEF least

\* x can be taken next, and fewer blocks are left then.
Follows(S, done, x) ==
    /\ x \in S \ done /\ Preds[x] \cap S \subseteq done /\ done \cup {x} \in SUBSET S
    /\ Left(S, done) \in Nat /\ Left(S, done \cup {x}) \in Nat
    /\ Left(S, done \cup {x}) < Left(S, done)

\* While blocks are left, one of them is ready.
LEMMA FollowingIs ==
    ASSUME NEW S, Causal(S), NEW done \in SUBSET S, done # S
    PROVE  Follows(S, done, following(S, done))
<1> DEFINE x == following(S, done)
           left == S \ done
<1>1. left \in SUBSET S /\ left # {} /\ S \in SUBSET Block /\ IsFiniteSet(S)
  BY DEF Causal
<1>2. PICK b \in left : Preds[b] \cap left = {}
  BY <1>1, Zenon DEF Causal
<1>3. b \in ready(S, done) /\ ready(S, done) \in SUBSET Block
  BY <1>1, <1>2 DEF ready
<1>4. x \in ready(S, done)
  BY <1>3, LeastIs DEF following
<1>5. x \in left /\ Preds[x] \cap S \subseteq done
  BY <1>4 DEF ready
<1>6. IsFiniteSet(left)
  BY <1>1, FS_Subset
<1>7. IsFiniteSet(left \ {x}) /\ Cardinality(left \ {x}) = Cardinality(left) - 1
  BY <1>5, <1>6, FS_RemoveElement
<1>8. Cardinality(left) \in Nat /\ Cardinality(left \ {x}) \in Nat
  BY <1>6, <1>7, FS_CardinalityType
<1>9. S \ (done \cup {x}) = left \ {x}
  OBVIOUS
<1> HIDE DEF x
<1>10. Left(S, done) = Cardinality(left) /\ Left(S, done \cup {x}) = Cardinality(left \ {x})
  BY <1>9 DEF Left
<1>11. Left(S, done \cup {x}) < Left(S, done)
  BY <1>7, <1>8, <1>10
<1> QED
  BY <1>5, <1>8, <1>10, <1>11 DEF x, Follows

\* The recursion of xsort has a solution.
LEMMA TakenExists ==
    ASSUME NEW S, Causal(S)
    PROVE  \E f : f = Taken(S, f)
<1> DEFINE V == [SUBSET S -> Seq(S)]
           upto(f, n) == \A D \in SUBSET S : Left(S, D) < n => f[D] = Taken(S, f)[D]
           K == {n \in Nat : \E f \in V : upto(f, n)}
<1>1. ASSUME NEW f \in V PROVE Taken(S, f) \in V
  <2>1. ASSUME NEW D \in SUBSET S PROVE Taken(S, f)[D] \in Seq(S)
    <3>1. CASE D = S
      BY <3>1 DEF Taken
    <3>2. CASE D # S
      <4> DEFINE x == following(S, D)
      <4>1. x \in S /\ x \notin D /\ D \cup {x} \in SUBSET S
        <5>1. Follows(S, D, following(S, D))
          BY <3>2, FollowingIs, Zenon
        <5> QED
          BY <5>1 DEF Follows
      <4>2. Taken(S, f)[D] = <<x>> \o f[D \cup {x}]
        BY <3>2 DEF Taken
      <4> HIDE DEF x
      <4>3. <<x>> \in Seq(S) /\ f[D \cup {x}] \in Seq(S)
        BY <4>1
      <4> QED
        BY <4>2, <4>3, ConcatProperties
    <3> QED
      BY <3>1, <3>2
  <2>2. Taken(S, f) = [D \in SUBSET S |-> Taken(S, f)[D]]
    BY DEF Taken
  <2> QED
    BY <2>1, <2>2, Zenon
<1>2. \A D \in SUBSET S : Left(S, D) \in Nat /\ Left(S, D) <= Cardinality(S)
  <2> SUFFICES ASSUME NEW D \in SUBSET S PROVE Left(S, D) \in Nat /\ Left(S, D) <= Cardinality(S)
    OBVIOUS
  <2>1. IsFiniteSet(S) /\ S \ D \in SUBSET S
    BY DEF Causal
  <2> QED
    BY <2>1, FS_Subset, FS_CardinalityType DEF Left
<1>3. 0 \in K
  <2>1. [D \in SUBSET S |-> <<>>] \in V
    OBVIOUS
  <2>2. \A f \in V : upto(f, 0)
    BY <1>2
  <2> QED
    BY <2>1, <2>2, Zenon
<1>4. ASSUME NEW n \in K PROVE n + 1 \in K
  <2>1. PICK f \in V : upto(f, n)
    BY <1>4, Zenon
  <2> DEFINE g == Taken(S, f)
  <2>2. g \in V
    BY <1>1, Zenon
  <2>3. ASSUME NEW D \in SUBSET S, Left(S, D) < n + 1 PROVE g[D] = Taken(S, g)[D]
    <3>1. CASE D = S
      BY <3>1 DEF Taken
    <3>2. CASE D # S
      <4> DEFINE E == D \cup {following(S, D)}
      <4>1. following(S, D) \in S \ D /\ E \in SUBSET S /\ Left(S, E) \in Nat /\ Left(S, D) \in Nat /\ Left(S, E) < Left(S, D)
        <5>1. Follows(S, D, following(S, D))
          BY <3>2, FollowingIs, Zenon
        <5> QED
          BY <5>1 DEF Follows
      <4>2. Left(S, E) < n
        BY <2>3, <4>1
      <4>3. f[E] = g[E]
        BY <2>1, <4>1, <4>2
      <4>4. g[D] = <<following(S, D)>> \o f[E] /\ Taken(S, g)[D] = <<following(S, D)>> \o g[E]
        BY <3>2, Zenon DEF Taken
      <4> HIDE DEF E, g
      <4> QED
        BY <4>3, <4>4
    <3> QED
      BY <3>1, <3>2
  <2>4. upto(g, n + 1)
    BY <2>3
  <2>5. n + 1 \in Nat
    OBVIOUS
  <2> HIDE DEF g, upto
  <2> QED
    BY <2>2, <2>4, <2>5, Zenon
<1>5. K \in SUBSET Nat
  OBVIOUS
<1>6. \A n \in Nat : n \in K
  <2> HIDE DEF K
  <2> QED
    BY <1>3, <1>4, <1>5, AllNumbers
<1>7. Cardinality(S) \in Nat /\ Cardinality(S) + 1 \in Nat
  BY FS_CardinalityType DEF Causal
<1>8. PICK f \in V : upto(f, Cardinality(S) + 1)
  BY <1>6, <1>7, Zenon
<1>9. \A D \in SUBSET S : Left(S, D) < Cardinality(S) + 1
  BY <1>2, <1>7
<1>10. \A D \in SUBSET S : f[D] = Taken(S, f)[D]
  BY <1>8, <1>9
<1>11. f = [D \in SUBSET S |-> f[D]] /\ Taken(S, f) = [D \in SUBSET S |-> Taken(S, f)[D]]
  BY DEF Taken
<1> QED
  BY <1>10, <1>11, Zenon

(***************************************************************************)
(* xsort lists each block of S once, and none before one of its            *)
(* predecessors.                                                           *)
(***************************************************************************)
LEMMA XsortIs ==
    ASSUME NEW S, Causal(S)
    PROVE  xsort(S) \in Seq(S) /\ ToSet(xsort(S)) = S /\ Ordered(xsort(S), Apart)
<1> DEFINE f == CHOOSE g : g = Taken(S, g)
           lists(D) == /\ f[D] \in Seq(S) /\ ToSet(f[D]) = S \ D /\ Ordered(f[D], Apart)
           K == {n \in Nat : \A D \in SUBSET S : Left(S, D) < n => lists(D)}
<1>1. f = Taken(S, f)
  BY TakenExists, Zenon
<1>2. xsort(S) = f[{}]
  BY DEF xsort, Taken, following, ready
<1> HIDE DEF f
<1>3. \A D \in SUBSET S : Left(S, D) \in Nat
  <2> SUFFICES ASSUME NEW D \in SUBSET S PROVE Left(S, D) \in Nat
    OBVIOUS
  <2>1. IsFiniteSet(S \ D)
    BY FS_Subset DEF Causal
  <2> QED
    BY <2>1, FS_CardinalityType DEF Left
<1>4. 0 \in K
  BY <1>3
<1>5. ASSUME NEW n \in K PROVE n + 1 \in K
  <2>1. ASSUME NEW D \in SUBSET S, Left(S, D) < n + 1 PROVE lists(D)
    <3>1. CASE D = S
      <4>1. f[D] = <<>>
        BY <1>1, <3>1, Zenon DEF Taken
      <4>2. ToSet(<<>>) = {} /\ Ordered(<<>>, Apart) /\ <<>> \in Seq(S)
        BY DEF ToSet, Ordered
      <4> QED
        BY <3>1, <4>1, <4>2
    <3>2. CASE D # S
      <4> DEFINE x == following(S, D)
                 E == D \cup {x}
      <4>1. /\ x \in S \ D /\ Preds[x] \cap S \subseteq D /\ E \in SUBSET S
            /\ Left(S, E) \in Nat /\ Left(S, D) \in Nat /\ Left(S, E) < Left(S, D)
        <5>1. Follows(S, D, following(S, D))
          BY <3>2, FollowingIs, Zenon
        <5> QED
          BY <5>1 DEF Follows
      <4>2. f[D] = <<x>> \o f[E]
        BY <1>1, <3>2, Zenon DEF Taken
      <4>3. lists(E)
        <5>1. Left(S, E) < n
          BY <2>1, <4>1
        <5> QED
          BY <1>5, <4>1, <5>1, Zenon
      <4>4. <<x>> \in Seq(S) /\ ToSet(<<x>>) = {x} /\ Ordered(<<x>>, Apart)
        BY <4>1, OrderedShort
      <4>5. \A y \in S \ E : <<x, y>> \in Apart
        BY <4>1, Zenon DEF Apart, Causal
      <4> HIDE DEF x
      <4>6. \A y \in ToSet(<<x>>), z \in ToSet(f[E]) : <<y, z>> \in Apart
        BY <4>3, <4>4, <4>5
      <4>7. /\ <<x>> \o f[E] \in Seq(S) /\ ToSet(<<x>> \o f[E]) = ToSet(<<x>>) \cup ToSet(f[E])
            /\ Ordered(<<x>> \o f[E], Apart)
        BY <4>3, <4>4, <4>6, OrderedJoin, Zenon
      <4>8. {x} \cup (S \ E) = S \ D
        BY <4>1
      <4> QED
        BY <4>2, <4>3, <4>4, <4>7, <4>8, Zenon
    <3> QED
      BY <3>1, <3>2
  <2> QED
    BY <2>1
<1>6. \A n \in Nat : n \in K
  <2>1. K \in SUBSET Nat
    OBVIOUS
  <2> HIDE DEF K
  <2> QED
    BY <1>4, <1>5, <2>1, AllNumbers
<1>7. lists({})
  <2>1. Left(S, {}) \in Nat /\ Left(S, {}) < Left(S, {}) + 1 /\ Left(S, {}) + 1 \in Nat
    BY <1>3
  <2> QED
    BY <1>6, <2>1, Zenon
<1> QED
  BY <1>2, <1>7

-----------------------------------------------------------------------------
(***************************************************************************)
(* The unpruned view: blocks without cycles, each with its predecessors    *)
(* and everything it observes.                                             *)
(***************************************************************************)
Lace == blocks[Reference]
Seen(b) == past[Reference][b]

ReferenceTyped ==
    /\ caller_rule \in Rule
    /\ DOMAIN blocks = Node /\ DOMAIN past = Node /\ DOMAIN round = Node /\ DOMAIN output = Node
    /\ past[Reference] \in [Block -> SUBSET Block] /\ round[Reference] \in [Block -> Nat]

ReferenceView ==
    /\ Causal(Lace)
    /\ \A b \in Lace :
          /\ Preds[b] \subseteq Lace /\ Preds[b] \subseteq Seen(b)
          /\ b \in Seen(b) /\ Seen(b) \subseteq Lace
          /\ \A x \in Seen(b) : Seen(x) \subseteq Seen(b)

\* What TauSound asks of a block and a later one.
Agreeing ==
    {p \in Block \X Block : /\ p[1] # p[2] /\ p[2] \notin Preds[p[1]]
                            /\ ~ equivocating(Reference, p[1], p[2])}

(***************************************************************************)
(* An order that the leader l, or one l observes, gives: of the blocks l   *)
(* observes, in an order TauSound accepts, and with every predecessor of   *)
(* an ordered block, but for those that l sees in conflict.                *)
(***************************************************************************)
Sequenced(l, t) ==
    /\ t \in Seq(Lace) /\ ToSet(t) \subseteq Seen(l) /\ Ordered(t, Agreeing)
    /\ \A x \in ToSet(t) : \A y \in Preds[x] :
          y \in ToSet(t) \/ \E s \in Seen(l) : equivocating(Reference, s, y)

approved(l) == approved_blocks_for_leader(Reference, l)
fragment(l, t) == t \o xsort(approved(l) \ ToSet(t))
prior(l) == previous_trusted_leader(Reference, l)

\* The order of each leader on top of that of its previous one.
Chained(f) ==
    [l \in Lace |-> fragment(l, IF prior(l) # {} THEN f[the(prior(l))] ELSE <<>>)]

\* No supermajority is empty.
LEMMA NoEmptyQuorum ==
    ASSUME NEW rule \in Rule
    PROVE  ~ supermajority(rule, {})
<1> SUFFICES ASSUME supermajority(rule, {}) PROVE FALSE
  OBVIOUS
<1>1. {} \in SUBSET Validator
  OBVIOUS
<1>2. \E v \in {} \cap {} : v \in Honest
  BY <1>1, QuorumIntersection
<1> QED
  BY <1>2

\* The leader of an earlier wave has a lower round.
LEMMA EarlierWave ==
    ASSUME NEW r \in Nat, NEW w \in 0 .. (wave_of_round(r) - 1)
    PROVE  leader_round_of_wave(w) < r
<1> DEFINE W == Wavelength
           d == r \div W
<1>1. W \in Nat /\ W > 0
  BY QuorumAssumption
<1>2. d \in Nat /\ W * d <= r
  BY <1>1
<1>3. w \in Nat /\ w + 1 <= d
  BY <1>2 DEF wave_of_round
<1> HIDE DEF d, W
<1>4. W * (w + 1) <= W * d
  BY <1>1, <1>2, <1>3
<1>5. W * (w + 1) = w * W + W
  BY <1>1, <1>3
<1>6. w * W \in Nat
  BY <1>1, <1>3
<1>7. w * W < r
  BY <1>1, <1>2, <1>3, <1>4, <1>5, <1>6
<1> QED
  BY <1>7 DEF leader_round_of_wave, W

\* The previous leader is observed by the leader and has a lower round.
LEMMA PriorIs ==
    ASSUME ReferenceTyped, ReferenceView, NEW l \in Lace, prior(l) # {}
    PROVE  /\ the(prior(l)) \in Lace /\ the(prior(l)) \in Seen(l)
           /\ round[Reference][the(prior(l))] < round[Reference][l]
<1> DEFINE p == the(prior(l))
<1>1. p \in prior(l)
  BY DEF the
<1>2. checkpoint_floor(Reference, l) = {}
  BY PruningAssumption DEF checkpoint_floor, checkpoint_predecessor, floor_of
<1>3. PICK w \in 0 .. (wave_of_round(round[Reference][l]) - 1) :
          p \in final_leader_for_wave(caller_rule, Reference, w)
  BY <1>1, <1>2, Zenon DEF prior, previous_trusted_leader, newest
<1>4. ratifies(caller_rule, Reference, l, p)
  BY <1>1, <1>2, Zenon DEF prior, previous_trusted_leader, newest
<1>5. p \in Lace /\ round[Reference][p] = leader_round_of_wave(w)
  BY <1>3, Zenon DEF final_leader_for_wave, leader_blocks_of_wave, Lace
<1>6. round[Reference][l] \in Nat
  BY DEF ReferenceTyped, ReferenceView, Causal
<1>7. round[Reference][p] < round[Reference][l]
  BY <1>5, <1>6, EarlierWave
<1>8. p \in Seen(l)
  <2>1. approving_creators(caller_rule, Reference, Seen(l), p) # {}
    BY <1>4, NoEmptyQuorum, Zenon DEF ratifies, Seen, ReferenceTyped
  <2>2. PICK x \in Seen(l) : approves(Reference, x, p)
    BY <2>1, Zenon DEF approving_creators
  <2>3. p \in Seen(x)
    BY <2>2 DEF approves, Seen
  <2> QED
    BY <2>2, <2>3, Zenon DEF ReferenceView
<1> QED
  BY <1>5, <1>7, <1>8

\* Part of a set without cycles is one.
LEMMA CausalPart ==
    ASSUME NEW S, Causal(S), NEW T \in SUBSET S
    PROVE  Causal(T)
<1>1. IsFiniteSet(T)
  BY FS_Subset DEF Causal
<1> QED
  BY <1>1 DEF Causal

\* A leader's fragment on top of any order of blocks.
LEMMA FragmentTyped ==
    ASSUME Causal(Lace), NEW l, NEW t \in Seq(Lace)
    PROVE  /\ xsort(approved(l) \ ToSet(t)) \in Seq(Lace)
           /\ ToSet(xsort(approved(l) \ ToSet(t))) = approved(l) \ ToSet(t)
           /\ Ordered(xsort(approved(l) \ ToSet(t)), Apart)
           /\ fragment(l, t) \in Seq(Lace)
<1> DEFINE A == approved(l) \ ToSet(t)
<1>1. A \in SUBSET Lace
  BY DEF approved, approved_blocks_for_leader, Lace
<1> HIDE DEF A
<1>2. Causal(A)
  BY <1>1, CausalPart
<1>3. xsort(A) \in Seq(A) /\ ToSet(xsort(A)) = A /\ Ordered(xsort(A), Apart)
  BY <1>2, XsortIs
<1>4. xsort(A) \in Seq(Lace)
  BY <1>1, <1>3
<1>5. t \o xsort(A) \in Seq(Lace)
  BY <1>4, ConcatProperties
<1> QED
  BY <1>3, <1>4, <1>5, Zenon DEF A, fragment

\* What a leader gives is an order for every leader that observes it.
LEMMA SequencedAbove ==
    ASSUME ReferenceView, NEW l \in Lace, NEW p \in Seen(l), NEW t, Sequenced(p, t)
    PROVE  Sequenced(l, t)
<1>1. Seen(p) \subseteq Seen(l)
  BY DEF ReferenceView
<1> QED
  BY <1>1, Zenon DEF Sequenced

(***************************************************************************)
(* A leader's fragment extends an order: no approved block conflicts with  *)
(* one the leader observes, and an emitted block whose predecessor was not *)
(* emitted has one that the leader sees in conflict.                       *)
(***************************************************************************)
LEMMA FragmentIs ==
    ASSUME ReferenceView, NEW l \in Lace, NEW t, Sequenced(l, t)
    PROVE  Sequenced(l, fragment(l, t))
<1> DEFINE A == approved(l) \ ToSet(t)
           x == xsort(A)
           u == fragment(l, t)
<1>1. t \in Seq(Lace) /\ ToSet(t) \subseteq Seen(l) /\ Ordered(t, Agreeing)
  BY DEF Sequenced
<1>2. /\ x \in Seq(Lace) /\ ToSet(x) = A /\ Ordered(x, Apart) /\ u = t \o x
  BY <1>1, FragmentTyped, Zenon DEF ReferenceView, fragment
<1>3. A \subseteq Seen(l) /\ A \subseteq Lace /\ Lace \subseteq Block /\ Seen(l) \subseteq Lace
  BY Zenon DEF approved, approved_blocks_for_leader, approves, Seen, ReferenceView, Causal, Lace
<1>4. \A a \in A : approves(Reference, l, a)
  BY Zenon DEF approved, approved_blocks_for_leader
<1>5. \A a \in A, s \in Seen(l) : ~ equivocating(Reference, s, a)
  BY <1>4 DEF approves, Seen
<1> HIDE DEF A, x, u
<1>6. Ordered(x, Agreeing)
  <2> SUFFICES ASSUME NEW i \in DOMAIN x, NEW j \in DOMAIN x, i < j PROVE <<x[i], x[j]>> \in Agreeing
    BY DEF Ordered
  <2>1. x[i] \in A /\ x[j] \in A /\ <<x[i], x[j]>> \in Apart
    BY <1>2 DEF Ordered, ToSet
  <2>2. ~ equivocating(Reference, x[i], x[j])
    BY <1>3, <1>5, <2>1
  <2> QED
    BY <2>1, <2>2 DEF Apart, Agreeing
<1>7. ASSUME NEW a \in ToSet(t), NEW b \in ToSet(x) PROVE <<a, b>> \in Agreeing
  <2>1. a \in Seen(l) /\ a \in Block /\ b \in A /\ b \in Block /\ b \notin ToSet(t)
    BY <1>1, <1>2, <1>3 DEF A
  <2>2. b \notin Preds[a]
    BY <1>5, <2>1, Zenon DEF Sequenced
  <2>3. ~ equivocating(Reference, a, b)
    BY <1>5, <2>1
  <2> QED
    BY <2>1, <2>2, <2>3 DEF Agreeing
<1>8. u \in Seq(Lace) /\ ToSet(u) = ToSet(t) \cup A /\ Ordered(u, Agreeing)
  BY <1>1, <1>2, <1>6, <1>7, OrderedJoin
<1>9. ASSUME NEW a \in ToSet(u), NEW y \in Preds[a]
      PROVE  y \in ToSet(u) \/ \E s \in Seen(l) : equivocating(Reference, s, y)
  <2>1. CASE a \in ToSet(t)
    BY <1>8, <1>9, <2>1 DEF Sequenced
  <2>2. CASE a \in A
    <3>1. a \in Seen(l) /\ a \in Lace
      BY <1>3, <2>2
    <3>2. y \in Seen(a) /\ Seen(a) \subseteq Seen(l)
      BY <1>9, <3>1 DEF ReferenceView
    <3>3. y \in Seen(l) /\ y \in Lace
      BY <1>3, <3>2
    <3>4. CASE approves(Reference, l, y)
      <4>1. y \in approved(l)
        BY <3>3, <3>4 DEF approved, approved_blocks_for_leader, Lace
      <4> QED
        BY <1>8, <4>1, Zenon DEF A
    <3>5. CASE ~ approves(Reference, l, y)
      BY <3>3, <3>5 DEF approves, Seen
    <3> QED
      BY <3>4, <3>5, Zenon
  <2> QED
    BY <1>8, <1>9, <2>1, <2>2, Zenon
<1>10. ToSet(u) \subseteq Seen(l)
  BY <1>1, <1>3, <1>8
<1> QED
  BY <1>8, <1>9, <1>10, Zenon DEF Sequenced, u

\* The rounds of a view have a bound.
LEMMA RoundsBounded ==
    ASSUME ReferenceTyped, ReferenceView
    PROVE  \E N \in Nat : \A l \in Lace : round[Reference][l] < N
<1> DEFINE S == {round[Reference][l] : l \in Lace}
<1>1. IsFiniteSet(Lace) /\ Lace \subseteq Block
  BY DEF ReferenceView, Causal
<1>2. S \in SUBSET Nat
  BY <1>1 DEF ReferenceTyped
<1>3. IsFiniteSet(S)
  <2> DEFINE f == [l \in Lace |-> round[Reference][l]]
  <2>1. f \in Surjection(Lace, S)
    BY DEF Surjection
  <2> HIDE DEF f, S
  <2> QED
    BY <1>1, <2>1, FS_Surjection
<1>4. CASE S = {}
  <2>1. \A l \in Lace : round[Reference][l] < 0
    BY <1>4, Zenon
  <2> QED
    BY <2>1
<1>5. CASE S # {}
  <2> DEFINE m == Max(S)
  <2>1. m \in Nat /\ \A r \in S : r <= m
    <3> HIDE DEF S
    <3> QED
      BY <1>2, <1>3, <1>5, MaxOfFinite
  <2> HIDE DEF m
  <2>2. \A l \in Lace : round[Reference][l] \in Nat /\ round[Reference][l] <= m
    BY <1>2, <2>1
  <2>3. m + 1 \in Nat /\ \A l \in Lace : round[Reference][l] < m + 1
    BY <2>1, <2>2
  <2> QED
    BY <2>3
<1> QED
  BY <1>4, <1>5

\* The recursion along the previous leaders has a solution.
LEMMA ChainedExists ==
    ASSUME ReferenceTyped, ReferenceView
    PROVE  \E f : f = Chained(f)
<1> DEFINE V == [Lace -> Seq(Lace)]
           upto(f, n) == \A l \in Lace : round[Reference][l] < n => f[l] = Chained(f)[l]
           K == {n \in Nat : \E f \in V : upto(f, n)}
<1>1. ASSUME NEW f \in V PROVE Chained(f) \in V
  <2>1. ASSUME NEW l \in Lace PROVE Chained(f)[l] \in Seq(Lace)
    <3> DEFINE t == IF prior(l) # {} THEN f[the(prior(l))] ELSE <<>>
    <3>1. t \in Seq(Lace)
      BY PriorIs
    <3>2. Chained(f)[l] = fragment(l, t)
      BY DEF Chained
    <3> HIDE DEF t
    <3>3. Causal(Lace)
      BY DEF ReferenceView
    <3>4. fragment(l, t) \in Seq(Lace)
      BY <3>1, <3>3, FragmentTyped, Zenon
    <3> QED
      BY <3>2, <3>4
  <2>2. Chained(f) = [l \in Lace |-> Chained(f)[l]]
    BY DEF Chained
  <2> QED
    BY <2>1, <2>2
<1>2. \A l \in Lace : round[Reference][l] \in Nat
  BY DEF ReferenceTyped, ReferenceView, Causal
<1>3. 0 \in K
  <2>1. [l \in Lace |-> <<>>] \in V
    OBVIOUS
  <2>2. \A f \in V : upto(f, 0)
    BY <1>2
  <2> QED
    BY <2>1, <2>2, Zenon
<1>4. ASSUME NEW n \in K PROVE n + 1 \in K
  <2>1. PICK f \in V : upto(f, n)
    BY <1>4
  <2> DEFINE g == Chained(f)
  <2>2. g \in V
    BY <1>1
  <2>3. ASSUME NEW l \in Lace, round[Reference][l] < n + 1 PROVE g[l] = Chained(g)[l]
    <3>1. CASE prior(l) = {}
      BY <3>1 DEF Chained
    <3>2. CASE prior(l) # {}
      <4> DEFINE p == the(prior(l))
      <4>1. p \in Lace /\ round[Reference][p] < round[Reference][l]
        BY <3>2, PriorIs
      <4>2. round[Reference][p] < n
        BY <1>2, <2>3, <4>1
      <4>3. f[p] = g[p]
        BY <2>1, <4>1, <4>2
      <4>4. g[l] = fragment(l, f[p]) /\ Chained(g)[l] = fragment(l, g[p])
        BY <3>2 DEF Chained
      <4> HIDE DEF p, g
      <4> QED
        BY <4>3, <4>4
    <3> QED
      BY <3>1, <3>2
  <2>4. upto(g, n + 1)
    BY <2>3
  <2>5. n + 1 \in Nat
    OBVIOUS
  <2> HIDE DEF g, upto
  <2> QED
    BY <2>2, <2>4, <2>5
<1>5. \A n \in Nat : n \in K
  <2>1. K \in SUBSET Nat
    OBVIOUS
  <2> HIDE DEF K
  <2> QED
    BY <1>3, <1>4, <2>1, AllNumbers
<1>6. PICK N \in Nat : \A l \in Lace : round[Reference][l] < N
  BY RoundsBounded
<1>7. PICK f \in V : upto(f, N)
  BY <1>5, Zenon
<1>8. \A l \in Lace : f[l] = Chained(f)[l]
  BY <1>6, <1>7
<1>9. f = [l \in Lace |-> f[l]] /\ Chained(f) = [l \in Lace |-> Chained(f)[l]]
  BY DEF Chained
<1> QED
  BY <1>8, <1>9

\* Every leader gives an order.
LEMMA ChainedIs ==
    ASSUME ReferenceTyped, ReferenceView, NEW f, f = Chained(f)
    PROVE  \A l \in Lace : Sequenced(l, f[l])
<1> DEFINE K == {n \in Nat : \A l \in Lace : round[Reference][l] < n => Sequenced(l, f[l])}
<1>1. \A l \in Lace : round[Reference][l] \in Nat
  BY DEF ReferenceTyped, ReferenceView, Causal
<1>2. 0 \in K
  BY <1>1
<1>3. ASSUME NEW n \in K PROVE n + 1 \in K
  <2>1. ASSUME NEW l \in Lace, round[Reference][l] < n + 1 PROVE Sequenced(l, f[l])
    <3>1. CASE prior(l) = {}
      <4>1. f[l] = fragment(l, <<>>)
        BY <3>1, Zenon DEF Chained
      <4>2. Sequenced(l, <<>>)
        BY DEF Sequenced, ToSet, Ordered
      <4> QED
        BY <4>1, <4>2, FragmentIs
    <3>2. CASE prior(l) # {}
      <4> DEFINE p == the(prior(l))
      <4>1. p \in Lace /\ p \in Seen(l) /\ round[Reference][p] < round[Reference][l]
        BY <3>2, PriorIs
      <4>2. round[Reference][p] < n
        BY <1>1, <2>1, <4>1
      <4>3. f[l] = fragment(l, f[p])
        BY <3>2, Zenon DEF Chained
      <4> HIDE DEF p
      <4>4. Sequenced(p, f[p])
        BY <1>3, <4>1, <4>2
      <4>5. Sequenced(l, f[p])
        BY <4>1, <4>4, SequencedAbove
      <4> QED
        BY <4>3, <4>5, FragmentIs
    <3> QED
      BY <3>1, <3>2
  <2> QED
    BY <2>1
<1>4. \A n \in Nat : n \in K
  <2>1. K \in SUBSET Nat
    OBVIOUS
  <2> HIDE DEF K
  <2> QED
    BY <1>2, <1>3, <2>1, AllNumbers
<1> SUFFICES ASSUME NEW l \in Lace PROVE Sequenced(l, f[l])
  OBVIOUS
<1>5. round[Reference][l] + 1 \in Nat /\ round[Reference][l] < round[Reference][l] + 1
  BY <1>1
<1> QED
  BY <1>4, <1>5

\* tau of an unpruned view.
LEMMA TauIs ==
    ASSUME ReferenceTyped, ReferenceView
    PROVE  pruned_tau(Reference) \in Seq(Lace) /\ Ordered(pruned_tau(Reference), Agreeing)
<1> DEFINE R == Reference
           anchor == latest_trusted_leader(R)
           Order(f) ==
               [l \in blocks[R] |->
                   LET previous == previous_trusted_leader(R, l)
                       below == checkpoint_predecessor(R, l)
                       emitted == IF previous # {} THEN f[the(previous)]
                                  ELSE IF below # {} THEN emit_checkpoint_prefix(R, the(below))
                                  ELSE <<>>
                       stored == emit_checkpoint_prefix(R, l)
                   IN  IF stored # <<>> THEN stored
                       ELSE emitted \o xsort(approved_blocks_for_leader(R, l) \ ToSet(emitted))]
           g == CHOOSE f : f = Order(f)
<1>1. pruned_tau(R) = IF anchor = {} THEN <<>> ELSE g[the(anchor)]
  BY DEF pruned_tau
<1>2. ASSUME NEW f PROVE Order(f) = Chained(f)
  <2>1. \A l : checkpoint_predecessor(R, l) = {} /\ emit_checkpoint_prefix(R, l) = <<>>
    BY PruningAssumption DEF checkpoint_predecessor, emit_checkpoint_prefix, floor_of
  <2> QED
    BY <2>1, Zenon DEF Chained, fragment, approved, prior, Lace
<1> HIDE DEF Order
<1>3. g = Order(g)
  BY <1>2, ChainedExists, Zenon
<1> HIDE DEF g
<1>4. \A l \in Lace : Sequenced(l, g[l])
  BY <1>2, <1>3, ChainedIs
<1>5. CASE anchor = {}
  BY <1>1, <1>5 DEF Ordered
<1>6. CASE anchor # {}
  <2>1. the(anchor) \in anchor
    BY <1>6 DEF the
  <2>2. the(anchor) \in Lace
    BY <2>1, Zenon DEF latest_trusted_leader, newest, trusted_final_leader, leader_block_for_wave,
       leader_blocks_of_wave, Lace
  <2> QED
    BY <1>1, <1>4, <1>6, <2>2 DEF Sequenced
<1> QED
  BY <1>5, <1>6

(***************************************************************************)
(* The inductive invariant: the view, and an order of blocks in it that    *)
(* TauSound accepts.                                                       *)
(***************************************************************************)
TauInv ==
    /\ ReferenceTyped /\ ReferenceView
    /\ output[Reference] \in Seq(Lace) /\ Ordered(output[Reference], Agreeing)

\* A block whose predecessors are there closes no cycle.
LEMMA CausalGrows ==
    ASSUME NEW S, Causal(S), \A c \in S : Preds[c] \subseteq S,
           NEW b \in Block \ S, Preds[b] \subseteq S
    PROVE  Causal(S \cup {b})
<1>1. IsFiniteSet(S \cup {b})
  BY FS_AddElement DEF Causal
<1>2. ASSUME NEW T \in SUBSET (S \cup {b}), T # {} PROVE \E c \in T : Preds[c] \cap T = {}
  <2> DEFINE U == T \ {b}
  <2>1. CASE U = {}
    <3>1. T = {b}
      BY <1>2, <2>1
    <3> QED
      BY <3>1
  <2>2. CASE U # {}
    <3>1. U \in SUBSET S
      OBVIOUS
    <3>2. PICK c \in U : Preds[c] \cap U = {}
      BY <2>2, <3>1, Zenon DEF Causal
    <3>3. b \notin Preds[c]
      BY <3>1, <3>2
    <3> QED
      BY <3>2, <3>3
  <2> QED
    BY <2>1, <2>2
<1> QED
  BY <1>1, <1>2 DEF Causal

\* What insert_block does to the unpruned view.
LEMMA ReferenceInsert ==
    ASSUME TauInv, NEW b \in Block, insert_block(b)
    PROVE  /\ b \notin Lace /\ Preds[b] \subseteq Lace
           /\ Lace' = Lace \cup {b}
           /\ past'[Reference] = [past[Reference] EXCEPT ![b] = observe(Reference, b)]
           /\ round'[Reference] \in [Block -> Nat]
           /\ DOMAIN blocks' = Node /\ DOMAIN past' = Node /\ DOMAIN round' = Node
           /\ output' = output /\ caller_rule' = caller_rule
<1> DEFINE R == Reference
           deep == IF Preds[b] = {} THEN 0
                   ELSE IF \E p \in Preds[b] : round[R][p] = NoDepth THEN NoDepth
                   ELSE 1 + Max({round[R][p] : p \in Preds[b]})
<1>1. R \in Node /\ b \notin Lace /\ Preds[b] \subseteq Lace
  BY PruningAssumption, Zenon DEF insert_block, Lace
<1>2. /\ Lace' = Lace \cup {b}
      /\ past'[R] = [past[R] EXCEPT ![b] = observe(R, b)]
      /\ round'[R] = [round[R] EXCEPT ![b] = deep]
  BY <1>1, Zenon DEF insert_block, Lace
<1>3. DOMAIN blocks' = Node /\ DOMAIN past' = Node /\ DOMAIN round' = Node
  BY Zenon DEF insert_block
<1>4. deep \in Nat
  <2>1. NoDepth \in Nat
    BY BlockAssumption, QuorumAssumption DEF NoDepth
  <2>2. CASE Preds[b] # {}
    <3> DEFINE S == {round[R][p] : p \in Preds[b]}
    <3>1. round[R] \in [Block -> Nat] /\ Lace \subseteq Block /\ IsFiniteSet(Lace)
      BY DEF TauInv, ReferenceTyped, ReferenceView, Causal
    <3>2. S \in SUBSET Nat /\ S # {}
      BY <1>1, <2>2, <3>1
    <3>3. IsFiniteSet(S)
      <4> DEFINE f == [p \in Preds[b] |-> round[R][p]]
      <4>1. f \in Surjection(Preds[b], S)
        BY DEF Surjection
      <4>2. IsFiniteSet(Preds[b])
        BY <1>1, <3>1, FS_Subset
      <4> HIDE DEF f, S
      <4> QED
        BY <4>1, <4>2, FS_Surjection
    <3>4. Max(S) \in Nat
      <4> HIDE DEF S
      <4> QED
        BY <3>2, <3>3, MaxOfFinite
    <3>5. 1 + Max(S) \in Nat
      BY <3>4
    <3> QED
      BY <2>1, <3>5
  <2> QED
    BY <2>2
<1> HIDE DEF deep
<1>5. round'[R] \in [Block -> Nat]
  BY <1>2, <1>4, Zenon DEF TauInv, ReferenceTyped
<1>6. output' = output /\ caller_rule' = caller_rule
  BY Zenon DEF insert_block
<1> QED
  BY <1>1, <1>2, <1>3, <1>5, <1>6, Zenon

\* An inserted block keeps the view closed and the order sound.
LEMMA InsertKeepsTau ==
    ASSUME TauInv, NEW b \in Block, insert_block(b)
    PROVE  TauInv'
<1> DEFINE row == observe(Reference, b)
<1>1. /\ b \notin Lace /\ Preds[b] \subseteq Lace
      /\ Lace' = Lace \cup {b}
      /\ past'[Reference] = [past[Reference] EXCEPT ![b] = row]
      /\ round'[Reference] \in [Block -> Nat]
      /\ DOMAIN blocks' = Node /\ DOMAIN past' = Node /\ DOMAIN round' = Node
      /\ output' = output /\ caller_rule' = caller_rule
  BY ReferenceInsert
<1>2. /\ past[Reference] \in [Block -> SUBSET Block] /\ Causal(Lace) /\ Lace \subseteq Block
      /\ caller_rule \in Rule /\ DOMAIN output = Node
      /\ output[Reference] \in Seq(Lace) /\ Ordered(output[Reference], Agreeing)
  BY Zenon DEF TauInv, ReferenceTyped, ReferenceView, Causal
<1>3. \A c \in Lace :
          /\ Preds[c] \subseteq Lace /\ Preds[c] \subseteq Seen(c)
          /\ c \in Seen(c) /\ Seen(c) \subseteq Lace
          /\ \A x \in Seen(c) : Seen(x) \subseteq Seen(c)
  BY DEF TauInv, ReferenceView
<1>4. row = {b} \cup UNION {Seen(p) : p \in Preds[b]}
  BY DEF observe, Seen
<1> HIDE DEF row
<1>5. row \subseteq Lace \cup {b} /\ b \in row /\ Preds[b] \subseteq row
  BY <1>1, <1>3, <1>4
<1>6. Seen(b)' = row /\ \A c \in Lace : Seen(c)' = Seen(c)
  BY <1>1, <1>2 DEF Seen
<1>7. ReferenceTyped'
  <2>1. row \in SUBSET Block
    BY <1>2, <1>5
  <2>2. past'[Reference] \in [Block -> SUBSET Block]
    BY <1>1, <1>2, <2>1
  <2> QED
    BY <1>1, <1>2, <2>2, Zenon DEF ReferenceTyped
<1>8. Causal(Lace \cup {b})
  BY <1>1, <1>2, <1>3, CausalGrows, Zenon
<1>9. ASSUME NEW c \in Lace \cup {b}
      PROVE  /\ Preds[c] \subseteq Lace \cup {b} /\ Preds[c] \subseteq Seen(c)'
             /\ c \in Seen(c)' /\ Seen(c)' \subseteq Lace \cup {b}
             /\ \A x \in Seen(c)' : Seen(x)' \subseteq Seen(c)'
  <2>1. CASE c \in Lace
    <3>1. \A x \in Seen(c) : Seen(x)' = Seen(x)
      BY <1>3, <1>6, <2>1
    <3> QED
      BY <1>3, <1>6, <2>1, <3>1
  <2>2. CASE c = b
    <3>1. ASSUME NEW x \in row PROVE Seen(x)' \subseteq row
      <4>1. CASE x = b
        BY <1>6, <4>1
      <4>2. CASE x # b
        <5>1. PICK p \in Preds[b] : x \in Seen(p)
          BY <1>4, <4>2
        <5>2. x \in Lace /\ Seen(x) \subseteq Seen(p)
          BY <1>1, <1>3, <5>1
        <5>3. Seen(p) \subseteq row
          BY <1>4
        <5> QED
          BY <1>6, <5>2, <5>3
      <4> QED
        BY <4>1, <4>2
    <3> QED
      BY <1>1, <1>5, <1>6, <2>2, <3>1, Zenon
  <2> QED
    BY <2>1, <2>2
<1>10. ReferenceView'
  BY <1>1, <1>8, <1>9, Zenon DEF ReferenceView, Causal
<1>11. output'[Reference] \in Seq(Lace')
  BY <1>1, <1>2
<1>12. \A x, y \in Lace : equivocating(Reference, x, y)' <=> equivocating(Reference, x, y)
  BY <1>1, <1>2 DEF equivocating
<1>13. Ordered(output[Reference], Agreeing')
  <2> DEFINE t == output[Reference]
  <2> SUFFICES ASSUME NEW i \in DOMAIN t, NEW j \in DOMAIN t, i < j PROVE <<t[i], t[j]>> \in Agreeing'
    BY DEF Ordered
  <2>1. t[i] \in Lace /\ t[j] \in Lace
    BY <1>2
  <2>2. <<t[i], t[j]>> \in Agreeing
    BY <1>2 DEF Ordered
  <2> HIDE DEF t
  <2>3. ASSUME NEW x \in Lace, NEW y \in Lace, <<x, y>> \in Agreeing PROVE <<x, y>> \in Agreeing'
    BY <1>2, <1>12, <2>3, Zenon DEF Agreeing
  <2> QED
    BY <2>1, <2>2, <2>3
<1>14. Ordered(output[Reference], Agreeing)'
  BY <1>1, <1>13 DEF Ordered
<1> QED
  BY <1>7, <1>10, <1>11, <1>14 DEF TauInv

\* Nothing is lost while the view stays as it is.
LEMMA ReferenceKept ==
    ASSUME TauInv,
           blocks'[Reference] = blocks[Reference], past'[Reference] = past[Reference],
           round'[Reference] = round[Reference], caller_rule' = caller_rule,
           DOMAIN blocks' = Node, DOMAIN past' = Node, DOMAIN round' = Node, DOMAIN output' = Node,
           output'[Reference] \in Seq(Lace), Ordered(output'[Reference], Agreeing)
    PROVE  TauInv'
<1>1. Lace' = Lace /\ \A b : Seen(b)' = Seen(b)
  BY DEF Lace, Seen
<1>2. ReferenceTyped'
  BY DEF TauInv, ReferenceTyped
<1>3. ReferenceView'
  BY <1>1 DEF TauInv, ReferenceView
<1>4. Agreeing' = Agreeing
  BY Zenon DEF Agreeing, equivocating
<1>5. Ordered(output[Reference], Agreeing)'
  BY <1>4 DEF Ordered
<1> QED
  BY <1>1, <1>2, <1>3, <1>5 DEF TauInv

\* Pruning leaves the other view alone, and a poll publishes tau.
LEMMA TauStep == TauInv /\ [PruneNext]_pruneVars => TauInv'
<1> SUFFICES ASSUME TauInv, [PruneNext]_pruneVars PROVE TauInv'
  OBVIOUS
<1>1. ASSUME NEW b \in Block, insert_block(b) PROVE TauInv'
  BY <1>1, InsertKeepsTau
<1>2. CASE checkpoint_after_finality
  <2>1. /\ blocks'[Reference] = blocks[Reference] /\ past'[Reference] = past[Reference]
        /\ round'[Reference] = round[Reference] /\ output' = output /\ caller_rule' = caller_rule
        /\ DOMAIN blocks' = Node /\ DOMAIN past' = Node /\ DOMAIN round' = Node
    BY <1>2, PruningAssumption, Zenon DEF checkpoint_after_finality, TauInv, ReferenceTyped
  <2> QED
    BY <2>1, ReferenceKept, Zenon DEF TauInv, ReferenceTyped
<1>3. CASE poll
  <2>1. /\ UNCHANGED <<blocks, past, round, caller_rule>>
        /\ output' = [n \in Node |-> pruned_tau(n)] /\ Reference \in Node
    BY <1>3, PruningAssumption DEF poll
  <2>2. output'[Reference] \in Seq(Lace) /\ Ordered(output'[Reference], Agreeing)
    BY <2>1, TauIs DEF TauInv
  <2>3. DOMAIN blocks' = Node /\ DOMAIN past' = Node /\ DOMAIN round' = Node /\ DOMAIN output' = Node
    BY <2>1 DEF TauInv, ReferenceTyped
  <2> QED
    BY <2>1, <2>2, <2>3, ReferenceKept, Zenon
<1>4. CASE UNCHANGED pruneVars
  <2>1. UNCHANGED <<blocks, past, round, caller_rule, output>>
    BY <1>4 DEF pruneVars
  <2> QED
    BY <2>1, ReferenceKept, Zenon DEF TauInv, ReferenceTyped
<1> QED
  BY <1>1, <1>2, <1>3, <1>4 DEF PruneNext

(***************************************************************************)
(* In every view that insertions lead to, the order of an unpruned         *)
(* blocklace lists no block twice, no two branches of an equivocation and  *)
(* no block before a predecessor, in both rules and with any fragments     *)
(* (tau, weighted_tau).                                                    *)
(***************************************************************************)
THEOREM TauIsSound == PruneSpec => []TauSound
<1>1. PruneInit => TauInv
  <2> SUFFICES ASSUME PruneInit PROVE TauInv
    OBVIOUS
  <2>1. /\ Lace = {} /\ past[Reference] = [b \in Block |-> {}] /\ round[Reference] = [b \in Block |-> 0]
        /\ output[Reference] = <<>> /\ caller_rule \in Rule
        /\ DOMAIN blocks = Node /\ DOMAIN past = Node /\ DOMAIN round = Node /\ DOMAIN output = Node
    BY PruningAssumption DEF PruneInit, LaceInit, Lace
  <2>2. Causal({})
    BY FS_EmptySet DEF Causal
  <2>3. ReferenceTyped
    BY <2>1 DEF ReferenceTyped
  <2>4. ReferenceView
    BY <2>1, <2>2 DEF ReferenceView
  <2>5. output[Reference] \in Seq(Lace) /\ Ordered(output[Reference], Agreeing)
    BY <2>1 DEF Ordered
  <2> QED
    BY <2>3, <2>4, <2>5 DEF TauInv
<1>2. TauInv => TauSound
  <2> SUFFICES ASSUME TauInv, NEW i \in DOMAIN output[Reference], NEW j \in DOMAIN output[Reference], i < j
               PROVE  /\ output[Reference][i] # output[Reference][j]
                      /\ output[Reference][j] \notin Preds[output[Reference][i]]
                      /\ ~ equivocating(Reference, output[Reference][i], output[Reference][j])
    BY Zenon DEF TauSound
  <2>1. <<output[Reference][i], output[Reference][j]>> \in Agreeing
    BY DEF TauInv, Ordered
  <2> QED
    BY <2>1, Zenon DEF Agreeing
<1> QED
  BY <1>1, <1>2, TauStep, PTL DEF PruneSpec

=============================================================================
