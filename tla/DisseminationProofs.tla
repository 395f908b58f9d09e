-------------------------- MODULE DisseminationProofs --------------------------
(***************************************************************************)
(* Proofs, for every set of blocks, every configuration and every order of *)
(* deliveries and retries, that the view stays sound and the buffer within *)
(* its policy, that no proof of an equivocation is lost, that the selected *)
(* predecessors are cordial, and that the ranking of the tips does not     *)
(* depend on the common ancestor that is found.                            *)
(***************************************************************************)
EXTENDS Dissemination, OrderProofs

-----------------------------------------------------------------------------
(***************************************************************************)
(* What a block observes, and its depth.                                   *)
(***************************************************************************)
\* Contents and predecessors are blocks, and stand for themselves.
LEMMA ContentIs ==
    ASSUME NEW b \in Block
    PROVE  /\ Content[b] \in Block /\ Content[Content[b]] = Content[b]
           /\ Creator[Content[b]] = Creator[b] /\ Preds[Content[b]] = Preds[b]
           /\ \A p \in Preds[b] : p \in Block /\ Content[p] = p
BY DisseminationAssumption

\* A property that each block has when its predecessors have it.
LEMMA HistoryInduction ==
    ASSUME NEW K, \A b \in Block : Preds[b] \subseteq K => b \in K
    PROVE  \A b \in Block : b \in K
<1> DEFINE S == Block \ K
<1> SUFFICES ASSUME S # {} PROVE FALSE
  OBVIOUS
<1>1. PICK b \in S : Preds[b] \cap S = {}
  BY DisseminationAssumption, Zenon
<1>2. Preds[b] \subseteq Block
  BY ContentIs
<1> QED
  BY <1>1, <1>2

\* S is closed under predecessors and has the content of b.
Closed(S, b) == Content[b] \in S /\ \A x \in S : Preds[x] \subseteq S
Closure(b) == {c \in Block : \A S \in SUBSET Block : Closed(S, b) => c \in S}

\* A closure is closed.
LEMMA ClosureClosed ==
    ASSUME NEW b \in Block
    PROVE  Closed(Closure(b), b)
<1>1. Content[b] \in Closure(b)
  BY ContentIs DEF Closure, Closed
<1>2. ASSUME NEW x \in Closure(b), NEW p \in Preds[x] PROVE p \in Closure(b)
  <2>1. x \in Block
    BY DEF Closure
  <2>2. p \in Block
    BY <2>1, ContentIs
  <2>3. ASSUME NEW S \in SUBSET Block, Closed(S, b) PROVE p \in S
    <3>1. x \in S
      BY <2>3 DEF Closure
    <3> QED
      BY <2>3, <3>1 DEF Closed
  <2> QED
    BY <2>2, <2>3 DEF Closure
<1> QED
  BY <1>1, <1>2 DEF Closed

\* The recursion of observe has a solution.
LEMMA ClosureIs ==
    ASSUME NEW b \in Block
    PROVE  Closure(b) = {Content[b]} \cup UNION {Closure(p) : p \in Preds[b]}
<1> DEFINE T == {Content[b]} \cup UNION {Closure(p) : p \in Preds[b]}
<1>1. \A p \in Preds[b] : p \in Block /\ Closed(Closure(p), p) /\ p \in Closure(p)
  <2> TAKE p \in Preds[b]
  <2>1. p \in Block /\ Content[p] = p
    BY ContentIs
  <2>2. Closed(Closure(p), p)
    BY <2>1, ClosureClosed
  <2> QED
    BY <2>1, <2>2 DEF Closed
<1>2. \A p \in Preds[b] : Closure(p) \subseteq Closure(b)
  <2> TAKE p \in Preds[b]
  <2>1. Closed(Closure(b), b) /\ Closure(b) \in SUBSET Block
    BY ClosureClosed DEF Closure
  <2>2. p \in Closure(b)
    BY <2>1, ContentIs DEF Closed
  <2>3. Closed(Closure(b), p)
    BY <2>1, <2>2, ContentIs DEF Closed
  <2> HIDE DEF Closed
  <2> QED
    BY <2>1, <2>3 DEF Closure
<1>3. T \subseteq Closure(b)
  BY <1>2, ClosureClosed DEF Closed
<1>4. Closed(T, b) /\ T \in SUBSET Block
  <2>1. T \in SUBSET Block
    BY ContentIs DEF Closure
  <2>2. ASSUME NEW x \in T, NEW q \in Preds[x] PROVE q \in T
    <3>1. CASE x = Content[b]
      <4>1. q \in Preds[b]
        BY <3>1, ContentIs
      <4>2. q \in Closure(q)
        BY <1>1, <4>1
      <4> QED
        BY <4>1, <4>2
    <3>2. CASE x # Content[b]
      <4>1. PICK p \in Preds[b] : x \in Closure(p)
        BY <3>2
      <4>2. q \in Closure(p)
        BY <1>1, <4>1 DEF Closed
      <4> QED
        BY <4>1, <4>2
    <3> QED
      BY <3>1, <3>2
  <2> QED
    BY <2>1, <2>2 DEF Closed
<1>5. Closure(b) \subseteq T
  <2> HIDE DEF T
  <2> QED
    BY <1>4 DEF Closure
<1> QED
  BY <1>3, <1>5

\* What a block observes: its content, and what its predecessors observe.
LEMMA PastIs ==
    \A b \in Block : Past[b] = {Content[b]} \cup UNION {Past[p] : p \in Preds[b]}
<1> DEFINE F(g) == [b \in Block |-> {Content[b]} \cup UNION {g[p] : p \in Preds[b]}]
           s == CHOOSE g : g = F(g)
           C == [b \in Block |-> Closure(b)]
<1>1. C = F(C)
  <2>1. ASSUME NEW b \in Block PROVE Closure(b) = {Content[b]} \cup UNION {C[p] : p \in Preds[b]}
    <3>1. {C[p] : p \in Preds[b]} = {Closure(p) : p \in Preds[b]}
      BY ContentIs, Zenon
    <3> QED
      BY <3>1, ClosureIs, Zenon
  <2> QED
    BY <2>1
<1>2. s = F(s)
  <2> HIDE DEF F
  <2> QED
    BY <1>1, Zenon
<1>3. Past = [b \in Block |-> s[b]]
  BY DEF Past
<1> HIDE DEF s
<1>4. ASSUME NEW b \in Block PROVE s[b] = {Content[b]} \cup UNION {s[p] : p \in Preds[b]}
  BY <1>2, Zenon
<1>5. ASSUME NEW b \in Block PROVE {Past[p] : p \in Preds[b]} = {s[p] : p \in Preds[b]}
  BY <1>3, ContentIs
<1> QED
  BY <1>3, <1>4, <1>5, Zenon

\* Every block observes its content, and nothing but contents of blocks.
LEMMA PastContents ==
    \A b \in Block : /\ Content[b] \in Past[b]
                     /\ Past[b] \subseteq Block /\ \A c \in Past[b] : Content[c] = c
<1> DEFINE K == {b \in Block : Past[b] \subseteq Block /\ \A c \in Past[b] : Content[c] = c}
<1>1. ASSUME NEW b \in Block, Preds[b] \subseteq K PROVE b \in K
  BY <1>1, PastIs, ContentIs
<1>2. \A b \in Block : b \in K
  <2> HIDE DEF K
  <2> QED
    BY <1>1, HistoryInduction
<1> QED
  BY <1>2, PastIs

\* A content observes what its blocks observe.
LEMMA PastOfContent ==
    ASSUME NEW b \in Block
    PROVE  Past[Content[b]] = Past[b]
<1>1. Content[b] \in Block /\ Preds[Content[b]] = Preds[b] /\ Content[Content[b]] = Content[b]
  BY ContentIs
<1> QED
  BY <1>1, PastIs, Zenon

\* A block observes its predecessors and what they observe.
LEMMA PastOfPred ==
    ASSUME NEW b \in Block, NEW p \in Preds[b]
    PROVE  p \in Block /\ p \in Past[b] /\ Past[p] \subseteq Past[b]
<1>1. p \in Block /\ Content[p] = p
  BY ContentIs
<1>2. p \in Past[p]
  BY <1>1, PastContents
<1> QED
  BY <1>1, <1>2, PastIs

\* Observation is transitive.
LEMMA PastTransitive ==
    \A b \in Block : \A c \in Past[b] : Past[c] \subseteq Past[b]
<1> DEFINE K == {b \in Block : \A c \in Past[b] : Past[c] \subseteq Past[b]}
<1>1. ASSUME NEW b \in Block, Preds[b] \subseteq K, NEW c \in Past[b] PROVE Past[c] \subseteq Past[b]
  <2>1. CASE c = Content[b]
    BY <2>1, PastOfContent
  <2>2. CASE c # Content[b]
    <3>1. PICK p \in Preds[b] : c \in Past[p]
      BY <2>2, PastIs
    <3>2. Past[c] \subseteq Past[p]
      BY <1>1, <3>1
    <3> QED
      BY <3>2, PastOfPred
  <2> QED
    BY <2>1, <2>2
<1>2. ASSUME NEW b \in Block, Preds[b] \subseteq K PROVE b \in K
  BY <1>1, <1>2
<1>3. \A b \in Block : b \in K
  <2> HIDE DEF K
  <2> QED
    BY <1>2, HistoryInduction
<1> QED
  BY <1>3

\* What a block observes besides its content is a predecessor of what it observes.
LEMMA PastParent ==
    \A b \in Block : \A c \in Past[b] : c = Content[b] \/ \E d \in Past[b] : c \in Preds[d]
<1> DEFINE parent(b, c) == c = Content[b] \/ \E d \in Past[b] : c \in Preds[d]
           K == {b \in Block : \A c \in Past[b] : parent(b, c)}
<1>1. ASSUME NEW b \in Block, Preds[b] \subseteq K, NEW c \in Past[b] PROVE parent(b, c)
  <2> SUFFICES ASSUME c # Content[b] PROVE \E d \in Past[b] : c \in Preds[d]
    OBVIOUS
  <2>1. PICK p \in Preds[b] : c \in Past[p]
    BY PastIs
  <2>2. parent(p, c) /\ Content[p] = p
    BY <1>1, <2>1, ContentIs
  <2>3. CASE c = p
    BY <2>3, ContentIs, PastContents
  <2>4. CASE c # p
    BY <2>2, <2>4, PastOfPred
  <2> QED
    BY <2>3, <2>4
<1>2. ASSUME NEW b \in Block, Preds[b] \subseteq K PROVE b \in K
  BY <1>1, <1>2
<1>3. \A b \in Block : b \in K
  <2> HIDE DEF K
  <2> QED
    BY <1>2, HistoryInduction
<1> QED
  BY <1>3

\* depth is a number that grows from a block to those above it.
LEMMA DepthIs ==
    \A b \in Block : /\ Depth[b] \in Nat /\ Depth[Content[b]] = Depth[b]
                     /\ \A p \in Preds[b] : Depth[p] < Depth[b]
<1> DEFINE F(h) == [b \in Block |-> IF Preds[b] = {} THEN 0 ELSE 1 + Max({h[p] : p \in Preds[b]})]
           s == CHOOSE h : h = F(h)
<1>1. \A b \in Block : Preds[b] \in SUBSET Block /\ IsFiniteSet(Preds[b])
  BY ContentIs, DisseminationAssumption, FS_Subset
<1>2. Grounded(Block, Preds)
  BY <1>1, DisseminationAssumption DEF Grounded
<1>3. ASSUME NEW h PROVE F(h) = [b \in Block |-> above(h, Preds[b])]
  BY DEF above
<1>4. PICK h : h = [b \in Block |-> above(h, Preds[b])]
  BY <1>2, HeightsExist
<1>5. s = F(s)
  <2>1. h = F(h)
    <3> HIDE DEF F
    <3> QED
      BY <1>3, <1>4
  <2> HIDE DEF F
  <2> QED
    BY <2>1, Zenon
<1>6. Depth = [b \in Block |-> s[b]]
  BY DEF Depth
<1> HIDE DEF s, F
<1>7. s = [b \in Block |-> above(s, Preds[b])]
  BY <1>3, <1>5
<1>8. Depth = s
  BY <1>6, <1>7
<1>9. \A b \in Block : Depth[b] = above(Depth, Preds[b])
  BY <1>7, <1>8
<1>10. Heights(Depth, Block, Preds)
  BY <1>1, <1>9, Zenon DEF Heights
<1>11. \A b \in Block : Depth[b] \in Nat
  BY <1>2, <1>10, HeightsAreNumbers
<1>12. ASSUME NEW b \in Block PROVE \A p \in Preds[b] : Depth[p] < Depth[b]
  <2>1. \A p \in Preds[b] : Depth[p] \in Nat
    BY <1>1, <1>11
  <2>2. \A p \in Preds[b] : Depth[p] < above(Depth, Preds[b])
    BY <1>1, <2>1, AboveIs, Zenon
  <2> QED
    BY <1>9, <2>2
<1>13. ASSUME NEW b \in Block PROVE Depth[Content[b]] = Depth[b]
  BY <1>9, ContentIs
<1> QED
  BY <1>11, <1>12, <1>13

\* What a block observes besides its content is less deep.
LEMMA PastDepth ==
    \A b \in Block : \A c \in Past[b] : c = Content[b] \/ Depth[c] < Depth[b]
<1> DEFINE K == {b \in Block : \A c \in Past[b] : c = Content[b] \/ Depth[c] < Depth[b]}
<1>1. ASSUME NEW b \in Block, Preds[b] \subseteq K, NEW c \in Past[b], c # Content[b]
      PROVE  Depth[c] < Depth[b]
  <2>1. PICK p \in Preds[b] : c \in Past[p]
    BY <1>1, PastIs
  <2>2. p \in K /\ p \in Block /\ Content[p] = p /\ c \in Block
    BY <1>1, <2>1, ContentIs, PastContents
  <2>3. c = p \/ Depth[c] < Depth[p]
    BY <2>1, <2>2
  <2>4. Depth[p] < Depth[b] /\ Depth[c] \in Nat /\ Depth[p] \in Nat /\ Depth[b] \in Nat
    BY <2>2, DepthIs
  <2> QED
    BY <2>3, <2>4
<1>2. ASSUME NEW b \in Block, Preds[b] \subseteq K PROVE b \in K
  BY <1>1, <1>2
<1>3. \A b \in Block : b \in K
  <2> HIDE DEF K
  <2> QED
    BY <1>2, HistoryInduction
<1> QED
  BY <1>3

-----------------------------------------------------------------------------
(***************************************************************************)
(* A view and what is inserted into it.                                    *)
(***************************************************************************)
\* What ViewSound says of a view V in the configuration C.
Sound(C, V) ==
    /\ V \subseteq Block
    /\ \A b \in V : /\ Preds[b] \subseteq known(V)
                    /\ b \notin Forged /\ Creator[b] \in DOMAIN C.bonds
    /\ \A b, c \in V : /\ Content[b] = Content[c] => b = c
                       /\ C.chain => ~ incomparable(b, c)

\* The contents of a set of blocks observe what the blocks observe.
LEMMA ObservedByContent ==
    ASSUME NEW P \in SUBSET Block
    PROVE  observed(known(P)) = observed(P)
<1>1. \A b \in P : Past[Content[b]] = Past[b]
  BY PastOfContent
<1> QED
  BY <1>1 DEF observed, known

\* A view that is closed has all its blocks observe.
LEMMA ViewObserves ==
    ASSUME NEW V \in SUBSET Block, \A b \in V : Preds[b] \subseteq known(V)
    PROVE  \A b \in Block : /\ Content[b] \in known(V) => Past[b] \subseteq known(V)
                            /\ Preds[b] \subseteq known(V) => observed(Preds[b]) \subseteq known(V)
<1> DEFINE K == {b \in Block : b \in known(V) => Past[b] \subseteq known(V)}
<1>1. ASSUME NEW b \in Block, Preds[b] \subseteq K, b \in known(V) PROVE Past[b] \subseteq known(V)
  <2>1. PICK c \in V : b = Content[c]
    BY <1>1 DEF known
  <2>2. Preds[b] = Preds[c] /\ Content[b] = b
    BY <2>1, ContentIs
  <2>3. Preds[b] \subseteq known(V)
    BY <2>2
  <2>4. \A p \in Preds[b] : Past[p] \subseteq known(V)
    BY <1>1, <2>3
  <2> QED
    BY <1>1, <2>2, <2>4, PastIs
<1>2. ASSUME NEW b \in Block, Preds[b] \subseteq K PROVE b \in K
  BY <1>1, <1>2
<1>3. \A b \in Block : b \in K
  <2> HIDE DEF K
  <2> QED
    BY <1>2, HistoryInduction
<1>4. \A b \in Block : Content[b] \in known(V) => Past[b] \subseteq known(V)
  BY <1>3, ContentIs, PastOfContent
<1>5. ASSUME NEW b \in Block, Preds[b] \subseteq known(V) PROVE observed(Preds[b]) \subseteq known(V)
  <2>1. \A p \in Preds[b] : p \in Block /\ Past[p] \subseteq known(V)
    BY <1>3, <1>5, ContentIs
  <2> QED
    BY <2>1 DEF observed
<1> QED
  BY <1>4, <1>5

\* A block observes its content and what its predecessors observe.
LEMMA PastObserved ==
    ASSUME NEW b \in Block
    PROVE  Past[b] = {Content[b]} \cup observed(Preds[b])
BY PastIs DEF observed

\* What the absence or the presence of an error says of a block.
LEMMA ErrorsAre ==
    ASSUME NEW V, NEW b
    PROVE  /\ "InvalidSignature" \in validate_block(V, b) <=> b \in Forged
           /\ "UnknownSender" \in validate_block(V, b) <=> Creator[b] \notin DOMAIN config.bonds
           /\ "MissingPredecessors" \in validate_block(V, b) <=> ~ complete(V, b)
           /\ "IdentityCollision" \in validate_block(V, b) <=>
                 b \notin V /\ \E c \in V : Content[c] = Content[b]
           /\ "Equivocation" \in validate_block(V, b) <=>
                 config.chain /\ complete(V, b) /\ conflicts(V, b) # {}
BY DEF validate_block, complete

\* A block without an error leaves the view sound.
LEMMA InsertSound ==
    ASSUME NEW V, Sound(config, V), NEW b \in Block, validate_block(V, b) = {}
    PROVE  Sound(config, V \cup {b})
<1> DEFINE W == V \cup {b}
<1>1. /\ b \notin Forged /\ Creator[b] \in DOMAIN config.bonds /\ complete(V, b)
      /\ b \in V \/ \A c \in V : Content[c] # Content[b]
      /\ config.chain => conflicts(V, b) = {}
  BY ErrorsAre
<1>2. known(V) \subseteq known(W)
  BY DEF known
<1>3. \A x \in W : Preds[x] \subseteq known(W) /\ x \notin Forged /\ Creator[x] \in DOMAIN config.bonds
  BY <1>1, <1>2, Zenon DEF Sound, complete
<1>4. \A x, y \in W : Content[x] = Content[y] => x = y
  BY <1>1 DEF Sound
<1>5. ASSUME config.chain, NEW c \in V PROVE ~ incomparable(b, c) /\ ~ incomparable(c, b)
  <2> SUFFICES ASSUME c # b, Creator[c] = Creator[b]
               PROVE  Content[c] \in Past[b] \/ Content[b] \in Past[c]
    BY DEF incomparable
  <2>1. c \notin conflicts(V, b)
    BY <1>1, <1>5
  <2>2. \/ Content[c] \in observed(Preds[b] \cap known(V))
        \/ b \in V /\ Content[b] \in Past[c]
    BY <2>1 DEF conflicts, blocks_by
  <2>3. Preds[b] \cap known(V) = Preds[b]
    BY <1>1 DEF complete
  <2> QED
    BY <2>2, <2>3, PastObserved
<1>6. config.chain => ~ incomparable(b, b)
  BY DEF incomparable
<1>7. config.chain => \A x, y \in W : ~ incomparable(x, y)
  <2> HIDE DEF incomparable
  <2> QED
    BY <1>5, <1>6 DEF Sound
<1>8. W \subseteq Block
  BY DEF Sound
<1> HIDE DEF W
<1> QED
  BY <1>3, <1>4, <1>7, <1>8, Zenon DEF Sound, W

-----------------------------------------------------------------------------
(***************************************************************************)
(* The evidence pool.                                                      *)
(***************************************************************************)
Claims == {proof(b, c) : b \in Block, c \in Block}

\* c is in the view V, and the complete block b is not above it.
Conflicting(V, b, c) ==
    /\ c \in V /\ c # b /\ Creator[c] = Creator[b]
    /\ Preds[b] \subseteq known(V) /\ Content[c] \notin observed(Preds[b])

\* Records are of two blocks of one creator, and every refused block has one.
Proven(V, E, F) ==
    /\ \A e \in E : \E b, c \in Block : e = proof(b, c) /\ c # b /\ Creator[c] = Creator[b]
    /\ \A b \in F : \E c \in V : Conflicting(V, b, c) /\ proof(b, c) \in E

\* The blocks validate_block reports conflict with the block.
LEMMA ReportedConflicts ==
    ASSUME NEW V, NEW b, "Equivocation" \in validate_block(V, b)
    PROVE  conflicts(V, b) # {} /\ \A c \in conflicts(V, b) : Conflicting(V, b, c)
<1>1. complete(V, b) /\ conflicts(V, b) # {}
  BY ErrorsAre
<1>2. Preds[b] \cap known(V) = Preds[b]
  BY <1>1 DEF complete
<1> QED
  BY <1>1, <1>2 DEF conflicts, blocks_by, Conflicting, complete

\* A view that grows keeps the proof.
LEMMA ProvenKept ==
    ASSUME NEW V, NEW W, V \subseteq W, NEW E, NEW F, Proven(V, E, F)
    PROVE  Proven(W, E, F)
<1>1. known(V) \subseteq known(W)
  BY DEF known
<1>2. \A b, c : Conflicting(V, b, c) => Conflicting(W, b, c)
  BY <1>1 DEF Conflicting
<1> QED
  BY <1>2 DEF Proven

\* A block that is refused is recorded.
LEMMA ProvenRecords ==
    ASSUME NEW V \in SUBSET Block, NEW E \in SUBSET Claims, NEW F, Proven(V, E, F),
           NEW b \in Block, NEW c, Conflicting(V, b, c)
    PROVE  Proven(V, E \cup {proof(b, c)}, F \cup {b}) /\ E \cup {proof(b, c)} \in SUBSET Claims
<1>1. c \in V /\ c \in Block /\ c # b /\ Creator[c] = Creator[b]
  BY DEF Conflicting
<1>2. proof(b, c) \in Claims
  BY <1>1 DEF Claims
<1> DEFINE D == E \cup {proof(b, c)}
<1>3. \A e \in D : \E x, y \in Block : e = proof(x, y) /\ y # x /\ Creator[y] = Creator[x]
  BY <1>1 DEF Proven
<1>4. \A x \in F \cup {b} : \E y \in V : Conflicting(V, x, y) /\ proof(x, y) \in D
  BY <1>1 DEF Proven
<1> QED
  BY <1>2, <1>3, <1>4 DEF Proven

\* The lesser of two numbers.
LEMMA MinOfTwo ==
    ASSUME NEW m \in Nat, NEW n \in Nat
    PROVE  /\ Min({m, n}) \in {m, n} /\ Min({m, n}) <= m /\ Min({m, n}) <= n
<1>1. \E x \in {m, n} : \A y \in {m, n} : x <= y
  OBVIOUS
<1>2. Min({m, n}) \in {m, n} /\ \A y \in {m, n} : Min({m, n}) <= y
  BY <1>1, Zenon DEF Min
<1> QED
  BY <1>2

\* A claim about two blocks.
LEMMA ClaimIs ==
    ASSUME NEW b \in Block, NEW c \in Block
    PROVE  /\ proof(b, c).validator = Creator[b] /\ proof(b, c).blocks = {b, c}
           /\ proof(b, c).round <= Depth[b] /\ proof(b, c).round <= Depth[c]
           /\ proof(b, c).round = Depth[b] \/ proof(b, c).round = Depth[c]
<1>1. Depth[b] \in Nat /\ Depth[c] \in Nat
  BY DepthIs
<1>2. proof(b, c).round = Min({Depth[b], Depth[c]})
  BY DEF proof
<1>3. proof(b, c).validator = Creator[b] /\ proof(b, c).blocks = {b, c}
  BY DEF proof
<1> QED
  BY <1>1, <1>2, <1>3, MinOfTwo

\* What the pool promises of a sound view.
EvidenceIn(V, E, F) ==
    /\ \A b \in F \ Forged : Content[b] \notin known(V) =>
          \E e \in E : b \in e.blocks /\ verify_equivocation_evidence(V, e)
    /\ \A e \in E : verify_equivocation_evidence(V, e) =>
          \E x, y \in e.blocks : incomparable(x, y) /\ Creator[x] = e.validator

\* The record of a refused block is verified, and what is verified conflicts.
LEMMA ProvenVerifies ==
    ASSUME NEW C, NEW V, Sound(C, V), NEW E, NEW F \in SUBSET Block, Proven(V, E, F)
    PROVE  EvidenceIn(V, E, F)
<1>1. ASSUME NEW b \in F \ Forged, Content[b] \notin known(V)
      PROVE  \E e \in E : b \in e.blocks /\ verify_equivocation_evidence(V, e)
  <2>1. PICK c \in V : Conflicting(V, b, c) /\ proof(b, c) \in E
    BY DEF Proven
  <2>2. b \in Block /\ c \in Block /\ V \in SUBSET Block /\ c \notin Forged
    BY <2>1 DEF Sound
  <2> DEFINE e == proof(b, c)
  <2>3. /\ e.validator = Creator[b] /\ e.blocks = {b, c} /\ Creator[c] = Creator[b]
        /\ e.round <= Depth[b] /\ e.round <= Depth[c] /\ (e.round = Depth[b] \/ e.round = Depth[c])
    BY <2>1, <2>2, ClaimIs DEF Conflicting
  <2>4. Content[c] \in known(V)
    BY <2>1 DEF known
  <2>5. \A x \in V : Preds[x] \subseteq known(V)
    BY DEF Sound
  <2>6. Past[c] \subseteq known(V) /\ observed(Preds[b]) \subseteq known(V)
    BY <2>1, <2>2, <2>4, <2>5, ViewObserves DEF Conflicting
  <2>7. Past[b] = {Content[b]} \cup observed(Preds[b])
    BY <2>2, PastObserved
  <2>8. Past[b] \ {Content[b]} \subseteq known(V) /\ Past[c] \ {Content[c]} \subseteq known(V)
    BY <2>6, <2>7
  <2>9. Content[c] \notin Past[b] /\ Content[b] \notin Past[c]
    BY <1>1, <2>1, <2>4, <2>6, <2>7 DEF Conflicting
  <2> HIDE DEF e
  <2>10. verify_equivocation_evidence(V, e)
    BY <2>2, <2>3, <2>8, <2>9 DEF verify_equivocation_evidence
  <2>11. e \in E
    BY <2>1 DEF e
  <2> QED
    BY <2>3, <2>10, <2>11
<1>2. ASSUME NEW e \in E, verify_equivocation_evidence(V, e)
      PROVE  \E x, y \in e.blocks : incomparable(x, y) /\ Creator[x] = e.validator
  <2>1. PICK b \in Block, c \in Block : e = proof(b, c) /\ c # b /\ Creator[c] = Creator[b]
    BY DEF Proven
  <2>2. e.validator = Creator[b] /\ e.blocks = {b, c}
    BY <2>1, ClaimIs
  <2>3. Content[b] \notin Past[c] /\ Content[c] \notin Past[b]
    BY <1>2, <2>1, <2>2 DEF verify_equivocation_evidence
  <2>4. incomparable(b, c)
    BY <2>1, <2>3 DEF incomparable
  <2> QED
    BY <2>2, <2>4
<1> QED
  BY <1>1, <1>2 DEF EvidenceIn

-----------------------------------------------------------------------------
(***************************************************************************)
(* The retries.                                                            *)
(***************************************************************************)
\* Induction up to n.
LEMMA UpTo ==
    ASSUME NEW n \in Nat, NEW K, 0 \in K, \A k \in 1 .. n : k - 1 \in K => k \in K
    PROVE  \A k \in 0 .. n : k \in K
<1> DEFINE L == {k \in Nat : k <= n => k \in K}
<1>1. 0 \in L
  OBVIOUS
<1>2. ASSUME NEW k \in L PROVE k + 1 \in L
  <2> SUFFICES ASSUME k + 1 <= n PROVE k + 1 \in K
    OBVIOUS
  <2>1. k \in K /\ k + 1 \in 1 .. n /\ (k + 1) - 1 = k
    OBVIOUS
  <2> QED
    BY <2>1
<1>3. \A k \in Nat : k \in L
  <2> HIDE DEF L
  <2>1. L \in SUBSET Nat
    BY DEF L
  <2> QED
    BY <1>1, <1>2, <2>1, AllNumbers
<1> QED
  BY <1>3

\* n rounds in which each result leads to the results h gives.
Round(n, base, h, f) ==
    [k \in 0 .. n |-> IF k = 0 THEN base ELSE UNION {h[<<k, t>>] : t \in f[k - 1]}]

Rounds(n, R, base, h) ==
    n \in Nat /\ base \subseteq R /\ h \in [(1 .. n) \X R -> SUBSET R]
Computed(n, R, base, h, f) == f \in [0 .. n -> SUBSET R] /\ f = Round(n, base, h, f)

\* The results of the rounds can be computed.
LEMMA RoundsExist ==
    ASSUME NEW N, NEW R, NEW base, NEW h, Rounds(N, R, base, h)
    PROVE  \E f : Computed(N, R, base, h, f)
<1> N \in Nat /\ base \subseteq R /\ h \in [(1 .. N) \X R -> SUBSET R]
  BY DEF Rounds
<1> DEFINE next(f, k) == UNION {h[<<k, t>>] : t \in f[k - 1]}
           solved(n, f) == /\ f \in [0 .. n -> SUBSET R] /\ f[0] = base
                           /\ \A k \in 1 .. n : f[k] = next(f, k)
           K == {n \in Nat : \E f : solved(n, f)}
<1>1. 0 \in K
  <2>1. solved(0, [k \in 0 .. 0 |-> base])
    OBVIOUS
  <2> QED
    BY <2>1, Zenon
<1>2. ASSUME NEW n \in 1 .. N, n - 1 \in K PROVE n \in K
  <2>1. PICK f : solved(n - 1, f)
    BY <1>2, Zenon
  <2> DEFINE g == [k \in 0 .. n |-> IF k = n THEN next(f, n) ELSE f[k]]
  <2>2. \A k \in 0 .. n - 1 : g[k] = f[k] /\ f[k] \in SUBSET R
    BY <2>1
  <2>3. \A k \in 1 .. n : next(g, k) = next(f, k)
    <3> TAKE k \in 1 .. n
    <3>1. k - 1 \in 0 .. n - 1
      OBVIOUS
    <3>2. g[k - 1] = f[k - 1]
      BY <2>2, <3>1
    <3> HIDE DEF g
    <3> QED
      BY <3>2
  <2>4. next(f, n) \in SUBSET R
    <3>1. f[n - 1] \in SUBSET R
      <4>1. n - 1 \in 0 .. n - 1
        OBVIOUS
      <4> QED
        BY <2>2, <4>1, Zenon
    <3>2. \A t \in f[n - 1] : h[<<n, t>>] \in SUBSET R
      BY <3>1
    <3> QED
      BY <3>2, Zenon
  <2>5. g[n] = next(f, n) /\ \A k \in 1 .. n - 1 : g[k] = next(f, k)
    <3>1. g[n] = next(f, n)
      <4> HIDE DEF next
      <4> QED
        OBVIOUS
    <3>2. ASSUME NEW k \in 1 .. n - 1 PROVE k \in 0 .. n - 1 /\ f[k] = next(f, k)
      <4> HIDE DEF next
      <4> QED
        BY <2>1
    <3> HIDE DEF g, next
    <3> QED
      BY <2>2, <3>1, <3>2
  <2>6. g \in [0 .. n -> SUBSET R]
    <3>1. \A k \in 0 .. n : (IF k = n THEN next(f, n) ELSE f[k]) \in SUBSET R
      <4> TAKE k \in 0 .. n
      <4>1. k = n \/ k \in 0 .. n - 1
        OBVIOUS
      <4> HIDE DEF next
      <4> QED
        BY <2>2, <2>4, <4>1, Zenon
    <3> HIDE DEF next
    <3> QED
      BY <3>1
  <2>7. g[0] = base
    BY <2>1, <2>2
  <2>8. \A k \in 1 .. n : g[k] = next(g, k)
    <3> HIDE DEF g, next
    <3>1. \A k \in 1 .. n : k = n \/ k \in 1 .. n - 1
      OBVIOUS
    <3> QED
      BY <2>3, <2>5, <3>1
  <2>9. solved(n, g)
    BY <2>6, <2>7, <2>8, Zenon
  <2>10. n \in Nat
    OBVIOUS
  <2> HIDE DEF solved
  <2> QED
    BY <2>9, <2>10
<1>3. N \in K
  <2> HIDE DEF K
  <2> QED
    BY <1>1, <1>2, UpTo
<1>4. PICK f : solved(N, f)
  BY <1>3, Zenon
<1>5. f \in [0 .. N -> SUBSET R] /\ f = [k \in 0 .. N |-> f[k]]
  BY <1>4
<1>6. ASSUME NEW k \in 0 .. N
      PROVE  f[k] = IF k = 0 THEN base ELSE UNION {h[<<k, t>>] : t \in f[k - 1]}
  <2>1. k # 0 => k \in 1 .. N
    OBVIOUS
  <2>2. k # 0 => f[k] = next(f, k)
    <3> HIDE DEF next
    <3> QED
      BY <1>4, <2>1
  <2> QED
    BY <1>4, <2>2, Zenon
<1>7. f = Round(N, base, h, f)
  BY <1>5, <1>6, Zenon DEF Round
<1> QED
  BY <1>5, <1>7 DEF Computed

Results == [view : SUBSET Block, held : SUBSET Block, resolved : SUBSET Block,
            refused : SUBSET Block, evidence : SUBSET Claims, progress : BOOLEAN]

\* Results of a retry that began with the view V and the buffered blocks H.
Retrying(V, H) ==
    {r \in Results : /\ V \subseteq r.view /\ r.held \subseteq H
                     /\ Sound(config, r.view) /\ Proven(r.view, r.evidence, r.refused)}

\* One block of a retry keeps them so, whatever becomes of the block.
LEMMA RetryBlockKeeps ==
    ASSUME NEW V, NEW H, NEW r \in Retrying(V, H), NEW b \in Block
    PROVE  retry_block(r, b) \subseteq Retrying(V, H)
<1> DEFINE errors == validate_block(r.view, b)
           gone == [r EXCEPT !.resolved = @ \cup {b}]
<1> SUFFICES ASSUME NEW t \in retry_block(r, b) PROVE t \in Retrying(V, H)
  OBVIOUS
<1>1. /\ r \in Results /\ V \subseteq r.view /\ r.held \subseteq H
      /\ Sound(config, r.view) /\ Proven(r.view, r.evidence, r.refused)
  BY DEF Retrying
<1>2. /\ gone \in Results /\ gone.view = r.view /\ gone.held = r.held
      /\ gone.refused = r.refused /\ gone.evidence = r.evidence
  BY <1>1 DEF Results
<1>3. gone \in Retrying(V, H)
  <2> HIDE DEF gone
  <2> QED
    BY <1>1, <1>2 DEF Retrying
<1>4. \/ t = r \/ t = gone
      \/ errors = {} /\ t = [gone EXCEPT !.view = @ \cup {b}, !.progress = TRUE]
      \/ /\ "Equivocation" \in errors
         /\ \E c \in conflicts(r.view, b) :
                t = [gone EXCEPT !.refused = @ \cup {b}, !.evidence = @ \cup {proof(b, c)}]
  <2> HIDE DEF conflicts, validate_block
  <2> QED
    BY Zenon DEF retry_block
<1> HIDE DEF gone
<1>5. ASSUME errors = {}, t = [gone EXCEPT !.view = @ \cup {b}, !.progress = TRUE]
      PROVE  t \in Retrying(V, H)
  <2>1. /\ t \in Results /\ t.view = r.view \cup {b} /\ t.held = r.held
        /\ t.refused = r.refused /\ t.evidence = r.evidence
    BY <1>2, <1>5, Zenon DEF Results
  <2>2. Sound(config, t.view)
    BY <1>1, <1>5, <2>1, InsertSound
  <2>3. Proven(t.view, t.evidence, t.refused)
    BY <1>1, <2>1, ProvenKept
  <2> QED
    BY <1>1, <2>1, <2>2, <2>3 DEF Retrying
<1>6. ASSUME "Equivocation" \in errors, NEW c \in conflicts(r.view, b),
             t = [gone EXCEPT !.refused = @ \cup {b}, !.evidence = @ \cup {proof(b, c)}]
      PROVE  t \in Retrying(V, H)
  <2>1. Conflicting(r.view, b, c)
    BY <1>6, ReportedConflicts
  <2>2. r.view \in SUBSET Block /\ r.evidence \in SUBSET Claims
    BY <1>1 DEF Results
  <2>3. /\ Proven(r.view, r.evidence \cup {proof(b, c)}, r.refused \cup {b})
        /\ r.evidence \cup {proof(b, c)} \in SUBSET Claims
    BY <1>1, <2>1, <2>2, ProvenRecords, Zenon
  <2> DEFINE claim == proof(b, c)
  <2> HIDE DEF claim
  <2>4. t = [gone EXCEPT !.refused = @ \cup {b}, !.evidence = @ \cup {claim}]
    BY <1>6 DEF claim
  <2>5. r.evidence \cup {claim} \in SUBSET Claims
    BY <2>3 DEF claim
  <2>6. /\ t \in Results /\ t.view = r.view /\ t.held = r.held
        /\ t.refused = r.refused \cup {b} /\ t.evidence = r.evidence \cup {claim}
    BY <1>2, <2>4, <2>5, Zenon DEF Results
  <2>7. Proven(t.view, t.evidence, t.refused)
    BY <2>3, <2>6 DEF claim
  <2> QED
    BY <1>1, <2>6, <2>7, Zenon DEF Retrying
<1> QED
  BY <1>3, <1>4, <1>5, <1>6, Zenon

\* The order of the identities is total.
LEMMA IdentityOrders ==
    ASSUME NEW S \in SUBSET Block
    PROVE  Orders(by_identity(S), S)
<1>1. \A a, b \in S : <<a, b>> \in by_identity(S) <=> Key[a] < Key[b]
  BY DEF by_identity
<1>2. /\ \A a \in S : Key[a] \in Nat
      /\ \A a, b \in S : Key[a] = Key[b] => a = b
  BY DisseminationAssumption
<1> QED
  BY <1>1, <1>2 DEF Orders

\* Blocks are finitely many.
LEMMA FiniteBlocks ==
    ASSUME NEW S \in SUBSET Block
    PROVE  IsFiniteSet(S) /\ Cardinality(S) \in Nat
BY DisseminationAssumption, FS_Subset, FS_CardinalityType

\* So does a pass over the buffer.
LEMMA RetryPassKeeps ==
    ASSUME NEW V, NEW H, NEW r \in Retrying(V, H)
    PROVE  retry_pass(r) \subseteq Retrying(V, H)
<1> DEFINE order == sorted(r.held, by_identity(r.held))
           n == Len(order)
           R == Retrying(V, H)
           base == {[r EXCEPT !.progress = FALSE]}
           F(f) == [k \in 0 .. n |-> IF k = 0 THEN base
                                     ELSE UNION {retry_block(t, order[k]) : t \in f[k - 1]}]
           s == CHOOSE f : f = F(f)
           h == [p \in (1 .. n) \X R |-> retry_block(p[2], order[p[1]])]
<1>1. r \in Results /\ r.held \in SUBSET Block
  BY DEF Retrying, Results
<1>2. n \in Nat /\ \A k \in 1 .. n : order[k] \in Block
  <2>1. IsFiniteSet(r.held) /\ Orders(by_identity(r.held), r.held)
    BY <1>1, IdentityOrders, FiniteBlocks
  <2>2. order \in Seq(r.held)
    BY <2>1, SortedIs, Zenon
  <2> HIDE DEF order
  <2> QED
    BY <1>1, <2>2
<1>3. base \in SUBSET R
  <2> DEFINE t == [r EXCEPT !.progress = FALSE]
  <2>1. /\ t \in Results /\ t.view = r.view /\ t.held = r.held
        /\ t.refused = r.refused /\ t.evidence = r.evidence
    BY <1>1, Zenon DEF Results
  <2>2. t \in R
    <3> HIDE DEF t
    <3> QED
      BY <2>1 DEF Retrying
  <2> QED
    BY <2>2
<1> HIDE DEF order, n, base
<1>4. \A k \in 1 .. n : \A t \in R : retry_block(t, order[k]) \in SUBSET R
  BY <1>2, RetryBlockKeeps
<1>5. h \in [(1 .. n) \X R -> SUBSET R] /\ \A k \in 1 .. n : \A t \in R : h[<<k, t>>] = retry_block(t, order[k])
  <2> HIDE DEF R
  <2> QED
    BY <1>4
<1> HIDE DEF h, R
<1>6. PICK f : f \in [0 .. n -> SUBSET R] /\ f = Round(n, base, h, f)
  <2>1. Rounds(n, R, base, h)
    BY <1>2, <1>3, <1>5 DEF Rounds
  <2>2. PICK f : Computed(n, R, base, h, f)
    BY <2>1, RoundsExist, Zenon
  <2> QED
    BY <2>2 DEF Computed
<1>7. f = F(f)
  <2>1. ASSUME NEW k \in 0 .. n, k # 0
        PROVE  {h[<<k, t>>] : t \in f[k - 1]} = {retry_block(t, order[k]) : t \in f[k - 1]}
    <3>1. k \in 1 .. n /\ f[k - 1] \in SUBSET R
      <4>1. k \in 1 .. n /\ k - 1 \in 0 .. n
        BY <1>2, <2>1
      <4> QED
        BY <1>6, <4>1, Zenon
    <3> QED
      BY <1>5, <3>1, Zenon
  <2>2. Round(n, base, h, f) = F(f)
    BY <2>1, Zenon DEF Round
  <2> QED
    BY <1>6, <2>2
<1>8. s = F(s)
  <2> HIDE DEF F
  <2> QED
    BY <1>7, Zenon
<1> HIDE DEF s
<1>9. s[n] \subseteq R
  <2> DEFINE K == {k \in 0 .. n : s[k] \subseteq R}
  <2>1. 0 \in K
    <3>1. 0 \in 0 .. n
      BY <1>2
    <3>2. s[0] = base
      BY <1>8, <3>1
    <3> QED
      BY <1>3, <3>1, <3>2
  <2>2. ASSUME NEW k \in 1 .. n, k - 1 \in K PROVE k \in K
    <3>1. k \in 0 .. n /\ k # 0
      BY <1>2
    <3>2. s[k] = UNION {retry_block(t, order[k]) : t \in s[k - 1]}
      BY <1>8, <3>1, Zenon
    <3>3. \A t \in s[k - 1] : retry_block(t, order[k]) \subseteq R
      BY <1>4, <2>2
    <3> QED
      BY <3>1, <3>2, <3>3
  <2> HIDE DEF K
  <2>3. n \in K
    <3>1. n \in Nat /\ n \in 0 .. n
      BY <1>2
    <3>2. \A k \in 0 .. n : k \in K
      BY <2>1, <2>2, <3>1, UpTo, Zenon
    <3> QED
      BY <3>1, <3>2, Zenon
  <2> QED
    BY <2>3 DEF K
<1>10. ASSUME NEW t \in s[n] PROVE [t EXCEPT !.held = @ \ t.resolved] \in R
  <2> DEFINE u == [t EXCEPT !.held = @ \ t.resolved]
  <2>1. t \in R
    BY <1>9
  <2>2. t \in Results
    BY <2>1 DEF R, Retrying
  <2>3. /\ u \in Results /\ u.view = t.view /\ u.held \subseteq t.held
        /\ u.refused = t.refused /\ u.evidence = t.evidence
    BY <2>2 DEF Results
  <2> HIDE DEF u
  <2>4. u \in R
    BY <2>1, <2>3 DEF R, Retrying
  <2> QED
    BY <2>4 DEF u
<1>11. retry_pass(r) = IF r.progress THEN {[t EXCEPT !.held = @ \ t.resolved] : t \in s[n]} ELSE {r}
  BY DEF retry_pass, s, order, n, base
<1>12. r \in R
  BY DEF R
<1>13. retry_pass(r) \subseteq R
  <2>1. CASE r.progress
    BY <1>10, <1>11, <2>1
  <2>2. CASE ~ r.progress
    BY <1>11, <1>12, <2>2
  <2> QED
    BY <2>1, <2>2
<1> QED
  BY <1>13 DEF R

\* And so do all the passes.
LEMMA RetryAllKeeps ==
    ASSUME pending \in Seq(Block), before_retry \in Retrying(view, held)
    PROVE  retry_all \subseteq Retrying(view, held)
<1> DEFINE n == Len(pending)
           R == Retrying(view, held)
           base == {before_retry}
           F(f) == [k \in 0 .. n |-> IF k = 0 THEN base
                                     ELSE UNION {retry_pass(t) : t \in f[k - 1]}]
           s == CHOOSE f : f = F(f)
           h == [p \in (1 .. n) \X R |-> retry_pass(p[2])]
<1>1. n \in Nat /\ base \in SUBSET R
  OBVIOUS
<1>2. \A t \in R : retry_pass(t) \in SUBSET R
  BY RetryPassKeeps
<1>3. retry_all = s[n]
  BY DEF retry_all
<1> HIDE DEF n, base
<1>4. h \in [(1 .. n) \X R -> SUBSET R] /\ \A k \in 1 .. n : \A t \in R : h[<<k, t>>] = retry_pass(t)
  <2> HIDE DEF R
  <2> QED
    BY <1>2
<1> HIDE DEF h, R
<1>5. PICK f : f \in [0 .. n -> SUBSET R] /\ f = Round(n, base, h, f)
  <2>1. Rounds(n, R, base, h)
    BY <1>1, <1>4 DEF Rounds
  <2>2. PICK f : Computed(n, R, base, h, f)
    BY <2>1, RoundsExist, Zenon
  <2> QED
    BY <2>2 DEF Computed
<1>6. f = F(f)
  <2>1. ASSUME NEW k \in 0 .. n, k # 0
        PROVE  {h[<<k, t>>] : t \in f[k - 1]} = {retry_pass(t) : t \in f[k - 1]}
    <3>1. k \in 1 .. n /\ f[k - 1] \in SUBSET R
      <4>1. k \in 1 .. n /\ k - 1 \in 0 .. n
        BY <1>1, <2>1
      <4> QED
        BY <1>5, <4>1, Zenon
    <3> QED
      BY <1>4, <3>1, Zenon
  <2>2. Round(n, base, h, f) = F(f)
    BY <2>1, Zenon DEF Round
  <2> QED
    BY <1>5, <2>2
<1>7. s = F(s)
  <2> HIDE DEF F
  <2> QED
    BY <1>6, Zenon
<1> HIDE DEF s
<1>8. s[n] \subseteq R
  <2> DEFINE K == {k \in 0 .. n : s[k] \subseteq R}
  <2>1. 0 \in K
    <3>1. 0 \in 0 .. n
      BY <1>1
    <3>2. s[0] = base
      BY <1>7, <3>1
    <3> QED
      BY <1>1, <3>1, <3>2
  <2>2. ASSUME NEW k \in 1 .. n, k - 1 \in K PROVE k \in K
    <3>1. k \in 0 .. n /\ k # 0
      BY <1>1
    <3>2. s[k] = UNION {retry_pass(t) : t \in s[k - 1]}
      BY <1>7, <3>1, Zenon
    <3>3. \A t \in s[k - 1] : retry_pass(t) \subseteq R
      BY <1>2, <2>2
    <3> QED
      BY <3>1, <3>2, <3>3
  <2> HIDE DEF K
  <2>3. n \in K
    <3>1. n \in Nat /\ n \in 0 .. n
      BY <1>1
    <3>2. \A k \in 0 .. n : k \in K
      BY <2>1, <2>2, <3>1, UpTo, Zenon
    <3> QED
      BY <3>1, <3>2, Zenon
  <2> QED
    BY <2>3 DEF K
<1> QED
  BY <1>3, <1>8 DEF R

-----------------------------------------------------------------------------
(***************************************************************************)
(* The buffer.                                                             *)
(***************************************************************************)
Listed(P) == {P[i] : i \in DOMAIN P}

\* A buffer that keeps the policy of C: P lists it, M is what its blocks miss
\* of the view V, and T counts their retries.
Buffered(C, V, P, M, T) ==
    /\ P \in Seq(Block) /\ IsInjective(P) /\ Len(P) <= C.max_entries
    /\ \A b \in Listed(P) :
          /\ Cardinality(blocks_by(Listed(P), Creator[b])) <= C.max_entries_per_creator
          /\ T[b] <= C.max_retry_passes
          /\ Preds[b] \ known(V) \subseteq M[b] /\ M[b] \subseteq Preds[b]

\* A view that grows leaves less missing.
LEMMA BufferedKept ==
    ASSUME NEW C, NEW V, NEW W, V \subseteq W, NEW P, NEW M, NEW T, Buffered(C, V, P, M, T)
    PROVE  Buffered(C, W, P, M, T)
<1>1. known(V) \subseteq known(W)
  BY DEF known
<1> QED
  BY <1>1 DEF Buffered

\* A list of different blocks with another one at its end.
LEMMA AppendLists ==
    ASSUME NEW P \in Seq(Block), IsInjective(P), NEW b \in Block, b \notin Listed(P)
    PROVE  /\ Append(P, b) \in Seq(Block) /\ IsInjective(Append(P, b))
           /\ Len(Append(P, b)) = Len(P) + 1 /\ Listed(Append(P, b)) = Listed(P) \cup {b}
<1> DEFINE Q == Append(P, b)
           n == Len(P)
<1>1. /\ n \in Nat /\ DOMAIN P = 1 .. n /\ Q \in Seq(Block) /\ Len(Q) = n + 1 /\ DOMAIN Q = 1 .. n + 1
      /\ \A i \in 1 .. n : Q[i] = P[i]
      /\ Q[n + 1] = b
  OBVIOUS
<1> HIDE DEF Q, n
<1>2. \A i \in 1 .. n : P[i] # b
  BY <1>1 DEF Listed
<1>3. \A i, j \in 1 .. n : P[i] = P[j] => i = j
  BY <1>1 DEF IsInjective
<1>4. \A i \in 1 .. n + 1 : i \in 1 .. n \/ i = n + 1
  BY <1>1
<1>5. IsInjective(Q)
  BY <1>1, <1>2, <1>3, <1>4 DEF IsInjective
<1>6. Listed(Q) = Listed(P) \cup {b}
  <2>1. Listed(Q) \subseteq Listed(P) \cup {b}
    BY <1>1, <1>4 DEF Listed
  <2>2. \A i \in 1 .. n : i \in 1 .. n + 1
    BY <1>1
  <2>3. n + 1 \in 1 .. n + 1
    BY <1>1
  <2>4. Listed(P) \cup {b} \subseteq Listed(Q)
    BY <1>1, <2>2, <2>3 DEF Listed
  <2> QED
    BY <2>1, <2>4
<1> QED
  BY <1>1, <1>5, <1>6 DEF Q, n

\* A list of different blocks without the first.
LEMMA TailLists ==
    ASSUME NEW P \in Seq(Block), IsInjective(P), P # <<>>
    PROVE  /\ Tail(P) \in Seq(Block) /\ IsInjective(Tail(P)) /\ Len(Tail(P)) = Len(P) - 1
           /\ Listed(Tail(P)) \subseteq Listed(P) /\ Head(P) \notin Listed(Tail(P))
<1> DEFINE Q == Tail(P)
           n == Len(P)
<1>1. /\ n \in Nat /\ n # 0 /\ DOMAIN P = 1 .. n /\ Q \in Seq(Block) /\ Len(Q) = n - 1
      /\ DOMAIN Q = 1 .. n - 1 /\ Head(P) = P[1]
      /\ \A i \in 1 .. n - 1 : Q[i] = P[i + 1]
  OBVIOUS
<1> HIDE DEF Q, n
<1>2. \A i, j \in 1 .. n : P[i] = P[j] => i = j
  BY <1>1 DEF IsInjective
<1>3. \A i \in 1 .. n - 1 : i + 1 \in 1 .. n /\ i + 1 # 1
  BY <1>1
<1>4. IsInjective(Q)
  <2> SUFFICES ASSUME NEW i \in 1 .. n - 1, NEW j \in 1 .. n - 1, Q[i] = Q[j] PROVE i = j
    BY <1>1 DEF IsInjective
  <2>1. i + 1 = j + 1
    BY <1>1, <1>2, <1>3
  <2> QED
    BY <1>1, <2>1
<1>5. Listed(Q) \subseteq Listed(P)
  BY <1>1, <1>3, Zenon DEF Listed
<1>6. P[1] \notin Listed(Q)
  <2> SUFFICES ASSUME NEW i \in 1 .. n - 1, Q[i] = P[1] PROVE FALSE
    BY <1>1 DEF Listed
  <2>1. 1 \in 1 .. n
    BY <1>1
  <2> QED
    BY <1>1, <1>2, <1>3, <2>1
<1> QED
  BY <1>1, <1>4, <1>5, <1>6 DEF Q, n

\* The order of arrival is total.
LEMMA ArrivalOrders ==
    ASSUME pending \in Seq(Block), IsInjective(pending), NEW S \in SUBSET held
    PROVE  Orders(by_arrival, S)
<1> DEFINE n == Len(pending)
<1>1. DOMAIN pending = 1 .. n /\ n \in Nat
  OBVIOUS
<1>2. \A i, j \in 1 .. n : pending[i] = pending[j] => i = j
  BY <1>1 DEF IsInjective
<1>3. \A x \in S : \E i \in 1 .. n : x = pending[i]
  BY <1>1 DEF held
<1> HIDE DEF n
<1>4. \A i, j \in 1 .. n : <<pending[i], pending[j]>> \in by_arrival <=> i < j
  <2> TAKE i, j \in 1 .. n
  <2>1. pending[i] \in held /\ pending[j] \in held
    BY <1>1 DEF held
  <2>2. <<pending[i], pending[j]>> \in by_arrival <=>
            \E k, l \in 1 .. n : k < l /\ pending[i] = pending[k] /\ pending[j] = pending[l]
    BY <1>1, <2>1 DEF by_arrival
  <2> QED
    BY <1>2, <2>2
<1>5. ASSUME NEW a \in S PROVE ~ (<<a, a>> \in by_arrival)
  <2>1. PICK i \in 1 .. n : a = pending[i]
    BY <1>3
  <2> QED
    BY <1>1, <1>4, <2>1
<1>6. ASSUME NEW a \in S, NEW b \in S PROVE a = b \/ <<a, b>> \in by_arrival \/ <<b, a>> \in by_arrival
  <2>1. PICK i \in 1 .. n : a = pending[i]
    BY <1>3
  <2>2. PICK j \in 1 .. n : b = pending[j]
    BY <1>3
  <2>3. i = j \/ i < j \/ j < i
    BY <1>1
  <2> QED
    BY <1>4, <2>1, <2>2, <2>3
<1>7. ASSUME NEW a \in S, NEW b \in S, NEW c \in S, <<a, b>> \in by_arrival, <<b, c>> \in by_arrival
      PROVE  <<a, c>> \in by_arrival
  <2>1. PICK i \in 1 .. n : a = pending[i]
    BY <1>3
  <2>2. PICK j \in 1 .. n : b = pending[j]
    BY <1>3
  <2>3. PICK k \in 1 .. n : c = pending[k]
    BY <1>3
  <2>4. i < j /\ j < k
    BY <1>4, <1>7, <2>1, <2>2, <2>3
  <2>5. i < k
    BY <1>1, <2>4
  <2> QED
    BY <1>4, <2>1, <2>3, <2>5
<1> QED
  BY <1>5, <1>6, <1>7, Zenon DEF Orders

\* No creator has more than q of the blocks H.
Within(H, q) == \A x \in H : Cardinality(blocks_by(H, Creator[x])) <= q

\* An entry more of one creator stays within its quota, and within the others'.
LEMMA QuotaKept ==
    ASSUME NEW H \in SUBSET Block, NEW L \in SUBSET H, NEW b \in Block, NEW q \in Nat,
           Within(H, q), Cardinality(blocks_by(H, Creator[b])) < q
    PROVE  Within(L \cup {b}, q)
<1> SUFFICES ASSUME NEW x \in L \cup {b}
             PROVE  Cardinality(blocks_by(L \cup {b}, Creator[x])) <= q
  BY DEF Within
<1> DEFINE X == blocks_by(L \cup {b}, Creator[x])
           Y == blocks_by(H, Creator[x])
<1>1. Y \in SUBSET Block /\ X \in SUBSET Block
  BY DEF blocks_by
<1>2. IsFiniteSet(Y) /\ Cardinality(Y) \in Nat /\ Cardinality(X) \in Nat
  BY <1>1, FiniteBlocks, Zenon
<1>3. CASE Creator[x] = Creator[b]
  <2>1. X \subseteq Y \cup {b}
    BY DEF blocks_by
  <2>2. Cardinality(Y) < q
    BY <1>3
  <2> HIDE DEF X, Y
  <2>3. IsFiniteSet(Y \cup {b}) /\ Cardinality(Y \cup {b}) <= Cardinality(Y) + 1
    BY <1>2, FS_AddElement
  <2>4. Cardinality(X) <= Cardinality(Y \cup {b}) /\ Cardinality(Y \cup {b}) \in Nat
    BY <2>1, <2>3, FS_Subset, FS_CardinalityType
  <2> QED
    BY <1>2, <2>2, <2>3, <2>4 DEF X
<1>4. CASE Creator[x] # Creator[b]
  <2>1. X \subseteq Y /\ x \in H
    BY <1>4 DEF blocks_by
  <2>2. Cardinality(Y) <= q
    BY <2>1 DEF Within
  <2> HIDE DEF X, Y
  <2>3. Cardinality(X) <= Cardinality(Y)
    BY <1>2, <2>1, FS_Subset
  <2> QED
    BY <1>2, <2>2, <2>3 DEF X
<1> QED
  BY <1>3, <1>4

\* Fewer entries stay within the quotas.
LEMMA QuotaFewer ==
    ASSUME NEW H \in SUBSET Block, NEW L \in SUBSET H, NEW q \in Nat, Within(H, q)
    PROVE  Within(L, q)
<1> SUFFICES ASSUME NEW x \in L PROVE Cardinality(blocks_by(L, Creator[x])) <= q
  BY DEF Within
<1> DEFINE X == blocks_by(L, Creator[x])
           Y == blocks_by(H, Creator[x])
<1>1. Y \in SUBSET Block /\ X \in SUBSET Block /\ X \subseteq Y /\ Cardinality(Y) <= q
  BY DEF blocks_by, Within
<1> HIDE DEF X, Y
<1>2. IsFiniteSet(Y) /\ Cardinality(Y) \in Nat /\ Cardinality(X) \in Nat
  BY <1>1, FiniteBlocks
<1>3. Cardinality(X) <= Cardinality(Y)
  BY <1>1, <1>2, FS_Subset
<1> QED
  BY <1>1, <1>2, <1>3 DEF X

\* buffer_block keeps the policy: a refreshed entry, a new one, or a new one
\* in the place of the oldest.
LEMMA BufferBlockKeeps ==
    ASSUME config \in Configs, Buffered(config, view, pending, missing, passes),
           NEW b \in Block, buffer_block(b)
    PROVE  Buffered(config, view, pending', missing', passes')
<1> DEFINE admit == /\ config.max_entries > 0 /\ b \notin held
                    /\ Cardinality(blocks_by(held, Creator[b])) < config.max_entries_per_creator
           full == Len(pending) >= config.max_entries
           Q == IF full THEN Tail(pending) ELSE pending
<1>1. Listed(pending) = held
  BY DEF held, Listed
<1>2. /\ pending' = IF ~ admit THEN pending ELSE Append(Q, b)
      /\ missing' = [c \in Block |->
             CASE c = b /\ (admit \/ b \in held) -> Preds[b] \ known(view)
               [] admit /\ full /\ c = Head(pending) -> {}
               [] OTHER -> missing[c]]
      /\ passes' = [c \in Block |->
             IF admit /\ (c = b \/ (full /\ c = Head(pending))) THEN 0 ELSE passes[c]]
  BY Zenon DEF buffer_block
<1>3. /\ config.max_entries \in Nat /\ config.max_entries_per_creator \in Nat
      /\ config.max_retry_passes \in Nat
  BY DisseminationAssumption
<1>4. pending \in Seq(Block) /\ IsInjective(pending) /\ Len(pending) <= config.max_entries
  BY DEF Buffered
<1>5. held \in SUBSET Block
  BY <1>4 DEF held
<1>6. \A x \in held : /\ Cardinality(blocks_by(held, Creator[x])) <= config.max_entries_per_creator
                   /\ passes[x] <= config.max_retry_passes
                   /\ Preds[x] \ known(view) \subseteq missing[x] /\ missing[x] \subseteq Preds[x]
  BY <1>1 DEF Buffered
<1> HIDE DEF admit, full, Q
<1>7. CASE ~ admit
  <2>1. pending' = pending
    BY <1>2, <1>7
  <2>2. \A x \in held : passes'[x] = passes[x]
    BY <1>2, <1>5, <1>7
  <2>3. \A x \in held : missing'[x] = missing[x] \/ missing'[x] = Preds[x] \ known(view)
    BY <1>2, <1>5, <1>7
  <2>4. \A x \in held : Preds[x] \ known(view) \subseteq missing'[x] /\ missing'[x] \subseteq Preds[x]
    BY <1>6, <2>3
  <2> QED
    BY <1>1, <1>4, <1>6, <2>1, <2>2, <2>4 DEF Buffered
<1>8. CASE admit
  <2>1. b \notin held
    BY <1>8 DEF admit
  <2>2. /\ Q \in Seq(Block) /\ IsInjective(Q) /\ Listed(Q) \subseteq held
        /\ Len(Q) + 1 <= config.max_entries
        /\ full => Head(pending) \notin Listed(Q) /\ Head(pending) # b
    <3>1. CASE full
      <4>1. pending # <<>> /\ Len(pending) = config.max_entries /\ Q = Tail(pending)
        BY <1>3, <1>4, <1>8, <3>1 DEF admit, full, Q
      <4>2. /\ Q \in Seq(Block) /\ IsInjective(Q) /\ Len(Q) = Len(pending) - 1
            /\ Listed(Q) \subseteq held /\ Head(pending) \notin Listed(Q)
        BY <1>1, <1>4, <4>1, TailLists
      <4>3. Head(pending) \in held
        <5>1. Head(pending) = pending[1] /\ 1 \in DOMAIN pending
          BY <1>4, <4>1
        <5> QED
          BY <5>1 DEF held
      <4> QED
        BY <1>3, <2>1, <4>1, <4>2, <4>3
    <3>2. CASE ~ full
      <4>1. Q = pending /\ Len(pending) \in Nat
        BY <1>4, <3>2 DEF Q
      <4> QED
        BY <1>1, <1>3, <1>4, <3>2, <4>1 DEF full
    <3> QED
      BY <3>1, <3>2
  <2>3. pending' = Append(Q, b)
    BY <1>2, <1>8
  <2>4. /\ pending' \in Seq(Block) /\ IsInjective(pending') /\ Len(pending') = Len(Q) + 1
        /\ Listed(pending') = Listed(Q) \cup {b}
    BY <2>1, <2>2, <2>3, AppendLists
  <2>5. Within(Listed(Q) \cup {b}, config.max_entries_per_creator)
    <3>1. Cardinality(blocks_by(held, Creator[b])) < config.max_entries_per_creator
      BY <1>8 DEF admit
    <3>2. Listed(Q) \in SUBSET held
      BY <2>2
    <3>3. Within(held, config.max_entries_per_creator)
      BY <1>6 DEF Within
    <3> QED
      BY <1>3, <1>5, <3>1, <3>2, <3>3, QuotaKept, Zenon
  <2>6. passes'[b] = 0 /\ missing'[b] = Preds[b] \ known(view)
    BY <1>2, <1>8, <2>2
  <2>7. ASSUME NEW x \in Listed(Q) PROVE x \in held /\ passes'[x] = passes[x] /\ missing'[x] = missing[x]
    <3>1. x \in held /\ x \in Block /\ x # b /\ (full => x # Head(pending))
      BY <1>5, <2>1, <2>2
    <3> QED
      BY <1>2, <1>8, <3>1
  <2>8. \A x \in Listed(Q) \cup {b} :
            /\ passes'[x] <= config.max_retry_passes
            /\ Preds[x] \ known(view) \subseteq missing'[x] /\ missing'[x] \subseteq Preds[x]
    BY <1>3, <1>6, <2>6, <2>7
  <2>9. Len(pending') <= config.max_entries
    BY <2>2, <2>4
  <2> QED
    BY <2>4, <2>5, <2>8, <2>9, Zenon DEF Buffered, Within
<1> QED
  BY <1>7, <1>8

\* A retry leaves a part of the buffer, in the order of arrival.
LEMMA RetryLists ==
    ASSUME pending \in Seq(Block), IsInjective(pending), NEW S \in SUBSET held
    PROVE  /\ sorted(S, by_arrival) \in Seq(Block) /\ IsInjective(sorted(S, by_arrival))
           /\ Listed(sorted(S, by_arrival)) = S /\ Len(sorted(S, by_arrival)) <= Len(pending)
<1> DEFINE P == sorted(S, by_arrival)
           n == Cardinality(S)
<1>1. held \in SUBSET Block
  BY DEF held
<1>2. IsFiniteSet(held) /\ IsFiniteSet(S) /\ n \in Nat /\ Orders(by_arrival, S)
  BY <1>1, FiniteBlocks, ArrivalOrders
<1>3. /\ P \in Seq(S) /\ Len(P) = n /\ DOMAIN P = 1 .. n
      /\ \A x \in S : \E i \in 1 .. n : P[i] = x
      /\ \A i, j \in 1 .. n : (<<P[i], P[j]>> \in by_arrival) <=> i < j
  BY <1>2, SortedIs
<1> HIDE DEF P, n
<1>4. \A i \in 1 .. n : P[i] \in S
  BY <1>3
<1>5. IsInjective(P)
  <2> SUFFICES ASSUME NEW i \in 1 .. n, NEW j \in 1 .. n, P[i] = P[j] PROVE i = j
    BY <1>3 DEF IsInjective
  <2>1. ~ (<<P[i], P[i]>> \in by_arrival)
    BY <1>2, <1>4, Zenon DEF Orders
  <2>2. ~ (i < j) /\ ~ (j < i)
    BY <1>3, <2>1
  <2> QED
    BY <1>2, <2>2
<1>6. Listed(P) = S
  BY <1>3, <1>4 DEF Listed
<1>7. P \in Seq(Block)
  <2>1. S \subseteq Block
    BY <1>1
  <2> QED
    BY <1>3, <2>1
<1>8. n <= Len(pending)
  <2>1. n <= Cardinality(held) /\ Cardinality(held) \in Nat
    BY <1>1, <1>2, FS_Subset, FiniteBlocks DEF n
  <2>2. pending \in Surjection(1 .. Len(pending), held)
    BY DEF Surjection, held
  <2>3. IsFiniteSet(1 .. Len(pending)) /\ Cardinality(1 .. Len(pending)) = Len(pending)
    <3>1. Len(pending) \in Nat
      OBVIOUS
    <3> QED
      BY <3>1, FS_Interval
  <2>4. Cardinality(held) <= Len(pending)
    BY <2>2, <2>3, FS_Surjection
  <2> QED
    BY <1>2, <2>1, <2>4
<1> QED
  BY <1>3, <1>5, <1>6, <1>7, <1>8 DEF P

-----------------------------------------------------------------------------
(***************************************************************************)
(* The inductive invariant: what ViewSound says, and a record for every    *)
(* refused block whose parts stay in the view.                             *)
(***************************************************************************)
Typed ==
    /\ config \in Configs /\ inflight \subseteq Block /\ spare \subseteq Block
    /\ refused \subseteq Block /\ retried \in BOOLEAN
    /\ evidence \subseteq Claims /\ passes \in [Block -> Nat]

DissInv ==
    /\ Typed
    /\ Buffered(config, view, pending, missing, passes)
    /\ Sound(config, view)
    /\ Proven(view, evidence, refused)

\* An empty node is sound.
LEMMA InitSound == Init => DissInv
<1> SUFFICES ASSUME Init PROVE DissInv
  OBVIOUS
<1>1. config \in Configs /\ config.max_entries \in Nat /\ config.sent \subseteq Block /\ config.twice \subseteq Block
  BY DisseminationAssumption DEF Init
<1>2. Typed
  BY <1>1 DEF Init, Typed
<1>3. Listed(pending) = {} /\ pending \in Seq(Block) /\ Len(pending) = 0 /\ IsInjective(pending)
  BY DEF Init, Listed, IsInjective
<1>4. Buffered(config, view, pending, missing, passes)
  BY <1>1, <1>3 DEF Buffered
<1>5. Sound(config, view) /\ Proven(view, evidence, refused)
  BY DEF Init, Sound, Proven
<1> QED
  BY <1>2, <1>4, <1>5 DEF DissInv

\* A block that arrives: it is inserted, buffered or refused.
LEMMA ReceiveKeeps ==
    ASSUME DissInv, NEW b \in Block, receive_block(b)
    PROVE  /\ config' = config /\ refused' \subseteq Block /\ evidence' \subseteq Claims
           /\ passes' \in [Block -> Nat]
           /\ Buffered(config, view', pending', missing', passes')
           /\ Sound(config, view') /\ Proven(view', evidence', refused')
<1>1. /\ config \in Configs /\ refused \subseteq Block /\ evidence \subseteq Claims
      /\ passes \in [Block -> Nat] /\ Buffered(config, view, pending, missing, passes)
      /\ Sound(config, view) /\ Proven(view, evidence, refused)
  BY DEF DissInv, Typed
<1>2. CASE insert_block(b)
  <2>1. /\ validate_block(view, b) = {} /\ view' = view \cup {b} /\ config' = config
        /\ pending' = pending /\ missing' = missing /\ passes' = passes
        /\ evidence' = evidence /\ refused' = refused
    BY <1>2 DEF insert_block
  <2>2. Sound(config, view')
    BY <1>1, <2>1, InsertSound
  <2>3. Buffered(config, view', pending, missing, passes)
    BY <1>1, <2>1, BufferedKept
  <2>4. Proven(view', evidence, refused)
    BY <1>1, <2>1, ProvenKept
  <2> QED
    BY <1>1, <2>1, <2>2, <2>3, <2>4
<1>3. CASE buffer_block(b)
  <2>1. config' = config /\ view' = view /\ evidence' = evidence /\ refused' = refused
    BY <1>3 DEF buffer_block
  <2>2. Buffered(config, view, pending', missing', passes')
    BY <1>1, <1>3, BufferBlockKeeps
  <2>3. passes' \in [Block -> Nat]
    <3>1. \E S : passes' = [c \in Block |-> IF c \in S THEN 0 ELSE passes[c]]
      <4> DEFINE admit == /\ config.max_entries > 0 /\ b \notin held
                          /\ Cardinality(blocks_by(held, Creator[b])) < config.max_entries_per_creator
                 full == Len(pending) >= config.max_entries
                 S == {c \in Block : admit /\ (c = b \/ (full /\ c = Head(pending)))}
      <4>1. passes' = [c \in Block |->
                IF admit /\ (c = b \/ (full /\ c = Head(pending))) THEN 0 ELSE passes[c]]
        BY <1>3, Zenon DEF buffer_block
      <4> HIDE DEF admit, full
      <4>2. passes' = [c \in Block |-> IF c \in S THEN 0 ELSE passes[c]]
        BY <4>1
      <4> QED
        BY <4>2, Zenon
    <3> QED
      BY <1>1, <3>1
  <2> QED
    BY <1>1, <2>1, <2>2, <2>3
<1>4. CASE reject_block(b)
  <2>1. /\ config' = config /\ view' = view /\ pending' = pending
        /\ missing' = missing /\ passes' = passes
    BY <1>4 DEF reject_block
  <2>2. CASE "Equivocation" \in validate_block(view, b)
    <3>1. PICK c \in conflicts(view, b) : evidence' = evidence \cup {proof(b, c)}
      BY <1>4, <2>2 DEF reject_block
    <3>2. refused' = refused \cup {b}
      BY <1>4, <2>2 DEF reject_block
    <3>3. Conflicting(view, b, c) /\ view \in SUBSET Block
      BY <1>1, <2>2, ReportedConflicts DEF Sound
    <3>4. Proven(view, evidence', refused') /\ evidence' \in SUBSET Claims
      BY <1>1, <3>1, <3>2, <3>3, ProvenRecords, Zenon
    <3> QED
      BY <1>1, <2>1, <3>2, <3>4
  <2>3. CASE ~ ("Equivocation" \in validate_block(view, b))
    <3>1. refused' = refused /\ evidence' = evidence
      BY <1>4, <2>3 DEF reject_block
    <3> QED
      BY <1>1, <2>1, <3>1
  <2> QED
    BY <2>2, <2>3
<1> QED
  BY <1>2, <1>3, <1>4 DEF receive_block

\* The buffer is retried, in as many passes as it takes.
LEMMA RetryKeeps ==
    ASSUME DissInv, retry_buffered_blocks
    PROVE  DissInv' /\ view \subseteq view'
<1>1. /\ config \in Configs /\ inflight \subseteq Block /\ spare \subseteq Block
      /\ refused \subseteq Block /\ evidence \subseteq Claims
      /\ passes \in [Block -> Nat] /\ Buffered(config, view, pending, missing, passes)
      /\ Sound(config, view) /\ Proven(view, evidence, refused)
  BY DEF DissInv, Typed
<1>2. /\ pending \in Seq(Block) /\ IsInjective(pending) /\ Len(pending) <= config.max_entries
      /\ Listed(pending) = held /\ held \in SUBSET Block /\ view \in SUBSET Block
  BY <1>1 DEF Buffered, Listed, held, Sound
<1>3. before_retry \in Retrying(view, held)
  <2> DEFINE r == before_retry
  <2>1. /\ r.view = view /\ r.held = held /\ r.refused = refused /\ r.evidence = evidence
        /\ r \in Results
    BY <1>1, <1>2 DEF before_retry, Results
  <2> HIDE DEF r
  <2>2. r \in Retrying(view, held)
    BY <1>1, <2>1, Zenon DEF Retrying
  <2> QED
    BY <2>2 DEF r
<1>4. retry_all \subseteq Retrying(view, held)
  BY <1>2, <1>3, RetryAllKeeps
<1>5. PICK r \in retry_all :
          LET stays == {b \in r.held : passes[b] < config.max_retry_passes}
          IN  /\ view' = r.view
              /\ pending' = sorted(stays, by_arrival)
              /\ missing' = [b \in Block |-> IF b \in stays THEN missing[b] \ known(view) ELSE {}]
              /\ passes' = [b \in Block |-> IF b \in stays THEN passes[b] + 1 ELSE 0]
              /\ refused' = r.refused /\ evidence' = r.evidence
  BY Zenon DEF retry_buffered_blocks
<1> DEFINE S == {b \in r.held : passes[b] < config.max_retry_passes}
<1>6. /\ view' = r.view /\ pending' = sorted(S, by_arrival)
      /\ missing' = [b \in Block |-> IF b \in S THEN missing[b] \ known(view) ELSE {}]
      /\ passes' = [b \in Block |-> IF b \in S THEN passes[b] + 1 ELSE 0]
      /\ refused' = r.refused /\ evidence' = r.evidence
  BY <1>5, Zenon
<1>7. config' = config /\ inflight' = inflight /\ spare' = spare /\ retried' = TRUE
  BY DEF retry_buffered_blocks
<1>8. /\ r \in Results /\ view \subseteq r.view /\ r.held \subseteq held
      /\ Sound(config, r.view) /\ Proven(r.view, r.evidence, r.refused)
  BY <1>4, Zenon DEF Retrying
<1>9. S \in SUBSET held /\ S \in SUBSET Block
  BY <1>2, <1>8
<1>10. \A b \in S : passes[b] < config.max_retry_passes
  OBVIOUS
<1> HIDE DEF S
<1>11. /\ pending' \in Seq(Block) /\ IsInjective(pending') /\ Listed(pending') = S
       /\ Len(pending') <= Len(pending)
  BY <1>2, <1>6, <1>9, RetryLists
<1>12. /\ config.max_entries \in Nat /\ config.max_entries_per_creator \in Nat
       /\ config.max_retry_passes \in Nat
  BY <1>1, DisseminationAssumption
<1>13. Within(S, config.max_entries_per_creator)
  <2>1. Within(held, config.max_entries_per_creator)
    BY <1>1, <1>2 DEF Within, Buffered
  <2> QED
    BY <1>2, <1>9, <1>12, <2>1, QuotaFewer
<1>14. ASSUME NEW b \in S
       PROVE  /\ passes'[b] <= config.max_retry_passes
              /\ Preds[b] \ known(view) \subseteq missing'[b] /\ missing'[b] \subseteq Preds[b]
  <2>1. b \in Block /\ b \in held /\ passes[b] \in Nat /\ passes[b] < config.max_retry_passes
    BY <1>1, <1>9, <1>10
  <2>2. passes'[b] = passes[b] + 1 /\ missing'[b] = missing[b] \ known(view)
    BY <1>6, <2>1
  <2>3. Preds[b] \ known(view) \subseteq missing[b] /\ missing[b] \subseteq Preds[b]
    BY <1>1, <1>2, <2>1, Zenon DEF Buffered
  <2>4. passes'[b] <= config.max_retry_passes
    <3>1. \A m, n \in Nat : m < n => m + 1 <= n
      OBVIOUS
    <3>2. config.max_retry_passes \in Nat
      BY <1>12
    <3> QED
      BY <2>1, <2>2, <3>1, <3>2, Zenon
  <2> QED
    BY <2>2, <2>3, <2>4
<1>15. Len(pending') <= config.max_entries
  <2>1. Len(pending) \in Nat /\ Len(pending') \in Nat
    BY <1>2, <1>11
  <2> QED
    BY <1>2, <1>11, <1>12, <2>1
<1>16. Buffered(config, view, pending', missing', passes')
  BY <1>11, <1>13, <1>14, <1>15 DEF Buffered, Within
<1>17. Buffered(config, view', pending', missing', passes')
  BY <1>6, <1>8, <1>16, BufferedKept
<1>18. passes' \in [Block -> Nat]
  BY <1>1, <1>6
<1>19. refused' \subseteq Block /\ evidence' \subseteq Claims
  BY <1>6, <1>8 DEF Results
<1>20. Typed'
  BY <1>1, <1>7, <1>18, <1>19 DEF Typed
<1>21. Buffered(config, view, pending, missing, passes)'
  BY <1>7, <1>17, Zenon DEF Buffered, Listed
<1>22. Sound(config, view)' /\ Proven(view, evidence, refused)'
  BY <1>6, <1>7, <1>8
<1> QED
  BY <1>6, <1>8, <1>20, <1>21, <1>22 DEF DissInv

\* Every step of the node keeps the invariant, and its view only grows.
LEMMA StepSound == DissInv /\ [Next]_vars => DissInv' /\ view \subseteq view'
<1> SUFFICES ASSUME DissInv, [Next]_vars PROVE DissInv' /\ view \subseteq view'
  OBVIOUS
<1>1. ASSUME NEW b \in Block, receive_block(b), inflight' \subseteq Block, spare' \subseteq Block,
             retried' \in BOOLEAN
      PROVE  DissInv' /\ view \subseteq view'
  <2>1. /\ config' = config /\ refused' \subseteq Block /\ evidence' \subseteq Claims
        /\ passes' \in [Block -> Nat]
        /\ Buffered(config, view', pending', missing', passes')
        /\ Sound(config, view') /\ Proven(view', evidence', refused')
    BY <1>1, ReceiveKeeps
  <2>2. Typed'
    BY <1>1, <2>1 DEF DissInv, Typed
  <2>3. view \subseteq view'
    BY <1>1 DEF receive_block, insert_block, buffer_block, reject_block
  <2> QED
    BY <2>1, <2>2, <2>3 DEF DissInv
<1>2. inflight \subseteq Block /\ spare \subseteq Block
  BY DEF DissInv, Typed
<1>3. ASSUME NEW b \in Block, deliver(b) PROVE DissInv' /\ view \subseteq view'
  <2>1. receive_block(b) /\ inflight' \subseteq Block /\ spare' \subseteq Block /\ retried' \in BOOLEAN
    BY <1>2, <1>3, Zenon DEF deliver
  <2> QED
    BY <1>1, <2>1
<1>4. ASSUME NEW b \in Block, duplicate(b) PROVE DissInv' /\ view \subseteq view'
  <2>1. receive_block(b) /\ inflight' \subseteq Block /\ spare' \subseteq Block /\ retried' \in BOOLEAN
    BY <1>2, <1>4, Zenon DEF duplicate
  <2> QED
    BY <1>1, <2>1
<1>5. CASE retry_buffered_blocks
  BY <1>5, RetryKeeps
<1>6. CASE UNCHANGED vars
  <2>1. /\ config' = config /\ inflight' = inflight /\ spare' = spare /\ view' = view
        /\ pending' = pending /\ missing' = missing /\ passes' = passes
        /\ evidence' = evidence /\ refused' = refused /\ retried' = retried
    BY <1>6 DEF vars
  <2> QED
    BY <2>1 DEF DissInv, Typed
<1> QED
  BY <1>3, <1>4, <1>5, <1>6 DEF Next

(***************************************************************************)
(* Whatever arrives in whatever order and however often the buffer is      *)
(* retried, the buffer stays within its policy and the view is closed, of  *)
(* bonded validators, with one signature of each content and, where the    *)
(* chain axiom is checked, without a fork (validated_insert,               *)
(* retry_buffered_blocks).                                                 *)
(***************************************************************************)
THEOREM ViewsAreSound == Spec => []ViewSound
<1>1. Init => DissInv
  BY InitSound
<1>2. DissInv /\ [Next]_vars => DissInv'
  BY StepSound
<1>3. DissInv => ViewSound
  <2>1. held = Listed(pending)
    BY DEF held, Listed
  <2> QED
    BY <2>1, Zenon DEF DissInv, Typed, Buffered, Sound, ViewSound, DissTypeOK
<1> QED
  BY <1>1, <1>2, <1>3, PTL DEF Spec

(***************************************************************************)
(* No proof of an equivocation is lost: a block with a sound signature     *)
(* that was refused as one is in a record that can be verified, and what   *)
(* is verified conflicts (record_rejected_equivocation,                    *)
(* verify_equivocation_evidence).                                          *)
(***************************************************************************)
THEOREM EvidenceIsNeverLost == Spec => []EvidenceIsProof
<1>1. Init => DissInv
  BY InitSound
<1>2. DissInv /\ [Next]_vars => DissInv'
  BY StepSound
<1>3. DissInv => EvidenceIsProof
  <2> SUFFICES ASSUME DissInv PROVE EvidenceIsProof
    OBVIOUS
  <2>1. /\ Sound(config, view) /\ Proven(view, evidence, refused)
        /\ refused \in SUBSET Block
    BY DEF DissInv, Typed
  <2>2. EvidenceIn(view, evidence, refused)
    BY <2>1, ProvenVerifies
  <2> QED
    BY <2>2 DEF EvidenceIn, EvidenceIsProof
<1> QED
  BY <1>1, <1>2, <1>3, PTL DEF Spec

-----------------------------------------------------------------------------
(***************************************************************************)
(* The predecessors of the next block.                                     *)
(***************************************************************************)
\* Two contents that observe each other are one.
LEMMA PastAntisymmetric ==
    ASSUME NEW x \in Block, NEW y \in Block, Content[x] \in Past[y], Content[y] \in Past[x]
    PROVE  Content[x] = Content[y]
<1>1. Content[x] = Content[y] \/ Depth[Content[x]] < Depth[y]
  BY PastDepth
<1>2. Content[x] = Content[y] \/ Depth[Content[y]] < Depth[x]
  BY PastDepth
<1>3. /\ Depth[Content[x]] = Depth[x] /\ Depth[Content[y]] = Depth[y]
      /\ Depth[x] \in Nat /\ Depth[y] \in Nat
  BY DepthIs
<1> QED
  BY <1>1, <1>2, <1>3

\* Blocks that observe one another have one that observes all.
LEMMA ChainHasTip ==
    ASSUME NEW B \in SUBSET Block, B # {},
           \A x, y \in B : x # y => Content[x] \in Past[y] \/ Content[y] \in Past[x]
    PROVE  \E t \in B : \A b \in B : Content[b] \in Past[t]
<1> DEFINE depths == {Depth[b] : b \in B}
           f == [b \in B |-> Depth[b]]
<1>1. depths \in SUBSET Nat /\ depths # {}
  BY DepthIs
<1>2. IsFiniteSet(depths)
  <2>1. f \in Surjection(B, depths)
    BY DEF Surjection
  <2>2. IsFiniteSet(B)
    BY FiniteBlocks
  <2> HIDE DEF f, depths
  <2> QED
    BY <2>1, <2>2, FS_Surjection
<1>3. PICK t \in B : \A b \in B : Depth[b] <= Depth[t]
  <2>1. Max(depths) \in depths /\ \A d \in depths : d <= Max(depths)
    <3> HIDE DEF depths
    <3> QED
      BY <1>1, <1>2, MaxOfFinite
  <2>2. PICK t \in B : Depth[t] = Max(depths)
    BY <2>1, Zenon
  <2> QED
    BY <2>1, <2>2
<1>4. ASSUME NEW b \in B PROVE Content[b] \in Past[t]
  <2>1. b \in Block /\ t \in Block
    OBVIOUS
  <2>2. CASE Content[b] \in Past[t] \/ b = t
    BY <2>1, <2>2, PastContents
  <2>3. CASE Content[t] \in Past[b]
    <3>1. Content[t] = Content[b] \/ Depth[Content[t]] < Depth[b]
      BY <2>1, <2>3, PastDepth
    <3>2. Depth[Content[t]] = Depth[t] /\ Depth[t] \in Nat /\ Depth[b] \in Nat /\ Depth[b] <= Depth[t]
      BY <1>3, <2>1, DepthIs
    <3>3. Content[t] = Content[b]
      BY <3>1, <3>2
    <3> QED
      BY <2>1, <3>3, PastContents
  <2> QED
    BY <2>2, <2>3
<1> QED
  BY <1>4

\* A bonded validator whose blocks are a chain has a tip.
LEMMA HonestTip ==
    ASSUME NEW V \in SUBSET Block, NEW v \in DOMAIN config.bonds \ find_equivacators(V),
           blocks_by(V, v) # {}
    PROVE  \E t \in collect_validator_tips(V) :
               \A b \in blocks_by(V, v) : Content[b] \in Past[t]
<1> DEFINE B == blocks_by(V, v)
<1>1. B \in SUBSET Block /\ \A b \in B : b \in V /\ Creator[b] = v
  BY DEF blocks_by
<1>2. ASSUME NEW x \in B, NEW y \in B, x # y PROVE Content[x] \in Past[y] \/ Content[y] \in Past[x]
  <2>1. ~ incomparable(x, y)
    BY <1>1 DEF find_equivacators
  <2> QED
    BY <1>1, <1>2, <2>1 DEF incomparable
<1>3. PICK t \in B : \A b \in B : Content[b] \in Past[t]
  <2> HIDE DEF B
  <2> QED
    BY <1>1, <1>2, ChainHasTip DEF B
<1>4. t \in collect_validator_tips(V)
  BY <1>1, <1>3 DEF collect_validator_tips
<1> QED
  BY <1>3, <1>4

\* A validator has at most one tip.
LEMMA OneTip ==
    ASSUME NEW V, Sound(config, V), NEW s \in collect_validator_tips(V),
           NEW t \in collect_validator_tips(V), Creator[s] = Creator[t]
    PROVE  s = t
<1>1. s \in V /\ t \in V /\ s \in Block /\ t \in Block
  BY DEF collect_validator_tips, Sound
<1>2. Content[s] \in Past[t] /\ Content[t] \in Past[s]
  BY <1>1 DEF collect_validator_tips, blocks_by
<1>3. Content[s] = Content[t]
  BY <1>1, <1>2, PastAntisymmetric
<1> QED
  BY <1>1, <1>3 DEF Sound

\* The creators of the tips are as many as the tips.
LEMMA TipsCount ==
    ASSUME NEW V, Sound(config, V), NEW P, known(collect_validator_tips(V)) \subseteq P, P \in SUBSET Block
    PROVE  /\ Cardinality(collect_validator_tips(V)) <= Cardinality({Creator[p] : p \in P})
           /\ Cardinality({Creator[p] : p \in P}) \in Nat
           /\ Cardinality(collect_validator_tips(V)) \in Nat
           /\ P # {} => Cardinality({Creator[p] : p \in P}) # 0
<1> DEFINE tips == collect_validator_tips(V)
           Z == {Creator[p] : p \in P}
           f == [t \in tips |-> Creator[t]]
           g == [p \in P |-> Creator[p]]
<1>1. tips \in SUBSET Block
  BY DEF collect_validator_tips, Sound
<1>2. IsFiniteSet(Z)
  <2>1. g \in Surjection(P, Z)
    BY DEF Surjection
  <2>2. IsFiniteSet(P)
    BY FiniteBlocks
  <2> HIDE DEF g, Z
  <2> QED
    BY <2>1, <2>2, FS_Surjection
<1>3. \A t \in tips : Creator[t] \in Z
  <2> TAKE t \in tips
  <2>1. Content[t] \in P
    BY DEF known
  <2>2. Creator[Content[t]] = Creator[t]
    BY <1>1, ContentIs
  <2> QED
    BY <2>1, <2>2
<1>4. \A s, t \in tips : Creator[s] = Creator[t] => s = t
  BY OneTip
<1>5. P # {} => Z # {}
  OBVIOUS
<1> HIDE DEF tips, Z
<1>6. f \in Injection(tips, Z)
  BY <1>3, <1>4 DEF Injection, IsInjective
<1>7. Cardinality(tips) <= Cardinality(Z)
  BY <1>2, <1>6, FS_Injection
<1>8. Cardinality(Z) \in Nat /\ (Z # {} => Cardinality(Z) # 0)
  BY <1>2, FS_CardinalityType, FS_EmptySet
<1>9. Cardinality(tips) \in Nat
  BY <1>1, FiniteBlocks
<1> QED
  BY <1>5, <1>7, <1>8, <1>9 DEF tips, Z

\* What a block on the contents P of a sound view V must acknowledge.
Cordial(V, P) ==
    /\ P \subseteq known(V)
    /\ missing_equivocation_branches(V, P) = {}
    /\ \A v \in DOMAIN config.bonds \ find_equivacators(V) : known(blocks_by(V, v)) \subseteq observed(P)
    /\ V # {} => 3 * Cardinality({Creator[p] : p \in P}) > 2 * Cardinality(DOMAIN config.bonds)

\* The selected predecessors are cordial in both modes.
LEMMA SelectedCordial ==
    ASSUME config \in Configs, Sound(config, view), NEW mode \in {"Compatibility", "Strict"},
           NEW S \in next_block_predecessors_with_mode(view, mode)
    PROVE  Cordial(view, known(S))
<1> DEFINE tips == collect_validator_tips(view)
           P == known(S)
<1>1. /\ S = select_predecessors_with_mode(view, mode)
      /\ view # {} => /\ S # {}
                      /\ mode = "Strict" => missing_equivocation_branches(view, S) = {}
                      /\ Cardinality(tips) >= required_acknowledgements
  BY DEF next_block_predecessors_with_mode
<1>2. /\ tips \subseteq S /\ S \subseteq view /\ view \in SUBSET Block
      /\ mode = "Strict" \/ S = {}
           \/ S = tips \cup {b \in all_equivocations(view) : Content[b] \notin observed(tips)}
  BY <1>1, Zenon DEF select_predecessors_with_mode, collect_validator_tips, all_equivocations, Sound
<1>3. P \subseteq known(view) /\ P \in SUBSET Block /\ known(tips) \subseteq P
  <2>1. P \subseteq known(view) /\ known(tips) \subseteq P
    BY <1>2, Zenon DEF known
  <2>2. P \in SUBSET Block
    <3>1. \A b \in S : Content[b] \in Block
      BY <1>2, ContentIs
    <3> QED
      BY <3>1 DEF known
  <2> QED
    BY <2>1, <2>2
<1>4. observed(P) = observed(S) /\ observed(tips) \subseteq observed(S)
  <2>1. observed(P) = observed(S)
    BY <1>2, ObservedByContent
  <2>2. observed(tips) \subseteq observed(S)
    BY <1>2, Zenon DEF observed
  <2> QED
    BY <2>1, <2>2
<1> HIDE DEF P, tips
<1>5. missing_equivocation_branches(view, P) = {}
  <2>1. CASE view = {}
    BY <2>1 DEF missing_equivocation_branches, all_equivocations, known
  <2>2. CASE view # {} /\ mode = "Strict"
    BY <1>1, <1>4, <2>2 DEF missing_equivocation_branches
  <2>3. CASE view # {} /\ mode # "Strict"
    <3>1. S = tips \cup {b \in all_equivocations(view) : Content[b] \notin observed(tips)}
      BY <1>1, <1>2, <2>3
    <3>2. ASSUME NEW b \in all_equivocations(view) PROVE Content[b] \in observed(P)
      <4>1. CASE Content[b] \in observed(tips)
        BY <1>4, <4>1
      <4>2. CASE Content[b] \notin observed(tips)
        <5>1. b \in S /\ b \in Block
          BY <1>2, <3>1, <4>2
        <5>2. Content[b] \in observed(S)
          BY <5>1, PastContents DEF observed
        <5> QED
          BY <1>4, <5>2
      <4> QED
        BY <4>1, <4>2
    <3> QED
      BY <3>2 DEF missing_equivocation_branches, known
  <2> QED
    BY <2>1, <2>2, <2>3
<1>6. ASSUME NEW v \in DOMAIN config.bonds \ find_equivacators(view)
      PROVE  known(blocks_by(view, v)) \subseteq observed(P)
  <2>1. CASE blocks_by(view, v) = {}
    BY <2>1 DEF known
  <2>2. CASE blocks_by(view, v) # {}
    <3>1. PICK t \in tips : \A b \in blocks_by(view, v) : Content[b] \in Past[t]
      BY <1>2, <2>2, HonestTip DEF tips
    <3>2. Past[t] \subseteq observed(P)
      BY <1>4 DEF observed
    <3> QED
      BY <3>1, <3>2 DEF known
  <2> QED
    BY <2>1, <2>2
<1>7. ASSUME view # {}
      PROVE  3 * Cardinality({Creator[p] : p \in P}) > 2 * Cardinality(DOMAIN config.bonds)
  <2> DEFINE n == Cardinality(DOMAIN config.bonds)
             k == Cardinality({Creator[p] : p \in P})
             m == Cardinality(tips)
  <2>1. n \in Nat /\ (DOMAIN config.bonds = {} => n = 0)
    BY DisseminationAssumption, FS_CardinalityType, FS_EmptySet
  <2>2. P # {}
    BY <1>1, <1>7 DEF P, known
  <2>3. m <= k /\ k \in Nat /\ m \in Nat /\ k # 0
    BY <1>3, <2>2, TipsCount DEF tips
  <2>4. DOMAIN config.bonds # {} => m >= (2 * n) \div 3 + 1
    BY <1>1, <1>7 DEF required_acknowledgements
  <2> HIDE DEF n, k, m
  <2>5. 3 * k > 2 * n
    <3>1. CASE DOMAIN config.bonds = {}
      BY <2>1, <2>3, <3>1
    <3>2. CASE DOMAIN config.bonds # {}
      BY <2>1, <2>3, <2>4, <3>2
    <3> QED
      BY <3>1, <3>2
  <2> QED
    BY <2>5 DEF n, k
<1> QED
  BY <1>3, <1>5, <1>6, <1>7 DEF Cordial, P

(***************************************************************************)
(* In both modes the block a node proposes hides no equivocation of its    *)
(* view, extends the chain of every honest proposer and acknowledges a     *)
(* supermajority (next_block_predecessors_with_mode,                       *)
(* build_block_candidate_with_mode).                                       *)
(***************************************************************************)
THEOREM CandidatesAreCordial == Spec => []CandidateCordial
<1>1. Init => DissInv
  BY InitSound
<1>2. DissInv /\ [Next]_vars => DissInv'
  BY StepSound
<1>3. DissInv => CandidateCordial
  <2> SUFFICES ASSUME DissInv, NEW mode \in {"Compatibility", "Strict"},
                      NEW candidate \in build_block_candidate_with_mode(view, mode)
               PROVE  Cordial(view, candidate.predecessors)
    BY Zenon DEF CandidateCordial, Cordial
  <2>1. config \in Configs /\ Sound(config, view)
    BY DEF DissInv, Typed
  <2>2. PICK S \in next_block_predecessors_with_mode(view, mode) :
            candidate = [predecessors |-> known(S)]
    BY DEF build_block_candidate_with_mode
  <2>3. candidate.predecessors = known(S)
    BY <2>2
  <2> QED
    BY <2>1, <2>3, SelectedCordial
<1> QED
  BY <1>1, <1>2, <1>3, PTL DEF Spec

-----------------------------------------------------------------------------
(***************************************************************************)
(* The fork choice.                                                        *)
(***************************************************************************)
\* The rounds of walk_to_lca, which follow on from each other.
Walk(t, l, f) ==
    [k \in 0 .. Depth[t] |->
        IF k = 0 THEN {Content[t]}
        ELSE f[k - 1] \cup {p \in UNION {Preds[b] : b \in f[k - 1] \ {l}} : l \in Past[p]}]

\* The walk can be made.
LEMMA WalkExists ==
    ASSUME NEW t \in Block, NEW l
    PROVE  \E f : f = Walk(t, l, f)
<1> DEFINE n == Depth[t]
           base == {Content[t]}
           step(b) == {b} \cup {p \in Preds[b] : b # l /\ l \in Past[p]}
           h == [q \in (1 .. n) \X Block |-> step(q[2])]
<1>1. n \in Nat /\ base \subseteq Block
  BY DepthIs, ContentIs
<1>2. \A b \in Block : step(b) \in SUBSET Block
  BY ContentIs
<1> HIDE DEF n, base
<1>3. h \in [(1 .. n) \X Block -> SUBSET Block] /\ \A k \in 1 .. n : \A b \in Block : h[<<k, b>>] = step(b)
  <2> HIDE DEF step
  <2> QED
    BY <1>2
<1> HIDE DEF h
<1>4. PICK f : f \in [0 .. n -> SUBSET Block] /\ f = Round(n, base, h, f)
  <2>1. Rounds(n, Block, base, h)
    BY <1>1, <1>3 DEF Rounds
  <2>2. PICK f : Computed(n, Block, base, h, f)
    BY <2>1, RoundsExist, Zenon
  <2> QED
    BY <2>2 DEF Computed
<1>5. ASSUME NEW k \in 0 .. n, k # 0
      PROVE  UNION {h[<<k, b>>] : b \in f[k - 1]}
               = f[k - 1] \cup {p \in UNION {Preds[b] : b \in f[k - 1] \ {l}} : l \in Past[p]}
  <2>1. k \in 1 .. n /\ f[k - 1] \in SUBSET Block
    <3>1. k \in 1 .. n /\ k - 1 \in 0 .. n
      BY <1>1, <1>5
    <3> QED
      BY <1>4, <3>1, Zenon
  <2> DEFINE B == f[k - 1]
  <2>2. \A b \in B : h[<<k, b>>] = step(b)
    BY <1>3, <2>1
  <2> HIDE DEF B
  <2>3. UNION {h[<<k, b>>] : b \in B} = UNION {step(b) : b \in B}
    <3> HIDE DEF step
    <3> QED
      BY <2>2, Zenon
  <2>4. UNION {step(b) : b \in B} = B \cup {p \in UNION {Preds[b] : b \in B \ {l}} : l \in Past[p]}
    OBVIOUS
  <2> QED
    BY <2>3, <2>4, Zenon DEF B
<1>6. Round(n, base, h, f) = Walk(t, l, f)
  BY <1>5, Zenon DEF Round, Walk, n, base
<1> QED
  BY <1>4, <1>6

\* walk_to_lca reaches what is above the target and is observed by the start.
LEMMA WalkIs ==
    ASSUME NEW t \in Block, NEW l \in Past[t]
    PROVE  walk_to_lca(t, l) = {c \in Past[t] : l \in Past[c]}
<1> DEFINE n == Depth[t]
           s == CHOOSE f : f = Walk(t, l, f)
           W == {c \in Past[t] : l \in Past[c]}
<1>1. walk_to_lca(t, l) = s[n]
  BY DEF walk_to_lca, Walk
<1>2. s = Walk(t, l, s)
  <2>1. \E f : f = Walk(t, l, f)
    BY WalkExists
  <2> QED
    BY <2>1, Zenon
<1>3. n \in Nat /\ l \in Block /\ Content[t] \in W /\ W \in SUBSET Block
  <2>1. Past[t] \subseteq Block
    BY PastContents
  <2>2. Past[Content[t]] = Past[t] /\ Content[t] \in Past[t]
    BY PastOfContent, PastContents
  <2> QED
    BY <2>1, <2>2, DepthIs
<1> HIDE DEF s
<1>4. s[0] = {Content[t]}
  BY <1>2, <1>3 DEF Walk
<1>5. ASSUME NEW k \in 1 .. n
      PROVE  s[k] = s[k - 1] \cup {p \in UNION {Preds[b] : b \in s[k - 1] \ {l}} : l \in Past[p]}
  <2>1. k \in 0 .. n /\ k # 0
    BY <1>3
  <2> QED
    BY <1>2, <2>1, Zenon DEF Walk
<1>6. s[n] \subseteq W
  <2> DEFINE K == {k \in 0 .. n : s[k] \subseteq W}
  <2>1. 0 \in K
    BY <1>3, <1>4
  <2>2. ASSUME NEW k \in 1 .. n, k - 1 \in K PROVE k \in K
    <3>1. k \in 0 .. n /\ s[k - 1] \subseteq W
      BY <1>3, <2>2
    <3>2. ASSUME NEW p \in s[k] PROVE p \in W
      <4>1. CASE p \in s[k - 1]
        BY <3>1, <4>1
      <4>2. CASE p \notin s[k - 1]
        <5>1. PICK b \in s[k - 1] : p \in Preds[b] /\ l \in Past[p]
          BY <1>5, <4>2
        <5>2. b \in Block /\ b \in Past[t]
          BY <1>3, <3>1
        <5>3. p \in Past[b] /\ Past[b] \subseteq Past[t]
          BY <5>1, <5>2, PastOfPred, PastTransitive
        <5> QED
          BY <5>1, <5>3
      <4> QED
        BY <4>1, <4>2
    <3> QED
      BY <3>1, <3>2
  <2> HIDE DEF K
  <2>3. \A k \in 0 .. n : k \in K
    BY <1>3, <2>1, <2>2, UpTo, Zenon
  <2>4. n \in 0 .. n
    BY <1>3
  <2> QED
    BY <2>3, <2>4 DEF K
<1>7. W \subseteq s[n]
  <2> DEFINE K == {k \in 0 .. n : \A c \in W : n <= Depth[c] + k => c \in s[k]}
  <2>1. ASSUME NEW c \in W PROVE c \in Block /\ Content[c] = c /\ Depth[c] \in Nat
    BY <1>3, PastContents, DepthIs
  <2>2. 0 \in K
    <3>1. ASSUME NEW c \in W, n <= Depth[c] + 0 PROVE c \in s[0]
      <4>1. c = Content[t] \/ Depth[c] < n
        BY PastDepth
      <4>2. c = Content[t]
        BY <1>3, <2>1, <3>1, <4>1
      <4> QED
        BY <1>4, <4>2
    <3>2. 0 \in 0 .. n
      BY <1>3
    <3> QED
      BY <3>1, <3>2
  <2>3. ASSUME NEW k \in 1 .. n, k - 1 \in K PROVE k \in K
    <3>1. ASSUME NEW c \in W, n <= Depth[c] + k PROVE c \in s[k]
      <4>1. CASE n <= Depth[c] + (k - 1)
        BY <1>5, <2>3, <4>1
      <4>2. CASE ~ (n <= Depth[c] + (k - 1))
        <5>1. Depth[c] # n /\ k \in Nat
          BY <1>3, <2>1, <4>2
        <5>2. c # Content[t]
          BY <5>1, DepthIs
        <5>3. PICK d \in Past[t] : c \in Preds[d]
          BY <5>2, PastParent
        <5>4. d \in Block /\ Depth[d] \in Nat /\ Depth[c] < Depth[d]
          BY <5>3, PastContents, DepthIs
        <5>5. d \in W
          BY <5>3, <5>4, PastOfPred
        <5>6. n <= Depth[d] + (k - 1)
          BY <1>3, <2>1, <3>1, <5>1, <5>4
        <5>7. d \in s[k - 1]
          BY <2>3, <5>5, <5>6
        <5>8. d # l
          <6>1. l = c \/ Depth[l] < Depth[c]
            BY <2>1, PastDepth
          <6>2. Depth[l] \in Nat /\ Depth[c] \in Nat
            BY <1>3, <2>1, DepthIs
          <6> QED
            BY <5>4, <6>1, <6>2
        <5> QED
          BY <1>5, <5>3, <5>7, <5>8
      <4> QED
        BY <4>1, <4>2
    <3>2. k \in 0 .. n
      BY <1>3
    <3> QED
      BY <3>1, <3>2
  <2>4. \A k \in 0 .. n : k \in K
    <3> HIDE DEF K
    <3> QED
      BY <1>3, <2>2, <2>3, UpTo, Zenon
  <2>5. n \in K
    <3>1. n \in 0 .. n
      BY <1>3
    <3> HIDE DEF K
    <3> QED
      BY <2>4, <3>1, Zenon
  <2>6. \A c \in W : n <= Depth[c] + n
    BY <1>3, <2>1
  <2> QED
    BY <2>5, <2>6
<1> QED
  BY <1>1, <1>6, <1>7

\* The score of a block above the ancestor is the stake of the tips that observe it.
LEMMA ScoreIs ==
    ASSUME NEW T \in SUBSET Block, NEW l \in compute_lca(T), NEW b \in Block, l \in Past[b]
    PROVE  score(T, l, b) = stake({t \in T : Content[b] \in Past[t]})
<1>1. \A t \in T : l \in Past[t]
  BY DEF compute_lca
<1>2. l \in Past[Content[b]]
  BY PastOfContent
<1>3. ASSUME NEW t \in T PROVE Content[b] \in walk_to_lca(t, l) <=> Content[b] \in Past[t]
  <2>1. walk_to_lca(t, l) = {c \in Past[t] : l \in Past[c]}
    BY <1>1, WalkIs
  <2> QED
    BY <1>2, <2>1
<1>4. {t \in T : Content[b] \in walk_to_lca(t, l)} = {t \in T : Content[b] \in Past[t]}
  BY <1>3
<1> QED
  BY <1>4, Zenon DEF score

(***************************************************************************)
(* The score of a block is the stake of the validators whose tips observe  *)
(* it, and the ranking does not depend on which common ancestor is found   *)
(* (fork_choice).                                                          *)
(***************************************************************************)
THEOREM ForkChoicesAreSound == Spec => []ForkChoiceSound
<1>1. Init => DissInv
  BY InitSound
<1>2. DissInv /\ [Next]_vars => DissInv'
  BY StepSound
<1>3. DissInv => ForkChoiceSound
  <2> DEFINE T == collect_validator_tips(view)
  <2> SUFFICES ASSUME DissInv, NEW l \in compute_lca(T), NEW m \in compute_lca(T)
               PROVE  /\ \A b \in view : l \in Past[b] =>
                             score(T, l, b) = stake({t \in T : Content[b] \in Past[t]})
                      /\ ranked_tips(T, l) = ranked_tips(T, m)
    BY Zenon DEF ForkChoiceSound
  <2>1. view \in SUBSET Block /\ T \in SUBSET Block
    BY Zenon DEF DissInv, Sound, collect_validator_tips
  <2>2. \A t \in T : l \in Past[t] /\ m \in Past[t]
    BY DEF compute_lca
  <2> HIDE DEF T
  <2>3. \A b \in view : l \in Past[b] => score(T, l, b) = stake({t \in T : Content[b] \in Past[t]})
    BY <2>1, ScoreIs
  <2>4. \A b \in T : score(T, l, b) = score(T, m, b)
    <3> TAKE b \in T
    <3>1. score(T, l, b) = stake({t \in T : Content[b] \in Past[t]})
      BY <2>1, <2>2, ScoreIs
    <3>2. score(T, m, b) = stake({t \in T : Content[b] \in Past[t]})
      BY <2>1, <2>2, ScoreIs
    <3> QED
      BY <3>1, <3>2
  <2>5. [t \in T |-> score(T, l, t)] = [t \in T |-> score(T, m, t)]
    BY <2>4
  <2>6. ranked_tips(T, l) = ranked_tips(T, m)
    BY <2>5, Zenon DEF ranked_tips
  <2> QED
    BY <2>3, <2>6
<1> QED
  BY <1>1, <1>2, <1>3, PTL DEF Spec

=============================================================================
