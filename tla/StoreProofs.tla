------------------------------ MODULE StoreProofs ------------------------------
(***************************************************************************)
(* Proofs about the two durable stores of the mirror.                      *)
(* The block store: for every set of block identities and every order of   *)
(* puts, crashes and restarts, it is replayed in topological order, the    *)
(* mirror stays closed and free of variants, and a crash loses no mirrored *)
(* block.                                                                  *)
(* The native store: for every host, however many blocks it has or lists   *)
(* later, whole ancestries are stored and the height cursor never passes a *)
(* block that is not stored.                                               *)
(***************************************************************************)
EXTENDS MirrorStore, NativeBackfill, OrderProofs

-----------------------------------------------------------------------------
(***************************************************************************)
(* The replay of a finite set S of stored blocks.                          *)
(***************************************************************************)
found(S, x) == \E y \in S : Content[y] = Content[x]
HeightIn(S) ==
    CHOOSE h : h = [x \in Id |-> IF Preds[x] # {} /\ \E y \in S : Content[y] = Content[x]
                                 THEN 1 + Max({h[p] : p \in Preds[x]})
                                 ELSE 0]

\* A stored block is higher than its predecessors.
LEMMA HeightIs ==
    ASSUME NEW S \in SUBSET Id
    PROVE  /\ \A b \in Id : compute_height(S, b) = HeightIn(S)[b] /\ HeightIn(S)[b] \in Nat
           /\ \A b \in S : \A p \in Preds[b] : HeightIn(S)[p] < HeightIn(S)[b]
<1> DEFINE D == [x \in Id |-> IF found(S, x) THEN Preds[x] ELSE {}]
           F(h) == [x \in Id |-> IF Preds[x] # {} /\ \E y \in S : Content[y] = Content[x]
                                 THEN 1 + Max({h[p] : p \in Preds[x]})
                                 ELSE 0]
<1>1. Grounded(Id, D)
  <2>1. \A x \in Id : D[x] \in SUBSET Id /\ IsFiniteSet(D[x])
    BY StoreAssumption, FS_EmptySet
  <2>2. ASSUME NEW T \in SUBSET Id, T # {} PROVE \E x \in T : D[x] \cap T = {}
    <3>1. PICK b \in T : Preds[b] \cap T = {}
      BY <2>2, StoreAssumption
    <3>2. D[b] \subseteq Preds[b]
      OBVIOUS
    <3> QED
      BY <3>1, <3>2
  <2> HIDE DEF D
  <2> QED
    BY <2>1, <2>2 DEF Grounded
<1>2. PICK h : h = [x \in Id |-> above(h, D[x])]
  <2> HIDE DEF D
  <2> QED
    BY <1>1, HeightsExist
<1>3. ASSUME NEW g
      PROVE  [x \in Id |-> above(g, D[x])] = F(g)
  <2>1. ASSUME NEW x \in Id
        PROVE  above(g, D[x]) = IF Preds[x] # {} /\ \E y \in S : Content[y] = Content[x]
                                THEN 1 + Max({g[p] : p \in Preds[x]}) ELSE 0
    <3>1. CASE found(S, x)
      <4>1. D[x] = Preds[x]
        BY <3>1
      <4> HIDE DEF D
      <4> QED
        BY <3>1, <4>1 DEF found, above
    <3>2. CASE ~ found(S, x)
      <4>1. D[x] = {}
        BY <3>2
      <4> HIDE DEF D
      <4> QED
        BY <3>2, <4>1 DEF found, above
    <3> QED
      BY <3>1, <3>2
  <2> HIDE DEF D
  <2> QED
    BY <2>1, Zenon
<1>4. h = F(h)
  <2> HIDE DEF D, F
  <2> QED
    BY <1>2, <1>3
<1>5. HeightIn(S) = F(HeightIn(S))
  <2>1. HeightIn(S) = CHOOSE g : g = F(g)
    BY DEF HeightIn
  <2> HIDE DEF F
  <2> QED
    BY <1>4, <2>1, Zenon
<1> DEFINE H == HeightIn(S)
<1>6. Heights(H, Id, D)
  <2>1. \A x \in Id : D[x] \subseteq Id
    BY <1>1 DEF Grounded
  <2>2. H = [x \in Id |-> above(H, D[x])]
    <3> HIDE DEF D, F, H
    <3> QED
      BY <1>3, <1>5 DEF H
  <2> HIDE DEF D, H
  <2>3. \A x \in Id : H[x] = above(H, D[x])
    BY <2>2
  <2> QED
    BY <2>1, <2>3 DEF Heights
<1>7. \A x \in Id : H[x] \in Nat
  <2> HIDE DEF D, H
  <2> QED
    BY <1>1, <1>6, HeightsAreNumbers
<1>8. \A b \in Id : compute_height(S, b) = H[b]
  BY DEF compute_height, HeightIn
<1>9. ASSUME NEW b \in S, NEW p \in Preds[b] PROVE H[p] < H[b]
  <2>1. found(S, b) /\ b \in Id
    BY DEF found
  <2>2. D[b] = Preds[b] /\ D[b] \subseteq Id /\ IsFiniteSet(D[b])
    BY <2>1, StoreAssumption
  <2> HIDE DEF D, H
  <2>3. \A q \in D[b] : H[q] \in Nat
    BY <1>7, <2>2
  <2>4. \A q \in D[b] : H[q] < above(H, D[b])
    BY <2>2, <2>3, AboveIs
  <2>5. H[b] = above(H, D[b])
    BY <1>6, <2>1 DEF Heights
  <2> QED
    BY <2>2, <2>4, <2>5
<1> QED
  BY <1>7, <1>8, <1>9

\* The order of the replay is total.
LEMMA LowerOrders ==
    ASSUME NEW S \in SUBSET Id
    PROVE  Orders(lower(S), S)
<1> DEFINE H == HeightIn(S)
<1>1. \A a, b \in S : <<a, b>> \in lower(S) <=> H[a] < H[b] \/ (H[a] = H[b] /\ Key[a] < Key[b])
  <2>1. \A a \in S : compute_height(S, a) = H[a]
    BY HeightIs
  <2> HIDE DEF H
  <2> QED
    BY <2>1 DEF lower
<1>2. \A a, b \in S : H[a] \in Nat /\ Key[a] \in Nat /\ (Key[a] = Key[b] => a = b)
  BY HeightIs, StoreAssumption
<1> HIDE DEF H
<1> QED
  BY <1>1, <1>2 DEF Orders

\* The replay holds every stored block, and its predecessors before it.
LEMMA ReplayIs ==
    ASSUME NEW S \in SUBSET Id, IsFiniteSet(S)
    PROVE  LET t == topo_sort_blocks(S)
           IN  /\ t \in Seq(S) /\ Len(t) \in Nat /\ DOMAIN t = 1 .. Len(t)
               /\ \A x \in S : \E i \in 1 .. Len(t) : t[i] = x
               /\ \A i, j \in 1 .. Len(t) : i < j => t[j] \notin Preds[t[i]]
               /\ \A i, j \in 1 .. Len(t) : t[j] \in Preds[t[i]] => j < i
<1> DEFINE t == topo_sort_blocks(S)
           H == HeightIn(S)
<1>1. /\ t \in Seq(S) /\ Len(t) \in Nat /\ DOMAIN t = 1 .. Len(t)
      /\ \A x \in S : \E i \in 1 .. Len(t) : t[i] = x
      /\ \A i, j \in 1 .. Len(t) : (<<t[i], t[j]>> \in lower(S)) <=> i < j
  BY LowerOrders, SortedIs DEF topo_sort_blocks
<1> HIDE DEF t
<1>2. ASSUME NEW i \in 1 .. Len(t), NEW j \in 1 .. Len(t), t[j] \in Preds[t[i]] PROVE j < i
  <2>1. t[i] \in S /\ t[j] \in S
    BY <1>1
  <2>2. H[t[j]] < H[t[i]]
    BY <1>2, <2>1, HeightIs
  <2>3. compute_height(S, t[j]) = H[t[j]] /\ compute_height(S, t[i]) = H[t[i]]
    BY <2>1, HeightIs
  <2>4. <<t[j], t[i]>> \in lower(S)
    BY <2>1, <2>2, <2>3 DEF lower
  <2> QED
    BY <1>1, <2>4
<1>3. \A i, j \in 1 .. Len(t) : i < j => t[j] \notin Preds[t[i]]
  BY <1>1, <1>2
<1> QED
  BY <1>1, <1>2, <1>3 DEF t

-----------------------------------------------------------------------------
(***************************************************************************)
(* What recover_into_engine rebuilds from a sequence of blocks.            *)
(***************************************************************************)
\* The blocks of the engine after each block of t was offered to it.
Engine(t) == CHOOSE g : g = [k \in 0 .. Len(t) |-> IF k = 0 THEN {} ELSE insert(g[k - 1], t[k])]

\* The engine starts empty and takes the blocks of t one after the other.
LEMMA EngineIs ==
    ASSUME NEW t, Len(t) \in Nat
    PROVE  /\ Engine(t)[0] = {}
           /\ \A k \in 1 .. Len(t) : Engine(t)[k] = insert(Engine(t)[k - 1], t[k])
<1> DEFINE F(g, n) == [k \in 0 .. n |-> IF k = 0 THEN {} ELSE insert(g[k - 1], t[k])]
           Solved(n) == \E g : g = F(g, n)
           K == {n \in Nat : Solved(n)}
<1>1. Solved(0)
  <2> DEFINE g == [k \in 0 .. 0 |-> {}]
  <2>1. g = F(g, 0)
    OBVIOUS
  <2> HIDE DEF g, F
  <2> QED
    BY <2>1
<1>2. ASSUME NEW n \in Nat, Solved(n) PROVE Solved(n + 1)
  <2>1. PICK g : g = F(g, n)
    BY <1>2
  <2>2. g[0] = {} /\ \A k \in 1 .. n : g[k] = insert(g[k - 1], t[k])
    <3>1. \A k \in 0 .. n : g[k] = IF k = 0 THEN {} ELSE insert(g[k - 1], t[k])
      BY <2>1, Zenon
    <3>2. g[0] = {}
      BY <3>1
    <3>3. ASSUME NEW k \in 1 .. n PROVE g[k] = insert(g[k - 1], t[k])
      BY <3>1
    <3> QED
      BY <3>2, <3>3
  <2> DEFINE h == [k \in 0 .. n + 1 |-> IF k <= n THEN g[k] ELSE insert(g[n], t[n + 1])]
  <2>3. ASSUME NEW k \in 0 .. n + 1
        PROVE  h[k] = IF k = 0 THEN {} ELSE insert(h[k - 1], t[k])
    <3>1. CASE k = 0
      BY <2>2, <3>1
    <3>2. CASE k \in 1 .. n
      <4>1. h[k] = g[k] /\ h[k - 1] = g[k - 1] /\ k # 0
        BY <3>2
      <4> HIDE DEF h
      <4> QED
        BY <2>2, <3>2, <4>1
    <3>3. CASE k = n + 1
      <4>1. h[k] = insert(g[n], t[n + 1]) /\ h[k - 1] = g[n] /\ k # 0
        BY <3>3
      <4> HIDE DEF h
      <4> QED
        BY <3>3, <4>1
    <3> QED
      BY <3>1, <3>2, <3>3
  <2>4. h = [k \in 0 .. n + 1 |-> h[k]]
    OBVIOUS
  <2> HIDE DEF h
  <2>5. h = F(h, n + 1)
    BY <2>3, <2>4, Zenon
  <2> HIDE DEF F
  <2> QED
    BY <2>5
<1>3. Solved(Len(t))
  <2> HIDE DEF Solved
  <2>1. K \in SUBSET Nat /\ 0 \in K /\ \A n \in K : n + 1 \in K
    BY <1>1, <1>2
  <2> HIDE DEF K
  <2>2. Len(t) \in K
    BY <2>1, AllNumbers
  <2> QED
    BY <2>2 DEF K
<1>4. Engine(t) = F(Engine(t), Len(t))
  BY <1>3, Zenon DEF Engine
<1> DEFINE E == Engine(t)
<1>5. E = F(E, Len(t))
  BY <1>4, Zenon
<1> HIDE DEF E
<1>6. E[0] = {} /\ \A k \in 1 .. Len(t) : E[k] = insert(E[k - 1], t[k])
  <2>1. \A k \in 0 .. Len(t) : E[k] = IF k = 0 THEN {} ELSE insert(E[k - 1], t[k])
    BY <1>5, Zenon
  <2>2. E[0] = {}
    BY <2>1
  <2>3. ASSUME NEW k \in 1 .. Len(t) PROVE E[k] = insert(E[k - 1], t[k])
    BY <2>1
  <2> QED
    BY <2>2, <2>3
<1> QED
  BY <1>6 DEF E

\* The predecessors of the blocks of M are in M.
Closed(M) == \A b \in M : Preds[b] \subseteq M

\* M holds one variant of a content.
Single(M) == \A b, c \in M : ~ variant(b, c)

\* insert keeps a blocklace closed and free of variants.
LEMMA InsertIs ==
    ASSUME NEW M, NEW b, Closed(M), Single(M)
    PROVE  /\ Closed(insert(M, b)) /\ Single(insert(M, b))
           /\ M \subseteq insert(M, b) /\ insert(M, b) \subseteq M \cup {b}
           /\ (Preds[b] \subseteq M /\ \A c \in M : ~ variant(b, c)) => b \in insert(M, b)
<1>1. CASE Preds[b] \subseteq M /\ ~ \E c \in M : variant(b, c)
  <2>1. insert(M, b) = M \cup {b}
    BY <1>1 DEF insert
  <2>2. Closed(M \cup {b})
    BY <1>1 DEF Closed
  <2>3. Single(M \cup {b})
    BY <1>1 DEF Single, variant
  <2> QED
    BY <2>1, <2>2, <2>3
<1>2. CASE ~ (Preds[b] \subseteq M /\ ~ \E c \in M : variant(b, c))
  <2>1. insert(M, b) = M
    BY <1>2 DEF insert
  <2> QED
    BY <1>2, <2>1
<1> QED
  BY <1>1, <1>2

\* The rebuilt engine holds stored blocks, is closed and free of variants, and
\* holds every closed set of stored blocks of which no variant is stored.
LEMMA RecoverIs ==
    ASSUME NEW S \in SUBSET Id, IsFiniteSet(S)
    PROVE  LET R == recover_into_engine(S)
           IN  /\ R \subseteq S /\ Closed(R) /\ Single(R)
               /\ \A Q \in SUBSET S : Closed(Q) /\ (\A q \in Q, c \in S : ~ variant(q, c))
                                      => Q \subseteq R
<1> DEFINE t == topo_sort_blocks(S)
           E == Engine(t)
           R == recover_into_engine(S)
<1>1. R = E[Len(t)]
  BY DEF recover_into_engine, Engine
<1>2. /\ t \in Seq(S) /\ Len(t) \in Nat /\ DOMAIN t = 1 .. Len(t)
      /\ \A x \in S : \E i \in 1 .. Len(t) : t[i] = x
      /\ \A i, j \in 1 .. Len(t) : t[j] \in Preds[t[i]] => j < i
  BY ReplayIs
<1> HIDE DEF t
<1>3. E[0] = {} /\ \A k \in 1 .. Len(t) : E[k] = insert(E[k - 1], t[k])
  BY <1>2, EngineIs, Zenon
<1> HIDE DEF E, R
<1>4. ASSUME NEW Q \in SUBSET S, Closed(Q), \A q \in Q, c \in S : ~ variant(q, c)
      PROVE  R \subseteq S /\ Closed(R) /\ Single(R) /\ Q \subseteq R
  <2> DEFINE Good(n) == /\ E[n] \subseteq S /\ Closed(E[n]) /\ Single(E[n])
                        /\ \A i \in 1 .. n : t[i] \in Q => t[i] \in E[n]
             K == {n \in Nat : n <= Len(t) => Good(n)}
  <2>1. Good(0)
    BY <1>3 DEF Closed, Single
  <2>2. ASSUME NEW n \in Nat, n + 1 <= Len(t), Good(n) PROVE Good(n + 1)
    <3> DEFINE b == t[n + 1]
    <3>1. n + 1 \in 1 .. Len(t) /\ (n + 1) - 1 = n /\ b \in S
      BY <1>2, <2>2
    <3>2. E[n + 1] = insert(E[n], b)
      BY <1>3, <3>1
    <3>3. /\ Closed(E[n + 1]) /\ Single(E[n + 1])
          /\ E[n] \subseteq E[n + 1] /\ E[n + 1] \subseteq E[n] \cup {b}
          /\ (Preds[b] \subseteq E[n] /\ \A c \in E[n] : ~ variant(b, c)) => b \in E[n + 1]
      <4> HIDE DEF b
      <4> QED
        BY <2>2, <3>2, InsertIs
    <3>4. ASSUME b \in Q PROVE b \in E[n + 1]
      <4>1. \A c \in E[n] : ~ variant(b, c)
        BY <1>4, <2>2, <3>4
      <4>2. ASSUME NEW p \in Preds[b] PROVE p \in E[n]
        <5>1. p \in Q /\ p \in S
          BY <1>4, <3>4, <4>2 DEF Closed
        <5>2. PICK i \in 1 .. Len(t) : t[i] = p
          BY <1>2, <5>1
        <5>3. i < n + 1
          BY <1>2, <3>1, <4>2, <5>2
        <5>4. i \in 1 .. n
          BY <5>3
        <5> QED
          BY <2>2, <5>1, <5>2, <5>4
      <4> QED
        BY <3>3, <4>1, <4>2
    <3>5. ASSUME NEW i \in 1 .. n + 1, t[i] \in Q PROVE t[i] \in E[n + 1]
      <4>1. CASE i = n + 1
        BY <3>4, <3>5, <4>1
      <4>2. CASE i \in 1 .. n
        BY <2>2, <3>3, <3>5, <4>2
      <4> QED
        BY <4>1, <4>2
    <3>6. E[n + 1] \subseteq S
      BY <2>2, <3>1, <3>3
    <3> QED
      BY <3>3, <3>5, <3>6
  <2> HIDE DEF Good
  <2>3. K \in SUBSET Nat /\ 0 \in K
    BY <2>1
  <2>4. ASSUME NEW n \in K PROVE n + 1 \in K
    <3>1. CASE n + 1 <= Len(t)
      BY <1>2, <2>2, <3>1
    <3>2. CASE ~ (n + 1 <= Len(t))
      BY <3>2
    <3> QED
      BY <3>1, <3>2
  <2>5. Good(Len(t))
    <3> HIDE DEF K
    <3>1. Len(t) \in K
      BY <1>2, <2>3, <2>4, AllNumbers, Zenon
    <3> QED
      BY <1>2, <3>1 DEF K
  <2>6. R \subseteq S /\ Closed(R) /\ Single(R) /\ \A i \in 1 .. Len(t) : t[i] \in Q => t[i] \in R
    BY <1>1, <2>5 DEF Good
  <2>7. Q \subseteq R
    BY <1>2, <2>6
  <2> QED
    BY <2>6, <2>7
<1>5. R \subseteq S /\ Closed(R) /\ Single(R)
  <2>1. Closed({}) /\ {} \in SUBSET S /\ \A q \in {}, c \in S : ~ variant(q, c)
    BY DEF Closed
  <2> QED
    BY <1>4, <2>1
<1> QED
  BY <1>4, <1>5 DEF R

-----------------------------------------------------------------------------
(***************************************************************************)
(* The inductive invariant: every block the process knows was written      *)
(* first, and the block the cursor names has its ancestors in the store.   *)
(***************************************************************************)
StoreInv ==
    /\ MirrorConsistent
    /\ IsFiniteSet(stored)
    /\ mirror \cup pending \cup task \subseteq stored
    /\ up \/ (mirror = {} /\ pending = {} /\ task = {})
    /\ \E P \in SUBSET stored : cursor \subseteq P /\ Closed(P)

\* A set of at most one member has at most one member.
LEMMA AtMostOne ==
    /\ Cardinality({}) <= 1
    /\ \A x : Cardinality({x}) <= 1
<1>1. Cardinality({}) = 0
  BY FS_EmptySet
<1>2. ASSUME NEW x PROVE Cardinality({x}) = 1
  BY FS_Singleton
<1> QED
  BY <1>1, <1>2

\* The released blocks: nothing is lost, none is ready any more, and each
\* entered after its predecessors.
LEMMA ReleaseIs ==
    ASSUME NEW M, Closed(M)
    PROVE  LET R == release_pending(M)
           IN  /\ M \subseteq R /\ R \subseteq M \cup pending
               /\ \A p \in pending : Preds[p] \subseteq R => p \in R
               /\ Closed(R)
<1> DEFINE R == release_pending(M)
           released(T) == M \subseteq T /\ \A p \in pending : Preds[p] \subseteq T => p \in T
<1>1. R = {b \in M \cup pending : \A T \in SUBSET (M \cup pending) : released(T) => b \in T}
  BY DEF release_pending
<1> HIDE DEF R
<1>2. M \subseteq R /\ R \subseteq M \cup pending
  BY <1>1
<1>3. ASSUME NEW p \in pending, Preds[p] \subseteq R PROVE p \in R
  <2>1. ASSUME NEW T \in SUBSET (M \cup pending), released(T) PROVE p \in T
    <3>1. R \subseteq T
      <4> HIDE DEF released
      <4> QED
        BY <1>1, <2>1
    <3>2. Preds[p] \subseteq T
      BY <1>3, <3>1
    <3> QED
      BY <2>1, <3>2
  <2> HIDE DEF released
  <2> QED
    BY <1>1, <2>1
<1>4. ASSUME NEW b \in R PROVE Preds[b] \subseteq R
  <2>1. CASE b \in M
    BY <1>2, <2>1 DEF Closed
  <2>2. CASE b \notin M
    <3> SUFFICES ASSUME ~ (Preds[b] \subseteq R) PROVE FALSE
      OBVIOUS
    <3> DEFINE T == R \ {b}
    <3>1. M \subseteq T /\ T \in SUBSET (M \cup pending)
      BY <1>2, <2>2
    <3>2. ASSUME NEW p \in pending, Preds[p] \subseteq T PROVE p \in T
      <4>1. Preds[p] \subseteq R
        BY <3>2
      <4>2. p \in R
        BY <1>3, <4>1
      <4>3. p # b
        BY <4>1
      <4> QED
        BY <4>2, <4>3
    <3>3. released(T)
      BY <3>1, <3>2
    <3>4. b \in T
      <4> HIDE DEF released, T
      <4> QED
        BY <1>1, <3>1, <3>3
    <3> QED
      BY <3>4
  <2> QED
    BY <2>1, <2>2
<1>5. Closed(R)
  BY <1>4 DEF Closed
<1> QED
  BY <1>2, <1>3, <1>5 DEF R

\* The invariant holds before the first start.
LEMMA StoreInvInit == StoreInit => StoreInv
<1> SUFFICES ASSUME StoreInit PROVE StoreInv
  OBVIOUS
<1>1. MirrorConsistent
  BY AtMostOne, Zenon DEF StoreInit, MirrorConsistent, StoreTypeOK
<1>2. IsFiniteSet(stored)
  BY FS_EmptySet DEF StoreInit
<1>3. {} \in SUBSET stored /\ cursor \subseteq {} /\ Closed({})
  BY DEF StoreInit, Closed
<1> QED
  BY <1>1, <1>2, <1>3 DEF StoreInit, StoreInv

\* put_block keeps the invariant.
LEMMA put_block_keeps ==
    ASSUME StoreInv, NEW b \in Id, put_block(b)
    PROVE  StoreInv'
<1>1. MirrorConsistent'
  <2>1. stored' \subseteq Id /\ Cardinality(task') <= 1
    BY AtMostOne, Zenon DEF StoreInv, MirrorConsistent, StoreTypeOK, put_block
  <2>2. UNCHANGED <<cursor, mirror, pending, up>>
    BY DEF put_block
  <2> QED
    BY <2>1, <2>2 DEF StoreInv, MirrorConsistent, StoreTypeOK
<1>2. IsFiniteSet(stored')
  BY FS_AddElement DEF StoreInv, put_block
<1>3. PICK P \in SUBSET stored : cursor \subseteq P /\ Closed(P)
  BY DEF StoreInv
<1>4. P \in SUBSET stored' /\ cursor' \subseteq P
  BY <1>3 DEF put_block
<1>5. (mirror \cup pending \cup task \subseteq stored)'
  BY DEF StoreInv, put_block
<1>6. up'
  BY DEF put_block
<1> QED
  BY <1>1, <1>2, <1>3, <1>4, <1>5, <1>6 DEF StoreInv, Closed

\* ingest_trusted_block keeps the invariant: a refused block and a duplicate
\* change nothing, a block with its predecessors enters and releases those that
\* waited for it, any other block waits.
LEMMA ingest_trusted_block_keeps ==
    ASSUME StoreInv, NEW b \in Id, ingest_trusted_block(b)
    PROVE  StoreInv'
<1>1. UNCHANGED <<stored, cursor, up>> /\ task' = {} /\ b \in stored
  BY DEF StoreInv, ingest_trusted_block
<1>2. up
  BY DEF StoreInv, ingest_trusted_block
<1>3. /\ (mirror \cup pending \subseteq stored)'
      /\ (\A x \in mirror : Preds[x] \subseteq mirror)'
      /\ (\A x, y \in mirror \cup pending : ~ variant(x, y))'
      /\ (\A x \in pending : x \notin mirror /\ ~ (Preds[x] \subseteq mirror))'
  <2>1. CASE b \in Refused \/ duplicate_or_identity_conflict(b)
    <3>1. UNCHANGED <<mirror, pending>>
      BY <2>1 DEF ingest_trusted_block
    <3> QED
      BY <1>1, <3>1 DEF StoreInv, MirrorConsistent
  <2>2. CASE ~ (b \in Refused \/ duplicate_or_identity_conflict(b))
    <3>1. b \notin mirror \cup pending /\ \A c \in mirror \cup pending : ~ variant(b, c)
      BY <2>2 DEF duplicate_or_identity_conflict
    <3>2. \A x, y \in mirror \cup pending \cup {b} : ~ variant(x, y)
      BY <3>1 DEF StoreInv, MirrorConsistent, variant
    <3>3. CASE Preds[b] \subseteq mirror
      <4> DEFINE M == mirror \cup {b}
      <4>1. mirror' = release_pending(M) /\ pending' = pending \ mirror'
        BY <2>2, <3>3 DEF ingest_trusted_block
      <4>2. Closed(M)
        BY <3>3 DEF StoreInv, MirrorConsistent, Closed
      <4>3. /\ M \subseteq mirror' /\ mirror' \subseteq M \cup pending
            /\ \A p \in pending : Preds[p] \subseteq mirror' => p \in mirror'
            /\ Closed(mirror')
        <5> HIDE DEF M
        <5> QED
          BY <4>1, <4>2, ReleaseIs
      <4>4. (mirror \cup pending \subseteq stored)'
        BY <1>1, <4>1, <4>3, Zenon DEF StoreInv
      <4>5. (\A x, y \in mirror \cup pending : ~ variant(x, y))'
        <5>1. mirror' \cup pending' \subseteq mirror \cup pending \cup {b}
          BY <4>1, <4>3
        <5>2. \A x, y \in mirror' \cup pending' : ~ variant(x, y)
          BY <3>2, <5>1
        <5> QED
          BY <5>2 DEF variant
      <4> QED
        BY <4>1, <4>3, <4>4, <4>5, Zenon DEF Closed
    <3>4. CASE ~ (Preds[b] \subseteq mirror)
      <4>1. pending' = pending \cup {b} /\ mirror' = mirror
        BY <2>2, <3>4 DEF ingest_trusted_block
      <4>2. \A x, y \in mirror' \cup pending' : ~ variant(x, y)
        BY <3>2, <4>1
      <4> QED
        BY <1>1, <3>1, <3>4, <4>1, <4>2 DEF StoreInv, MirrorConsistent, variant
    <3> QED
      BY <3>3, <3>4
  <2> QED
    BY <2>1, <2>2
<1>4. StoreTypeOK'
  BY <1>1, <1>3, AtMostOne DEF StoreInv, MirrorConsistent, StoreTypeOK
<1>5. MirrorConsistent'
  BY <1>3, <1>4 DEF MirrorConsistent
<1>6. \E P \in SUBSET stored' : cursor' \subseteq P /\ Closed(P)
  BY <1>1 DEF StoreInv
<1> QED
  BY <1>1, <1>2, <1>3, <1>5, <1>6 DEF StoreInv, Closed

\* persist_finalized_cursor keeps the invariant.
LEMMA persist_finalized_cursor_keeps ==
    ASSUME StoreInv, NEW b \in Id, persist_finalized_cursor(b)
    PROVE  StoreInv'
<1>1. UNCHANGED <<stored, mirror, pending, task, up>> /\ cursor' = {b} /\ b \in mirror
  BY DEF persist_finalized_cursor
<1>2. MirrorConsistent'
  <2>1. Cardinality(cursor') <= 1
    BY <1>1, AtMostOne
  <2> QED
    BY <1>1, <2>1 DEF StoreInv, MirrorConsistent, StoreTypeOK
<1>3. mirror \in SUBSET stored' /\ cursor' \subseteq mirror /\ Closed(mirror)
  BY <1>1 DEF StoreInv, MirrorConsistent, Closed
<1> QED
  BY <1>1, <1>2, <1>3 DEF StoreInv, Closed

\* crash keeps the invariant.
LEMMA crash_keeps ==
    ASSUME StoreInv, crash
    PROVE  StoreInv'
<1>1. UNCHANGED <<stored, cursor>> /\ mirror' = {} /\ pending' = {} /\ task' = {} /\ up' = FALSE
  BY DEF crash
<1>2. MirrorConsistent'
  BY <1>1, AtMostOne, Zenon DEF StoreInv, MirrorConsistent, StoreTypeOK
<1> QED
  BY <1>1, <1>2 DEF StoreInv, Closed

\* with_persistent_store keeps the invariant: what the replay rebuilds is
\* stored, closed and free of variants, and nothing waits.
LEMMA with_persistent_store_keeps ==
    ASSUME StoreInv, with_persistent_store
    PROVE  StoreInv'
<1>1. /\ UNCHANGED <<stored, cursor, pending, task>> /\ mirror' = recover_into_engine(stored)
      /\ up' = TRUE /\ pending = {} /\ task = {}
  BY DEF StoreInv, with_persistent_store
<1>2. mirror' \subseteq stored /\ Closed(mirror') /\ Single(mirror')
  <2>1. stored \in SUBSET Id /\ IsFiniteSet(stored)
    BY DEF StoreInv, MirrorConsistent, StoreTypeOK
  <2> QED
    BY <1>1, <2>1, RecoverIs
<1>3. MirrorConsistent'
  <2>1. StoreTypeOK'
    BY <1>1, <1>2 DEF StoreInv, MirrorConsistent, StoreTypeOK
  <2> QED
    BY <1>1, <1>2, <2>1 DEF MirrorConsistent, Closed, Single, variant
<1> QED
  BY <1>1, <1>2, <1>3 DEF StoreInv, Closed

\* Every step keeps the invariant.
LEMMA StoreInvNext == StoreInv /\ [StoreNext]_storeVars => StoreInv'
<1> SUFFICES ASSUME StoreInv, [StoreNext]_storeVars PROVE StoreInv'
  OBVIOUS
<1>1. CASE \E b \in Id : put_block(b)
  BY <1>1, put_block_keeps
<1>2. CASE \E b \in Id : ingest_trusted_block(b)
  BY <1>2, ingest_trusted_block_keeps
<1>3. CASE \E b \in Id : persist_finalized_cursor(b)
  BY <1>3, persist_finalized_cursor_keeps
<1>4. CASE crash
  BY <1>4, crash_keeps
<1>5. CASE with_persistent_store
  BY <1>5, with_persistent_store_keeps
<1>6. CASE UNCHANGED storeVars
  BY <1>6 DEF StoreInv, MirrorConsistent, StoreTypeOK, Closed, variant, storeVars
<1> QED
  BY <1>1, <1>2, <1>3, <1>4, <1>5, <1>6 DEF StoreNext

\* The invariant is one.
LEMMA StoreInvariant == StoreSpec => []StoreInv
  BY StoreInvInit, StoreInvNext, PTL DEF StoreSpec

-----------------------------------------------------------------------------
\* Through any crashes and replays the mirror is closed, holds one variant of
\* a content, and buffers no block whose predecessors are mirrored
\* (ingest_and_persist, release_pending, recover_into_engine).
THEOREM MirrorStaysConsistent == StoreSpec => []MirrorConsistent
<1>1. StoreInv => MirrorConsistent
  BY DEF StoreInv
<1> QED
  BY <1>1, StoreInvariant, PTL

\* The replay of whatever was stored offers every block after its stored
\* predecessors (topo_sort_blocks, compute_height).
THEOREM ReplayTopological == StoreSpec => []ReplayIsTopological
<1>1. StoreInv => ReplayIsTopological
  <2> SUFFICES ASSUME StoreInv PROVE ReplayIsTopological
    OBVIOUS
  <2> DEFINE t == topo_sort_blocks(stored)
  <2>1. stored \in SUBSET Id /\ IsFiniteSet(stored)
    BY DEF StoreInv, MirrorConsistent, StoreTypeOK
  <2>2. DOMAIN t = 1 .. Len(t) /\ \A i, j \in 1 .. Len(t) : i < j => t[j] \notin Preds[t[i]]
    BY <2>1, ReplayIs
  <2> HIDE DEF t
  <2>3. \A i, j \in DOMAIN t : i < j => t[j] \notin Preds[t[i]]
    BY <2>2
  <2> QED
    BY <2>3 DEF ReplayIsTopological, t
<1> QED
  BY <1>1, StoreInvariant, PTL

\* The replay brings back every mirrored block, and the one the finalized
\* cursor names, unless a variant of it or of an ancestor was written too
\* (ingest_and_persist, persist_finalized_cursor, recover_into_engine).
THEOREM ReplayRestores == StoreSpec => []CrashLosesNothing
<1>1. StoreInv => CrashLosesNothing
  <2> SUFFICES ASSUME StoreInv,
                      NEW b \in mirror \cup cursor,
                      \A a \in past(b), c \in stored : ~ variant(a, c)
               PROVE  b \in recover_into_engine(stored)
    BY DEF CrashLosesNothing
  <2> DEFINE Q == past(b)
  <2>1. stored \in SUBSET Id /\ IsFiniteSet(stored)
    BY DEF StoreInv, MirrorConsistent, StoreTypeOK
  <2>2. PICK P \in SUBSET stored : b \in P /\ Closed(P)
    <3>1. CASE b \in mirror
      <4>1. mirror \in SUBSET stored /\ Closed(mirror)
        BY DEF StoreInv, MirrorConsistent, Closed
      <4> QED
        BY <3>1, <4>1
    <3>2. CASE b \in cursor
      BY <3>2 DEF StoreInv
    <3> QED
      BY <3>1, <3>2
  <2>3. \A a : a \in Q <=> a \in Id /\ \A T \in SUBSET Id : b \in T /\ Closed(T) => a \in T
    BY DEF past, Closed
  <2> HIDE DEF Q
  <2>4. Q \subseteq stored
    BY <2>1, <2>2, <2>3
  <2>5. b \in Q
    BY <2>1, <2>2, <2>3
  <2>6. Closed(Q)
    <3> SUFFICES ASSUME NEW a \in Q, NEW x \in Preds[a] PROVE x \in Q
      BY DEF Closed
    <3>1. a \in Id /\ x \in Id
      BY <2>3, StoreAssumption
    <3>2. ASSUME NEW T \in SUBSET Id, b \in T, Closed(T) PROVE x \in T
      BY <2>3, <3>2 DEF Closed
    <3> QED
      BY <2>3, <3>1, <3>2
  <2>7. \A q \in Q, c \in stored : ~ variant(q, c)
    BY DEF Q
  <2> QED
    BY <2>1, <2>4, <2>5, <2>6, <2>7, RecoverIs
<1> QED
  BY <1>1, StoreInvariant, PTL

-----------------------------------------------------------------------------
(***************************************************************************)
(* The inductive invariant.                                                *)
(***************************************************************************)
\* The window in progress still deals with b, or has stored it.
Covered(b) ==
    \/ b \in index
    \/ \E i \in DOMAIN queue : queue[i] = b
    \/ \E i \in DOMAIN stack : stack[i].block = b

\* The host's storage is finite and closed under dependencies.
HostClosed ==
    /\ IsFiniteSet(hosted) /\ Block \ Late \subseteq hosted
    /\ \A b \in hosted : Deps[b] \subseteq hosted

\* The stored blocks are closed under dependencies and one to one with their
\* identities; what the process has indexed is stored.
StoreClosed ==
    /\ index \subseteq store
    /\ \A b \in store : Deps[b] \subseteq store /\ check_candidate(store, b)

\* There is work only inside a window, and a window only inside a poll.
Windowed ==
    /\ window = <<>> => queue = <<>> /\ stack = <<>>
    /\ stage \in {"down", "idle"} => window = <<>>
    /\ window # <<>> => window \in Nat \X Nat

\* The blocks of the host below the cursor are stored, and the window that
\* is to move the cursor begins at it and leaves none of them out.
Passed ==
    /\ \A b \in Block \ Late : Height[b] < next => b \in store
    /\ stage = "apply" /\ window # <<>> =>
           /\ window[1] = next /\ next <= window[2]
           /\ \A b \in Block \ Late : Height[b] \in window[1] .. window[2] => Covered(b)

BackfillInv == BackfillTypeOK /\ HostClosed /\ StoreClosed /\ Windowed /\ Passed

\* The two orders of the code are total on any set of blocks.
LEMMA HashOrder ==
    ASSUME NEW S \in SUBSET Block
    PROVE  Orders(greater_hash, S)
<1>1. \A a, b \in S : <<a, b>> \in greater_hash <=> Hash[a] > Hash[b]
  BY DEF greater_hash
<1>2. \A a, b \in S : Hash[a] \in Nat /\ (Hash[a] = Hash[b] => a = b)
  BY BackfillAssumption
<1> QED
  BY <1>1, <1>2 DEF Orders

\* So is the order by height and hash in which a window is ingested.
LEMMA HeightOrder ==
    ASSUME NEW S \in SUBSET Block
    PROVE  Orders(lower_block, S)
<1>1. \A a, b \in S : <<a, b>> \in lower_block <=>
          Height[a] < Height[b] \/ (Height[a] = Height[b] /\ Hash[a] < Hash[b])
  BY DEF lower_block
<1>2. \A a, b \in S : Height[a] \in Nat /\ Hash[a] \in Nat /\ (Hash[a] = Hash[b] => a = b)
  BY BackfillAssumption
<1> QED
  BY <1>1, <1>2 DEF Orders

\* The head of the host is the height of one of its blocks.
LEMMA HostHead ==
    ASSUME hosted \in SUBSET Block, IsFiniteSet(hosted), hosted # {}
    PROVE  host_head \in Nat
<1>1. PICK m \in hosted : \A x \in hosted : x = m \/ <<x, m>> \in lower_block
  BY HeightOrder, LastMember
<1>2. \A x \in hosted : Height[x] \in Nat /\ Height[m] \in Nat /\ Height[x] <= Height[m]
  <2>1. \A x \in hosted : Height[x] \in Nat
    BY BackfillAssumption
  <2>2. \A x \in hosted : x = m \/ Height[x] < Height[m] \/ Height[x] = Height[m]
    BY <1>1, Zenon DEF lower_block
  <2> QED
    BY <2>1, <2>2
<1>3. Height[m] \in heights(hosted) /\ heights(hosted) \subseteq Nat
  BY <1>2 DEF heights
<1> QED
  BY <1>2, <1>3 DEF host_head

-----------------------------------------------------------------------------
(***************************************************************************)
(* The invariant is kept, action by action.                                *)
(***************************************************************************)
LEMMA BackfillInvInit == Init => BackfillInv
<1> SUFFICES ASSUME Init PROVE BackfillInv
  OBVIOUS
<1>1. Cardinality({}) = 0 /\ Cardinality(failed) <= 1
  BY FS_EmptySet DEF Init
<1>2. BackfillTypeOK
  BY <1>1, BackfillAssumption DEF Init, BackfillTypeOK
<1>3. HostClosed
  BY BackfillAssumption DEF Init, HostClosed
<1>4. StoreClosed /\ Windowed
  BY DEF Init, StoreClosed, Windowed
<1>5. Passed
  BY BackfillAssumption DEF Init, Passed
<1> QED
  BY <1>2, <1>3, <1>4, <1>5 DEF BackfillInv

\* A poll reads the head of the host; no window is in progress.
LEMMA poll_to_head_keeps == BackfillInv /\ poll_to_head => BackfillInv'
<1> SUFFICES ASSUME BackfillInv, poll_to_head PROVE BackfillInv'
  OBVIOUS
<1>1. host_head \in Nat
  BY HostHead DEF BackfillInv, BackfillTypeOK, HostClosed, poll_to_head
<1>2. BackfillTypeOK'
  <2>1. from' \in Nat
    BY BackfillAssumption DEF BackfillInv, BackfillTypeOK, poll_to_head
  <2> QED
    BY <1>1, <2>1 DEF BackfillInv, BackfillTypeOK, poll_to_head
<1>3. HostClosed' /\ StoreClosed'
  BY DEF BackfillInv, HostClosed, StoreClosed, check_candidate, poll_to_head
<1>4. Windowed' /\ Passed'
  BY DEF BackfillInv, Windowed, Passed, poll_to_head
<1> QED
  BY <1>2, <1>3, <1>4 DEF BackfillInv

\* The listing of a window holds every block of the host at its heights.
LEMMA list_window_keeps == BackfillInv /\ list_window => BackfillInv'
<1> SUFFICES ASSUME BackfillInv, list_window PROVE BackfillInv'
  OBVIOUS
<1> DEFINE w == next_window
           L == listed(w)
<1>1. hosted \in SUBSET Block /\ IsFiniteSet(hosted) /\ L \in SUBSET hosted
  BY DEF BackfillInv, BackfillTypeOK, HostClosed, listed
<1>2. /\ queue' \in Seq(L) /\ Len(queue') = Cardinality(L)
      /\ \A x \in L : \E i \in 1 .. Cardinality(L) : queue'[i] = x
  <2>1. IsFiniteSet(L)
    BY <1>1, FS_Subset
  <2>2. Orders(lower_block, L)
    BY <1>1, HeightOrder
  <2>3. queue' = sorted(L, lower_block)
    BY DEF list_window
  <2> HIDE DEF L
  <2> QED
    BY <2>1, <2>2, <2>3, SortedIs
<1>3. window' = w /\ w \in Nat \X Nat
  <2>1. next \in Nat /\ from \in Nat /\ head \in Nat /\ BatchHeights \in Nat \ {0}
    BY BackfillAssumption DEF BackfillInv, BackfillTypeOK
  <2>2. stage = "replay" => from < next
    BY DEF list_window, window_due
  <2> QED
    BY <2>1, <2>2 DEF list_window, next_window, lowest
<1>4. BackfillTypeOK'
  <2>1. queue' \in Seq(hosted)
    BY <1>1, <1>2
  <2> QED
    BY <2>1 DEF BackfillInv, BackfillTypeOK, list_window
<1>5. HostClosed' /\ StoreClosed'
  BY DEF BackfillInv, HostClosed, StoreClosed, check_candidate, list_window
<1>6. Windowed'
  <2>1. stage' \in {"replay", "apply"} /\ window' # <<>>
    BY <1>3 DEF list_window, window_due, between_windows
  <2> QED
    BY <1>3, <2>1 DEF Windowed
<1>7. Passed'
  <2>1. ASSUME stage = "apply" PROVE w[1] = next /\ next <= w[2]
    <3>1. next \in Nat /\ head \in Nat /\ next <= head /\ BatchHeights \in Nat \ {0}
      BY <2>1, BackfillAssumption DEF BackfillInv, BackfillTypeOK, list_window, window_due
    <3> QED
      BY <2>1, <3>1 DEF next_window, lowest
  <2>2. ASSUME NEW b \in Block \ Late, Height[b] \in w[1] .. w[2] PROVE Covered(b)'
    <3>1. b \in L
      BY <2>2 DEF BackfillInv, HostClosed, listed
    <3>2. PICK i \in 1 .. Cardinality(L) : queue'[i] = b
      BY <1>2, <3>1
    <3>3. i \in DOMAIN queue'
      BY <1>2, <3>2
    <3> QED
      BY <3>2, <3>3 DEF Covered
  <2>3. next' = next /\ store' = store /\ stage' = stage /\ window' = w
    BY <1>3 DEF list_window
  <2> HIDE DEF w
  <2> QED
    BY <2>1, <2>2, <2>3 DEF BackfillInv, Passed
<1> QED
  BY <1>4, <1>5, <1>6, <1>7 DEF BackfillInv

\* The loops of a poll end between windows.
LEMMA end_of_loop_keeps == BackfillInv /\ end_of_loop => BackfillInv'
<1> SUFFICES ASSUME BackfillInv, end_of_loop PROVE BackfillInv'
  OBVIOUS
<1>1. UNCHANGED <<hosted, store, next, index, head, window, from, queue, stack, fetched, failed>>
      /\ stage' \in {"apply", "idle"} /\ window = <<>>
  BY DEF end_of_loop, between_windows, locals
<1>2. BackfillTypeOK' /\ HostClosed' /\ StoreClosed'
  BY <1>1 DEF BackfillInv, BackfillTypeOK, HostClosed, StoreClosed, check_candidate
<1>3. Windowed' /\ Passed'
  BY <1>1 DEF BackfillInv, Windowed, Passed
<1> QED
  BY <1>2, <1>3 DEF BackfillInv

\* The next target leaves the queue for the stack.
LEMMA next_target_keeps == BackfillInv /\ next_target => BackfillInv'
<1> SUFFICES ASSUME BackfillInv, next_target PROVE BackfillInv'
  OBVIOUS
<1>1. /\ queue \in Seq(hosted) /\ queue # <<>> /\ stack = <<>>
      /\ queue' = Tail(queue) /\ stack' = <<Enter(Head(queue))>>
      /\ UNCHANGED <<hosted, store, next, index, stage, head, window, from, failed>>
  BY DEF BackfillInv, BackfillTypeOK, next_target
<1>2. BackfillTypeOK'
  <2>1. Tail(queue) \in Seq(hosted) /\ Head(queue) \in hosted
    BY <1>1
  <2>2. stack' \in Seq([op : {"enter", "apply"}, block : hosted])
    BY <1>1, <2>1 DEF Enter
  <2>3. fetched' = 0 /\ 0 \in 0 .. MaxBackfill
    BY BackfillAssumption DEF next_target
  <2> QED
    BY <1>1, <2>1, <2>2, <2>3 DEF BackfillInv, BackfillTypeOK
<1>3. HostClosed' /\ StoreClosed'
  BY <1>1, Zenon DEF BackfillInv, HostClosed, StoreClosed, check_candidate
<1>4. Windowed'
  BY <1>1 DEF BackfillInv, Windowed
<1>5. ASSUME NEW b, Covered(b) PROVE Covered(b)'
  <2>1. CASE b \in index
    BY <1>1, <2>1 DEF Covered
  <2>2. ASSUME NEW i \in DOMAIN queue, queue[i] = b PROVE Covered(b)'
    <3>1. CASE i = 1
      <4>1. stack'[1].block = b /\ 1 \in DOMAIN stack'
        BY <1>1, <2>2, <3>1 DEF Enter
      <4> QED
        BY <4>1 DEF Covered
    <3>2. CASE i # 1
      <4>1. i - 1 \in DOMAIN queue' /\ queue'[i - 1] = b
        BY <1>1, <2>2, <3>2
      <4> QED
        BY <4>1 DEF Covered
    <3> QED
      BY <3>1, <3>2
  <2> QED
    BY <1>1, <1>5, <2>1, <2>2 DEF Covered
<1>6. Passed'
  BY <1>1, <1>5 DEF BackfillInv, Passed
<1> QED
  BY <1>2, <1>3, <1>4, <1>6 DEF BackfillInv

\* The top of the stack and what is below it.
LEMMA BelowTop ==
    ASSUME NEW W, stack \in Seq(W), stack # <<>>
    PROVE  /\ Len(stack) \in Nat /\ Len(stack) # 0 /\ top \in W
           /\ below_top \in Seq(W) /\ Len(below_top) = Len(stack) - 1
           /\ \A i \in 1 .. Len(stack) - 1 : below_top[i] = stack[i]
<1>1. Len(stack) \in Nat /\ Len(stack) # 0
  OBVIOUS
<1>2. top \in W
  BY <1>1 DEF top
<1>3. /\ below_top \in Seq(W) /\ Len(below_top) = Len(stack) - 1
      /\ \A i \in 1 .. Len(stack) - 1 : below_top[i] = stack[i]
  <2> DEFINE m == Len(stack) - 1
             s == SubSeq(stack, 1, m)
  <2>1. m \in Nat /\ m <= Len(stack)
    BY <1>1
  <2>2. s = [i \in 1 .. m |-> stack[i]]
    <3> HIDE DEF m
    <3> QED
      BY <2>1
  <2>3. \A i \in 1 .. m : stack[i] \in W
    BY <1>1
  <2>4. s \in Seq(W) /\ Len(s) = m /\ \A i \in 1 .. m : s[i] = stack[i]
    <3> HIDE DEF m, s
    <3> QED
      BY <2>1, <2>2, <2>3
  <2> QED
    BY <2>4 DEF below_top
<1> QED
  BY <1>1, <1>2, <1>3

\* A sequence over a set is one over every larger set.
LEMMA SeqGrows ==
    ASSUME NEW S, NEW T, S \subseteq T, NEW s \in Seq(S)
    PROVE  s \in Seq(T)
OBVIOUS

\* A block that is entered is indexed or stays on the stack, below its dependencies.
LEMMA enter_block_keeps == BackfillInv /\ enter_block => BackfillInv'
<1> SUFFICES ASSUME BackfillInv, enter_block PROVE BackfillInv'
  OBVIOUS
<1> DEFINE Work == [op : {"enter", "apply"}, block : hosted]
           n == Len(stack)
           b == top.block
<1>0. /\ stack \in Seq(Work) /\ stack # <<>>
      /\ UNCHANGED <<hosted, store, next, index, stage, head, window, from, queue, failed>>
  BY DEF BackfillInv, BackfillTypeOK, enter_block, entering
<1>1. /\ stack \in Seq(Work) /\ n \in Nat /\ n # 0 /\ b \in hosted
      /\ UNCHANGED <<hosted, store, next, index, stage, head, window, from, queue, failed>>
  <2>1. n \in Nat /\ n # 0 /\ top \in Work
    <3> HIDE DEF Work
    <3> QED
      BY <1>0, BelowTop
  <2> QED
    BY <1>0, <2>1
<1>2. /\ below_top \in Seq(Work) /\ Len(below_top) = n - 1
      /\ \A i \in 1 .. n - 1 : below_top[i] = stack[i]
  <2> HIDE DEF Work
  <2> QED
    BY <1>0, BelowTop
<1>3. /\ stack' \in Seq(Work) /\ fetched' \in 0 .. MaxBackfill
      /\ \A i \in 1 .. n - 1 : i \in DOMAIN stack' /\ stack'[i] = stack[i]
      /\ b \in index \/ (n \in DOMAIN stack' /\ stack'[n].block = b)
  <2>1. CASE b \in index
    <3>1. stack' = below_top /\ fetched' = fetched
      BY <2>1 DEF enter_block
    <3>2. fetched \in 0 .. MaxBackfill
      BY DEF BackfillInv, BackfillTypeOK
    <3> QED
      BY <1>1, <1>2, <2>1, <3>1, <3>2
  <2>2. CASE b \notin index
    <3> DEFINE D == lacking(b)
               deps == sorted(D, greater_hash)
               more == [i \in DOMAIN deps |-> Enter(deps[i])]
    <3>1. D \in SUBSET hosted /\ D \in SUBSET Block /\ IsFiniteSet(D)
      <4>1. D \in SUBSET hosted /\ hosted \in SUBSET Block /\ IsFiniteSet(hosted)
        BY <1>1 DEF BackfillInv, BackfillTypeOK, HostClosed, lacking
      <4> QED
        BY <4>1, FS_Subset
    <3>2. deps \in Seq(D) /\ Len(deps) = Cardinality(D) /\ Cardinality(D) \in Nat
      BY <3>1, HashOrder, SortedIs
    <3>3. more \in Seq(Work) /\ Len(more) = Len(deps)
      <4> HIDE DEF deps
      <4>1. \A i \in DOMAIN deps : Enter(deps[i]) \in Work
        BY <3>1, <3>2 DEF Enter
      <4>2. DOMAIN deps = 1 .. Len(deps) /\ Len(deps) \in Nat
        BY <3>2
      <4> QED
        BY <4>1, <4>2
    <3>4. stack' = below_top \o <<Apply(b)>> \o more /\ fetched' = fetched + Len(deps)
      BY <2>2, Zenon DEF enter_block
    <3>5. fetched' \in 0 .. MaxBackfill
      <4>1. fetched \in 0 .. MaxBackfill /\ MaxBackfill \in Nat
        BY BackfillAssumption DEF BackfillInv, BackfillTypeOK
      <4>2. ~ ("BackfillLimit" \in errors) /\ entering
        BY DEF enter_block
      <4>3. ~ (fetched + Cardinality(D) > MaxBackfill)
        BY <2>2, <4>2 DEF errors
      <4> HIDE DEF D, deps
      <4> QED
        BY <3>2, <3>4, <4>1, <4>3
    <3>6. Apply(b) \in Work /\ Apply(b).block = b
      BY <1>1 DEF Apply
    <3> HIDE DEF more, deps, Work
    <3>7. /\ stack' \in Seq(Work) /\ n \in DOMAIN stack' /\ stack'[n] = Apply(b)
          /\ \A i \in 1 .. n - 1 : i \in DOMAIN stack' /\ stack'[i] = stack[i]
      BY <1>1, <1>2, <3>3, <3>4, <3>6
    <3> QED
      BY <3>5, <3>6, <3>7
  <2> QED
    BY <2>1, <2>2
<1>4. BackfillTypeOK'
  BY <1>1, <1>3 DEF BackfillInv, BackfillTypeOK
<1>5. HostClosed' /\ StoreClosed'
  BY <1>1 DEF BackfillInv, HostClosed, StoreClosed, check_candidate
<1>6. Windowed'
  <2>1. window # <<>>
    BY <1>1 DEF BackfillInv, Windowed
  <2> QED
    BY <1>1, <2>1 DEF BackfillInv, Windowed
<1>7. ASSUME NEW c, Covered(c) PROVE Covered(c)'
  <2>1. CASE c \in index \/ \E i \in DOMAIN queue : queue[i] = c
    BY <1>1, <2>1 DEF Covered
  <2>2. ASSUME NEW i \in DOMAIN stack, stack[i].block = c PROVE Covered(c)'
    <3>1. i \in 1 .. n - 1 \/ (i = n /\ c = b)
      BY <1>1, <2>2 DEF top
    <3>2. CASE i \in 1 .. n - 1
      BY <1>3, <2>2, <3>2 DEF Covered
    <3>3. CASE i = n /\ c = b
      BY <1>1, <1>3, <3>3 DEF Covered
    <3> QED
      BY <3>1, <3>2, <3>3
  <2> QED
    BY <1>7, <2>1, <2>2 DEF Covered
<1>8. Passed'
  BY <1>1, <1>7 DEF BackfillInv, Passed
<1> QED
  BY <1>4, <1>5, <1>6, <1>8 DEF BackfillInv

\* A block is applied after its dependencies, and under an identity of its own.
LEMMA apply_block_keeps == BackfillInv /\ apply_block => BackfillInv'
<1> SUFFICES ASSUME BackfillInv, apply_block PROVE BackfillInv'
  OBVIOUS
<1> DEFINE Work == [op : {"enter", "apply"}, block : hosted]
           n == Len(stack)
           b == top.block
<1>0. /\ stack \in Seq(Work) /\ stack # <<>>
      /\ UNCHANGED <<hosted, next, stage, head, window, from, queue, fetched, failed>>
      /\ store' = store \cup {b} /\ index' = index \cup {b} /\ stack' = below_top
  BY DEF BackfillInv, BackfillTypeOK, apply_block, put_native_block, applying
<1>1. n \in Nat /\ n # 0 /\ b \in hosted
  <2>1. n \in Nat /\ n # 0 /\ top \in Work
    <3> HIDE DEF Work
    <3> QED
      BY <1>0, BelowTop
  <2> QED
    BY <2>1
<1>2. /\ stack' \in Seq(Work) /\ Len(stack') = n - 1
      /\ \A i \in 1 .. n - 1 : stack'[i] = stack[i]
  <2> HIDE DEF Work
  <2> QED
    BY <1>0, BelowTop
<1>3. BackfillTypeOK'
  BY <1>0, <1>1, <1>2 DEF BackfillInv, BackfillTypeOK
<1>4. HostClosed'
  BY <1>0, <1>1 DEF BackfillInv, HostClosed
<1>5. StoreClosed'
  <2>1. Deps[b] \subseteq index
    <3>1. ~ ("parent" \in errors) /\ applying
      BY DEF apply_block
    <3>2. lacking(b) = {}
      BY <3>1 DEF errors
    <3> QED
      BY <3>2 DEF lacking
  <2>2. check_candidate(store, b)
    BY DEF apply_block, put_native_block
  <2>3. ASSUME NEW c \in store', NEW d \in store',
               from_protobuf_with_parents(d) = from_protobuf_with_parents(c)
        PROVE  d = c
    <3>1. c \in store \cup {b} /\ d \in store \cup {b}
      BY <1>0, <1>1
    <3>2. c \in store /\ d \in store => d = c
      BY <2>3 DEF BackfillInv, StoreClosed, check_candidate
    <3>3. c \in store /\ d = b => d = c
      BY <2>2, <2>3 DEF check_candidate
    <3>4. d \in store /\ c = b => d = c
      BY <2>2, <2>3 DEF check_candidate
    <3> QED
      BY <3>1, <3>2, <3>3, <3>4
  <2>4. \A c \in store' : check_candidate(store, c)'
    BY <2>3 DEF check_candidate, from_protobuf_with_parents
  <2>5. index' \subseteq store' /\ \A c \in store' : Deps[c] \subseteq store'
    BY <1>0, <1>1, <2>1 DEF BackfillInv, StoreClosed
  <2> QED
    BY <2>4, <2>5 DEF StoreClosed
<1>6. Windowed'
  <2>1. window # <<>>
    BY <1>0, <1>1 DEF BackfillInv, Windowed
  <2> QED
    BY <1>0, <1>1, <2>1 DEF BackfillInv, Windowed
<1>7. ASSUME NEW c, Covered(c) PROVE Covered(c)'
  <2>1. CASE c \in index \/ \E i \in DOMAIN queue : queue[i] = c
    BY <1>0, <1>1, <2>1 DEF Covered
  <2>2. ASSUME NEW i \in DOMAIN stack, stack[i].block = c PROVE Covered(c)'
    <3>1. i \in 1 .. n - 1 \/ (i = n /\ c = b)
      BY <1>0, <1>1, <2>2 DEF top
    <3>2. CASE i \in 1 .. n - 1
      <4>1. i \in DOMAIN stack' /\ stack'[i].block = c
        BY <1>0, <1>1, <1>2, <2>2, <3>2
      <4> QED
        BY <4>1 DEF Covered
    <3>3. CASE i = n /\ c = b
      BY <1>0, <1>1, <3>3 DEF Covered
    <3> QED
      BY <3>1, <3>2, <3>3
  <2> QED
    BY <1>7, <2>1, <2>2 DEF Covered
<1>8. Passed'
  BY <1>0, <1>1, <1>7 DEF BackfillInv, Passed
<1> QED
  BY <1>3, <1>4, <1>5, <1>6, <1>8 DEF BackfillInv

\* The cursor moves when nothing of the window is left to do.
LEMMA end_of_window_keeps == BackfillInv /\ end_of_window => BackfillInv'
<1> SUFFICES ASSUME BackfillInv, end_of_window PROVE BackfillInv'
  OBVIOUS
<1>1. /\ window # <<>> /\ queue = <<>> /\ stack = <<>> /\ window' = <<>>
      /\ UNCHANGED <<hosted, store, index, stage, head, queue, stack, fetched, failed>>
      /\ window[2] \in Nat
  BY DEF BackfillInv, Windowed, end_of_window
<1>2. BackfillTypeOK'
  <2>1. next' \in Nat /\ from' \in Nat
    BY <1>1 DEF BackfillInv, BackfillTypeOK, end_of_window, put_native_height_cursor
  <2> QED
    BY <1>1, <2>1 DEF BackfillInv, BackfillTypeOK
<1>3. HostClosed' /\ StoreClosed'
  BY <1>1, Zenon DEF BackfillInv, HostClosed, StoreClosed, check_candidate
<1>4. Windowed'
  BY <1>1 DEF Windowed
<1>5. ASSUME NEW b \in Block \ Late, Height[b] < next' PROVE b \in store
  <2>1. CASE stage = "apply"
    <3>1. next' = window[2] + 1 /\ window[1] = next /\ next \in Nat /\ Height[b] \in Nat
      BY <1>1, <2>1, BackfillAssumption, Zenon
         DEF BackfillInv, BackfillTypeOK, Passed, end_of_window, put_native_height_cursor
    <3>2. Height[b] < next \/ Height[b] \in window[1] .. window[2]
      BY <1>1, <1>5, <3>1
    <3>3. Height[b] < next => b \in store
      BY DEF BackfillInv, Passed
    <3>4. Height[b] \in window[1] .. window[2] => b \in index
      BY <1>1, <2>1 DEF BackfillInv, Passed, Covered
    <3> QED
      BY <3>2, <3>3, <3>4 DEF BackfillInv, StoreClosed
  <2>2. CASE stage # "apply"
    BY <1>5, <2>2 DEF BackfillInv, Passed, end_of_window
  <2> QED
    BY <2>1, <2>2
<1>6. Passed'
  BY <1>1, <1>5 DEF Passed
<1> QED
  BY <1>2, <1>3, <1>4, <1>6 DEF BackfillInv

\* give_up and a crash lose what is not stored, and only that.
LEMMA lose_memory_keeps ==
    ASSUME BackfillInv, lose_memory, UNCHANGED <<hosted, store, next>>, Cardinality(failed') <= 1
    PROVE  BackfillInv'
<1>1. BackfillTypeOK'
  BY BackfillAssumption DEF BackfillInv, BackfillTypeOK, lose_memory
<1>2. HostClosed' /\ StoreClosed'
  BY Zenon DEF BackfillInv, HostClosed, StoreClosed, check_candidate, lose_memory
<1>3. Windowed' /\ Passed'
  BY DEF BackfillInv, Windowed, Passed, lose_memory
<1> QED
  BY <1>1, <1>2, <1>3 DEF BackfillInv

\* A restart indexes what is stored.
LEMMA restart_keeps == BackfillInv /\ restart => BackfillInv'
<1> SUFFICES ASSUME BackfillInv, restart PROVE BackfillInv'
  OBVIOUS
<1>1. /\ UNCHANGED <<hosted, store, next, head, window, from, queue, stack, fetched, failed>>
      /\ index' = store /\ stage' = "idle" /\ window = <<>>
  BY DEF BackfillInv, Windowed, restart, locals
<1>2. BackfillTypeOK' /\ HostClosed' /\ StoreClosed'
  BY <1>1 DEF BackfillInv, BackfillTypeOK, HostClosed, StoreClosed, check_candidate
<1>3. Windowed' /\ Passed'
  BY <1>1 DEF BackfillInv, Windowed, Passed
<1> QED
  BY <1>2, <1>3 DEF BackfillInv

\* The host gets a block after its dependencies.
LEMMA host_block_keeps ==
    ASSUME BackfillInv, NEW b \in Block, host_block(b)
    PROVE  BackfillInv'
<1>1. /\ UNCHANGED <<store, next, index, stage, head, window, from, queue, stack, fetched, failed>>
      /\ hosted' = hosted \cup {b} /\ Deps[b] \subseteq hosted
  BY Zenon DEF host_block, locals
<1>2. BackfillTypeOK'
  <2> DEFINE Work(S) == [op : {"enter", "apply"}, block : S]
  <2>1. hosted \subseteq hosted' /\ Work(hosted) \subseteq Work(hosted')
    BY <1>1
  <2>2. queue \in Seq(hosted) /\ stack \in Seq(Work(hosted))
    BY DEF BackfillInv, BackfillTypeOK
  <2>3. queue \in Seq(hosted')
    BY <2>1, <2>2, SeqGrows
  <2>4. stack \in Seq(Work(hosted'))
    <3> HIDE DEF Work
    <3> QED
      BY <2>1, <2>2, SeqGrows
  <2> QED
    BY <1>1, <2>3, <2>4 DEF BackfillInv, BackfillTypeOK
<1>3. HostClosed'
  <2>1. IsFiniteSet(hosted')
    BY <1>1, FS_AddElement DEF BackfillInv, HostClosed
  <2> QED
    BY <1>1, <2>1 DEF BackfillInv, HostClosed
<1>4. StoreClosed' /\ Windowed'
  BY <1>1 DEF BackfillInv, StoreClosed, check_candidate, Windowed
<1>5. Passed'
  BY <1>1 DEF BackfillInv, Passed, Covered
<1> QED
  BY <1>2, <1>3, <1>4, <1>5 DEF BackfillInv

\* Every step keeps the invariant.
LEMMA BackfillInvNext == BackfillInv /\ [Next]_vars => BackfillInv'
<1> SUFFICES ASSUME BackfillInv, [Next]_vars PROVE BackfillInv'
  OBVIOUS
<1>1. CASE poll_to_head \/ list_window \/ end_of_loop \/ next_target \/ enter_block
  BY <1>1, poll_to_head_keeps, list_window_keeps, end_of_loop_keeps, next_target_keeps,
     enter_block_keeps
<1>2. CASE apply_block \/ end_of_window \/ restart
  BY <1>2, apply_block_keeps, end_of_window_keeps, restart_keeps
<1>3. CASE give_up
  <2>1. Cardinality(failed') <= 1
    BY <1>3, FS_Singleton DEF give_up
  <2> QED
    BY <1>3, <2>1, lose_memory_keeps DEF give_up
<1>4. CASE crash_node
  <2>1. Cardinality(failed') <= 1
    BY <1>4 DEF crash_node, BackfillInv, BackfillTypeOK
  <2> QED
    BY <1>4, <2>1, lose_memory_keeps DEF crash_node
<1>5. CASE \E b \in Block : host_block(b)
  BY <1>5, host_block_keeps
<1>6. CASE UNCHANGED vars
  BY <1>6, Zenon DEF vars, locals, BackfillInv, BackfillTypeOK, HostClosed, StoreClosed, check_candidate,
              Windowed, Passed, Covered
<1> QED
  BY <1>1, <1>2, <1>3, <1>4, <1>5, <1>6 DEF Next, Process

\* The runner's store is closed under dependencies and one to one with the
\* Cordial identities, and its cursor passes no block that the host had from
\* the start and that is not stored, wherever the process crashes or gives up
\* (put_native_block, apply_native_height_window).
THEOREM CursorSound == Spec => []CursorCovers
<1>1. BackfillInv => CursorCovers
  BY DEF BackfillInv, StoreClosed, Passed, CursorCovers
<1> QED
  BY <1>1, BackfillInvInit, BackfillInvNext, PTL DEF Spec

=============================================================================
