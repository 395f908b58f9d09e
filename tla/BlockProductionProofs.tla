------------------------ MODULE BlockProductionProofs -------------------------
(***************************************************************************)
(* Proofs, for every set of proposers, deploys, authorizations and         *)
(* settings and for chains of every length, of what block production       *)
(* promises about deploys, slashing, bonds and authorizations.             *)
(***************************************************************************)
EXTENDS BlockProduction, OrderProofs, SequenceTheorems

-----------------------------------------------------------------------------
(***************************************************************************)
(* Numbers, and functions defined along the predecessors of a block.       *)
(***************************************************************************)
\* Among finitely many blocks one has the greatest number.
LEMMA GreatestOfFinite ==
    ASSUME NEW N \in Nat, NEW S \in SUBSET (1..N), S # {}, NEW f, \A i \in S : f[i] \in Nat
    PROVE  \E m \in S : \A i \in S : f[i] <= f[m]
<1> DEFINE upto(n) == {i \in S : i <= n}
           greatest(n) == \E m \in S : \A i \in upto(n) : f[i] <= f[m]
           K == {n \in Nat : greatest(n)}
<1>0. \A i \in S : i \in Nat /\ 1 <= i /\ i <= N
  OBVIOUS
<1>1. 0 \in K
  <2>1. \A i \in upto(0) : FALSE
    BY <1>0
  <2>2. greatest(0)
    BY <2>1, Zenon
  <2> QED
    BY <2>2
<1>2. ASSUME NEW n \in K PROVE n + 1 \in K
  <2>1. PICK m \in S : \A i \in upto(n) : f[i] <= f[m]
    BY <1>2
  <2>2. ASSUME NEW i \in upto(n + 1) PROVE i \in upto(n) \/ i = n + 1
    BY <2>2
  <2>3. CASE n + 1 \in S /\ f[n + 1] > f[m]
    <3>1. ASSUME NEW i \in upto(n + 1) PROVE f[i] <= f[n + 1]
      <4>1. f[i] \in Nat /\ f[n + 1] \in Nat /\ f[m] \in Nat
        BY <2>3
      <4> QED
        BY <2>1, <2>2, <2>3, <4>1
    <3> QED
      BY <2>3, <3>1
  <2>4. CASE ~ (n + 1 \in S /\ f[n + 1] > f[m])
    <3>1. ASSUME NEW i \in upto(n + 1) PROVE f[i] <= f[m]
      <4>1. f[i] \in Nat /\ f[m] \in Nat /\ i \in S
        OBVIOUS
      <4> QED
        BY <2>1, <2>2, <2>4, <4>1
    <3> QED
      BY <3>1
  <2> QED
    BY <2>3, <2>4
<1> HIDE DEF K
<1>3. N \in K
  <2>1. K \in SUBSET Nat
    BY DEF K
  <2> QED
    BY <1>1, <1>2, <2>1, AllNumbers
<1>4. upto(N) = S
  BY <1>0, Zenon
<1>5. greatest(N)
  BY <1>3 DEF K
<1> QED
  BY <1>4, <1>5

\* The greatest of finitely many positions is Max.
LEMMA MaxPosition ==
    ASSUME NEW N \in Nat, NEW S \in SUBSET (1..N), S # {}
    PROVE  Max(S) \in S /\ \A x \in S : x <= Max(S)
<1> DEFINE f == [i \in S |-> i]
<1>1. PICK m \in S : \A i \in S : f[i] <= f[m]
  <2>1. \A i \in S : f[i] \in Nat
    OBVIOUS
  <2> HIDE DEF f
  <2> QED
    BY <2>1, GreatestOfFinite, Zenon
<1>2. \A i \in S : m >= i
  BY <1>1
<1> QED
  BY <1>2, Zenon DEF Max

\* The value of g at i collects A at i and the values of g at the members of B at i.
Collects(g, N, A, B) == g = [i \in 1..N |-> A[i] \cup UNION {g[j] : j \in B[i]}]

\* Such a function exists when B refers to smaller numbers.
LEMMA UnionRecursion ==
    ASSUME NEW N \in Nat, NEW A, NEW B, \A i \in 1..N : B[i] \subseteq 1..(i - 1)
    PROVE  \E g : Collects(g, N, A, B)
<1> DEFINE Solved(n) == \E g : g = [i \in 1..n |-> A[i] \cup UNION {g[j] : j \in B[i]}]
           K == {n \in Nat : n <= N => Solved(n)}
<1>1. Solved(0)
  <2> DEFINE g == [i \in 1..0 |-> {}]
  <2>1. g = [i \in 1..0 |-> A[i] \cup UNION {g[j] : j \in B[i]}]
    OBVIOUS
  <2> HIDE DEF g
  <2> QED
    BY <2>1
<1>2. ASSUME NEW n \in 1..N, Solved(n - 1) PROVE Solved(n)
  <2>1. PICK g : g = [i \in 1..(n - 1) |-> A[i] \cup UNION {g[j] : j \in B[i]}]
    BY <1>2
  <2> DEFINE h == [i \in 1..n |-> IF i < n THEN g[i] ELSE A[n] \cup UNION {g[j] : j \in B[n]}]
  <2>2. ASSUME NEW i \in 1..n PROVE h[i] = A[i] \cup UNION {h[j] : j \in B[i]}
    <3>1. \A j \in B[i] : j \in 1..n /\ j < n /\ h[j] = g[j]
      OBVIOUS
    <3>2. h[i] = A[i] \cup UNION {g[j] : j \in B[i]}
      <4>1. CASE i < n
        <5>1. i \in 1..(n - 1)
          BY <4>1
        <5>2. g[i] = A[i] \cup UNION {g[j] : j \in B[i]}
          BY <2>1, <5>1, Zenon
        <5> QED
          BY <4>1, <5>2
      <4>2. CASE i = n
        BY <4>2
      <4> QED
        BY <4>1, <4>2
    <3> HIDE DEF h
    <3> QED
      BY <3>1, <3>2
  <2>3. h = [i \in 1..n |-> h[i]]
    OBVIOUS
  <2> HIDE DEF h
  <2>4. h = [i \in 1..n |-> A[i] \cup UNION {h[j] : j \in B[i]}]
    BY <2>2, <2>3, Zenon
  <2> QED
    BY <2>4
<1> HIDE DEF Solved
<1>3. 0 \in K /\ \A n \in K : n + 1 \in K
  <2>1. 0 \in K
    BY <1>1
  <2>2. ASSUME NEW n \in K PROVE n + 1 \in K
    <3>1. CASE n + 1 <= N
      <4>1. n + 1 \in 1..N /\ (n + 1) - 1 = n /\ Solved(n)
        BY <3>1
      <4> QED
        BY <1>2, <4>1
    <3>2. CASE ~ (n + 1 <= N)
      BY <3>2
    <3> QED
      BY <3>1, <3>2
  <2> QED
    BY <2>1, <2>2, Zenon
<1>4. Solved(N)
  <2>1. K \in SUBSET Nat
    OBVIOUS
  <2> HIDE DEF K
  <2>2. N \in K
    BY <1>3, <2>1, AllNumbers
  <2> QED
    BY <2>2 DEF K
<1> QED
  BY <1>4 DEF Solved, Collects

-----------------------------------------------------------------------------
(***************************************************************************)
(* The inductive invariant, in the parts the proofs use one at a time.     *)
(***************************************************************************)
Transition == [number : Nat, deploys : SUBSET Deploy, slashed : SUBSET Validator,
               succeeded : SUBSET Validator, bonds : SUBSET Validator]
Block == [creator : Validator, predecessors : SUBSET Nat, number : Nat, deploys : SUBSET Deploy,
          depth : Nat, authorizations : SUBSET Auth, state : Seq(Transition)]

Typed ==
    /\ config \in Configs /\ clock \in 0..config.time
    /\ chain \in Seq(Block) /\ Len(chain) \in 2..config.blocks
    /\ lace \in [Proposer -> SUBSET (1..Len(chain))]
    /\ pool \in [Proposer -> SUBSET {d \in config.submits : d.price >= config.min_price}]
    /\ bonds \in [Proposer -> SUBSET Validator]
    /\ queue \in [Proposer -> SUBSET Auth]
    /\ evidence \in [Proposer -> SUBSET {Equivocator}]

\* Blocks point backwards, at blocks with smaller numbers, and are executed.
Ordered ==
    \A i \in 1..Len(chain) :
        /\ chain[i].predecessors \subseteq 1..(i - 1)
        /\ \A j \in chain[i].predecessors : chain[j].number < chain[i].number
        /\ chain[i].state # <<>>

\* A proposer holds all of its own blocks, and the last one set its bonds.
own_blocks(v) == {i \in 1..Len(chain) : chain[i].creator = v}
Held ==
    \A v \in Proposer :
        /\ own_blocks(v) \subseteq lace[v]
        /\ own_blocks(v) = {} => bonds[v] = Validator
        /\ own_blocks(v) # {} => bonds[v] = post(chain[Max(own_blocks(v))]).bonds

\* The evidence of a slash is retained, and holds against later blocks.
Retained ==
    \A i \in 1..Len(chain) :
        /\ \A v \in Proposer : chain[i].creator = v => post(chain[i]).slashed \subseteq evidence[v]
        /\ chain[i].creator = Equivocator => post(chain[i]).slashed = {}
        /\ \A j \in i..Len(chain) : chain[i].creator = chain[j].creator
                => post(chain[i]).slashed \cap post(chain[j]).bonds = {}

\* A block includes no deploy before its time, and none that an ancestor includes.
Fresh ==
    \A i \in 1..Len(chain) :
        /\ \A d \in chain[i].deploys : d.valid_after <= chain[i].number
        /\ \A j \in observe[i] \ {i} : chain[i].deploys \cap chain[j].deploys = {}

BpInv == Typed /\ Ordered /\ Held /\ Retained /\ Fresh

-----------------------------------------------------------------------------
(***************************************************************************)
(* What a block of a chain c observes, and the deploys that the walk       *)
(* collects from blocks of number w and above.                             *)
(***************************************************************************)
Backward(c) ==
    /\ Len(c) \in Nat /\ DOMAIN c = 1..Len(c)
    /\ \A i \in 1..Len(c) : c[i].predecessors \subseteq 1..(i - 1)
Rising(c) ==
    \A i \in 1..Len(c) : /\ c[i].number \in Nat
                         /\ \A j \in c[i].predecessors : c[j].number < c[i].number

Observed(c) ==
    CHOOSE g : g = [i \in DOMAIN c |-> {i} \cup UNION {g[j] : j \in c[i].predecessors}]
Walked(c, w) ==
    CHOOSE g : g = [i \in DOMAIN c |-> IF c[i].number < w THEN {}
                                      ELSE c[i].deploys \cup UNION {g[j] : j \in c[i].predecessors}]

\* A block observes itself and what its predecessors observe.
LEMMA ObservedAt ==
    ASSUME NEW c, Backward(c)
    PROVE  \A i \in 1..Len(c) :
               Observed(c)[i] = {i} \cup UNION {Observed(c)[j] : j \in c[i].predecessors}
<1> DEFINE A == [i \in 1..Len(c) |-> {i}]
           B == [i \in 1..Len(c) |-> c[i].predecessors]
<1>1. \A i \in 1..Len(c) : B[i] \subseteq 1..(i - 1)
  BY DEF Backward
<1>2. PICK g : Collects(g, Len(c), A, B)
  <2>1. Len(c) \in Nat
    BY DEF Backward
  <2> HIDE DEF A, B
  <2> QED
    BY <1>1, <2>1, UnionRecursion, Zenon
<1>3. g = [i \in DOMAIN c |-> {i} \cup UNION {g[j] : j \in c[i].predecessors}]
  <2>1. [i \in 1..Len(c) |-> A[i] \cup UNION {g[j] : j \in B[i]}]
        = [i \in DOMAIN c |-> {i} \cup UNION {g[j] : j \in c[i].predecessors}]
    BY DEF Backward
  <2> HIDE DEF A, B
  <2> QED
    BY <1>2, <2>1, Zenon DEF Collects
<1>4. Observed(c) =
        [i \in DOMAIN c |-> {i} \cup UNION {Observed(c)[j] : j \in c[i].predecessors}]
  BY <1>3, Zenon DEF Observed
<1> QED
  BY <1>4, Zenon DEF Backward

\* The walk takes the deploys of a block and goes on to its predecessors.
LEMMA WalkedAt ==
    ASSUME NEW c, Backward(c), NEW w
    PROVE  \A i \in 1..Len(c) : ~ (c[i].number < w) =>
               /\ c[i].deploys \subseteq Walked(c, w)[i]
               /\ \A j \in c[i].predecessors : Walked(c, w)[j] \subseteq Walked(c, w)[i]
<1> DEFINE A == [i \in 1..Len(c) |-> IF c[i].number < w THEN {} ELSE c[i].deploys]
           B == [i \in 1..Len(c) |-> IF c[i].number < w THEN {} ELSE c[i].predecessors]
           F(g) == [i \in DOMAIN c |-> IF c[i].number < w THEN {}
                                ELSE c[i].deploys \cup UNION {g[j] : j \in c[i].predecessors}]
<1>1. \A i \in 1..Len(c) : B[i] \subseteq 1..(i - 1)
  BY DEF Backward
<1>2. PICK g : Collects(g, Len(c), A, B)
  <2>1. Len(c) \in Nat
    BY DEF Backward
  <2> HIDE DEF A, B
  <2> QED
    BY <1>1, <2>1, UnionRecursion, Zenon
<1>3. g = F(g)
  <2>1. ASSUME NEW i \in 1..Len(c)
        PROVE  A[i] \cup UNION {g[j] : j \in B[i]} =
                 IF c[i].number < w THEN {}
                 ELSE c[i].deploys \cup UNION {g[j] : j \in c[i].predecessors}
    <3>1. CASE c[i].number < w
      BY <3>1
    <3>2. CASE ~ (c[i].number < w)
      BY <3>2
    <3> QED
      BY <3>1, <3>2
  <2>2. [i \in 1..Len(c) |-> A[i] \cup UNION {g[j] : j \in B[i]}] = F(g)
    BY <2>1 DEF Backward
  <2> HIDE DEF A, B, F
  <2> QED
    BY <1>2, <2>2, Zenon DEF Collects
<1>4. Walked(c, w) = F(Walked(c, w))
  BY <1>3, Zenon DEF Walked
<1> QED
  BY <1>4 DEF Backward

\* What a block observes is not younger, and its numbers are not greater.
LEMMA ObservedBelow ==
    ASSUME NEW c, Backward(c), Rising(c)
    PROVE  \A i \in 1..Len(c) : \A j \in Observed(c)[i] :
               j \in 1..i /\ c[j].number <= c[i].number
<1> DEFINE below(i) == \A j \in Observed(c)[i] : j \in 1..i /\ c[j].number <= c[i].number
           K == {n \in Nat : \A i \in 1..Len(c) : i <= n => below(i)}
<1>1. 0 \in K
  BY DEF Backward
<1>2. ASSUME NEW n \in K PROVE n + 1 \in K
  <2> SUFFICES ASSUME NEW i \in 1..Len(c), i = n + 1, NEW j \in Observed(c)[i], j # i
               PROVE  j \in 1..i /\ c[j].number <= c[i].number
    <3>1. ASSUME NEW i \in 1..Len(c), i <= n + 1 PROVE i <= n \/ i = n + 1
      BY <3>1 DEF Backward
    <3>2. \A i \in 1..Len(c) : i \in 1..i /\ c[i].number <= c[i].number
      BY DEF Backward, Rising
    <3> QED
      BY <3>1, <3>2
  <2>1. PICK p \in c[i].predecessors : j \in Observed(c)[p]
    BY ObservedAt
  <2>2. p \in 1..Len(c) /\ p <= n /\ c[p].number < c[i].number
    BY DEF Backward, Rising
  <2>3. j \in 1..p /\ c[j].number <= c[p].number
    BY <2>1, <2>2
  <2>4. j \in 1..i /\ j \in 1..Len(c)
    BY <2>2, <2>3 DEF Backward
  <2> QED
    BY <2>2, <2>3, <2>4 DEF Rising
<1> HIDE DEF K
<1>3. Len(c) \in K
  <2>1. K \in SUBSET Nat
    BY DEF K
  <2> QED
    BY <1>1, <1>2, <2>1, AllNumbers DEF Backward
<1> QED
  BY <1>3 DEF K, Backward

\* The walk misses no observed block of number w or above.
LEMMA WalkCovers ==
    ASSUME NEW c, Backward(c), Rising(c), NEW w \in Int
    PROVE  \A i \in 1..Len(c) : \A j \in Observed(c)[i] :
               c[j].number >= w => c[j].deploys \subseteq Walked(c, w)[i]
<1> DEFINE covers(i) == \A j \in Observed(c)[i] :
                            c[j].number >= w => c[j].deploys \subseteq Walked(c, w)[i]
           K == {n \in Nat : \A i \in 1..Len(c) : i <= n => covers(i)}
<1>1. 0 \in K
  BY DEF Backward
<1>2. ASSUME NEW n \in K PROVE n + 1 \in K
  <2> SUFFICES ASSUME NEW i \in 1..Len(c), i = n + 1, NEW j \in Observed(c)[i], c[j].number >= w
               PROVE  c[j].deploys \subseteq Walked(c, w)[i]
    <3>1. ASSUME NEW i \in 1..Len(c), i <= n + 1 PROVE i <= n \/ i = n + 1
      BY <3>1 DEF Backward
    <3> QED
      BY <3>1
  <2>1. j \in 1..i /\ c[j].number <= c[i].number
    BY ObservedBelow
  <2>2. c[i].number \in Nat /\ c[j].number \in Nat
    BY <2>1 DEF Backward, Rising
  <2>3. /\ c[i].deploys \subseteq Walked(c, w)[i]
        /\ \A k \in c[i].predecessors : Walked(c, w)[k] \subseteq Walked(c, w)[i]
    <3>1. ~ (c[i].number < w)
      BY <2>1, <2>2
    <3> QED
      BY <3>1, WalkedAt
  <2>4. CASE j = i
    BY <2>3, <2>4
  <2>5. CASE j # i
    <3>1. PICK q \in c[i].predecessors : j \in Observed(c)[q]
      BY <2>5, ObservedAt
    <3>2. q \in 1..Len(c) /\ q <= n
      BY DEF Backward
    <3>3. c[j].deploys \subseteq Walked(c, w)[q]
      BY <3>1, <3>2
    <3> QED
      BY <2>3, <3>3
  <2> QED
    BY <2>4, <2>5
<1> HIDE DEF K
<1>3. Len(c) \in K
  <2>1. K \in SUBSET Nat
    BY DEF K
  <2> QED
    BY <1>1, <1>2, <2>1, AllNumbers DEF Backward
<1> QED
  BY <1>3 DEF K, Backward

\* A longer chain does not change what the blocks of a shorter one observe.
LEMMA ObservedKept ==
    ASSUME NEW c, Backward(c), NEW d, Backward(d), Len(c) <= Len(d),
           \A i \in 1..Len(c) : d[i] = c[i]
    PROVE  \A i \in 1..Len(c) : Observed(d)[i] = Observed(c)[i]
<1> DEFINE K == {n \in Nat : \A i \in 1..Len(c) : i <= n => Observed(d)[i] = Observed(c)[i]}
<1>1. 0 \in K
  BY DEF Backward
<1>2. ASSUME NEW n \in K PROVE n + 1 \in K
  <2> SUFFICES ASSUME NEW i \in 1..Len(c), i = n + 1
               PROVE  Observed(d)[i] = Observed(c)[i]
    <3>1. ASSUME NEW i \in 1..Len(c), i <= n + 1 PROVE i <= n \/ i = n + 1
      BY <3>1 DEF Backward
    <3> QED
      BY <3>1
  <2>1. i \in 1..Len(d) /\ d[i].predecessors = c[i].predecessors
    BY DEF Backward
  <2>2. \A j \in c[i].predecessors : Observed(d)[j] = Observed(c)[j]
    BY DEF Backward
  <2>3. Observed(c)[i] = {i} \cup UNION {Observed(c)[j] : j \in c[i].predecessors}
    BY ObservedAt
  <2>4. Observed(d)[i] = {i} \cup UNION {Observed(d)[j] : j \in c[i].predecessors}
    BY <2>1, ObservedAt
  <2> QED
    BY <2>2, <2>3, <2>4
<1> HIDE DEF K
<1>3. Len(c) \in K
  <2>1. K \in SUBSET Nat
    BY DEF K
  <2> QED
    BY <1>1, <1>2, <2>1, AllNumbers DEF Backward
<1> QED
  BY <1>3 DEF K, Backward

-----------------------------------------------------------------------------
(***************************************************************************)
(* The blocks that a proposer signs.                                       *)
(***************************************************************************)
\* A signed chain goes backward, with rising numbers.
LEMMA ChainOrdered ==
    ASSUME Typed, Ordered
    PROVE  /\ Backward(chain) /\ Rising(chain)
           /\ observe = Observed(chain)
           /\ \A i \in 1..Len(chain) : chain[i] \in Block
<1>1. \A i \in 1..Len(chain) : chain[i] \in Block
  BY DEF Typed
<1>2. Len(chain) \in Nat /\ DOMAIN chain = 1..Len(chain)
  BY DEF Typed
<1>3. Backward(chain)
  BY <1>2 DEF Ordered, Backward
<1>4. Rising(chain)
  BY <1>1 DEF Ordered, Rising, Block
<1>5. observe = Observed(chain)
  BY DEF observe, Observed
<1> QED
  BY <1>1, <1>3, <1>4, <1>5

\* The predecessors of a proposal are blocks that the proposer holds.
LEMMA PredecessorsHeld ==
    ASSUME Typed, NEW v \in Proposer
    PROVE  select_predecessors(v) \subseteq lace[v] /\ lace[v] \subseteq 1..Len(chain)
<1>1. collect_validator_tips(v, bonds[v]) \subseteq lace[v] /\ all_equivocations(v) \subseteq lace[v]
  BY DEF collect_validator_tips, all_equivocations
<1> QED
  BY <1>1 DEF select_predecessors, Typed

\* The execution parent is a predecessor, and none has a greater number.
LEMMA HeadIsHighest ==
    ASSUME Typed, NEW P \in SUBSET (1..Len(chain)), P # {}
    PROVE  /\ derive_chain_head(P) \in P
           /\ \A j \in P : chain[j].number <= chain[derive_chain_head(P)].number
<1> DEFINE f == [i \in P |-> chain[i].number]
           h == [i \in P |-> Hash[i]]
<1>0. Len(chain) \in Nat /\ Len(chain) <= MaxBlocks /\ MaxBlocks \in Nat
  BY BpAssumption DEF Typed
<1>1. \A i \in P : chain[i].number \in Nat /\ Hash[i] \in Nat /\ i \in 1..MaxBlocks
  <2> TAKE i \in P
  <2>1. i \in 1..Len(chain) /\ i \in 1..MaxBlocks
    BY <1>0
  <2>2. chain[i] \in Block
    BY <2>1 DEF Typed
  <2> QED
    BY <2>1, <2>2, BpAssumption DEF Block
<1>2. PICK m \in P : \A i \in P : f[i] <= f[m]
  <2>1. \A i \in P : f[i] \in Nat
    BY <1>1
  <2> HIDE DEF f
  <2> QED
    BY <1>0, <2>1, GreatestOfFinite, Zenon
<1> DEFINE Q == {i \in P : f[i] = f[m]}
<1>3. PICK q \in Q : \A i \in Q : h[i] <= h[q]
  <2>1. \A i \in Q : h[i] \in Nat
    BY <1>1
  <2>2. Q \in SUBSET (1..Len(chain)) /\ Q # {}
    OBVIOUS
  <2> HIDE DEF f, h, Q
  <2> QED
    BY <1>0, <2>1, <2>2, GreatestOfFinite, Zenon
<1>4. ASSUME NEW j \in P \ {q}
      PROVE  \/ chain[q].number > chain[j].number
             \/ chain[q].number = chain[j].number /\ Hash[q] > Hash[j]
  <2>1. chain[j].number <= chain[q].number
    BY <1>2
  <2>2. chain[j].number = chain[q].number => Hash[j] <= Hash[q]
    BY <1>3
  <2>3. Hash[j] # Hash[q]
    BY <1>1, BpAssumption
  <2> QED
    BY <1>1, <2>1, <2>2, <2>3
<1>5. /\ derive_chain_head(P) \in P
      /\ \A j \in P \ {derive_chain_head(P)} :
            \/ chain[derive_chain_head(P)].number > chain[j].number
            \/ chain[derive_chain_head(P)].number = chain[j].number /\ Hash[derive_chain_head(P)] > Hash[j]
  BY <1>4, Zenon DEF derive_chain_head
<1> HIDE DEF f, h, Q
<1>6. ASSUME NEW j \in P PROVE chain[j].number <= chain[derive_chain_head(P)].number
  <2>1. chain[j].number \in Nat /\ chain[derive_chain_head(P)].number \in Nat
    BY <1>1, <1>5, Zenon
  <2>2. CASE j = derive_chain_head(P)
    BY <2>1, <2>2
  <2>3. CASE j \in P \ {derive_chain_head(P)}
    BY <1>5, <2>1, <2>3
  <2> QED
    BY <2>2, <2>3
<1> QED
  BY <1>5, <1>6

\* The depth of a block above its predecessors is a number.
LEMMA DepthIsNumber ==
    ASSUME Typed, NEW P \in SUBSET (1..Len(chain)), P # {}
    PROVE  Max({chain[i].depth : i \in P}) \in Nat
<1> DEFINE f == [i \in P |-> chain[i].depth]
<1>0. Len(chain) \in Nat /\ \A i \in P : chain[i] \in Block
  BY DEF Typed
<1>1. \A i \in P : chain[i].depth \in Nat /\ f[i] = chain[i].depth
  BY <1>0 DEF Block
<1> HIDE DEF f
<1>2. PICK m \in P : \A i \in P : f[i] <= f[m]
  <2>1. \A i \in P : f[i] \in Nat
    BY <1>1
  <2>2. Len(chain) \in Nat
    BY <1>0
  <2> QED
    BY <2>1, <2>2, GreatestOfFinite, Zenon
<1> DEFINE D == {chain[i].depth : i \in P}
<1>3. D \subseteq Nat /\ chain[m].depth \in D /\ \A y \in D : chain[m].depth >= y
  BY <1>1, <1>2
<1> HIDE DEF D
<1>4. Max(D) \in D
  BY <1>3 DEF Max
<1> QED
  BY <1>3, <1>4 DEF D

\* Selected deploys are due, not expired, and not in the scope of the walk.
LEMMA SelectedDeploys ==
    ASSUME NEW v, NEW P, NEW n, NEW d \in select_for_block(v, P, n)
    PROVE  /\ d \in pool[v] /\ d \notin compute_deploys_in_scope(P, n)
           /\ not_future(d, n) /\ ~ is_block_expired(d, n)
BY DEF select_for_block, oldest_plus_newest

\* What a proposer signs, part by part.
LEMMA ProposalIs ==
    ASSUME Typed, Ordered, NEW v \in Proposer
    PROVE  /\ proposal(v) \in Block
           /\ proposal(v).creator = v
           /\ proposal(v).predecessors \subseteq 1..Len(chain)
           /\ \A j \in proposal(v).predecessors : chain[j].number < proposal(v).number
           /\ proposal(v).state # <<>>
           /\ post(proposal(v)).slashed = evidence[v]
           /\ post(proposal(v)).bonds \cap evidence[v] = {}
           /\ post(proposal(v)).bonds \subseteq Validator
           /\ proposal(v).authorizations = queue[v]
           /\ proposal(v).deploys =
                select_for_block(v, proposal(v).predecessors, proposal(v).number)
<1> DEFINE P    == select_predecessors(v)
           head == chain[derive_chain_head(P)]
           n    == IF P = {} THEN 0 ELSE head.number + 1
           pre  == IF P = {} THEN <<>> ELSE head.state
           B    == IF P = {} THEN bonds[v] ELSE post(head).bonds
           D    == select_for_block(v, P, n)
           last == [number |-> n, deploys |-> D, slashed |-> evidence[v],
                    succeeded |-> evidence[v] \cap B, bonds |-> B \ evidence[v]]
           depth == IF P = {} THEN 0 ELSE 1 + Max({chain[i].depth : i \in P})
<1>1. proposal(v) = [creator |-> v, predecessors |-> P, number |-> n, deploys |-> D, depth |-> depth,
                     authorizations |-> queue[v], state |-> Append(pre, last)]
  BY DEF proposal, execute_block, slash_system_deploys
<1>2. P \in SUBSET (1..Len(chain))
  BY PredecessorsHeld
<1>3. v \in Validator /\ evidence[v] \subseteq Validator /\ queue[v] \subseteq Auth
      /\ bonds[v] \subseteq Validator
  BY DEF Typed, Validator
<1>4. ASSUME P # {} PROVE head \in Block /\ \A j \in P : chain[j].number <= head.number
  <2>1. derive_chain_head(P) \in P /\ \A j \in P : chain[j].number <= head.number
    BY <1>2, <1>4, HeadIsHighest
  <2>2. head \in Block
    BY <1>2, <2>1 DEF Typed
  <2> QED
    BY <2>1, <2>2
<1>5. n \in Nat /\ depth \in Nat
  BY <1>2, <1>4, DepthIsNumber, SMTT(30) DEF Block
<1>6. pre \in Seq(Transition)
  BY <1>4 DEF Block
<1>7. B \subseteq Validator
  <2>1. CASE P = {}
    BY <1>3, <2>1
  <2>2. CASE P # {}
    <3>1. head \in Block /\ derive_chain_head(P) \in 1..Len(chain)
      BY <1>2, <1>4, <2>2, HeadIsHighest
    <3>2. head.state \in Seq(Transition) /\ head.state # <<>>
      BY <3>1 DEF Block, Ordered
    <3>3. post(head) \in Transition
      BY <3>2 DEF post
    <3> QED
      BY <2>2, <3>3 DEF Transition
  <2> QED
    BY <2>1, <2>2
<1>8. D \subseteq Deploy
  <2>1. pool[v] \subseteq Deploy
    BY BpAssumption DEF Typed
  <2> QED
    BY <2>1, SelectedDeploys
<1>9. ASSUME NEW j \in P PROVE chain[j].number < n
  <2>0. chain[j] \in Block
    BY <1>2 DEF Typed
  <2>1. chain[j].number \in Nat
    BY <2>0 DEF Block
  <2> QED
    BY <1>4, <2>1 DEF Block
<1> HIDE DEF P, head, n, pre, B, D, depth
<1>10. last \in Transition
  BY <1>3, <1>5, <1>7, <1>8 DEF Transition
<1>11. /\ Append(pre, last) \in Seq(Transition) /\ Append(pre, last) # <<>>
       /\ Append(pre, last)[Len(Append(pre, last))] = last
  <2> HIDE DEF last
  <2> QED
    BY <1>6, <1>10
<1>12. post(proposal(v)) = last
  BY <1>1, <1>11 DEF post
<1>13. proposal(v) \in Block
  <2> HIDE DEF last
  <2> QED
    BY <1>1, <1>2, <1>3, <1>5, <1>8, <1>11 DEF Block
<1>14. /\ proposal(v).creator = v /\ proposal(v).predecessors = P /\ proposal(v).number = n
       /\ proposal(v).deploys = D /\ proposal(v).authorizations = queue[v]
       /\ proposal(v).state = Append(pre, last)
  BY <1>1
<1>15. last.slashed = evidence[v] /\ last.bonds = B \ evidence[v]
  OBVIOUS
<1>16. D = select_for_block(v, P, n)
  BY DEF D
<1> HIDE DEF last
<1>17. /\ post(proposal(v)).slashed = evidence[v]
       /\ post(proposal(v)).bonds \cap evidence[v] = {}
       /\ post(proposal(v)).bonds \subseteq Validator
  BY <1>7, <1>12, <1>15
<1>18. /\ proposal(v).predecessors \subseteq 1..Len(chain)
       /\ \A j \in proposal(v).predecessors : chain[j].number < proposal(v).number
  <2>1. proposal(v).predecessors \subseteq 1..Len(chain)
    BY <1>2, <1>14
  <2>2. ASSUME NEW j \in proposal(v).predecessors PROVE chain[j].number < proposal(v).number
    <3>1. j \in P
      BY <1>14, <2>2
    <3>2. chain[j].number < n
      BY <1>9, <3>1
    <3> QED
      BY <1>14, <3>2
  <2> QED
    BY <2>1, <2>2
<1>19. proposal(v).state # <<>>
  BY <1>11, <1>14
<1>20. proposal(v).deploys = select_for_block(v, proposal(v).predecessors, proposal(v).number)
  BY <1>14, <1>16
<1> QED
  BY <1>13, <1>14, <1>17, <1>18, <1>19, <1>20

-----------------------------------------------------------------------------
(***************************************************************************)
(* The invariant is inductive.                                             *)
(***************************************************************************)
\* It holds when only the two blocks of the equivocator are signed.
LEMMA BpInvInit ==
    ASSUME Init
    PROVE  BpInv
<1> DEFINE last(D) == [number |-> 0, deploys |-> D, slashed |-> {}, succeeded |-> {} \cap Validator,
                       bonds |-> Validator \ {}]
           fork(D) == [creator |-> Equivocator, predecessors |-> {}, number |-> 0, deploys |-> D,
                       depth |-> 0, authorizations |-> {}, state |-> Append(<<>>, last(D))]
<1>1. chain = <<fork({}), fork(ForkDeploys)>>
  BY DEF Init, execute_block
<1>2. ASSUME NEW D \in {{}, ForkDeploys}
      PROVE  /\ fork(D) \in Block /\ fork(D).predecessors = {} /\ fork(D).number = 0
             /\ fork(D).creator = Equivocator /\ fork(D).deploys = D /\ fork(D).state # <<>>
             /\ post(fork(D)).slashed = {}
  <2>1. D \subseteq Deploy
    BY BpAssumption
  <2>2. last(D) \in Transition
    BY <2>1 DEF Transition, Validator
  <2>3. last(D).slashed = {}
    OBVIOUS
  <2> HIDE DEF last
  <2>4. /\ Append(<<>>, last(D)) \in Seq(Transition) /\ Append(<<>>, last(D)) # <<>>
        /\ Append(<<>>, last(D))[Len(Append(<<>>, last(D)))] = last(D)
    BY <2>2
  <2>5. fork(D) \in Block
    BY <2>1, <2>4 DEF Block, Validator
  <2> QED
    BY <2>3, <2>4, <2>5 DEF post
<1> HIDE DEF fork
<1>3. chain \in Seq(Block) /\ Len(chain) = 2 /\ DOMAIN chain = {1, 2}
      /\ chain[1] = fork({}) /\ chain[2] = fork(ForkDeploys)
  BY <1>1, <1>2
<1>4. \A i \in 1..Len(chain) : \E D \in {{}, ForkDeploys} : chain[i] = fork(D)
  BY <1>3
<1>5. \A i \in 1..Len(chain) :
        /\ chain[i].predecessors = {} /\ chain[i].number = 0 /\ chain[i].state # <<>>
        /\ chain[i].creator = Equivocator /\ post(chain[i]).slashed = {}
        /\ \A d \in chain[i].deploys : d.valid_after = 0
  BY <1>2, <1>4, BpAssumption
<1>6. Typed
  <2>1. config \in Configs /\ clock \in 0..config.time /\ 2 \in 2..config.blocks
    BY BpAssumption DEF Init
  <2> QED
    BY <1>3, <2>1 DEF Init, Typed
<1>7. Ordered
  BY <1>5 DEF Ordered
<1>8. Held
  <2>1. \A v \in Proposer : own_blocks(v) = {}
    BY <1>5, BpAssumption DEF own_blocks
  <2> QED
    BY <2>1 DEF Init, Held
<1>9. Retained
  <2>1. \A i \in 1..Len(chain) : \A X : post(chain[i]).slashed \subseteq X
                                        /\ post(chain[i]).slashed \cap X = {}
    BY <1>5
  <2> QED
    BY <1>5, <2>1 DEF Retained
<1>10. Fresh
  <2>1. \A i \in 1..Len(chain) : observe[i] = {i}
    BY <1>5, <1>6, <1>7, ChainOrdered, ObservedAt
  <2> QED
    BY <1>5, <2>1 DEF Fresh
<1> QED
  BY <1>6, <1>7, <1>8, <1>9, <1>10 DEF BpInv

\* A step that signs no block keeps it: what a blocklace or the evidence holds only grows.
LEMMA NoNewBlock ==
    ASSUME BpInv, Typed', UNCHANGED <<chain, bonds>>,
           \A v \in Proposer : lace[v] \subseteq lace'[v] /\ evidence[v] \subseteq evidence'[v]
    PROVE  BpInv'
<1>1. Ordered'
  BY DEF BpInv, Ordered
<1>2. Held'
  <2>1. \A v : own_blocks(v)' = own_blocks(v)
    BY DEF own_blocks
  <2> QED
    BY <2>1 DEF BpInv, Held, post
<1>3. Retained'
  BY DEF BpInv, Retained, post
<1>4. Fresh'
  <2>1. observe' = observe
    BY DEF observe
  <2> QED
    BY <2>1 DEF BpInv, Fresh
<1> QED
  BY <1>1, <1>2, <1>3, <1>4 DEF BpInv

\* A proposal extends the chain with one block that its proposer holds.
LEMMA ProposeEffect ==
    ASSUME BpInv, NEW v \in Proposer, propose_at_time(v), NEW b, b = proposal(v)
    PROVE  /\ Len(chain) \in Nat /\ Len(chain) < config.blocks
           /\ chain' \in Seq(Block) /\ Len(chain') = Len(chain) + 1
           /\ chain'[Len(chain) + 1] = b
           /\ \A i \in 1..Len(chain) : chain'[i] = chain[i]
           /\ lace' = [lace EXCEPT ![v] = @ \cup {Len(chain) + 1}]
           /\ bonds' = [bonds EXCEPT ![v] = post(b).bonds]
           /\ queue' = [queue EXCEPT ![v] = {}]
           /\ UNCHANGED <<config, pool, evidence, clock>>
<1>1. b \in Block /\ chain \in Seq(Block) /\ Len(chain) \in Nat
  BY ProposalIs DEF BpInv, Typed
<1>2. chain' = Append(chain, b)
  BY DEF propose_at_time, create_block
<1>3. Len(chain) < config.blocks
  BY DEF propose_at_time, prepares
<1>4. /\ chain' \in Seq(Block) /\ Len(chain') = Len(chain) + 1
      /\ chain'[Len(chain) + 1] = b
      /\ \A i \in 1..Len(chain) : chain'[i] = chain[i]
  BY <1>1, <1>2
<1> QED
  BY <1>1, <1>3, <1>4 DEF propose_at_time, create_block

\* Signing a block keeps the invariant.
LEMMA ProposeKeeps ==
    ASSUME BpInv, NEW v \in Proposer, propose_at_time(v)
    PROVE  BpInv'
<1> DEFINE N == Len(chain)
<1>0. PICK b : b = proposal(v)
  OBVIOUS
<1>1. /\ N \in Nat /\ N < config.blocks
      /\ chain' \in Seq(Block) /\ Len(chain') = N + 1
      /\ chain'[N + 1] = b
      /\ \A i \in 1..N : chain'[i] = chain[i]
      /\ lace' = [lace EXCEPT ![v] = @ \cup {N + 1}]
      /\ bonds' = [bonds EXCEPT ![v] = post(b).bonds]
      /\ queue' = [queue EXCEPT ![v] = {}]
      /\ UNCHANGED <<config, pool, evidence, clock>>
  BY <1>0, ProposeEffect
<1>2. /\ b \in Block /\ b.creator = v /\ b.predecessors \subseteq 1..N /\ b.state # <<>>
      /\ \A j \in b.predecessors : chain[j].number < b.number
      /\ post(b).slashed = evidence[v] /\ post(b).bonds \cap evidence[v] = {}
      /\ post(b).bonds \subseteq Validator
      /\ b.deploys = select_for_block(v, b.predecessors, b.number)
  BY <1>0, ProposalIs DEF BpInv
<1>3. Typed /\ Ordered /\ Held /\ Retained /\ Fresh
  BY DEF BpInv
<1>4. /\ 1..Len(chain') = 1..N \cup {N + 1} /\ 1..N \subseteq 1..(N + 1)
  BY <1>1
<1>5. config \in Configs /\ config.blocks \in Nat /\ N \in 2..config.blocks
  BY <1>3, BpAssumption DEF Typed
<1> HIDE DEF N
<1>6. Typed'
  <2>1. lace' \in [Proposer -> SUBSET (1..Len(chain'))]
    BY <1>1, <1>3, <1>4 DEF Typed, N
  <2>2. N + 1 \in 2..config.blocks
    BY <1>1, <1>5
  <2>3. bonds' \in [Proposer -> SUBSET Validator] /\ queue' \in [Proposer -> SUBSET Auth]
    BY <1>1, <1>2, <1>3 DEF Typed
  <2> QED
    BY <1>1, <1>3, <2>1, <2>2, <2>3 DEF Typed
<1>7. Ordered'
  <2> SUFFICES ASSUME NEW i \in 1..Len(chain')
               PROVE  /\ chain'[i].predecessors \subseteq 1..(i - 1)
                      /\ \A j \in chain'[i].predecessors : chain'[j].number < chain'[i].number
                      /\ chain'[i].state # <<>>
    BY DEF Ordered
  <2>1. CASE i \in 1..N
    <3>1. /\ chain[i].predecessors \subseteq 1..(i - 1) /\ chain[i].state # <<>>
          /\ \A j \in chain[i].predecessors : chain[j].number < chain[i].number
      BY <1>3, <2>1 DEF Ordered, N
    <3>2. 1..(i - 1) \subseteq 1..N
      BY <1>1, <2>1
    <3> QED
      BY <1>1, <2>1, <3>1, <3>2
  <2>2. CASE i = N + 1
    <3>1. i - 1 = N
      BY <1>1, <2>2
    <3> QED
      BY <1>1, <1>2, <2>2, <3>1
  <2> QED
    BY <1>4, <2>1, <2>2
<1>8. Held'
  <2>1. DOMAIN lace = Proposer /\ DOMAIN bonds = Proposer
    BY <1>3 DEF Typed
  <2>2. \A w \in Proposer : own_blocks(w)' = own_blocks(w) \cup (IF w = v THEN {N + 1} ELSE {})
    BY <1>1, <1>2, <1>4 DEF own_blocks, N
  <2>3. ASSUME NEW w \in Proposer, w # v
        PROVE  /\ own_blocks(w)' \subseteq lace'[w]
               /\ own_blocks(w)' = {} => bonds'[w] = Validator
               /\ own_blocks(w)' # {} => bonds'[w] = post(chain'[Max(own_blocks(w)')]).bonds
    <3>1. own_blocks(w)' = own_blocks(w) /\ lace'[w] = lace[w] /\ bonds'[w] = bonds[w]
      <4>1. own_blocks(w)' = own_blocks(w) \cup {}
        BY <2>2, <2>3
      <4> QED
        BY <1>1, <2>1, <2>3, <4>1
    <3>2. own_blocks(w) \in SUBSET (1..N)
      BY DEF own_blocks, N
    <3>3. ASSUME own_blocks(w) # {} PROVE chain'[Max(own_blocks(w))] = chain[Max(own_blocks(w))]
      <4>1. Max(own_blocks(w)) \in own_blocks(w)
        BY <1>1, <3>2, <3>3, MaxPosition, Zenon
      <4> QED
        BY <1>1, <3>2, <4>1
    <3> QED
      BY <1>3, <3>1, <3>3 DEF Held, post
  <2>4. /\ own_blocks(v)' \subseteq lace'[v] /\ own_blocks(v)' # {}
        /\ bonds'[v] = post(chain'[Max(own_blocks(v)')]).bonds
    <3>1. /\ own_blocks(v)' = own_blocks(v) \cup {N + 1}
          /\ lace'[v] = lace[v] \cup {N + 1} /\ bonds'[v] = post(b).bonds
      BY <1>1, <2>1, <2>2
    <3>2. own_blocks(v) \in SUBSET (1..N) /\ own_blocks(v) \subseteq lace[v]
      <4>1. own_blocks(v) \in SUBSET (1..N)
        BY DEF own_blocks, N
      <4> QED
        BY <1>3, <4>1 DEF Held
    <3>3. own_blocks(v)' \in SUBSET (1..(N + 1)) /\ N + 1 \in own_blocks(v)' /\ N + 1 \in Nat
      BY <1>1, <1>4, <3>1, <3>2
    <3>4. /\ Max(own_blocks(v)') \in own_blocks(v)'
          /\ \A x \in own_blocks(v)' : x <= Max(own_blocks(v)')
      BY <3>3, MaxPosition
    <3>5. Max(own_blocks(v)') = N + 1
      BY <1>1, <3>3, <3>4
    <3> QED
      BY <1>1, <3>1, <3>2, <3>5
  <2> QED
    BY <2>3, <2>4 DEF Held, post
<1>9. Retained'
  <2>1. ASSUME NEW i \in 1..Len(chain')
        PROVE  /\ \A w \in Proposer : chain'[i].creator = w
                      => post(chain'[i]).slashed \subseteq evidence'[w]
               /\ chain'[i].creator = Equivocator => post(chain'[i]).slashed = {}
    <3>1. CASE i \in 1..N
      <4>1. chain'[i] = chain[i] /\ evidence' = evidence
        BY <1>1, <3>1
      <4>2. i \in 1..Len(chain)
        BY <3>1 DEF N
      <4>3. \A w \in Proposer : chain[i].creator = w => post(chain[i]).slashed \subseteq evidence[w]
        BY <1>3, <4>2, Zenon DEF Retained
      <4>4. chain[i].creator = Equivocator => post(chain[i]).slashed = {}
        BY <1>3, <4>2, Zenon DEF Retained
      <4> QED
        BY <4>1, <4>3, <4>4
    <3>2. CASE i = N + 1
      BY <1>1, <1>2, <3>2, BpAssumption
    <3> QED
      BY <1>4, <2>1, <3>1, <3>2
  <2>2. ASSUME NEW i \in 1..Len(chain'), NEW j \in i..Len(chain'),
               chain'[i].creator = chain'[j].creator
        PROVE  post(chain'[i]).slashed \cap post(chain'[j]).bonds = {}
    <3>1. CASE j \in 1..N
      <4>1. i \in 1..N /\ j \in i..N
        BY <1>1, <3>1
      <4>2. chain'[i] = chain[i] /\ chain'[j] = chain[j]
        BY <1>1, <3>1, <4>1
      <4>3. \A k \in i..N : chain[i].creator = chain[k].creator
                => post(chain[i]).slashed \cap post(chain[k]).bonds = {}
        BY <1>3, <4>1 DEF Retained, N
      <4> QED
        BY <2>2, <4>1, <4>2, <4>3
    <3>2. CASE j = N + 1
      <4>1. post(chain'[i]).slashed \subseteq evidence[v]
        BY <1>1, <1>2, <2>1, <2>2, <3>2
      <4> QED
        BY <1>1, <1>2, <3>2, <4>1
    <3>3. j \in 1..N \/ j = N + 1
      BY <1>1, <2>2
    <3> QED
      BY <3>1, <3>2, <3>3
  <2> QED
    BY <2>1, <2>2 DEF Retained, post
<1>10. Fresh'
  <2>0. observe' = Observed(chain')
    BY DEF observe, Observed
  <2>1. Backward(chain) /\ Rising(chain) /\ observe = Observed(chain)
    BY <1>3, ChainOrdered
  <2>2. Backward(chain')
    BY <1>1, <1>7 DEF Ordered, Backward
  <2>3. \A i \in 1..N : observe'[i] = observe[i]
    BY <1>1, <2>0, <2>1, <2>2, ObservedKept, SMTT(30) DEF N
  <2>4. \A i \in 1..N : \A j \in observe[i] : j \in 1..N
    BY <1>1, <2>1, ObservedBelow DEF N
  <2>5. ASSUME NEW i \in 1..N
        PROVE  /\ \A d \in chain'[i].deploys : d.valid_after <= chain'[i].number
               /\ \A j \in observe'[i] \ {i} : chain'[i].deploys \cap chain'[j].deploys = {}
    BY <1>1, <1>3, <2>3, <2>4, Zenon DEF Fresh, N
  <2>6. ASSUME NEW d \in b.deploys
        PROVE  /\ d \notin compute_deploys_in_scope(b.predecessors, b.number)
               /\ d.valid_after <= b.number /\ ~ is_block_expired(d, b.number)
    BY <1>2, <2>6, SelectedDeploys DEF not_future
  <2>7. ASSUME NEW j \in observe'[N + 1] \ {N + 1}, NEW d \in b.deploys \cap chain'[j].deploys
        PROVE  FALSE
    <3> DEFINE w == b.number - config.lifespan
    <3>1. PICK q \in b.predecessors : j \in Observed(chain)[q]
      <4>1. N + 1 \in 1..Len(chain')
        BY <1>1, <1>4
      <4>2. PICK q \in b.predecessors : j \in Observed(chain')[q]
        BY <1>1, <2>0, <2>2, <2>7, <4>1, ObservedAt
      <4> QED
        BY <1>2, <2>0, <2>1, <2>3, <4>2
    <3>2. q \in 1..N /\ j \in 1..N
      BY <1>2, <2>1, <2>4, <3>1
    <3>3. d \in chain[j].deploys /\ d.valid_after <= chain[j].number
      BY <1>1, <1>3, <2>7, <3>2 DEF Fresh, N
    <3>4. /\ b.number \in Nat /\ config.lifespan \in Nat /\ chain[j].number \in Nat
          /\ d \in Deploy /\ d.valid_after \in Nat
      <4>1. chain[j] \in Block
        BY <1>3, <3>2 DEF Typed, N
      <4> QED
        BY <1>2, <1>5, <4>1, BpAssumption, Zenon DEF Block
    <3>5. chain[j].number >= w /\ w \in Int
      BY <2>6, <3>3, <3>4 DEF is_block_expired
    <3>6. d \in Walked(chain, w)[q]
      <4> HIDE DEF w
      <4> QED
        BY <2>1, <3>1, <3>2, <3>3, <3>5, WalkCovers DEF N
    <3>7. compute_deploys_in_scope(b.predecessors, b.number)
            = UNION {Walked(chain, w)[i] : i \in b.predecessors}
      BY DEF compute_deploys_in_scope, Walked
    <3> HIDE DEF w
    <3> QED
      BY <2>6, <3>6, <3>7
  <2>8. /\ \A d \in chain'[N + 1].deploys : d.valid_after <= chain'[N + 1].number
        /\ \A j \in observe'[N + 1] \ {N + 1} : chain'[N + 1].deploys \cap chain'[j].deploys = {}
    BY <1>1, <2>6, <2>7
  <2> QED
    BY <1>4, <2>5, <2>8 DEF Fresh
<1> QED
  BY <1>6, <1>7, <1>8, <1>9, <1>10 DEF BpInv

\* Every step keeps the invariant.
LEMMA BpInvNext ==
    ASSUME BpInv, [Next]_vars
    PROVE  BpInv'
<1>0. /\ Typed
      /\ DOMAIN lace = Proposer /\ DOMAIN evidence = Proposer /\ DOMAIN pool = Proposer
  BY DEF BpInv, Typed
<1>1. ASSUME NEW v \in Proposer, NEW d \in Deploy, add(v, d) \/ remove(v, d) PROVE BpInv'
  <2>1. Typed'
    BY <1>0, <1>1 DEF add, remove, Typed
  <2> QED
    BY <1>1, <2>1, NoNewBlock DEF add, remove
<1>2. ASSUME NEW v \in Proposer, NEW n \in 0..MaxBlocks, prune_expired(v, n) PROVE BpInv'
  <2>1. Typed'
    BY <1>0, <1>2, Zenon DEF prune_expired, Typed
  <2> QED
    BY <1>2, <2>1, NoNewBlock DEF prune_expired
<1>3. ASSUME NEW v \in Proposer, NEW a \in Auth, queue_por_equivocation_authorization(v, a)
      PROVE  BpInv'
  <2>1. Typed'
    BY <1>0, <1>3 DEF queue_por_equivocation_authorization, Typed
  <2> QED
    BY <1>3, <2>1, NoNewBlock DEF queue_por_equivocation_authorization
<1>4. ASSUME NEW v \in Proposer, NEW i \in 1..Len(chain), receive_block(v, i) PROVE BpInv'
  <2>1. Typed'
    BY <1>0, <1>4 DEF receive_block, Typed
  <2>2. \A w \in Proposer : lace[w] \subseteq lace'[w]
    BY <1>0, <1>4 DEF receive_block
  <2> QED
    BY <1>4, <2>1, <2>2, NoNewBlock DEF receive_block
<1>5. ASSUME NEW v \in Proposer, record_evidence(v) PROVE BpInv'
  <2>1. Typed'
    BY <1>0, <1>5 DEF record_evidence, Typed
  <2>2. \A w \in Proposer : evidence[w] \subseteq evidence'[w]
    BY <1>0, <1>5 DEF record_evidence, Typed
  <2> QED
    BY <1>5, <2>1, <2>2, NoNewBlock DEF record_evidence
<1>6. ASSUME NEW v \in Proposer, propose_fails(v) PROVE BpInv'
  <2>1. Typed'
    BY <1>0, <1>6, Zenon DEF propose_fails, Typed
  <2> QED
    BY <1>6, <2>1, NoNewBlock DEF propose_fails
<1>7. CASE tick
  <2>1. Typed'
    BY <1>0, <1>7, BpAssumption DEF tick, Typed
  <2> QED
    BY <1>7, <2>1, NoNewBlock DEF tick
<1>8. CASE UNCHANGED vars
  <2>1. Typed'
    BY <1>0, <1>8, Zenon DEF vars, Typed
  <2> QED
    BY <1>8, <2>1, NoNewBlock DEF vars
<1> QED
  BY <1>1, <1>2, <1>3, <1>4, <1>5, <1>6, <1>7, <1>8, ProposeKeeps DEF Next

\* It holds in every state of block production.
LEMMA ProductionInvariant == Spec => []BpInv
<1>1. Init => BpInv
  BY BpInvInit
<1>2. BpInv /\ [Next]_vars => BpInv'
  BY BpInvNext
<1> QED
  BY <1>1, <1>2, PTL DEF Spec

-----------------------------------------------------------------------------
(***************************************************************************)
(* No block executes a deploy again that one of its ancestors executed.    *)
(* The walk of compute_deploys_in_scope stops at the lifespan window; the  *)
(* numbers fall along every path to an ancestor, so an ancestor behind     *)
(* the window had a number at which the deploy was due, and the deploy has *)
(* expired since.                                                          *)
(***************************************************************************)
THEOREM DeploysOnce == Spec => []NoRepeatedDeploy
<1>1. BpInv => NoRepeatedDeploy
  <2> SUFFICES ASSUME BpInv PROVE NoRepeatedDeploy
    OBVIOUS
  <2>1. BpTypeOK
    BY Zenon DEF BpInv, Typed, BpTypeOK
  <2>2. \A i \in 1..Len(chain) : \A j \in observe[i] \ {i} :
            chain[i].deploys \cap chain[j].deploys = {}
    BY DEF BpInv, Fresh
  <2> QED
    BY <2>1, <2>2 DEF NoRepeatedDeploy
<1> QED
  BY <1>1, ProductionInvariant, PTL

(***************************************************************************)
(* After a proposer has slashed an offender, none of its later blocks      *)
(* bonds the offender again, whatever branch it executes on: the evidence  *)
(* pool never loses a proof and slash_system_deploys repeats every slash.  *)
(***************************************************************************)
THEOREM SlashesStick == Spec => []SlashSticks
<1>1. BpInv => SlashSticks
  <2> SUFFICES ASSUME BpInv, NEW j \in 1..Len(chain), NEW i \in observe[j],
                      chain[i].creator = chain[j].creator
               PROVE  post(chain[i]).slashed \cap post(chain[j]).bonds = {}
    BY DEF SlashSticks
  <2>1. Len(chain) \in Nat
    BY DEF BpInv, Typed
  <2>2. i \in 1..j
    BY ChainOrdered, ObservedBelow DEF BpInv
  <2>3. i \in 1..Len(chain) /\ j \in i..Len(chain)
    BY <2>1, <2>2
  <2> QED
    BY <2>3, Zenon DEF BpInv, Retained
<1> QED
  BY <1>1, ProductionInvariant, PTL

(***************************************************************************)
(* The bonds a proposer selects tips with are those its newest block       *)
(* leaves: propose_at_time activates them only after the block is signed   *)
(* and sent, so a failed proposal leaves the view of the last block.       *)
(***************************************************************************)
THEOREM BondsFollowBlocks == Spec => []BondsOfNewestBlock
<1>1. BpInv => BondsOfNewestBlock
  <2> SUFFICES ASSUME BpInv, NEW v \in Proposer
               PROVE  bonds[v] = IF blocks_by(v, v) = {} THEN Validator
                                 ELSE post(chain[Max(blocks_by(v, v))]).bonds
    BY DEF BondsOfNewestBlock
  <2>1. own_blocks(v) \subseteq lace[v] /\ lace[v] \subseteq 1..Len(chain)
    BY DEF BpInv, Typed, Held
  <2>2. blocks_by(v, v) = own_blocks(v)
    BY <2>1 DEF blocks_by, own_blocks
  <2> QED
    BY <2>2 DEF BpInv, Held
<1> QED
  BY <1>1, ProductionInvariant, PTL

(***************************************************************************)
(* An authorization of a penalty leaves the queue only in a new block of   *)
(* its proposer's blocklace: propose_at_time empties the queue after the   *)
(* block is in place, and no failure does.                                 *)
(***************************************************************************)
THEOREM AuthorizationsKept == Spec => AuthorizationsSurvive
<1> DEFINE survive == \A v \in Proposer : \A a \in queue[v] \ queue'[v] :
                          \E i \in lace'[v] \ lace[v] :
                              chain'[i].creator = v /\ a \in chain'[i].authorizations
<1>1. ASSUME BpInv, Next PROVE survive
  <2> SUFFICES ASSUME NEW v \in Proposer, NEW a \in queue[v] \ queue'[v]
               PROVE  \E i \in lace'[v] \ lace[v] :
                          chain'[i].creator = v /\ a \in chain'[i].authorizations
    OBVIOUS
  <2>0. DOMAIN queue = Proposer /\ DOMAIN lace = Proposer
    BY <1>1 DEF BpInv, Typed
  <2>1. ASSUME NEW w \in Proposer, propose_at_time(w)
        PROVE  \E i \in lace'[v] \ lace[v] :
                   chain'[i].creator = v /\ a \in chain'[i].authorizations
    <3>1. PICK b : b = proposal(w)
      OBVIOUS
    <3>2. /\ Len(chain) \in Nat /\ chain'[Len(chain) + 1] = b
          /\ lace' = [lace EXCEPT ![w] = @ \cup {Len(chain) + 1}]
          /\ queue' = [queue EXCEPT ![w] = {}]
      BY <1>1, <2>1, <3>1, ProposeEffect
    <3>3. w = v
      BY <2>0, <3>2
    <3>4. b.creator = v /\ b.authorizations = queue[v]
      BY <1>1, <3>1, <3>3, ProposalIs DEF BpInv
    <3>5. Len(chain) + 1 \in lace'[v] /\ Len(chain) + 1 \notin lace[v]
      <4>1. lace[v] \subseteq 1..Len(chain)
        BY <1>1 DEF BpInv, Typed
      <4> QED
        BY <2>0, <3>2, <3>3, <4>1
    <3> QED
      BY <3>2, <3>4, <3>5
  <2>2. ASSUME NEW w \in Proposer, NEW c \in Auth, queue_por_equivocation_authorization(w, c)
        PROVE  FALSE
    BY <2>0, <2>2 DEF queue_por_equivocation_authorization
  <2>3. ASSUME queue' = queue PROVE FALSE
    BY <2>3
  <2>4. ASSUME NEW w \in Proposer
        PROVE  /\ \A d \in Deploy : ~ add(w, d) /\ ~ remove(w, d)
               /\ \A n \in 0..MaxBlocks : ~ prune_expired(w, n)
               /\ \A i \in 1..Len(chain) : ~ receive_block(w, i)
               /\ ~ record_evidence(w) /\ ~ propose_fails(w)
    BY <2>3, Zenon DEF add, remove, prune_expired, receive_block, record_evidence, propose_fails
  <2>5. ~ tick
    BY <2>3, Zenon DEF tick
  <2> QED
    BY <1>1, <2>1, <2>2, <2>4, <2>5, Zenon DEF Next
<1>2. BpInv /\ [Next]_vars => [survive]_vars
  BY <1>1
<1> QED
  BY <1>2, ProductionInvariant, PTL DEF Spec, AuthorizationsSurvive

=============================================================================
