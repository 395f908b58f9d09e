--------------------------- MODULE AttestationProofs ---------------------------
(***************************************************************************)
(* Diverging reputation blocks need signers of both, finalized penalties   *)
(* are applied, and who is not rated keeps its weight: proofs for any      *)
(* number of validators, rounds and crashes, and any parameters of the     *)
(* reputation transition.                                                  *)
(***************************************************************************)
EXTENDS Attestation, OrderProofs

-----------------------------------------------------------------------------
(***************************************************************************)
(* The inductive invariant.                                                *)
(***************************************************************************)
Ledger == [Validator -> Entry]

\* The list the first round starts from.
Genesis == [p \in Validator |-> entry(config.bonds[p])]

\* What the complete checkpoint round n on previous and its ledger L yields.
Complete(L, n, previous) ==
    LET B == UNION {{rating(n, r, p) : p \in {q \in config.producers[n] : q # r /\ q \in active(L)}} :
                        r \in active(L)}
        E == events({a \in config.carriers[n] : a.sound /\ a.offender \in active(L)})
    IN  [round |-> n, previous |-> previous, ratings |-> B, penalties |-> E,
         list |-> replay_reputation_transition(L, B, E, config.policy)]

\* What every complete checkpoint round on previous yields.
Canonical(previous) ==
    Complete(IF previous = <<>> THEN Genesis ELSE previous[1].list,
             IF previous = <<>> THEN 1 ELSE previous[1].round + 1, previous)

\* What entitles a validator to commit b.
Justified(b) ==
    /\ Preceding(b) \in Ledger
    /\ checkpoint => b = Canonical(b.previous)
    /\ ~ checkpoint =>
           is_reached(Preceding(b), active(Preceding(b)), Signers(b) \cap active(Preceding(b)))

\* The durable state of v is that of the block it committed last.
Recorded(v) ==
    \/ state[v].latest = <<>> /\ list(v) = Genesis /\ state[v].round = 0
    \/ \E b :
        /\ state[v].latest = <<b>> /\ list(v) = b.list /\ state[v].round = b.round
        /\ Justified(b)
        /\ b.previous = <<>> \/ \E c : b.previous = <<c>> /\ Justified(c)

\* The authorizations whose penalties a round of v applies.
Applied(v) == IF checkpoint THEN {a \in carriers(v) : authorize_checkpoint(v, a)} ELSE carriers(v)

\* What v holds in memory belongs to its round.
InRound(v) ==
    /\ \A x \in collected[v] : round(v) <= config.rounds /\ x \in owed(v, x.rater)
    /\ pc[v] # "open" => round(v) <= config.rounds
    /\ pc[v] # "open" /\ checkpoint => batch[v] = UNION {owed(v, r) : r \in active(list(v))}
    /\ pc[v] = "attesting" => penalties[v] = events(Applied(v))
    /\ pc[v] # "attesting" => counted[v] = {}
    /\ \A q \in counted[v] :
           q \in active(list(v)) /\ publication(q, build_reputation_block(v)) \in published

\* Publications have their fields.
Published ==
    \A p \in published :
        /\ p.publisher \in Validator /\ p = publication(p.publisher, p.block)
        /\ p.block = [round |-> p.block.round, previous |-> p.block.previous,
                      ratings |-> p.block.ratings, penalties |-> p.block.penalties,
                      list |-> p.block.list]

\* An ejected key has no weight, a key in good standing no retained balance.
Standing(L) ==
    \A p \in Validator : IF L[p].excluded THEN L[p].reputation = 0 ELSE L[p].retained = 0

\* The types of what belongs to v.
Typed(v) ==
    /\ state[v].round \in 0 .. config.rounds /\ list(v) \in Ledger /\ Standing(list(v))
    /\ wave[v] \in 0 .. config.waves /\ pc[v] \in {"open", "closed", "attesting"}
    /\ local_batch[v] \in BOOLEAN /\ outbound[v] \subseteq Validator
    /\ collected[v] \subseteq Rating /\ batch[v] \subseteq Rating /\ counted[v] \subseteq Validator
    /\ offenders(penalties[v]) \subseteq Validator

\* The finalized penalties of the rounds that v has committed are applied.
Penalized(v) ==
    \A r \in 1 .. state[v].round : \A a \in config.carriers[r] :
        a.sound => list(v)[a.offender].excluded

Domains ==
    /\ DOMAIN state = Validator /\ DOMAIN wave = Validator /\ DOMAIN pc = Validator
    /\ DOMAIN local_batch = Validator /\ DOMAIN outbound = Validator
    /\ DOMAIN collected = Validator /\ DOMAIN batch = Validator
    /\ DOMAIN penalties = Validator /\ DOMAIN counted = Validator

Sound(v) == Typed(v) /\ Recorded(v) /\ InRound(v) /\ Penalized(v)

AttInv ==
    /\ config \in Configs /\ crashes \in 0 .. config.crashes
    /\ Domains /\ Published /\ envelopes \subseteq Rating
    /\ \A v \in Validator : Sound(v)

-----------------------------------------------------------------------------
(***************************************************************************)
(* Sums over finite sets, as MapThenSumSet computes them.                  *)
(***************************************************************************)
pick(T) == CHOOSE x \in T : TRUE

\* g has the sums of f over the subsets of S, one picked member after the other.
Adds(g, f, S) == g = [T \in SUBSET S |-> IF T = {} THEN 0 ELSE f[pick(T)] + g[T \ {pick(T)}]]

\* There are such sums.
LEMMA SumsExist ==
    ASSUME NEW S, IsFiniteSet(S), NEW f
    PROVE  \E g : Adds(g, f, S)
<1> DEFINE level(n) == {T \in SUBSET S : Cardinality(T) <= n}
           add(g, T) == IF T = {} THEN 0 ELSE f[pick(T)] + g[T \ {pick(T)}]
           Solved(n) == \E g : g = [T \in level(n) |-> add(g, T)]
           K == {n \in Nat : Solved(n)}
<1>1. \A T \in SUBSET S : IsFiniteSet(T) /\ Cardinality(T) \in Nat
  BY FS_Subset, FS_CardinalityType
<1>2. Solved(0)
  <2> DEFINE g == [T \in level(0) |-> 0]
  <2>1. \A T \in level(0) : T = {}
    BY <1>1, FS_EmptySet
  <2>2. \A T \in level(0) : add(g, T) = 0
    BY <2>1
  <2> HIDE DEF add, level
  <2>3. g = [T \in level(0) |-> add(g, T)]
    BY <2>2
  <2> HIDE DEF g
  <2> QED
    BY <2>3
<1>3. ASSUME NEW n \in Nat, Solved(n) PROVE Solved(n + 1)
  <2>1. PICK g : g = [T \in level(n) |-> add(g, T)]
    BY <1>3, Zenon
  <2> DEFINE h == [T \in level(n + 1) |-> IF T \in level(n) THEN g[T] ELSE add(g, T)]
  <2>2. ASSUME NEW T \in level(n + 1) PROVE h[T] = add(h, T)
    <3>1. CASE T = {}
      <4>1. {} \in level(n)
        BY <1>1, FS_EmptySet
      <4>2. h[T] = g[T]
        BY <3>1, <4>1
      <4>3. g[T] = add(g, T)
        BY <2>1, <3>1, <4>1
      <4> HIDE DEF h
      <4> QED
        BY <3>1, <4>2, <4>3
    <3>2. CASE T # {}
      <4> DEFINE U == T \ {pick(T)}
      <4>1. U \in level(n)
        <5>1. pick(T) \in T
          BY <3>2 DEF pick
        <5>2. Cardinality(U) = Cardinality(T) - 1
          BY <1>1, <5>1, FS_RemoveElement
        <5>3. U \in SUBSET S /\ Cardinality(T) \in Nat /\ Cardinality(T) <= n + 1
          BY <1>1
        <5> QED
          BY <5>2, <5>3
      <4>2. U \in level(n + 1)
        BY <1>1, <4>1
      <4>3. h[U] = g[U]
        <5> HIDE DEF level, U
        <5> QED
          BY <4>1, <4>2
      <4>4. h[T] = add(g, T)
        <5> HIDE DEF level, add
        <5> QED
          BY <2>1
      <4> HIDE DEF h
      <4> QED
        BY <3>2, <4>3, <4>4
    <3> QED
      BY <3>1, <3>2
  <2> HIDE DEF add, level
  <2>3. h = [T \in level(n + 1) |-> h[T]]
    OBVIOUS
  <2> HIDE DEF h
  <2>4. h = [T \in level(n + 1) |-> add(h, T)]
    BY <2>2, <2>3, Zenon
  <2> QED
    BY <2>4
<1>4. Solved(Cardinality(S))
  <2> HIDE DEF Solved
  <2>1. K \in SUBSET Nat /\ 0 \in K /\ \A n \in K : n + 1 \in K
    BY <1>2, <1>3
  <2> HIDE DEF K
  <2>2. Cardinality(S) \in K
    BY <1>1, <2>1, AllNumbers
  <2> QED
    BY <2>2 DEF K
<1>5. level(Cardinality(S)) = SUBSET S
  <2>1. \A T \in SUBSET S : Cardinality(T) <= Cardinality(S)
    BY FS_Subset
  <2> QED
    BY <2>1
<1>6. PICK g : g = [T \in level(Cardinality(S)) |-> add(g, T)]
  BY <1>4, Zenon
<1>7. Adds(g, f, S)
  <2> HIDE DEF level
  <2> QED
    BY <1>5, <1>6, Zenon DEF Adds
<1> QED
  BY <1>7

\* They are numbers and do not depend on which member is picked.
LEMMA SumsAre ==
    ASSUME NEW S, IsFiniteSet(S), NEW f, \A x \in S : f[x] \in Nat, NEW g, Adds(g, f, S)
    PROVE  /\ g[{}] = 0
           /\ \A T \in SUBSET S : g[T] \in Nat
           /\ \A T \in SUBSET S : \A x \in T : g[T] = f[x] + g[T \ {x}]
<1>1. \A T \in SUBSET S : g[T] = IF T = {} THEN 0 ELSE f[pick(T)] + g[T \ {pick(T)}]
  BY Zenon DEF Adds
<1>2. g[{}] = 0
  BY <1>1, Zenon
<1>3. \A T \in SUBSET S : T # {} =>
         pick(T) \in T /\ T \ {pick(T)} \in SUBSET S /\ g[T] = f[pick(T)] + g[T \ {pick(T)}]
  <2> TAKE T \in SUBSET S
  <2> HAVE T # {}
  <2>1. pick(T) \in T
    BY DEF pick
  <2> QED
    BY <1>1, <2>1
<1>4. \A T \in SUBSET S : g[T] \in Nat
  <2> DEFINE K == {T \in SUBSET S : g[T] \in Nat}
  <2>1. ASSUME NEW T \in SUBSET S, \A x \in T : T \ {x} \in K PROVE g[T] \in Nat
    <3>1. CASE T = {}
      BY <1>2, <3>1
    <3>2. CASE T # {}
      <4>1. f[pick(T)] \in Nat /\ g[T \ {pick(T)}] \in Nat
        BY <1>3, <2>1, <3>2, Zenon
      <4> QED
        BY <1>3, <3>2, <4>1
    <3> QED
      BY <3>1, <3>2
  <2>2. K \in SUBSET SUBSET S /\ \A T \in SUBSET S : (\A x \in T : T \ {x} \in K) => T \in K
    BY <2>1, Zenon
  <2> HIDE DEF K
  <2>3. \A T \in SUBSET S : T \in K
    BY <2>2, SubsetInduction, Zenon
  <2> QED
    BY <2>3 DEF K
<1>5. \A T \in SUBSET S : \A x \in T : g[T] = f[x] + g[T \ {x}]
  <2> DEFINE K == {T \in SUBSET S : \A x \in T : g[T] = f[x] + g[T \ {x}]}
  <2>1. ASSUME NEW T \in SUBSET S, \A x \in T : T \ {x} \in K, NEW x \in T
        PROVE  g[T] = f[x] + g[T \ {x}]
    <3> DEFINE c == pick(T)
               U == (T \ {c}) \ {x}
    <3>1. c \in T /\ g[T] = f[c] + g[T \ {c}]
      BY <1>3
    <3> HIDE DEF c
    <3>2. CASE c = x
      BY <3>1, <3>2
    <3>3. CASE c # x
      <4>1. x \in T \ {c} /\ c \in T \ {x} /\ U = (T \ {x}) \ {c}
        BY <3>1, <3>3
      <4>2. g[T \ {c}] = f[x] + g[U]
        BY <2>1, <3>1, <4>1
      <4>3. g[T \ {x}] = f[c] + g[U]
        BY <2>1, <4>1
      <4>4. f[x] \in Nat /\ f[c] \in Nat /\ g[U] \in Nat
        BY <1>4, <3>1
      <4> QED
        BY <3>1, <4>2, <4>3, <4>4
    <3> QED
      BY <3>2, <3>3
  <2>2. K \in SUBSET SUBSET S /\ \A T \in SUBSET S : (\A x \in T : T \ {x} \in K) => T \in K
    BY <2>1, Zenon
  <2> HIDE DEF K
  <2>3. \A T \in SUBSET S : T \in K
    BY <2>2, SubsetInduction, Zenon
  <2> QED
    BY <2>3, Zenon DEF K
<1> QED
  BY <1>2, <1>4, <1>5

\* The sum over a set does not depend on what else is in its superset.
LEMMA SumsAgree ==
    ASSUME NEW S, IsFiniteSet(S), NEW U \in SUBSET S, NEW f, NEW e, \A x \in U : f[x] = e[x],
           NEW g, Adds(g, f, S), NEW h, Adds(h, e, U)
    PROVE  g[U] = h[U]
<1> DEFINE K == {T \in SUBSET U : g[T] = h[T]}
<1>1. ASSUME NEW T \in SUBSET U, \A x \in T : T \ {x} \in K PROVE g[T] = h[T]
  <2>1. T \in SUBSET S
    OBVIOUS
  <2>2. g[T] = IF T = {} THEN 0 ELSE f[pick(T)] + g[T \ {pick(T)}]
    BY <2>1, Zenon DEF Adds
  <2>3. h[T] = IF T = {} THEN 0 ELSE e[pick(T)] + h[T \ {pick(T)}]
    BY Zenon DEF Adds
  <2>4. T # {} => pick(T) \in T
    BY DEF pick
  <2> QED
    BY <1>1, <2>2, <2>3, <2>4
<1>2. IsFiniteSet(U)
  BY FS_Subset
<1>3. K \in SUBSET SUBSET U /\ \A T \in SUBSET U : (\A x \in T : T \ {x} \in K) => T \in K
  BY <1>1
<1> HIDE DEF K
<1>4. \A T \in SUBSET U : T \in K
  BY <1>2, <1>3, SubsetInduction, Zenon
<1> QED
  BY <1>4 DEF K

\* The recursion of weight_of.
Weigh(g, L, A) ==
    g = [T \in SUBSET A |-> IF T = {} THEN 0 ELSE L[pick(T)].reputation + g[T \ {pick(T)}]]

\* g has the weights of the sets of validators.
Weights(g, L) ==
    /\ g[{}] = 0
    /\ \A A \in SUBSET Validator : weight_of(L, A) = g[A] /\ g[A] \in Nat
    /\ \A A \in SUBSET Validator : \A x \in A : g[A] = L[x].reputation + g[A \ {x}]

\* The weights of the sets of validators are sums.
LEMMA WeightIs ==
    ASSUME NEW L, \A p \in Validator : L[p].reputation \in Nat
    PROVE  \E g : Weights(g, L)
<1> DEFINE f == [p \in Validator |-> L[p].reputation]
<1>1. IsFiniteSet(Validator)
  BY AttAssumption
<1>2. PICK g : Adds(g, f, Validator)
  BY <1>1, SumsExist
<1>3. /\ g[{}] = 0
      /\ \A A \in SUBSET Validator : g[A] \in Nat
      /\ \A A \in SUBSET Validator : \A x \in A : g[A] = f[x] + g[A \ {x}]
  <2>1. \A x \in Validator : f[x] \in Nat
    OBVIOUS
  <2> HIDE DEF f
  <2> QED
    BY <1>1, <1>2, <2>1, SumsAre
<1>4. ASSUME NEW A \in SUBSET Validator PROVE weight_of(L, A) = g[A]
  <2> DEFINE e == [p \in A |-> L[p].reputation]
             w == CHOOSE h : Weigh(h, L, A)
  <2>1. weight_of(L, A) = w[A]
    BY DEF weight_of, MapThenSumSet, MapThenFoldSet, Weigh, pick
  <2>2. IsFiniteSet(A)
    BY <1>1, FS_Subset
  <2>3. PICK h : Adds(h, e, A)
    <3> HIDE DEF e
    <3> QED
      BY <2>2, SumsExist
  <2>4. ASSUME NEW k PROVE Adds(k, e, A) <=> Weigh(k, L, A)
    <3>1. \A T \in SUBSET A : T # {} => e[pick(T)] = L[pick(T)].reputation
      BY DEF pick
    <3> HIDE DEF e
    <3>2. [T \in SUBSET A |-> IF T = {} THEN 0 ELSE e[pick(T)] + k[T \ {pick(T)}]]
          = [T \in SUBSET A |-> IF T = {} THEN 0 ELSE L[pick(T)].reputation + k[T \ {pick(T)}]]
      BY <3>1
    <3> QED
      BY <3>2, Zenon DEF Adds, Weigh
  <2>5. Weigh(w, L, A)
    <3> HIDE DEF e
    <3>1. Weigh(h, L, A)
      BY <2>3, <2>4
    <3> QED
      BY <3>1
  <2>6. Adds(w, e, A)
    BY <2>4, <2>5
  <2>7. \A x \in A : f[x] = e[x]
    OBVIOUS
  <2> HIDE DEF w, e, f
  <2>8. g[A] = w[A]
    BY <1>1, <1>2, <2>6, <2>7, SumsAgree
  <2> QED
    BY <2>1, <2>8
<1>5. Weights(g, L)
  BY <1>3, <1>4, Zenon DEF Weights
<1> QED
  BY <1>5

\* The weights of two sets add up to those of their union and intersection, and
\* a larger set does not weigh less.
LEMMA WeightsAdd ==
    ASSUME NEW L, \A p \in Validator : L[p].reputation \in Nat,
           NEW A \in SUBSET Validator, NEW B \in SUBSET Validator
    PROVE  /\ weight_of(L, A) \in Nat
           /\ weight_of(L, A) + weight_of(L, B) = weight_of(L, A \cup B) + weight_of(L, A \cap B)
           /\ A \subseteq B => weight_of(L, A) <= weight_of(L, B)
<1>0. PICK g : Weights(g, L)
  BY WeightIs
<1>1. /\ g[{}] = 0
      /\ \A C \in SUBSET Validator : weight_of(L, C) = g[C] /\ g[C] \in Nat
      /\ \A C \in SUBSET Validator : \A x \in C : g[C] = L[x].reputation + g[C \ {x}]
  BY <1>0, Zenon DEF Weights
<1>2. ASSUME NEW C \in SUBSET Validator
      PROVE  \A D \in SUBSET Validator : g[C] + g[D] = g[C \cup D] + g[C \cap D]
  <2> DEFINE K == {D \in SUBSET Validator : g[C] + g[D] = g[C \cup D] + g[C \cap D]}
  <2>1. ASSUME NEW D \in SUBSET Validator, \A x \in D : D \ {x} \in K
        PROVE  g[C] + g[D] = g[C \cup D] + g[C \cap D]
    <3>1. CASE D = {}
      <4>1. C \cup D = C /\ C \cap D = {}
        BY <3>1
      <4> QED
        BY <1>1, <3>1, <4>1
    <3>2. CASE D # {}
      <4>1. PICK x : x \in D
        BY <3>2
      <4> DEFINE E == D \ {x}
                 y == L[x].reputation
      <4>2. g[C] + g[E] = g[C \cup E] + g[C \cap E]
        BY <2>1, <4>1
      <4>3. g[D] = y + g[E]
        BY <1>1, <4>1
      <4>4. /\ y \in Nat /\ g[C] \in Nat /\ g[D] \in Nat /\ g[E] \in Nat
            /\ g[C \cup E] \in Nat /\ g[C \cap E] \in Nat
        <5>1. E \in SUBSET Validator /\ C \cup E \in SUBSET Validator /\ C \cap E \in SUBSET Validator
          OBVIOUS
        <5>2. y \in Nat
          BY <4>1
        <5> HIDE DEF E, y
        <5> QED
          BY <1>1, <5>1, <5>2
      <4>5. \A u, i : \/ u = g[C \cup E] /\ i = y + g[C \cap E]
                      \/ u = y + g[C \cup E] /\ i = g[C \cap E]
                      => g[C] + g[D] = u + i
        <5> DEFINE gC == g[C]
                   gD == g[D]
                   gE == g[E]
                   gU == g[C \cup E]
                   gI == g[C \cap E]
        <5>1. /\ gC + gE = gU + gI /\ gD = y + gE
              /\ y \in Nat /\ gC \in Nat /\ gD \in Nat /\ gE \in Nat /\ gU \in Nat /\ gI \in Nat
          BY <4>2, <4>3, <4>4
        <5> HIDE DEF gC, gD, gE, gU, gI, y
        <5>2. gC + gD = gU + (y + gI) /\ gC + gD = (y + gU) + gI
          BY <5>1
        <5> QED
          BY <5>2 DEF gC, gD, gU, gI
      <4>6. CASE x \in C
        <5>1. C \cup D = C \cup E /\ x \in C \cap D /\ (C \cap D) \ {x} = C \cap E
          BY <4>1, <4>6
        <5>2. g[C \cap D] = y + g[C \cap E] /\ g[C \cup D] = g[C \cup E]
          BY <1>1, <5>1, Zenon
        <5> QED
          BY <4>5, <5>2, Zenon
      <4>7. CASE x \notin C
        <5>1. C \cap D = C \cap E /\ x \in C \cup D /\ (C \cup D) \ {x} = C \cup E
          BY <4>1, <4>7
        <5>2. g[C \cup D] = y + g[C \cup E] /\ g[C \cap D] = g[C \cap E]
          BY <1>1, <5>1, Zenon
        <5> QED
          BY <4>5, <5>2, Zenon
      <4> QED
        BY <4>6, <4>7
    <3> QED
      BY <3>1, <3>2
  <2>2. K \in SUBSET SUBSET Validator
        /\ \A D \in SUBSET Validator : (\A x \in D : D \ {x} \in K) => D \in K
    BY <2>1, Zenon
  <2> HIDE DEF K
  <2>3. IsFiniteSet(Validator)
    BY AttAssumption
  <2>4. \A D \in SUBSET Validator : D \in K
    BY <2>2, <2>3, SubsetInduction, Zenon
  <2> QED
    BY <2>4 DEF K
<1>3. g[A] + g[B] = g[A \cup B] + g[A \cap B]
  BY <1>2
<1>4. ASSUME A \subseteq B PROVE g[A] <= g[B]
  <2> DEFINE D == B \ A
  <2>1. A \cup D = B /\ A \cap D = {} /\ D \in SUBSET Validator
    BY <1>4
  <2>2. g[A] + g[D] = g[B] + g[{}]
    BY <1>2, <2>1
  <2>3. g[A] \in Nat /\ g[B] \in Nat /\ g[D] \in Nat
    BY <1>1
  <2> HIDE DEF D
  <2> QED
    BY <1>1, <2>2, <2>3
<1>5. /\ A \cup B \in SUBSET Validator /\ A \cap B \in SUBSET Validator
  OBVIOUS
<1> QED
  BY <1>1, <1>3, <1>4, <1>5

\* The required weight is more than two thirds.
LEMMA TwoThirds ==
    ASSUME NEW n \in Nat
    PROVE  strict_required_weight(n, 2, 3) \in Nat /\ 3 * strict_required_weight(n, 2, 3) > 2 * n
  BY DEF strict_required_weight

\* Two quorums of one ledger share more than a third of its weight.
LEMMA QuorumsShare ==
    ASSUME NEW L \in Ledger, NEW A \in SUBSET active(L), NEW B \in SUBSET active(L),
           is_reached(L, active(L), A), is_reached(L, active(L), B)
    PROVE  3 * weight_of(L, A \cap B) > weight_of(L, active(L))
<1> DEFINE w(C) == weight_of(L, C)
           all == active(L)
           q == strict_required_weight(w(all), 2, 3)
<1>1. \A p \in Validator : L[p].reputation \in Nat
  BY PorConfigAssumption DEF Ledger, Entry, Weight
<1>a. A \in SUBSET Validator /\ B \in SUBSET Validator
  BY DEF active, Ledger
<1>2. /\ all \in SUBSET Validator /\ A \in SUBSET Validator /\ B \in SUBSET Validator
      /\ A \cap B \in SUBSET Validator /\ A \cup B \in SUBSET Validator /\ A \cup B \subseteq all
  BY DEF active, Ledger
<1>3. /\ w(A) \in Nat /\ w(B) \in Nat /\ w(all) \in Nat /\ w(A \cap B) \in Nat /\ w(A \cup B) \in Nat
      /\ w(A) + w(B) = w(A \cup B) + w(A \cap B)
      /\ w(A \cup B) <= w(all)
  <2> HIDE DEF all
  <2>1. w(A) \in Nat
    BY <1>1, <1>2, WeightsAdd, Zenon
  <2>4. w(A) + w(B) = w(A \cup B) + w(A \cap B)
    BY <1>1, <1>a, WeightsAdd, Zenon
  <2>2. w(A \cup B) \in Nat /\ w(A \cup B) <= w(all)
    BY <1>1, <1>2, WeightsAdd, Zenon
  <2>3. w(B) \in Nat /\ w(all) \in Nat /\ w(A \cap B) \in Nat
    BY <1>1, <1>2, WeightsAdd, Zenon
  <2> QED
    BY <2>1, <2>2, <2>3, <2>4, Zenon
<1>4. w(A) >= q /\ w(B) >= q
  BY DEF is_reached
<1>5. q \in Nat /\ 3 * q > 2 * w(all)
  BY <1>3, TwoThirds
<1> HIDE DEF w, q, all
<1>6. 3 * w(A \cap B) > w(all)
  BY <1>3, <1>4, <1>5
<1> QED
  BY <1>6 DEF w, all

\* A quorum stays one with more members.
LEMMA ReachedByMore ==
    ASSUME NEW L \in Ledger, NEW B \in SUBSET active(L), NEW A \in SUBSET B,
           is_reached(L, active(L), A)
    PROVE  is_reached(L, active(L), B)
<1>1. \A p \in Validator : L[p].reputation \in Nat
  BY PorConfigAssumption DEF Ledger, Entry, Weight
<1>2. active(L) \in SUBSET Validator /\ A \in SUBSET Validator /\ B \in SUBSET Validator
  BY DEF active, Ledger
<1>3. /\ weight_of(L, A) \in Nat /\ weight_of(L, B) \in Nat /\ weight_of(L, active(L)) \in Nat
      /\ weight_of(L, A) <= weight_of(L, B)
  BY <1>1, <1>2, WeightsAdd, Zenon
<1>4. strict_required_weight(weight_of(L, active(L)), 2, 3) \in Nat
  BY <1>3, TwoThirds
<1> QED
  BY <1>3, <1>4 DEF is_reached

-----------------------------------------------------------------------------
(***************************************************************************)
(* The reputation transition keeps weights within the scale.               *)
(***************************************************************************)
\* What integer division yields.
LEMMA DivisionIs ==
    ASSUME NEW a \in Nat, NEW b \in Nat, b > 0
    PROVE  /\ a \div b \in Nat
           /\ \A c \in Nat : a < (c + 1) * b => a \div b <= c
<1>1. a \div b \in Nat /\ b * (a \div b) <= a
  OBVIOUS
<1>2. ASSUME NEW c \in Nat, a < (c + 1) * b, ~ (a \div b <= c) PROVE FALSE
  <2> DEFINE d == a \div b
  <2>1. d \in Nat /\ d >= c + 1 /\ b * d <= a
    BY <1>1, <1>2
  <2> HIDE DEF d
  <2>2. b * d >= b * (c + 1)
    BY <2>1
  <2> QED
    BY <1>2, <2>1, <2>2
<1> QED
  BY <1>1, <1>2

\* integer_sqrt rounds the square root down.
LEMMA SquareRootIs ==
    ASSUME NEW n \in Nat
    PROVE  LET r == integer_sqrt(n) IN r \in Nat /\ r * r <= n /\ n < (r + 1) * (r + 1)
<1> DEFINE S == {k \in Nat : n < k * k}
<1>1. n + 1 \in S
  BY SMTT(30)
<1>2. PICK k \in S : \A l \in S : k <= l
  BY <1>1, LeastNumber, Zenon
<1>3. k # 0 /\ k - 1 \in Nat /\ k - 1 \notin S
  BY <1>2
<1> DEFINE r == k - 1
<1>4. r \in Nat /\ r * r <= n /\ n < (r + 1) * (r + 1)
  BY <1>2, <1>3
<1>5. r <= n
  <2> HIDE DEF r
  <2>1. r = 0 \/ r * r >= r
    BY <1>4
  <2> QED
    BY <1>4, <2>1
<1>6. \E q \in 0 .. n : q * q <= n /\ n < (q + 1) * (q + 1)
  <2> HIDE DEF r
  <2> QED
    BY <1>4, <1>5
<1>7. /\ integer_sqrt(n) \in 0 .. n
      /\ integer_sqrt(n) * integer_sqrt(n) <= n
      /\ n < (integer_sqrt(n) + 1) * (integer_sqrt(n) + 1)
  BY <1>6, Zenon DEF integer_sqrt
<1> QED
  BY <1>7

\* The clamp stays within the scale.
LEMMA ClampIs ==
    ASSUME NEW r \in Nat
    PROVE  clamp_reputation_value(r) \in Weight
<1>1. scale \in Nat /\ scale > 0
  BY PorConfigAssumption
<1> DEFINE n == scale * scale + r * r
           d == integer_sqrt(n)
<1>2. n \in Nat /\ n >= scale * scale /\ n >= r * r
  BY <1>1
<1>3. d \in Nat /\ n < (d + 1) * (d + 1)
  <2> HIDE DEF n
  <2> QED
    BY <1>2, SquareRootIs
<1> HIDE DEF n
<1> SUFFICES ASSUME r # 0 PROVE (r * scale + d \div 2) \div d \in Weight
  BY <1>1 DEF clamp_reputation_value, Weight, n
<1> HIDE DEF d
<1>4. d >= scale
  <2> SUFFICES ASSUME d + 1 <= scale PROVE FALSE
    BY <1>1, <1>3
  <2>1. (d + 1) * (d + 1) <= scale * scale
    BY <1>1, <1>3, SMTT(30)
  <2> QED
    BY <1>1, <1>2, <1>3, <2>1
<1>5. d >= r
  <2> SUFFICES ASSUME d + 1 <= r PROVE FALSE
    BY <1>3
  <2>1. (d + 1) * (d + 1) <= r * r
    BY <1>3, SMTT(30)
  <2> QED
    BY <1>2, <1>3, <2>1
<1> DEFINE a == r * scale + d \div 2
<1>6. a \in Nat /\ a < (scale + 1) * d
  <2>1. d \div 2 \in Nat /\ d \div 2 < d
    BY <1>1, <1>3, <1>4
  <2>2. r * scale \in Nat /\ r * scale <= d * scale
    BY <1>1, <1>3, <1>5
  <2>3. (scale + 1) * d = d * scale + d
    BY <1>1, <1>3
  <2> QED
    BY <1>1, <1>3, <2>1, <2>2, <2>3
<1> HIDE DEF a
<1>7. a \div d \in Nat /\ a \div d <= scale
  BY <1>1, <1>3, <1>4, <1>6, DivisionIs
<1> QED
  BY <1>1, <1>7 DEF a, Weight

\* The recursion of compute_liquid_rank_contribution.
Credit(g, L, B, A) ==
    g = [T \in SUBSET A |->
            IF T = {} THEN 0
            ELSE normalize_score(B, pick(T)) * L[pick(T).rater].reputation + g[T \ {pick(T)}]]

\* Ratings with one score are normalized to the scale.
LEMMA NormalizedIs ==
    ASSUME NEW B, \A x \in B : x.score = maximum_rating, NEW x \in B
    PROVE  normalize_score(B, x) \in Nat
<1> DEFINE m == maximum_rating
           s == {y.score : y \in group(B, x.recipient)}
<1>1. m \in Nat /\ scale \in Nat /\ scale > 0 /\ x.score = m
  BY PorConfigAssumption
<1>2. s = {m}
  BY DEF group
<1> HIDE DEF s
<1>3. Min(s) = m /\ Max(s) = m
  BY <1>1, <1>2 DEF Min, Max
<1>4. normalize_score(B, x) = (((m - m) + scale) * scale) \div ((m - m) + scale)
  BY <1>1, <1>3 DEF normalize_score, s
<1> HIDE DEF m
<1>5. (m - m) + scale = scale /\ scale * scale \in Nat
  BY <1>1
<1>6. (scale * scale) \div scale \in Nat
  BY <1>1, <1>5, DivisionIs
<1> QED
  BY <1>4, <1>5, <1>6

\* The contribution of the ratings of p is a number.
LEMMA ContributionIs ==
    ASSUME NEW L \in Ledger, NEW B, IsFiniteSet(B),
           \A x \in B : x.rater \in Validator /\ x.score = maximum_rating, NEW p
    PROVE  compute_liquid_rank_contribution(L, B, p) \in Nat
<1> DEFINE A == group(B, p)
           e == [x \in A |-> normalize_score(B, x) * L[x.rater].reputation]
           w == CHOOSE h : Credit(h, L, B, A)
<1>1. compute_liquid_rank_contribution(L, B, p) = w[A] \div scale
  BY DEF compute_liquid_rank_contribution, MapThenSumSet, MapThenFoldSet, Credit, pick
<1>2. IsFiniteSet(A) /\ A \subseteq B
  BY FS_Subset DEF group
<1>3. \A x \in A : e[x] \in Nat
  <2> TAKE x \in A
  <2>1. normalize_score(B, x) \in Nat
    BY <1>2, NormalizedIs
  <2>2. L[x.rater].reputation \in Nat
    BY <1>2, PorConfigAssumption DEF Ledger, Entry, Weight
  <2>3. normalize_score(B, x) * L[x.rater].reputation \in Nat
    BY <2>1, <2>2
  <2> QED
    BY <2>3
<1>4. ASSUME NEW k PROVE Adds(k, e, A) <=> Credit(k, L, B, A)
  <2>1. \A T \in SUBSET A : T # {} =>
           e[pick(T)] = normalize_score(B, pick(T)) * L[pick(T).rater].reputation
    BY DEF pick
  <2> HIDE DEF e
  <2>2. [T \in SUBSET A |-> IF T = {} THEN 0 ELSE e[pick(T)] + k[T \ {pick(T)}]]
        = [T \in SUBSET A |->
              IF T = {} THEN 0
              ELSE normalize_score(B, pick(T)) * L[pick(T).rater].reputation + k[T \ {pick(T)}]]
    BY <2>1
  <2> QED
    BY <2>2 DEF Adds, Credit
<1> HIDE DEF A, e
<1>5. PICK h : Adds(h, e, A)
  BY <1>2, SumsExist
<1>6. Credit(w, L, B, A)
  <2>1. Credit(h, L, B, A)
    BY <1>4, <1>5
  <2> QED
    BY <2>1
<1>7. Adds(w, e, A)
  BY <1>4, <1>6
<1> HIDE DEF w
<1>8. w[A] \in Nat
  BY <1>2, <1>3, <1>7, SumsAre
<1>9. scale \in Nat /\ scale > 0
  BY PorConfigAssumption
<1> QED
  BY <1>1, <1>8, <1>9, DivisionIs

\* M has the entry of L for whoever is neither rated nor an offender.
Carried(L, B, E, M) == \A p \in Validator \ (rated(B) \cup offenders(E)) : M[p] = L[p]

\* A transition keeps the types of a ledger, and ejected keys ejected; it
\* ejects the offenders, and under CarryForward it leaves alone whoever is
\* neither rated nor an offender.
LEMMA ReplayIs ==
    ASSUME NEW L \in Ledger, Standing(L), NEW B, IsFiniteSet(B),
           \A x \in B : x.rater \in Validator /\ x.score = maximum_rating,
           NEW E, NEW policy
    PROVE  LET M == replay_reputation_transition(L, B, E, policy)
           IN  /\ M \in Ledger /\ Standing(M)
               /\ \A p \in Validator : L[p].excluded \/ p \in offenders(E) => M[p].excluded
               /\ policy = "CarryForward" => Carried(L, B, E, M)
<1> DEFINE M == replay_reputation_transition(L, B, E, policy)
           N == next_list(L, B, policy)
<1>0. scale \in Nat /\ scale > 0 /\ liquid_rank_alpha \in 0 .. scale /\ initial_reputation \in Nat
      /\ base_slash_penalty \in 0 .. scale
  BY PorConfigAssumption
<1>1. DOMAIN L = Validator /\ DOMAIN N = Validator /\ DOMAIN M = Validator
  BY DEF Ledger, next_list, replay_reputation_transition, apply_reputation_penalties
<1>2. ASSUME NEW p \in Validator
      PROVE  /\ L[p] \in Entry /\ L[p].reputation \in Weight /\ L[p].retained \in Weight
             /\ L[p].excluded \in BOOLEAN
             /\ L[p] = [reputation |-> L[p].reputation, retained |-> L[p].retained,
                        excluded |-> L[p].excluded]
  BY DEF Ledger, Entry
<1>3. ASSUME NEW p \in Validator
      PROVE  /\ is_ejected(L, p) => N[p] = ejected(L[p].retained)
             /\ ~ is_ejected(L, p) => N[p] = entry(clamp_reputation_transition(L, B, p, policy))
  BY <1>1 DEF next_list
<1>4. ASSUME NEW p \in Validator
      PROVE  /\ p \in offenders(E) => M[p] = ejected(retained_after(L, E, p))
             /\ p \notin offenders(E) => M[p] = N[p]
  BY <1>1 DEF replay_reputation_transition, apply_reputation_penalties
<1>5. ASSUME NEW p \in Validator PROVE clamp_reputation_transition(L, B, p, policy) \in Weight
  <2> DEFINE c == IF p \in rated(B) THEN compute_liquid_rank_contribution(L, B, p)
                                    ELSE contribution_for_unrated_node(L, p, policy)
             x == L[p].reputation
             b == blend_reputation_transition(L, B, p, policy)
  <2>1. x \in Nat
    <3>1. x \in Weight
      BY <1>2, Zenon
    <3> HIDE DEF x
    <3> QED
      BY <1>0, <3>1 DEF Weight
  <2>2. c \in Nat
    BY <1>0, <2>1, ContributionIs DEF contribution_for_unrated_node
  <2>3. b = (liquid_rank_alpha * c + (scale - liquid_rank_alpha) * x) \div scale
    BY DEF blend_reputation_transition, blend_reputation
  <2> HIDE DEF c, x
  <2>4. liquid_rank_alpha * c + (scale - liquid_rank_alpha) * x \in Nat
    BY <1>0, <2>1, <2>2
  <2>5. b \in Nat
    BY <1>0, <2>3, <2>4, DivisionIs
  <2>6. clamp_reputation_value(b) \in Weight
    <3> HIDE DEF b
    <3> QED
      BY <2>5, ClampIs
  <2> QED
    BY <1>2, <2>6, Zenon DEF clamp_reputation_transition
<1>6. ASSUME NEW p \in Validator PROVE retained_after(L, E, p) \in Weight
  <2> DEFINE e == CHOOSE f \in E : f.offender = p
             y == compute_slash_penalty(equivocating_weight(L, E, e), weight_of(L, active(L)))
             x == L[p].reputation
  <2>1. retained_after(L, E, p) = (x * (scale - y)) \div scale
    BY DEF retained_after, apply_slash_to_reputation
  <2>2. y \in 0 .. scale
    BY <1>0 DEF compute_slash_penalty
  <2>3. x \in Nat /\ x <= scale
    <3>1. x \in Weight
      BY <1>2, Zenon
    <3> HIDE DEF x
    <3> QED
      BY <1>0, <3>1 DEF Weight
  <2> HIDE DEF y, x
  <2>4. scale - y \in Nat /\ scale - y <= scale
    BY <1>0, <2>2
  <2>5. x * (scale - y) \in Nat /\ x * (scale - y) <= x * scale
    BY <1>0, <2>3, <2>4
  <2>6. x * scale <= scale * scale /\ scale * scale < (scale + 1) * scale
    BY <1>0, <2>3
  <2>7. x * (scale - y) < (scale + 1) * scale
    BY <1>0, <2>3, <2>5, <2>6
  <2> DEFINE a == x * (scale - y)
  <2> HIDE DEF a
  <2>8. a \div scale \in Nat /\ a \div scale <= scale
    BY <1>0, <2>5, <2>7, DivisionIs DEF a
  <2> QED
    BY <1>0, <2>1, <2>8 DEF a, Weight
<1>7. ASSUME NEW p \in Validator
      PROVE  /\ M[p] \in Entry
             /\ IF M[p].excluded THEN M[p].reputation = 0 ELSE M[p].retained = 0
             /\ L[p].excluded \/ p \in offenders(E) => M[p].excluded
  <2>0. \A k \in Weight : /\ entry(k) \in Entry /\ ~ entry(k).excluded /\ entry(k).retained = 0
                          /\ ejected(k) \in Entry /\ ejected(k).excluded
                          /\ ejected(k).reputation = 0
    BY <1>0 DEF entry, ejected, Entry, Weight
  <2> HIDE DEF M, N
  <2>1. CASE p \in offenders(E)
    BY <1>4, <1>6, <2>0, <2>1
  <2>2. CASE p \notin offenders(E) /\ is_ejected(L, p)
    <3>1. M[p] = ejected(L[p].retained) /\ L[p].retained \in Weight
      BY <1>2, <1>3, <1>4, <2>2, Zenon
    <3> QED
      BY <2>0, <3>1
  <2>3. CASE p \notin offenders(E) /\ ~ is_ejected(L, p)
    BY <1>3, <1>4, <1>5, <2>0, <2>3 DEF is_ejected
  <2> QED
    BY <2>1, <2>2, <2>3
<1>8. ASSUME policy = "CarryForward", NEW p \in Validator \ (rated(B) \cup offenders(E))
      PROVE  M[p] = L[p]
  <2>1. M[p] = N[p]
    BY <1>4
  <2>2. CASE is_ejected(L, p)
    <3>1. L[p].excluded = TRUE /\ L[p].reputation = 0
      BY <1>2, <2>2 DEF is_ejected, Standing
    <3>2. N[p] = [reputation |-> 0, retained |-> L[p].retained, excluded |-> TRUE]
      BY <1>3, <2>2 DEF ejected
    <3> HIDE DEF M, N
    <3> QED
      BY <1>2, <2>1, <3>1, <3>2, Zenon
  <2>3. CASE ~ is_ejected(L, p)
    <3>1. L[p].excluded = FALSE /\ L[p].retained = 0
      BY <1>2, <2>3 DEF is_ejected, Standing
    <3>2. clamp_reputation_transition(L, B, p, policy) = L[p].reputation
      BY <1>8 DEF clamp_reputation_transition
    <3>3. N[p] = [reputation |-> L[p].reputation, retained |-> 0, excluded |-> FALSE]
      BY <1>3, <2>3, <3>2 DEF entry
    <3> HIDE DEF M, N
    <3> QED
      BY <1>2, <2>1, <3>1, <3>3, Zenon
  <2> QED
    BY <2>2, <2>3
<1>9. M \in Ledger
  <2>1. M = [p \in Validator |-> M[p]]
    BY <1>1 DEF next_list, replay_reputation_transition, apply_reputation_penalties
  <2> HIDE DEF M
  <2> QED
    BY <1>7, <2>1 DEF Ledger
<1>10. policy = "CarryForward" => Carried(L, B, E, M)
  BY <1>8, Zenon DEF Carried
<1> QED
  BY <1>7, <1>9, <1>10 DEF Standing

-----------------------------------------------------------------------------
(***************************************************************************)
(* What steps of others and publications leave as it was.                  *)
(***************************************************************************)
\* What belongs to the round of w follows from its state.
LEMMA RoundFrame ==
    ASSUME NEW w, config' = config, state'[w] = state[w]
    PROVE  /\ checkpoint' = checkpoint /\ Genesis' = Genesis /\ Rating' = Rating
           /\ list(w)' = list(w) /\ round(w)' = round(w) /\ carriers(w)' = carriers(w)
           /\ \A r : owed(w, r)' = owed(w, r)
           /\ Applied(w)' = Applied(w)
<1>1. /\ checkpoint' = checkpoint /\ Genesis' = Genesis /\ Rating' = Rating
      /\ list(w)' = list(w) /\ round(w)' = round(w)
  BY DEF checkpoint, Genesis, Rating, list, round
<1>2. carriers(w)' = carriers(w)
  BY <1>1 DEF carriers
<1>3. \A r : owed(w, r)' = owed(w, r)
  BY <1>1 DEF owed, recipients, rating
<1>4. Applied(w)' = Applied(w)
  BY <1>1, <1>2 DEF Applied, authorize_checkpoint
<1> QED
  BY <1>1, <1>2, <1>3, <1>4, Zenon

\* The block w would publish follows from its state and round.
LEMMA BlockFrame ==
    ASSUME NEW w, config' = config, state'[w] = state[w], batch'[w] = batch[w],
           penalties'[w] = penalties[w]
    PROVE  build_reputation_block(w)' = build_reputation_block(w)
  BY RoundFrame, Zenon DEF build_reputation_block, round, list

\* More publications do not take back what justified a block.
LEMMA JustifiedKept ==
    ASSUME config' = config, published \subseteq published', NEW b, Justified(b)
    PROVE  Justified(b)'
<1> DEFINE L == Preceding(b)
           all == active(L)
<1>1. /\ checkpoint' = checkpoint /\ Preceding(b)' = L /\ Canonical(b.previous)' = Canonical(b.previous)
      /\ Ledger' = Ledger
  <2>1. checkpoint' = checkpoint /\ Ledger' = Ledger /\ Genesis' = Genesis
    BY DEF checkpoint, Ledger, Entry, Weight, Genesis
  <2>2. Preceding(b)' = L
    BY DEF Preceding
  <2>3. Canonical(b.previous)' = Canonical(b.previous)
    <3>1. \A M, n : Complete(M, n, b.previous)' = Complete(M, n, b.previous)
      BY DEF Complete, rating
    <3> QED
      BY <2>1, <3>1, Zenon DEF Canonical
  <2> QED
    BY <2>1, <2>2, <2>3
<1>2. ASSUME ~ checkpoint PROVE is_reached(L, all, Signers(b)' \cap all)
  <2>1. L \in Ledger /\ is_reached(L, all, Signers(b) \cap all)
    BY <1>2 DEF Justified
  <2>2. Signers(b) \subseteq Signers(b)'
    BY DEF Signers
  <2>3. Signers(b)' \cap all \in SUBSET active(L)
        /\ Signers(b) \cap all \in SUBSET (Signers(b)' \cap all)
    BY <2>2
  <2> HIDE DEF L
  <2> QED
    BY <2>1, <2>3, ReachedByMore
<1> QED
  BY <1>1, <1>2 DEF Justified

\* The last committed block stays recorded.
LEMMA RecordedKept ==
    ASSUME config' = config, published \subseteq published', NEW w, state'[w] = state[w], Recorded(w)
    PROVE  Recorded(w)'
<1>1. list(w)' = list(w) /\ Genesis' = Genesis
  BY RoundFrame
<1>2. CASE state[w].latest = <<>> /\ list(w) = Genesis /\ state[w].round = 0
  BY <1>1, <1>2, Zenon DEF Recorded
<1>3. CASE \E b : /\ state[w].latest = <<b>> /\ list(w) = b.list /\ state[w].round = b.round
                  /\ Justified(b)
                  /\ b.previous = <<>> \/ \E c : b.previous = <<c>> /\ Justified(c)
  <2>1. PICK b : /\ state[w].latest = <<b>> /\ list(w) = b.list /\ state[w].round = b.round
                 /\ Justified(b)
                 /\ b.previous = <<>> \/ \E c : b.previous = <<c>> /\ Justified(c)
    BY <1>3, Zenon
  <2>2. Justified(b)' /\ (b.previous = <<>> \/ \E c : b.previous = <<c>> /\ Justified(c)')
    BY <2>1, JustifiedKept
  <2>3. /\ state'[w].latest = <<b>> /\ list(w)' = b.list /\ state'[w].round = b.round
    BY <1>1, <2>1
  <2> QED
    BY <2>2, <2>3, Zenon DEF Recorded
<1> QED
  BY <1>2, <1>3, Zenon DEF Recorded

\* A round on which nothing was done stays as it is.
LEMMA InRoundKept ==
    ASSUME config' = config, published \subseteq published', NEW w, state'[w] = state[w],
           pc'[w] = pc[w], collected'[w] = collected[w], batch'[w] = batch[w],
           penalties'[w] = penalties[w], counted'[w] = counted[w], InRound(w)
    PROVE  InRound(w)'
<1>1. /\ checkpoint' = checkpoint /\ list(w)' = list(w) /\ round(w)' = round(w)
      /\ \A r : owed(w, r)' = owed(w, r)
      /\ Applied(w)' = Applied(w)
  BY RoundFrame, Zenon
<1>2. build_reputation_block(w)' = build_reputation_block(w)
  BY BlockFrame, Zenon
<1>3. \A q \in counted'[w] :
        q \in active(list(w)) /\ publication(q, build_reputation_block(w)) \in published'
  BY Zenon DEF InRound
<1>4. \A x \in collected'[w] : round(w) <= config.rounds /\ x \in owed(w, x.rater)
  BY DEF InRound
<1>5. /\ pc[w] # "open" => round(w) <= config.rounds
      /\ pc[w] # "open" /\ checkpoint => batch[w] = UNION {owed(w, r) : r \in active(list(w))}
      /\ pc[w] = "attesting" => penalties[w] = events(Applied(w))
      /\ pc[w] # "attesting" => counted[w] = {}
  BY DEF InRound
<1>6. (\A q \in counted[w] :
        q \in active(list(w)) /\ publication(q, build_reputation_block(w)) \in published)'
  BY <1>1, <1>2, <1>3 DEF publication
<1>7. (\A x \in collected[w] : round(w) <= config.rounds /\ x \in owed(w, x.rater))'
  BY <1>1, <1>4
<1>8. (pc[w] # "open" /\ checkpoint => batch[w] = UNION {owed(w, r) : r \in active(list(w))})'
  BY <1>1, <1>5
<1>9. (/\ pc[w] # "open" => round(w) <= config.rounds
       /\ pc[w] = "attesting" => penalties[w] = events(Applied(w))
       /\ pc[w] # "attesting" => counted[w] = {})'
  BY <1>1, <1>5, Zenon DEF events, first_of_offender
<1> QED
  BY <1>6, <1>7, <1>8, <1>9, Zenon DEF InRound

\* A step leaves what belongs to w alone.
Same(w) ==
    /\ state'[w] = state[w] /\ wave'[w] = wave[w] /\ pc'[w] = pc[w]
    /\ local_batch'[w] = local_batch[w] /\ outbound'[w] = outbound[w]
    /\ collected'[w] = collected[w] /\ batch'[w] = batch[w]
    /\ penalties'[w] = penalties[w] /\ counted'[w] = counted[w]

\* It stays sound.
LEMMA SoundKept ==
    ASSUME config' = config, published \subseteq published', NEW w, Same(w), Sound(w)
    PROVE  Sound(w)'
<1>1. Recorded(w)'
  BY RecordedKept DEF Same, Sound
<1>2. InRound(w)'
  BY InRoundKept DEF Same, Sound
<1>3. Typed(w)'
  BY Zenon DEF Same, Sound, Typed, list, Ledger, Entry, Weight, Standing, Rating, offenders
<1>4. Penalized(w)'
  BY DEF Same, Sound, Penalized, list
<1> QED
  BY <1>1, <1>2, <1>3, <1>4 DEF Sound

\* A step of v on its own memory keeps the invariant if v stays sound.
LEMMA StepKeeps ==
    ASSUME AttInv, config' = config, crashes' \in 0 .. config.crashes, Domains',
           envelopes' \subseteq Rating, published \subseteq published', Published',
           NEW v \in Validator, \A w \in Validator \ {v} : Same(w), Sound(v)'
    PROVE  AttInv'
<1>1. \A w \in Validator : Sound(w)'
  BY SoundKept DEF AttInv
<1>2. Rating' = Rating
  BY DEF Rating
<1> QED
  BY <1>1, <1>2 DEF AttInv

-----------------------------------------------------------------------------
(***************************************************************************)
(* The initial state and the steps of a validator.                         *)
(***************************************************************************)
\* The settings of a run.
LEMMA ConfigIs ==
    ASSUME AttInv
    PROVE  /\ config.rounds \in Nat /\ config.waves \in Nat /\ config.crashes \in Nat
           /\ config.bonds \in [Validator -> 0 .. scale]
           /\ \A r \in 1 .. config.rounds :
                 /\ config.producers[r] \subseteq Validator
                 /\ \A a \in config.carriers[r] : a.id \in Nat /\ a.offender \in Validator
  BY AttAssumption DEF AttInv

\* What the owed ratings are.
LEMMA OwedIs ==
    ASSUME AttInv, NEW v \in Validator, round(v) <= config.rounds, NEW r
    PROVE  /\ round(v) \in 1 .. config.rounds
           /\ recipients(v, r) \subseteq Validator
           /\ owed(v, r) \subseteq Rating
           /\ \A x \in owed(v, r) : x.rater = r /\ r \in active(list(v))
<1>1. round(v) \in 1 .. config.rounds
  BY ConfigIs, SMTT(30) DEF AttInv, Sound, Typed, round
<1>2. recipients(v, r) \subseteq Validator
  BY <1>1, ConfigIs DEF recipients
<1>3. active(list(v)) \subseteq Validator
  BY DEF AttInv, Sound, Typed, Ledger, active
<1>4. owed(v, r) \subseteq Rating /\ \A x \in owed(v, r) : x.rater = r /\ r \in active(list(v))
  BY <1>1, <1>2, <1>3 DEF owed, rating, Rating
<1> QED
  BY <1>1, <1>2, <1>4

\* The invariant holds at the start.
LEMMA AttInvInit == Init => AttInv
<1> SUFFICES ASSUME Init PROVE AttInv
  OBVIOUS
<1>0. config \in Configs
  BY DEF Init
<1>1. /\ config.rounds \in Nat /\ config.waves \in Nat /\ config.crashes \in Nat
      /\ config.bonds \in [Validator -> 0 .. scale]
  BY <1>0, AttAssumption
<1>2. Domains
  BY DEF Init, Domains
<1>3. Published /\ envelopes \subseteq Rating /\ crashes \in 0 .. config.crashes
  BY <1>1 DEF Init, Published
<1>4. ASSUME NEW v \in Validator PROVE Sound(v)
  <2>1. /\ state[v] = [round |-> 0, list |-> Genesis, latest |-> <<>>]
        /\ wave[v] = 0 /\ pc[v] = "open" /\ local_batch[v] = FALSE /\ outbound[v] = {}
        /\ collected[v] = {} /\ batch[v] = {} /\ penalties[v] = {} /\ counted[v] = {}
    BY DEF Init, Genesis
  <2>2. list(v) = Genesis /\ state[v].round = 0 /\ state[v].latest = <<>>
    BY <2>1, SMTT(30) DEF list
  <2>3. Genesis \in Ledger /\ Standing(Genesis)
    BY <1>1, PorConfigAssumption DEF Genesis, Ledger, Standing, entry, Entry, Weight
  <2>4. Typed(v)
    <3>1. state[v].round \in 0 .. config.rounds /\ list(v) \in Ledger /\ Standing(list(v))
      BY <1>1, <2>2, <2>3
    <3>2. wave[v] \in 0 .. config.waves
      BY <1>1, <2>1
    <3>3. pc[v] \in {"open", "closed", "attesting"} /\ local_batch[v] \in BOOLEAN
      BY <2>1, Zenon
    <3>4. offenders(penalties[v]) \subseteq Validator
      BY <2>1 DEF offenders
    <3> QED
      BY <2>1, <3>1, <3>2, <3>3, <3>4 DEF Typed
  <2>5. Recorded(v)
    BY <2>2 DEF Recorded
  <2>6. InRound(v)
    BY <2>1, Zenon DEF InRound
  <2>7. Penalized(v)
    BY <2>2 DEF Penalized
  <2> QED
    BY <2>4, <2>5, <2>6, <2>7 DEF Sound
<1> QED
  BY <1>0, <1>2, <1>3, <1>4 DEF AttInv

\* observe_finalized_output keeps the invariant.
LEMMA observe_finalized_output_keeps ==
    ASSUME AttInv, NEW v \in Validator, observe_finalized_output(v)
    PROVE  AttInv'
<1>1. UNCHANGED <<config, state, memory, network, crashes>>
  BY DEF observe_finalized_output
<1>2. /\ Domains' /\ \A w \in Validator \ {v} : Same(w)
      /\ wave'[v] = wave[v] + 1 /\ wave[v] < config.waves
  BY <1>1 DEF AttInv, Domains, Same, observe_finalized_output, memory
<1>3. Sound(v)'
  <2>1. Recorded(v)' /\ InRound(v)'
    BY <1>1, RecordedKept, InRoundKept, Zenon DEF AttInv, Sound, memory, network
  <2>2. Typed(v)'
    <3>1. (wave[v] \in 0 .. config.waves)'
      <4>1. wave[v] \in 0 .. config.waves /\ config.waves \in Nat
        BY ConfigIs, Zenon DEF AttInv, Sound, Typed
      <4> QED
        BY <1>1, <1>2, <4>1
    <3>2. list(v)' = list(v) /\ Ledger' = Ledger /\ Rating' = Rating
      BY <1>1 DEF list, Ledger, Entry, Weight, Rating
    <3>3. Standing(list(v))' /\ offenders(penalties[v])' = offenders(penalties[v])
      <4>1. Standing(list(v)) /\ penalties' = penalties
        BY <1>1, Zenon DEF AttInv, Sound, Typed, memory
      <4>2. offenders(penalties[v])' = offenders(penalties[v])
        BY <4>1 DEF offenders
      <4> QED
        BY <3>2, <4>1, <4>2 DEF Standing
    <3> QED
      BY <1>1, <3>1, <3>2, <3>3, Zenon DEF AttInv, Sound, Typed, memory
  <2>3. Penalized(v)'
    BY <1>1, Zenon DEF AttInv, Sound, Penalized, list
  <2> QED
    BY <2>1, <2>2, <2>3 DEF Sound
<1>4. Published' /\ published' = published /\ envelopes' = envelopes
  BY <1>1 DEF AttInv, Published, network, publication
<1> QED
  BY <1>1, <1>2, <1>3, <1>4, StepKeeps DEF AttInv

\* produce_local_batch keeps the invariant.
LEMMA produce_local_batch_keeps ==
    ASSUME AttInv, NEW v \in Validator, produce_local_batch(v)
    PROVE  AttInv'
<1>1. UNCHANGED <<config, state, wave, pc, batch, penalties, counted, network, crashes>>
  BY DEF produce_local_batch
<1>2. /\ Domains' /\ \A w \in Validator \ {v} : Same(w)
      /\ local_batch'[v] = TRUE /\ outbound'[v] = recipients(v, v)
      /\ collected'[v] = collected[v] \cup owed(v, v)
  BY <1>1, Zenon DEF AttInv, Domains, Same, produce_local_batch
<1>3. Sound(v)'
  <2>1. round(v) <= config.rounds
    BY Zenon DEF produce_local_batch, opened
  <2>2. /\ recipients(v, v) \subseteq Validator /\ owed(v, v) \subseteq Rating
        /\ \A x \in owed(v, v) : x.rater = v
    BY <2>1, OwedIs
  <2>3. Recorded(v)'
    BY <1>1, RecordedKept DEF AttInv, Sound, network
  <2>4. Typed(v)'
    BY <1>1, <1>2, <2>2, Zenon
       DEF AttInv, Sound, Typed, list, Ledger, Entry, Weight, Standing, Rating, offenders
  <2>5. InRound(v)'
    <3>1. \A x \in collected'[v] : round(v) <= config.rounds /\ x \in owed(v, x.rater)
      BY <1>2, <2>1, <2>2, Zenon DEF AttInv, Sound, InRound
    <3>2. /\ checkpoint' = checkpoint /\ list(v)' = list(v) /\ round(v)' = round(v)
          /\ \A r : owed(v, r)' = owed(v, r)
          /\ Applied(v)' = Applied(v)
      BY <1>1, RoundFrame
    <3>3. pc[v] = "open" /\ counted[v] = {}
      BY Zenon DEF produce_local_batch, opened, AttInv, Sound, InRound
    <3> QED
      BY <1>1, <3>1, <3>2, <3>3, Zenon DEF InRound
  <2>6. Penalized(v)'
    BY <1>1, Zenon DEF AttInv, Sound, Penalized, list
  <2> QED
    BY <2>3, <2>4, <2>5, <2>6 DEF Sound
<1>4. Published' /\ published' = published /\ envelopes' = envelopes
  BY <1>1, Zenon DEF AttInv, Published, network, publication
<1> QED
  BY <1>1, <1>2, <1>3, <1>4, StepKeeps DEF AttInv

\* broadcast_pending keeps the invariant.
LEMMA broadcast_pending_keeps ==
    ASSUME AttInv, NEW v \in Validator, broadcast_pending(v)
    PROVE  AttInv'
<1>1. UNCHANGED <<config, state, wave, pc, local_batch, collected, batch, penalties, counted,
                  published, crashes>>
  BY DEF broadcast_pending
<1>2. PICK p \in outbound[v] : /\ envelopes' = envelopes \cup {rating(round(v), v, p)}
                               /\ outbound' = [outbound EXCEPT ![v] = @ \ {p}]
  BY Zenon DEF broadcast_pending
<1>3. Domains' /\ (\A w \in Validator \ {v} : Same(w)) /\ outbound'[v] = outbound[v] \ {p}
  BY <1>1, <1>2, Zenon DEF AttInv, Domains, Same
<1>4. Sound(v)'
  <2>1. Recorded(v)' /\ InRound(v)'
    BY <1>1, RecordedKept, InRoundKept DEF AttInv, Sound
  <2>2. Typed(v)'
    BY <1>1, <1>3, Zenon
       DEF AttInv, Sound, Typed, list, Ledger, Entry, Weight, Standing, Rating, offenders
  <2>3. Penalized(v)'
    BY <1>1, Zenon DEF AttInv, Sound, Penalized, list
  <2> QED
    BY <2>1, <2>2, <2>3 DEF Sound
<1>5. envelopes' \subseteq Rating
  <2>1. round(v) \in 1 .. config.rounds
    BY OwedIs, Zenon DEF broadcast_pending, opened
  <2>2. p \in Validator
    BY Zenon DEF AttInv, Sound, Typed
  <2>3. rating(round(v), v, p) \in Rating
    BY <2>1, <2>2, Zenon DEF rating, Rating
  <2> QED
    BY <1>2, <2>3 DEF AttInv
<1>6. Published'
  BY <1>1, Zenon DEF AttInv, Published, publication
<1> QED
  BY <1>1, <1>3, <1>4, <1>5, <1>6, StepKeeps, Zenon DEF AttInv

\* receive_envelope keeps the invariant.
LEMMA receive_envelope_keeps ==
    ASSUME AttInv, NEW v \in Validator, NEW x \in envelopes, receive_envelope(v, x)
    PROVE  AttInv'
<1>1. UNCHANGED <<config, state, wave, pc, local_batch, outbound, batch, penalties, counted,
                  network, crashes>>
  BY DEF receive_envelope
<1>2. /\ Domains' /\ (\A w \in Validator \ {v} : Same(w))
      /\ collected'[v] = collected[v] \cup {x}
  BY <1>1, Zenon DEF AttInv, Domains, Same, receive_envelope
<1>3. Sound(v)'
  <2>1. round(v) <= config.rounds /\ x \in owed(v, x.rater) /\ x \in Rating
    BY Zenon DEF receive_envelope, opened, AttInv
  <2>2. Recorded(v)'
    BY <1>1, RecordedKept DEF AttInv, Sound, network
  <2>3. Typed(v)'
    BY <1>1, <1>2, <2>1, Zenon
       DEF AttInv, Sound, Typed, list, Ledger, Entry, Weight, Standing, Rating, offenders
  <2>4. InRound(v)'
    <3>1. \A y \in collected'[v] : round(v) <= config.rounds /\ y \in owed(v, y.rater)
      BY <1>2, <2>1, Zenon DEF AttInv, Sound, InRound
    <3>2. /\ checkpoint' = checkpoint /\ list(v)' = list(v) /\ round(v)' = round(v)
          /\ \A r : owed(v, r)' = owed(v, r)
          /\ Applied(v)' = Applied(v)
      BY <1>1, RoundFrame
    <3>3. pc[v] = "open" /\ counted[v] = {}
      BY Zenon DEF receive_envelope, opened, AttInv, Sound, InRound
    <3> QED
      BY <1>1, <3>1, <3>2, <3>3, Zenon DEF InRound
  <2>5. Penalized(v)'
    BY <1>1, Zenon DEF AttInv, Sound, Penalized, list
  <2> QED
    BY <2>2, <2>3, <2>4, <2>5 DEF Sound
<1>4. Published' /\ published' = published /\ envelopes' = envelopes
  BY <1>1 DEF AttInv, Published, network, publication
<1> QED
  BY <1>1, <1>2, <1>3, <1>4, StepKeeps, Zenon DEF AttInv

\* Closing a round keeps the invariant: the batch of a checkpoint round is all
\* that the active validators owe.
LEMMA finalize_keeps ==
    ASSUME AttInv, NEW v \in Validator, opened(v), finalize(v),
           checkpoint => complete_raters(v) = active(list(v))
    PROVE  AttInv'
<1>1. UNCHANGED <<config, state, wave, local_batch, outbound, penalties, counted, network, crashes>>
  BY DEF finalize
<1>2. /\ Domains' /\ (\A w \in Validator \ {v} : Same(w))
      /\ pc'[v] = "closed" /\ collected'[v] = {} /\ batch'[v] = build_complete_batch(v)
  BY <1>1 DEF AttInv, Domains, Same, finalize, goto
<1>3. Sound(v)'
  <2>1. round(v) <= config.rounds /\ pc[v] = "open" /\ counted[v] = {}
    BY Zenon DEF opened, AttInv, Sound, InRound
  <2>2. Recorded(v)'
    BY <1>1, RecordedKept DEF AttInv, Sound, network
  <2>3. Typed(v)'
    <3>1. build_complete_batch(v) \subseteq collected[v]
      BY DEF build_complete_batch
    <3> QED
      BY <1>1, <1>2, <3>1, Zenon
         DEF AttInv, Sound, Typed, list, Ledger, Entry, Weight, Standing, Rating, offenders
  <2>4. ASSUME checkpoint
        PROVE  build_complete_batch(v) = UNION {owed(v, r) : r \in active(list(v))}
    <3>1. \A x \in collected[v] : x \in owed(v, x.rater) /\ x.rater \in active(list(v))
      BY <2>1, OwedIs, Zenon DEF AttInv, Sound, InRound
    <3>2. \A r \in active(list(v)) : owed(v, r) \subseteq collected[v]
      BY <2>4, Zenon DEF complete_raters, is_rater_complete
    <3>3. \A r \in active(list(v)) : \A x \in owed(v, r) : x.rater = r
      BY <2>1, OwedIs
    <3>4. ASSUME NEW x \in build_complete_batch(v)
          PROVE  x \in UNION {owed(v, r) : r \in active(list(v))}
      BY <3>1, <3>4 DEF build_complete_batch
    <3>5. ASSUME NEW r \in active(list(v)), NEW x \in owed(v, r) PROVE x \in build_complete_batch(v)
      BY <3>2, <3>3, <3>5, Zenon DEF build_complete_batch, is_rater_complete
    <3> QED
      BY <3>4, <3>5
  <2>5. InRound(v)'
    <3>1. /\ checkpoint' = checkpoint /\ list(v)' = list(v) /\ round(v)' = round(v)
          /\ \A r : owed(v, r)' = owed(v, r)
      BY <1>1, RoundFrame
    <3>2. (checkpoint => batch[v] = UNION {owed(v, r) : r \in active(list(v))})'
      BY <1>2, <2>4, <3>1, Zenon
    <3>3. /\ (\A x \in collected[v] : round(v) <= config.rounds /\ x \in owed(v, x.rater))'
          /\ (\A q \in counted[v] :
                q \in active(list(v)) /\ publication(q, build_reputation_block(v)) \in published)'
      BY <1>1, <1>2, <2>1, Zenon
    <3>4. round(v)' <= config'.rounds /\ pc'[v] = "closed" /\ counted'[v] = {}
      BY <1>1, <1>2, <2>1, <3>1, Zenon
    <3> QED
      BY <3>2, <3>3, <3>4, Zenon DEF InRound
  <2>6. Penalized(v)'
    BY <1>1, Zenon DEF AttInv, Sound, Penalized, list
  <2> QED
    BY <2>2, <2>3, <2>5, <2>6 DEF Sound
<1>4. Published' /\ published' = published /\ envelopes' = envelopes
  BY <1>1 DEF AttInv, Published, network, publication
<1> QED
  BY <1>1, <1>2, <1>3, <1>4, StepKeeps DEF AttInv

\* close_if_quorum, close_at_finalized_wave and complete keep the invariant.
LEMMA close_keeps ==
    ASSUME AttInv, NEW v \in Validator,
           close_if_quorum(v) \/ close_at_finalized_wave(v) \/ complete(v)
    PROVE  AttInv'
<1>1. opened(v) /\ finalize(v) /\ (checkpoint => complete_raters(v) = active(list(v)))
  BY DEF close_if_quorum, close_at_finalized_wave, complete, require_close_prerequisites
<1> QED
  BY <1>1, finalize_keeps

\* The offenders of the events are those of the authorizations.
LEMMA EventsAre ==
    ASSUME NEW S, \A a \in S : a.id \in Nat
    PROVE  offenders(events(S)) = {a.offender : a \in S}
<1>1. ASSUME NEW a \in S PROVE a.offender \in offenders(events(S))
  <2> DEFINE T == {b \in S : b.offender = a.offender}
             I == {b.id : b \in T}
  <2>1. I \in SUBSET Nat /\ I # {}
    OBVIOUS
  <2>2. PICK i \in I : \A j \in I : i <= j
    <3> HIDE DEF I
    <3> QED
      BY <2>1, LeastNumber
  <2>3. PICK b \in T : b.id = i
    OBVIOUS
  <2>4. b \in first_of_offender(S)
    BY <2>2, <2>3 DEF first_of_offender
  <2>5. [offender |-> b.offender, proof_round |-> b.proof_round] \in events(S)
    BY <2>4 DEF events
  <2> QED
    BY <2>3, <2>5 DEF offenders
<1>2. ASSUME NEW p \in offenders(events(S)) PROVE p \in {a.offender : a \in S}
  BY <1>2 DEF offenders, events, first_of_offender
<1> QED
  BY <1>1, <1>2

\* authorize_equivocations keeps the invariant: the penalties are those of all
\* the authorizations that the round must apply.
LEMMA authorize_equivocations_keeps ==
    ASSUME AttInv, NEW v \in Validator, NEW raw, authorize_equivocations(v, raw)
    PROVE  AttInv'
<1>1. UNCHANGED <<config, state, wave, local_batch, outbound, collected, batch, counted, network,
                  crashes>>
  BY DEF authorize_equivocations
<1>2. /\ Domains' /\ (\A w \in Validator \ {v} : Same(w))
      /\ pc'[v] = "attesting" /\ penalties'[v] = events(raw) /\ pc[v] = "closed"
  BY <1>1, Zenon DEF AttInv, Domains, Same, authorize_equivocations, goto
<1>3. raw = Applied(v) /\ raw \subseteq carriers(v)
  BY DEF authorize_equivocations, validate_complete_authorizations, Applied
<1>4. Sound(v)'
  <2>1. round(v) <= config.rounds /\ counted[v] = {}
    BY <1>2, Zenon DEF AttInv, Sound, InRound
  <2>2. round(v) \in 1 .. config.rounds
    BY <2>1, OwedIs
  <2>3. \A a \in raw : a.id \in Nat /\ a.offender \in Validator
    BY <1>3, <2>2, ConfigIs DEF carriers
  <2>4. offenders(events(raw)) \subseteq Validator
    BY <2>3, EventsAre
  <2>5. Recorded(v)'
    BY <1>1, RecordedKept DEF AttInv, Sound, network
  <2>6. Typed(v)'
    <3>1. offenders(penalties[v])' \subseteq Validator
      BY <1>2, <2>4 DEF offenders
    <3> QED
      BY <1>1, <1>2, <3>1, Zenon
         DEF AttInv, Sound, Typed, list, Ledger, Entry, Weight, Standing, Rating
  <2>7. InRound(v)'
    <3>1. /\ checkpoint' = checkpoint /\ list(v)' = list(v) /\ round(v)' = round(v)
          /\ \A r : owed(v, r)' = owed(v, r)
          /\ Applied(v)' = Applied(v)
      BY <1>1, RoundFrame
    <3>2. (checkpoint => batch[v] = UNION {owed(v, r) : r \in active(list(v))})'
      <4>1. checkpoint => batch[v] = UNION {owed(v, r) : r \in active(list(v))}
        BY <1>2, Zenon DEF AttInv, Sound, InRound
      <4> QED
        BY <1>1, <3>1, <4>1
    <3>3. (\A x \in collected[v] : round(v) <= config.rounds /\ x \in owed(v, x.rater))'
      BY <1>1, <3>1, Zenon DEF AttInv, Sound, InRound
    <3>4. penalties'[v] = events(Applied(v))'
      BY <1>2, <1>3, <3>1, Zenon DEF events, first_of_offender
    <3>5. round(v)' <= config'.rounds /\ pc'[v] = "attesting" /\ counted'[v] = {}
      BY <1>1, <1>2, <2>1, <3>1, Zenon
    <3> QED
      BY <3>2, <3>3, <3>4, <3>5, Zenon DEF InRound
  <2>8. Penalized(v)'
    BY <1>1, Zenon DEF AttInv, Sound, Penalized, list
  <2> QED
    BY <2>5, <2>6, <2>7, <2>8 DEF Sound
<1>5. Published' /\ published' = published /\ envelopes' = envelopes
  BY <1>1 DEF AttInv, Published, network, publication
<1> QED
  BY <1>1, <1>2, <1>4, <1>5, StepKeeps DEF AttInv

\* A further publication of a block keeps the invariant.
LEMMA PublishKeeps ==
    ASSUME AttInv, NEW v \in Validator, NEW b, published' = published \cup {publication(v, b)},
           b = [round |-> b.round, previous |-> b.previous, ratings |-> b.ratings,
                penalties |-> b.penalties, list |-> b.list],
           UNCHANGED <<config, state, wave, memory, envelopes, crashes>>
    PROVE  AttInv'
<1>1. \A w \in Validator : Same(w)
  BY DEF Same, memory
<1>2. Domains'
  BY DEF AttInv, Domains, memory
<1>3. Published'
  <2>1. publication(v, b).publisher = v /\ publication(v, b).block = b
    BY DEF publication
  <2> QED
    BY <2>1, Zenon DEF AttInv, Published, publication
<1>4. Sound(v)'
  BY <1>1, SoundKept DEF AttInv
<1> QED
  BY <1>1, <1>2, <1>3, <1>4, StepKeeps DEF AttInv

\* broadcast_reputation_block keeps the invariant.
LEMMA broadcast_reputation_block_keeps ==
    ASSUME AttInv, NEW v \in Validator, broadcast_reputation_block(v)
    PROVE  AttInv'
<1> DEFINE b == build_reputation_block(v)
<1>1. b = [round |-> b.round, previous |-> b.previous, ratings |-> b.ratings,
           penalties |-> b.penalties, list |-> b.list]
  BY Zenon DEF build_reputation_block
<1>2. /\ published' = published \cup {publication(v, b)}
      /\ UNCHANGED <<config, state, wave, memory, envelopes, crashes>>
  BY DEF broadcast_reputation_block
<1> HIDE DEF b
<1> QED
  BY <1>1, <1>2, PublishKeeps

\* sign_again keeps the invariant.
LEMMA sign_again_keeps ==
    ASSUME AttInv, NEW v \in Validator, NEW p \in published, sign_again(v, p)
    PROVE  AttInv'
<1> DEFINE b == p.block
<1>1. b = [round |-> b.round, previous |-> b.previous, ratings |-> b.ratings,
           penalties |-> b.penalties, list |-> b.list]
  BY Zenon DEF AttInv, Published
<1>2. /\ published' = published \cup {publication(v, b)}
      /\ UNCHANGED <<config, state, wave, memory, envelopes, crashes>>
  BY DEF sign_again
<1> HIDE DEF b
<1> QED
  BY <1>1, <1>2, PublishKeeps

\* observe keeps the invariant: the publication it counts is of the very block
\* the validator would publish.
LEMMA observe_keeps ==
    ASSUME AttInv, NEW v \in Validator, NEW p \in published, observe(v, p)
    PROVE  AttInv'
<1>1. UNCHANGED <<config, state, wave, pc, local_batch, outbound, collected, batch, penalties, network,
                  crashes>>
  BY DEF observe
<1>2. /\ Domains' /\ (\A w \in Validator \ {v} : Same(w))
      /\ counted'[v] = counted[v] \cup {p.publisher}
  BY <1>1, Zenon DEF AttInv, Domains, Same, observe
<1>3. p = publication(p.publisher, p.block) /\ p.publisher \in Validator
  BY Zenon DEF AttInv, Published
<1>4. p.block = build_reputation_block(v)
  <2> DEFINE b == p.block
             c == build_reputation_block(v)
  <2>1. b = [round |-> b.round, previous |-> b.previous, ratings |-> b.ratings,
             penalties |-> b.penalties, list |-> b.list]
    BY DEF AttInv, Published
  <2>2. c = [round |-> round(v), previous |-> state[v].latest, ratings |-> batch[v],
             penalties |-> penalties[v], list |-> c.list]
    BY Zenon DEF build_reputation_block
  <2>3. /\ b.round = round(v) /\ b.previous = state[v].latest /\ b.ratings = batch[v]
        /\ b.penalties = penalties[v] /\ b.list = c.list
    BY Zenon DEF observe, verify_reputation_transition
  <2> HIDE DEF b, c
  <2>4. b = c
    BY <2>1, <2>2, <2>3
  <2> QED
    BY <2>4 DEF b, c
<1>5. Sound(v)'
  <2>1. Recorded(v)'
    BY <1>1, RecordedKept DEF AttInv, Sound, network
  <2>2. Typed(v)'
    BY <1>1, <1>2, <1>3, Zenon
       DEF AttInv, Sound, Typed, list, Ledger, Entry, Weight, Standing, Rating, offenders
  <2>3. InRound(v)'
    <3>1. /\ checkpoint' = checkpoint /\ list(v)' = list(v) /\ round(v)' = round(v)
          /\ \A r : owed(v, r)' = owed(v, r)
          /\ Applied(v)' = Applied(v)
      BY <1>1, RoundFrame
    <3>2. build_reputation_block(v)' = build_reputation_block(v)
      BY <1>1, BlockFrame, Zenon
    <3>3. \A q \in counted'[v] :
            q \in active(list(v)) /\ publication(q, build_reputation_block(v)) \in published
      <4>1. p.publisher \in active(list(v))
        BY DEF observe
      <4>2. publication(p.publisher, build_reputation_block(v)) \in published
        BY <1>3, <1>4
      <4> QED
        BY <1>2, <4>1, <4>2, Zenon DEF AttInv, Sound, InRound
    <3>4. (\A q \in counted[v] :
            q \in active(list(v)) /\ publication(q, build_reputation_block(v)) \in published)'
      BY <1>1, <3>1, <3>2, <3>3, Zenon DEF publication, network
    <3>5. pc[v] = "attesting"
      BY DEF observe
    <3>6. /\ round(v) <= config.rounds
          /\ checkpoint => batch[v] = UNION {owed(v, r) : r \in active(list(v))}
          /\ penalties[v] = events(Applied(v))
          /\ \A x \in collected[v] : round(v) <= config.rounds /\ x \in owed(v, x.rater)
      BY <3>5, Zenon DEF AttInv, Sound, InRound
    <3>7. (checkpoint => batch[v] = UNION {owed(v, r) : r \in active(list(v))})'
      BY <1>1, <3>1, <3>6, Zenon
    <3>8. (penalties[v] = events(Applied(v)))'
      BY <1>1, <3>1, <3>6, Zenon DEF events, first_of_offender
    <3>9. (\A x \in collected[v] : round(v) <= config.rounds /\ x \in owed(v, x.rater))'
      BY <1>1, <3>1, <3>6, Zenon
    <3> QED
      BY <1>1, <3>1, <3>4, <3>5, <3>6, <3>7, <3>8, <3>9, Zenon DEF InRound
  <2>4. Penalized(v)'
    BY <1>1, Zenon DEF AttInv, Sound, Penalized, list
  <2> QED
    BY <2>1, <2>2, <2>3, <2>4 DEF Sound
<1>6. Published' /\ published' = published /\ envelopes' = envelopes
  BY <1>1 DEF AttInv, Published, network, publication
<1> QED
  BY <1>1, <1>2, <1>5, <1>6, StepKeeps, Zenon DEF AttInv

\* forget leaves v with nothing of the round.
LEMMA ForgetIs ==
    ASSUME AttInv, NEW v \in Validator, forget(v)
    PROVE  /\ pc'[v] = "open" /\ local_batch'[v] = FALSE /\ outbound'[v] = {} /\ collected'[v] = {}
           /\ batch'[v] = {} /\ penalties'[v] = {} /\ counted'[v] = {}
           /\ DOMAIN pc' = Validator /\ DOMAIN local_batch' = Validator
           /\ DOMAIN outbound' = Validator /\ DOMAIN collected' = Validator
           /\ DOMAIN batch' = Validator /\ DOMAIN penalties' = Validator
           /\ DOMAIN counted' = Validator
           /\ \A w \in Validator \ {v} :
                 /\ pc'[w] = pc[w] /\ local_batch'[w] = local_batch[w] /\ outbound'[w] = outbound[w]
                 /\ collected'[w] = collected[w] /\ batch'[w] = batch[w]
                 /\ penalties'[w] = penalties[w] /\ counted'[w] = counted[w]
  BY Zenon DEF AttInv, Domains, forget, goto

\* An empty round is sound.
LEMMA ForgottenIsInRound ==
    ASSUME NEW v \in Validator, pc'[v] = "open", collected'[v] = {}, counted'[v] = {}
    PROVE  InRound(v)'
  BY Zenon DEF InRound

\* crash keeps the invariant.
LEMMA crash_keeps ==
    ASSUME AttInv, NEW v \in Validator, crash(v)
    PROVE  AttInv'
<1>1. UNCHANGED <<config, state, wave, network>> /\ forget(v)
  BY DEF crash
<1>2. /\ pc'[v] = "open" /\ local_batch'[v] = FALSE /\ outbound'[v] = {} /\ collected'[v] = {}
      /\ batch'[v] = {} /\ penalties'[v] = {} /\ counted'[v] = {}
  BY <1>1, ForgetIs, Zenon
<1>3. Domains' /\ \A w \in Validator \ {v} : Same(w)
  BY <1>1, ForgetIs, Zenon DEF AttInv, Domains, Same
<1>4. Sound(v)'
  <2>1. Recorded(v)' /\ InRound(v)'
    BY <1>1, <1>2, RecordedKept, ForgottenIsInRound, Zenon DEF AttInv, Sound, network
  <2>2. Typed(v)'
    <3>1. /\ local_batch'[v] \in BOOLEAN /\ pc'[v] \in {"open", "closed", "attesting"}
          /\ offenders(penalties[v])' \subseteq Validator
      BY <1>2, Zenon DEF offenders
    <3> QED
      BY <1>1, <1>2, <3>1, Zenon DEF AttInv, Sound, Typed, list, Ledger, Entry, Weight, Standing, Rating
  <2>3. Penalized(v)'
    BY <1>1, Zenon DEF AttInv, Sound, Penalized, list
  <2> QED
    BY <2>1, <2>2, <2>3 DEF Sound
<1>5. crashes' \in 0 .. config.crashes
  <2>1. crashes \in 0 .. config.crashes /\ config.crashes \in Nat
    BY ConfigIs, Zenon DEF AttInv
  <2>2. crashes' = crashes + 1 /\ crashes < config.crashes
    BY DEF crash
  <2> QED
    BY <2>1, <2>2
<1>6. Published' /\ published' = published /\ envelopes' = envelopes
  BY <1>1 DEF AttInv, Published, network, publication
<1> QED
  BY <1>1, <1>3, <1>4, <1>5, <1>6, StepKeeps DEF AttInv

\* There are finitely many ratings.
LEMMA RatingsFinite ==
    ASSUME AttInv
    PROVE  IsFiniteSet(Rating)
<1> DEFINE P == (1 .. config.rounds) \X (Validator \X Validator)
           f == [t \in P |-> rating(t[1], t[2][1], t[2][2])]
<1>1. IsFiniteSet(1 .. config.rounds) /\ IsFiniteSet(Validator)
  <2>1. 1 \in Int /\ config.rounds \in Int
    BY ConfigIs
  <2>2. IsFiniteSet(1 .. config.rounds)
    BY <2>1, FS_Interval
  <2> QED
    BY <2>2, AttAssumption
<1>2. IsFiniteSet(P)
  BY <1>1, FS_Product, Zenon
<1>3. f \in Surjection(P, Rating)
  <2>1. ASSUME NEW t \in P PROVE f[t] \in Rating
    BY DEF rating, Rating
  <2>2. ASSUME NEW x \in Rating PROVE \E t \in P : f[t] = x
    <3> DEFINE t == <<x.round, <<x.rater, x.recipient>> >>
    <3>1. t \in P
      BY DEF Rating
    <3>2. f[t] = x
      BY <3>1 DEF Rating, rating
    <3> QED
      BY <3>1, <3>2
  <2>3. f \in [P -> Rating]
    BY <2>1, Zenon
  <2> HIDE DEF f, P
  <2> QED
    BY <2>2, <2>3 DEF Surjection
<1> HIDE DEF f, P
<1> QED
  BY <1>2, <1>3, FS_Surjection

\* The block that v would publish extends what v has recorded.
LEMMA NextBlockIs ==
    ASSUME AttInv, NEW v \in Validator
    PROVE  LET b == build_reputation_block(v)
           IN  /\ b.previous = state[v].latest /\ b.round = round(v)
               /\ b.list = replay_reputation_transition(list(v), batch[v], penalties[v], config.policy)
               /\ b.ratings = batch[v] /\ b.penalties = penalties[v]
               /\ Preceding(b) = list(v)
               /\ state[v].latest = <<>> \/ \E c : state[v].latest = <<c>> /\ Justified(c)
               /\ state[v].latest = <<>> => list(v) = Genesis /\ round(v) = 1
               /\ state[v].latest # <<>> =>
                     list(v) = state[v].latest[1].list /\ round(v) = state[v].latest[1].round + 1
<1> DEFINE b == build_reputation_block(v)
<1>1. /\ b.previous = state[v].latest /\ b.round = round(v)
      /\ b.list = replay_reputation_transition(list(v), batch[v], penalties[v], config.policy)
      /\ b.ratings = batch[v] /\ b.penalties = penalties[v]
  BY Zenon DEF build_reputation_block
<1>2. Recorded(v)
  BY DEF AttInv, Sound
<1>3. CASE state[v].latest = <<>> /\ list(v) = Genesis /\ state[v].round = 0
  <2>1. Preceding(b) = list(v) /\ round(v) = 1
    <3>1. Preceding(b) = Genesis
      <4>1. b.previous = <<>>
        BY <1>1, <1>3, Zenon
      <4> HIDE DEF b
      <4> QED
        BY <4>1 DEF Preceding, Genesis
    <3>2. round(v) = 1
      BY <1>3 DEF round
    <3> QED
      BY <1>3, <3>1, <3>2, Zenon
  <2> HIDE DEF b
  <2> QED
    BY <1>1, <1>3, <2>1, Zenon DEF b
<1>4. CASE \E c : /\ state[v].latest = <<c>> /\ list(v) = c.list /\ state[v].round = c.round
                  /\ Justified(c)
                  /\ c.previous = <<>> \/ \E d : c.previous = <<d>> /\ Justified(d)
  <2>1. PICK c : /\ state[v].latest = <<c>> /\ list(v) = c.list /\ state[v].round = c.round
                 /\ Justified(c)
    BY <1>4, Zenon
  <2>2. state[v].latest # <<>> /\ state[v].latest[1] = c
    BY <2>1
  <2>3. Preceding(b) = list(v) /\ round(v) = c.round + 1
    BY <1>1, <2>1, <2>2, Zenon DEF Preceding, round
  <2> HIDE DEF b
  <2> QED
    BY <1>1, <2>1, <2>2, <2>3, Zenon DEF b
<1> QED
  BY <1>2, <1>3, <1>4, Zenon DEF Recorded

\* A committed state.
Committed(r, l, x) == [round |-> r, list |-> l, latest |-> x]

\* The fields of a committed state.
LEMMA StateFields ==
    ASSUME NEW r, NEW l, NEW x
    PROVE  Committed(r, l, x).round = r /\ Committed(r, l, x).list = l /\ Committed(r, l, x).latest = x
  BY DEF Committed

\* A commit of v installs a committed state.
LEMMA CommitInstalls ==
    ASSUME AttInv, NEW v \in Validator, commit_attested_checkpoint(v) \/ commit_completed_checkpoint_round(v),
           NEW b, b = build_reputation_block(v)
    PROVE  /\ state' = [state EXCEPT ![v] = Committed(b.round, b.list, <<b>>)]
           /\ state'[v] = Committed(b.round, b.list, <<b>>)
<1>1. state' = [state EXCEPT ![v] = Committed(b.round, b.list, <<b>>)]
  BY DEF commit_attested_checkpoint, commit_completed_checkpoint_round, commit_audited_block, Committed
<1>2. v \in DOMAIN state
  BY Zenon DEF AttInv, Domains
<1> QED
  BY <1>1, <1>2, Zenon

\* A block that is about to be committed is justified.
LEMMA CommitJustified ==
    ASSUME AttInv, NEW v \in Validator, pc[v] = "attesting", checkpoint \/ attestation_reached(v)
    PROVE  Justified(build_reputation_block(v))
<1> DEFINE b == build_reputation_block(v)
           L == list(v)
<1>1. /\ b.previous = state[v].latest /\ b.round = round(v)
      /\ Preceding(b) = L
      /\ state[v].latest = <<>> => L = Genesis /\ round(v) = 1
      /\ state[v].latest # <<>> => L = state[v].latest[1].list /\ round(v) = state[v].latest[1].round + 1
  BY NextBlockIs, Zenon
<1>2. L \in Ledger
  BY Zenon DEF AttInv, Sound, Typed
<1>3. ASSUME checkpoint PROVE b = Canonical(b.previous)
  <2> DEFINE n == round(v)
             B == UNION {{rating(n, r, p) : p \in {q \in config.producers[n] : q # r /\ q \in active(L)}} :
                             r \in active(L)}
             E == events({a \in config.carriers[n] : a.sound /\ a.offender \in active(L)})
  <2>1. batch[v] = UNION {owed(v, r) : r \in active(L)} /\ penalties[v] = events(Applied(v))
    BY <1>3, Zenon DEF AttInv, Sound, InRound
  <2>2. batch[v] = B
    <3>1. \A r \in active(L) :
            owed(v, r) = {rating(n, r, p) : p \in {q \in config.producers[n] : q # r /\ q \in active(L)}}
      BY Zenon DEF owed, recipients
    <3>2. {owed(v, r) : r \in active(L)}
            = {{rating(n, r, p) : p \in {q \in config.producers[n] : q # r /\ q \in active(L)}} :
                   r \in active(L)}
      <4> HIDE DEF L, n
      <4> QED
        BY <3>1
    <3> QED
      BY <2>1, <3>2, Zenon
  <2>3. penalties[v] = E
    <3>1. Applied(v) = {a \in config.carriers[n] : a.sound /\ a.offender \in active(L)}
      BY <1>3, Zenon DEF Applied, authorize_checkpoint, carriers
    <3> QED
      BY <2>1, <3>1, Zenon
  <2>4. b = [round |-> n, previous |-> state[v].latest, ratings |-> B, penalties |-> E,
             list |-> replay_reputation_transition(L, B, E, config.policy)]
    BY <2>2, <2>3, Zenon DEF build_reputation_block
  <2>5. /\ (IF state[v].latest = <<>> THEN Genesis ELSE state[v].latest[1].list) = L
        /\ (IF state[v].latest = <<>> THEN 1 ELSE state[v].latest[1].round + 1) = n
    BY <1>1, Zenon
  <2>6. b = Complete(L, n, state[v].latest)
    BY <2>4, Zenon DEF Complete
  <2> HIDE DEF L, n, b
  <2> QED
    BY <1>1, <2>5, <2>6, Zenon DEF Canonical
<1>4. ASSUME ~ checkpoint PROVE is_reached(L, active(L), Signers(b) \cap active(L))
  <2>1. is_reached(L, active(L), counted[v])
    BY <1>4, Zenon DEF attestation_reached
  <2>2. ASSUME NEW q \in counted[v] PROVE q \in Signers(b) \cap active(L)
    <3>1. q \in active(L) /\ publication(q, b) \in published
      BY Zenon DEF AttInv, Sound, InRound
    <3>2. publication(q, b).publisher = q /\ publication(q, b).block = b
      BY DEF publication
    <3> HIDE DEF b
    <3> QED
      BY <3>1, <3>2, Zenon DEF Signers
  <2>3. counted[v] \in SUBSET (Signers(b) \cap active(L)) /\ Signers(b) \cap active(L) \in SUBSET active(L)
    BY <2>2, Zenon
  <2> HIDE DEF L, b
  <2> QED
    BY <1>2, <2>1, <2>3, ReachedByMore, Zenon
<1> HIDE DEF b, L
<1> QED
  BY <1>1, <1>2, <1>3, <1>4, Zenon DEF Justified, b

\* What a commit of v installs.
LEMMA CommitIs ==
    ASSUME AttInv, NEW v \in Validator, pc[v] = "attesting"
    PROVE  LET M == build_reputation_block(v).list
           IN  /\ M \in Ledger /\ Standing(M)
               /\ \A p \in Validator : list(v)[p].excluded \/ p \in offenders(penalties[v]) => M[p].excluded
               /\ config.policy = "CarryForward" =>
                     \A p \in Validator \ (rated(batch[v]) \cup offenders(penalties[v])) :
                         M[p] = list(v)[p]
<1>1. list(v) \in Ledger /\ Standing(list(v)) /\ batch[v] \subseteq Rating
  BY Zenon DEF AttInv, Sound, Typed
<1>2. IsFiniteSet(batch[v])
  BY <1>1, RatingsFinite, FS_Subset, Zenon
<1>3. \A x \in batch[v] : x.rater \in Validator /\ x.score = maximum_rating
  BY <1>1, Zenon DEF Rating
<1>4. build_reputation_block(v).list =
        replay_reputation_transition(list(v), batch[v], penalties[v], config.policy)
  BY NextBlockIs, Zenon
<1> DEFINE M == replay_reputation_transition(list(v), batch[v], penalties[v], config.policy)
<1> HIDE DEF replay_reputation_transition
<1>5. /\ M \in Ledger /\ Standing(M)
      /\ \A p \in Validator : list(v)[p].excluded \/ p \in offenders(penalties[v]) => M[p].excluded
  BY <1>1, <1>2, <1>3, ReplayIs, Zenon
<1>6. config.policy = "CarryForward" =>
        \A p \in Validator \ (rated(batch[v]) \cup offenders(penalties[v])) : M[p] = list(v)[p]
  <2>1. config.policy = "CarryForward" => Carried(list(v), batch[v], penalties[v], M)
    BY <1>1, <1>2, <1>3, ReplayIs, Zenon
  <2> HIDE DEF M
  <2> QED
    BY <2>1, Zenon DEF Carried
<1> HIDE DEF M
<1> QED
  BY <1>4, <1>5, <1>6, Zenon DEF M

\* A commit of v keeps the invariant.
LEMMA commit_keeps ==
    ASSUME AttInv, NEW v \in Validator, commit_attested_checkpoint(v) \/ commit_completed_checkpoint_round(v)
    PROVE  AttInv'
<1>0. PICK b : b = build_reputation_block(v)
  OBVIOUS
<1>1. /\ pc[v] = "attesting" /\ (checkpoint \/ attestation_reached(v))
      /\ forget(v) /\ UNCHANGED <<config, wave, network, crashes>>
  BY <1>0 DEF commit_attested_checkpoint, commit_completed_checkpoint_round, commit_audited_block
<1>2. /\ pc'[v] = "open" /\ local_batch'[v] = FALSE /\ outbound'[v] = {} /\ collected'[v] = {}
      /\ batch'[v] = {} /\ penalties'[v] = {} /\ counted'[v] = {}
  BY <1>1, ForgetIs, Zenon
<1>3. Domains' /\ \A w \in Validator \ {v} : Same(w)
  <2>1. DOMAIN state' = Validator /\ \A w \in Validator \ {v} : state'[w] = state[w]
    BY <1>0, CommitInstalls, Zenon DEF AttInv, Domains
  <2> QED
    BY <1>1, <2>1, ForgetIs, Zenon DEF AttInv, Domains, Same
<1>4. state'[v] = Committed(b.round, b.list, <<b>>)
  BY <1>0, CommitInstalls, Zenon
<1>5. state'[v].round = b.round /\ list(v)' = b.list /\ state'[v].latest = <<b>>
  <2>1. state'[v].round = b.round /\ state'[v].list = b.list /\ state'[v].latest = <<b>>
    <3>1. /\ Committed(b.round, b.list, <<b>>).round = b.round
          /\ Committed(b.round, b.list, <<b>>).list = b.list
          /\ Committed(b.round, b.list, <<b>>).latest = <<b>>
      BY StateFields
    <3> QED
      BY <1>4, <3>1, Zenon
  <2>2. list(v)' = state'[v].list
    BY DEF list
  <2> QED
    BY <2>1, <2>2, Zenon
<1>6. published' = published /\ envelopes' = envelopes /\ config' = config
  BY <1>1 DEF network
<1>7. /\ b.previous = state[v].latest /\ b.round = round(v)
      /\ state[v].latest = <<>> \/ \E c : state[v].latest = <<c>> /\ Justified(c)
  BY <1>0, NextBlockIs, Zenon
<1>8. /\ b.list \in Ledger /\ Standing(b.list)
      /\ \A p \in Validator : list(v)[p].excluded \/ p \in offenders(penalties[v]) => b.list[p].excluded
  BY <1>0, <1>1, CommitIs, Zenon
<1>9. round(v) \in 1 .. config.rounds /\ state[v].round \in Nat /\ round(v) = state[v].round + 1
  <2>1. round(v) <= config.rounds
    BY <1>1, Zenon DEF AttInv, Sound, InRound
  <2> QED
    <3>1. state[v].round \in 0 .. config.rounds /\ config.rounds \in Nat
      BY ConfigIs, Zenon DEF AttInv, Sound, Typed
    <3>2. round(v) = state[v].round + 1
      BY DEF round
    <3> QED
      BY <2>1, <3>1, <3>2
<1>10. Recorded(v)'
  <2>1. Justified(b)
    BY <1>0, <1>1, CommitJustified
  <2>2. Justified(b)'
    BY <1>6, <2>1, JustifiedKept
  <2>3. b.previous = <<>> \/ \E c : b.previous = <<c>> /\ Justified(c)'
    BY <1>6, <1>7, JustifiedKept
  <2> QED
    BY <1>5, <2>2, <2>3, Zenon DEF Recorded
<1>11. Typed(v)'
  <2>1. (state[v].round \in 0 .. config.rounds /\ list(v) \in Ledger /\ Standing(list(v)))'
    <3>1. Ledger' = Ledger
      BY DEF Ledger, Entry, Weight
    <3>2. Standing(list(v))'
      BY <1>5, <1>8, Zenon DEF Standing
    <3> QED
      <4>1. state'[v].round \in 0 .. config'.rounds
        <5>1. round(v) \in 0 .. config.rounds
          BY <1>9
        <5> QED
          BY <1>5, <1>6, <1>7, <5>1, Zenon
      <4>2. list(v)' \in Ledger'
        BY <1>5, <1>8, <3>1, Zenon
      <4> QED
        BY <3>2, <4>1, <4>2, Zenon
  <2>2. (wave[v] \in 0 .. config.waves)'
    BY <1>1, Zenon DEF AttInv, Sound, Typed
  <2>3. /\ pc'[v] \in {"open", "closed", "attesting"} /\ local_batch'[v] \in BOOLEAN
        /\ offenders(penalties[v])' = {}
    BY <1>2, Zenon DEF offenders
  <2> QED
    BY <1>2, <2>1, <2>2, <2>3, Zenon DEF Typed
<1>12. Penalized(v)'
  <2>1. ASSUME NEW r \in 1 .. round(v), NEW a \in config.carriers[r], a.sound
        PROVE  b.list[a.offender].excluded
    <3>1. r \in 1 .. config.rounds /\ a.offender \in Validator
      BY <1>9, <2>1, ConfigIs
    <3>2. CASE r <= state[v].round
      <4>1. list(v)[a.offender].excluded
        BY <1>9, <2>1, <3>2 DEF AttInv, Sound, Penalized
      <4> QED
        BY <1>8, <3>1, <4>1, Zenon
    <3>3. CASE r = round(v) /\ (~ checkpoint \/ a.offender \in active(list(v)))
      <4>1. a \in Applied(v) /\ \A c \in Applied(v) : c.id \in Nat
        BY <1>9, <2>1, <3>3, ConfigIs, Zenon DEF Applied, carriers, authorize_checkpoint
      <4>2. penalties[v] = events(Applied(v))
        BY <1>1, Zenon DEF AttInv, Sound, InRound
      <4>3. a.offender \in offenders(penalties[v])
        <5>1. offenders(events(Applied(v))) = {c.offender : c \in Applied(v)}
          BY <4>1, EventsAre
        <5> QED
          BY <4>1, <4>2, <5>1, Zenon
      <4> QED
        BY <1>8, <3>1, <4>3
    <3>4. CASE a.offender \notin active(list(v))
      <4>1. list(v)[a.offender].excluded
        BY <3>1, <3>4, Zenon DEF active, is_ejected, AttInv, Sound, Typed, Ledger
      <4> QED
        BY <1>8, <3>1, <4>1, Zenon
    <3>5. r <= state[v].round \/ r = round(v)
      <4>1. r \in 1 .. round(v)
        BY <2>1
      <4> QED
        BY <1>9, <4>1
    <3> QED
      BY <3>2, <3>3, <3>4, <3>5, Zenon
  <2> QED
    BY <1>5, <1>6, <1>7, <2>1, Zenon DEF Penalized
<1>13. Sound(v)'
  BY <1>2, <1>10, <1>11, <1>12, ForgottenIsInRound, Zenon DEF Sound
<1>14. Published'
  BY <1>6, Zenon DEF AttInv, Published, publication
<1> QED
  BY <1>1, <1>3, <1>6, <1>13, <1>14, StepKeeps DEF AttInv

-----------------------------------------------------------------------------
(***************************************************************************)
(* The theorems.                                                           *)
(***************************************************************************)
\* Every step keeps the invariant.
LEMMA AttInvNext == AttInv /\ [Next]_vars => AttInv'
<1> SUFFICES ASSUME AttInv, [Next]_vars PROVE AttInv'
  OBVIOUS
<1>1. CASE UNCHANGED vars
  <2>1. /\ config' = config /\ crashes' = crashes /\ envelopes' = envelopes
        /\ published' = published /\ Domains' /\ \A w \in Validator : Same(w)
    BY <1>1 DEF vars, memory, network, AttInv, Domains, Same
  <2>2. \A w \in Validator : Sound(w)'
    BY <2>1, SoundKept DEF AttInv
  <2> QED
    BY <2>1, <2>2 DEF AttInv, Published, publication, Rating
<1>2. CASE Next
  <2>1. PICK v \in Validator :
        \/ observe_finalized_output(v)
        \/ rate(v)
        \/ \E x \in envelopes : receive_envelope(v, x)
        \/ pc[v] = "closed" /\ \E raw \in SUBSET carriers(v) : authorize_equivocations(v, raw)
        \/ broadcast_reputation_block(v)
        \/ \E p \in published : sign_again(v, p) \/ observe(v, p)
        \/ commit_attested_checkpoint(v)
        \/ commit_completed_checkpoint_round(v)
        \/ crash(v)
    BY <1>2, Zenon DEF Next
  <2>2. CASE observe_finalized_output(v)
    BY <2>2, observe_finalized_output_keeps
  <2>3. CASE produce_local_batch(v)
    BY <2>3, produce_local_batch_keeps
  <2>4. CASE broadcast_pending(v)
    BY <2>4, broadcast_pending_keeps
  <2>5. CASE close_if_quorum(v) \/ close_at_finalized_wave(v) \/ complete(v)
    BY <2>5, close_keeps
  <2>6. CASE \E x \in envelopes : receive_envelope(v, x)
    BY <2>6, receive_envelope_keeps
  <2>7. CASE \E raw \in SUBSET carriers(v) : authorize_equivocations(v, raw)
    BY <2>7, authorize_equivocations_keeps
  <2>8. CASE broadcast_reputation_block(v)
    BY <2>8, broadcast_reputation_block_keeps
  <2>9. CASE \E p \in published : sign_again(v, p)
    BY <2>9, sign_again_keeps
  <2>10. CASE \E p \in published : observe(v, p)
    BY <2>10, observe_keeps
  <2>11. CASE commit_attested_checkpoint(v) \/ commit_completed_checkpoint_round(v)
    BY <2>11, commit_keeps
  <2>12. CASE crash(v)
    BY <2>12, crash_keeps
  <2> QED
    BY <2>1, <2>2, <2>3, <2>4, <2>5, <2>6, <2>7, <2>8, <2>9, <2>10, <2>11, <2>12, Zenon DEF rate
<1> QED
  BY <1>1, <1>2

\* It is an invariant.
LEMMA AttInvariant == Spec => []AttInv
  BY AttInvInit, AttInvNext, PTL DEF Spec

\* A committed block is justified.
LEMMA ChainJustified ==
    ASSUME AttInv, NEW v \in Validator, NEW b \in Chain(v)
    PROVE  Justified(b)
<1>1. Recorded(v)
  BY DEF AttInv, Sound
<1>2. CASE state[v].latest = <<>>
  BY <1>2 DEF Chain
<1>3. CASE \E c : /\ state[v].latest = <<c>> /\ list(v) = c.list /\ state[v].round = c.round
                  /\ Justified(c)
                  /\ c.previous = <<>> \/ \E d : c.previous = <<d>> /\ Justified(d)
  <2>1. PICK c : /\ state[v].latest = <<c>> /\ Justified(c)
                 /\ c.previous = <<>> \/ \E d : c.previous = <<d>> /\ Justified(d)
    BY <1>3, Zenon
  <2>2. state[v].latest # <<>> /\ state[v].latest[1] = c
    BY <2>1
  <2>3. b = c \/ (c.previous # <<>> /\ b = c.previous[1])
    BY <2>2 DEF Chain
  <2> QED
    BY <2>1, <2>3
<1> QED
  BY <1>1, <1>2, <1>3, Zenon DEF Recorded

\* Two committed successors of one block share more than a third of its weight
\* among their signers, and in checkpoint rounds there is only one.
LEMMA SuccessorsShareSigners ==
    ASSUME AttInv, NEW v \in Validator, NEW w \in Validator, NEW b \in Chain(v), NEW c \in Chain(w),
           b # c, b.previous = c.previous
    PROVE  /\ ~ checkpoint
           /\ 3 * weight_of(Preceding(b), DoubleSigners(b, c))
                  > weight_of(Preceding(b), active(Preceding(b)))
<1>1. Justified(b) /\ Justified(c)
  BY ChainJustified
<1>2. ~ checkpoint
  BY <1>1 DEF Justified
<1>3. PICK L : L = Preceding(b)
  OBVIOUS
<1>4. Preceding(c) = L
  BY <1>3 DEF Preceding
<1> DEFINE A == Signers(b) \cap active(L)
           B == Signers(c) \cap active(L)
           D == DoubleSigners(b, c)
<1>5. /\ L \in Ledger /\ A \in SUBSET active(L) /\ B \in SUBSET active(L)
      /\ is_reached(L, active(L), A) /\ is_reached(L, active(L), B)
  BY <1>1, <1>2, <1>3, <1>4 DEF Justified
<1>6. D \in SUBSET Validator /\ A \cap B \in SUBSET Validator /\ A \cap B \subseteq D
      /\ active(L) \in SUBSET Validator
  <2>1. Signers(b) \subseteq Validator
    BY Zenon DEF AttInv, Published, Signers
  <2>2. active(L) \subseteq Validator
    BY <1>5 DEF active, Ledger
  <2> QED
    BY <2>1, <2>2 DEF DoubleSigners
<1> HIDE DEF A, B, D
<1>7. 3 * weight_of(L, A \cap B) > weight_of(L, active(L))
  BY <1>5, QuorumsShare
<1>8. \A p \in Validator : L[p].reputation \in Nat
  BY <1>5, PorConfigAssumption DEF Ledger, Entry, Weight
<1>9. weight_of(L, A \cap B) <= weight_of(L, D) /\ weight_of(L, A \cap B) \in Nat
  BY <1>6, <1>8, WeightsAdd, Zenon
<1>10. weight_of(L, D) \in Nat /\ weight_of(L, active(L)) \in Nat
  BY <1>6, <1>8, WeightsAdd, Zenon
<1>11. 3 * weight_of(L, D) > weight_of(L, active(L))
  BY <1>7, <1>9, <1>10
<1> QED
  BY <1>2, <1>3, <1>11 DEF D

\* The types of Attestation follow from the invariant.
LEMMA AttTypes == AttInv => AttTypeOK
<1> SUFFICES ASSUME AttInv PROVE AttTypeOK
  OBVIOUS
<1>1. {p.publisher : p \in published} \subseteq Validator
  BY Zenon DEF AttInv, Published
<1>2. ASSUME NEW v \in Validator PROVE Typed(v)
  BY DEF AttInv, Sound
<1> QED
  BY <1>1, <1>2, Zenon DEF AttInv, AttTypeOK, Typed, Ledger, Standing

\* Validators commit different successors of one reputation block only if more
\* than a third of its weight signed both, and never in checkpoint rounds.
THEOREM DivergenceIsSigned == Spec => []DivergenceNeedsDoubleSigners
<1>1. AttInv => DivergenceNeedsDoubleSigners
  BY AttTypes, SuccessorsShareSigners DEF DivergenceNeedsDoubleSigners
<1> QED
  BY <1>1, AttInvariant, PTL

\* The finalized penalties of every committed round are in its ledger.
THEOREM PenaltiesApplied == Spec => []FinalizedPenaltiesApplied
<1>1. AttInv => FinalizedPenaltiesApplied
  BY Zenon DEF AttInv, Sound, Penalized, FinalizedPenaltiesApplied
<1> QED
  BY <1>1, AttInvariant, PTL

\* Only the two commits change the durable state, and only that of their
\* validator.
LEMMA StateChanges ==
    ASSUME AttInv, [Next]_vars, NEW v \in Validator, state[v]' # state[v]
    PROVE  commit_attested_checkpoint(v) \/ commit_completed_checkpoint_round(v)
<1>1. Next /\ state' # state
  BY DEF vars
<1>2. PICK u \in Validator : commit_attested_checkpoint(u) \/ commit_completed_checkpoint_round(u)
  BY <1>1, Zenon DEF Next, observe_finalized_output, rate, produce_local_batch, broadcast_pending,
              close_if_quorum, close_at_finalized_wave, complete, finalize, receive_envelope,
              authorize_equivocations, broadcast_reputation_block, sign_again, observe, crash
<1>3. ASSUME u # v PROVE state'[v] = state[v]
  BY <1>2, <1>3, Zenon DEF commit_attested_checkpoint, commit_completed_checkpoint_round,
                    commit_audited_block, AttInv, Domains
<1> QED
  BY <1>2, <1>3

\* Under CarryForward a commit leaves the entry of whoever was neither rated
\* nor penalized as it was.
THEOREM UnratedKeep == Spec => UnratedKeepWeight
<1> DEFINE Keeps ==
      \A v \in Validator : state[v]' # state[v] /\ config.policy = "CarryForward" =>
          \A p \in Validator \ (rated(batch[v]) \cup offenders(penalties[v])) :
              list(v)'[p] = list(v)[p]
<1>1. AttInv /\ [Next]_vars => Keeps
  <2> SUFFICES ASSUME AttInv, [Next]_vars, NEW v \in Validator, state[v]' # state[v],
                      config.policy = "CarryForward",
                      NEW p \in Validator \ (rated(batch[v]) \cup offenders(penalties[v]))
               PROVE  list(v)'[p] = list(v)[p]
    OBVIOUS
  <2>1. commit_attested_checkpoint(v) \/ commit_completed_checkpoint_round(v)
    BY StateChanges
  <2>2. pc[v] = "attesting" /\ list(v)' = build_reputation_block(v).list
    <3>1. PICK b : b = build_reputation_block(v)
      OBVIOUS
    <3>2. pc[v] = "attesting"
      BY <2>1, Zenon DEF commit_attested_checkpoint, commit_completed_checkpoint_round
    <3>3. state'[v] = Committed(b.round, b.list, <<b>>)
      BY <2>1, <3>1, CommitInstalls, Zenon
    <3>4. list(v)' = b.list
      <4>1. state'[v].list = b.list
        <5>1. Committed(b.round, b.list, <<b>>).list = b.list
          BY StateFields
        <5> QED
          BY <3>3, <5>1, Zenon
      <4>2. list(v)' = state'[v].list
        BY DEF list
      <4> QED
        BY <4>1, <4>2, Zenon
    <3> QED
      BY <3>1, <3>2, <3>4, Zenon
  <2> QED
    BY <2>2, CommitIs, Zenon
<1>2. AttInv /\ [Next]_vars => [Keeps]_vars
  BY <1>1, Zenon
<1> HIDE DEF Keeps
<1>3. Spec => [][Keeps]_vars
  BY <1>2, AttInvariant, PTL DEF Spec
<1> QED
  BY <1>3 DEF Keeps, UnratedKeepWeight

=============================================================================
