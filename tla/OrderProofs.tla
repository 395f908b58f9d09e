------------------------------ MODULE OrderProofs ------------------------------
(***************************************************************************)
(* Induction on numbers and on finite sets, what sorted computes, and      *)
(* heights along a well-founded relation, for use in the proofs of the     *)
(* components.                                                             *)
(***************************************************************************)
EXTENDS Sorting, Sequences, FiniteSetsExt, FiniteSetTheorems, WellFoundedInduction, TLAPS

-----------------------------------------------------------------------------
(***************************************************************************)
(* Numbers, and finite sets in a strict total order.                       *)
(***************************************************************************)
\* A non-empty set of numbers has a least one.
LEMMA LeastNumber ==
    ASSUME NEW S \in SUBSET Nat, S # {}
    PROVE  \E x \in S : \A y \in S : x <= y
<1> DEFINE R == {ss \in Nat \X Nat : ss[1] < ss[2]}
<1>1. IsWellFoundedOn(R, Nat)
  BY NatLessThanWellFounded DEF OpToRel
<1>2. PICK x \in S : \A y \in S : ~ (<<y, x>> \in R)
  <2> HIDE DEF R
  <2> QED
    BY <1>1, WFMin, Zenon
<1>3. \A y \in S : x <= y
  <2> TAKE y \in S
  <2>1. x \in Nat /\ y \in Nat
    OBVIOUS
  <2>2. <<y, x>> \in R <=> y < x
    BY <2>1
  <2> QED
    BY <1>2, <2>1, <2>2
<1> QED
  BY <1>3

\* A set of numbers with 0 and with the successor of each of its members is Nat.
LEMMA AllNumbers ==
    ASSUME NEW S \in SUBSET Nat, 0 \in S, \A n \in S : n + 1 \in S
    PROVE  \A n \in Nat : n \in S
<1> SUFFICES ASSUME Nat \ S # {} PROVE FALSE
  OBVIOUS
<1>1. PICK n \in Nat \ S : \A k \in Nat \ S : n <= k
  BY LeastNumber, Zenon
<1>2. n # 0 /\ n - 1 \in Nat /\ n - 1 \in S
  BY <1>1
<1>3. (n - 1) + 1 \in S
  BY <1>2
<1> QED
  BY <1>1, <1>2, <1>3

\* R orders the members of S strictly and totally.
Orders(R, S) ==
    /\ \A a \in S : ~ (<<a, a>> \in R)
    /\ \A a, b \in S : a = b \/ <<a, b>> \in R \/ <<b, a>> \in R
    /\ \A a, b, c \in S : <<a, b>> \in R /\ <<b, c>> \in R => <<a, c>> \in R

\* A finite set that is not empty has a last member.
LEMMA LastMember ==
    ASSUME NEW S, IsFiniteSet(S), S # {}, NEW R, Orders(R, S)
    PROVE  \E m \in S : \A x \in S : x = m \/ <<x, m>> \in R
<1> DEFINE last(T) == \E m \in T : \A x \in T : x = m \/ <<x, m>> \in R
           K == {n \in Nat : \A T \in SUBSET S : Cardinality(T) = n + 1 => last(T)}
<1>1. 0 \in K
  <2> SUFFICES ASSUME NEW T \in SUBSET S, Cardinality(T) = 1 PROVE last(T)
    OBVIOUS
  <2>1. PICK x : T = {x}
    BY FS_Subset, FS_Singleton, Zenon
  <2> QED
    BY <2>1
<1>2. ASSUME NEW n \in K PROVE n + 1 \in K
  <2> SUFFICES ASSUME NEW T \in SUBSET S, Cardinality(T) = n + 1 + 1 PROVE last(T)
    OBVIOUS
  <2>1. IsFiniteSet(T) /\ n \in Nat
    BY FS_Subset
  <2>2. PICK y : y \in T
    BY <2>1, FS_EmptySet
  <2>3. Cardinality(T \ {y}) = n + 1
    BY <2>1, <2>2, FS_RemoveElement
  <2>4. PICK m \in T \ {y} : \A x \in T \ {y} : x = m \/ <<x, m>> \in R
    BY <2>3
  <2>5. CASE <<y, m>> \in R
    BY <2>4, <2>5
  <2>6. CASE <<m, y>> \in R
    <3>1. \A x \in T : x = y \/ <<x, y>> \in R
      BY <2>2, <2>4, <2>6, Zenon DEF Orders
    <3> QED
      BY <2>2, <3>1
  <2> QED
    BY <2>2, <2>4, <2>5, <2>6 DEF Orders
<1>3. \A n \in Nat : n \in K
  <2> HIDE DEF K
  <2>1. K \in SUBSET Nat
    BY DEF K
  <2> QED
    BY <1>1, <1>2, <2>1, AllNumbers
<1>4. Cardinality(S) \in Nat /\ Cardinality(S) # 0
  BY FS_CardinalityType, FS_EmptySet
<1>5. Cardinality(S) - 1 \in K /\ Cardinality(S) = (Cardinality(S) - 1) + 1
  BY <1>3, <1>4
<1> QED
  BY <1>5

\* Ascending enumerations of T.
Sorted(T, R, n) == {s \in [1 .. n -> T] : \A i, j \in 1 .. n : i < j => <<s[i], s[j]>> \in R}

\* A finite set can be enumerated in ascending order.
LEMMA Sortable ==
    ASSUME NEW S, IsFiniteSet(S), NEW R, Orders(R, S)
    PROVE  Sorted(S, R, Cardinality(S)) # {}
<1> DEFINE K == {n \in Nat : \A T \in SUBSET S : Cardinality(T) = n => Sorted(T, R, n) # {}}
<1>1. 0 \in K
  <2> SUFFICES ASSUME NEW T \in SUBSET S PROVE Sorted(T, R, 0) # {}
    OBVIOUS
  <2>1. [i \in 1 .. 0 |-> CHOOSE x \in T : TRUE] \in Sorted(T, R, 0)
    BY DEF Sorted
  <2> QED
    BY <2>1
<1>2. ASSUME NEW n \in K PROVE n + 1 \in K
  <2> SUFFICES ASSUME NEW T \in SUBSET S, Cardinality(T) = n + 1 PROVE Sorted(T, R, n + 1) # {}
    OBVIOUS
  <2>1. IsFiniteSet(T) /\ T # {} /\ n \in Nat /\ Orders(R, T)
    BY FS_Subset, FS_EmptySet DEF Orders
  <2>2. PICK m \in T : \A x \in T : x = m \/ <<x, m>> \in R
    BY <2>1, LastMember
  <2>3. Cardinality(T \ {m}) = n
    <3>1. Cardinality(T \ {m}) = Cardinality(T) - 1
      BY <2>1, <2>2, FS_RemoveElement, Zenon
    <3> QED
      BY <2>1, <3>1
  <2>4. PICK s : s \in Sorted(T \ {m}, R, n)
    BY <2>3
  <2> DEFINE t == [i \in 1 .. n + 1 |-> IF i = n + 1 THEN m ELSE s[i]]
  <2>5. \A i \in 1 .. n : s[i] \in T \ {m} /\ t[i] = s[i]
    BY <2>1, <2>4 DEF Sorted
  <2>6. t[n + 1] = m
    BY <2>1
  <2>7. t \in [1 .. n + 1 -> T]
    <3>1. ASSUME NEW i \in 1 .. n + 1 PROVE (IF i = n + 1 THEN m ELSE s[i]) \in T
      <4>1. i = n + 1 \/ i \in 1 .. n
        BY <2>1
      <4>2. i \in 1 .. n => s[i] \in T
        BY <2>5, Zenon
      <4> QED
        BY <2>2, <4>1, <4>2
    <3> QED
      BY <3>1
  <2>8. ASSUME NEW i \in 1 .. n + 1, NEW j \in 1 .. n + 1, i < j PROVE <<t[i], t[j]>> \in R
    <3> HIDE DEF t
    <3>1. i \in 1 .. n /\ (j \in 1 .. n \/ j = n + 1)
      BY <2>1, <2>8
    <3>2. CASE j \in 1 .. n
      BY <2>4, <2>5, <2>8, <3>1, <3>2 DEF Sorted
    <3>3. CASE j = n + 1
      BY <2>2, <2>5, <2>6, <3>1, <3>3
    <3> QED
      BY <3>1, <3>2, <3>3
  <2>9. t \in Sorted(T, R, n + 1)
    <3> HIDE DEF t
    <3> QED
      BY <2>7, <2>8 DEF Sorted
  <2> QED
    BY <2>9
<1>3. \A n \in Nat : n \in K
  <2> HIDE DEF K
  <2>1. K \in SUBSET Nat
    BY DEF K
  <2> QED
    BY <1>1, <1>2, <2>1, AllNumbers
<1> QED
  BY <1>3, FS_CardinalityType

\* A function that lists the members of S in ascending order.
LEMMA AscendingIs ==
    ASSUME NEW S, IsFiniteSet(S), NEW R, Orders(R, S), NEW s \in Sorted(S, R, Cardinality(S))
    PROVE  /\ Cardinality(S) \in Nat
           /\ s \in Bijection(1 .. Cardinality(S), S)
           /\ \A i, j \in 1 .. Cardinality(S) : <<s[i], s[j]>> \in R <=> i < j
<1> DEFINE n == Cardinality(S)
<1>1. n \in Nat
  BY FS_CardinalityType
<1>2. s \in [1 .. n -> S] /\ \A i, j \in 1 .. n : i < j => <<s[i], s[j]>> \in R
  BY DEF Sorted
<1> HIDE DEF n
<1>3. ASSUME NEW i \in 1 .. n, NEW j \in 1 .. n PROVE (<<s[i], s[j]>> \in R) <=> i < j
  <2>1. i < j => <<s[i], s[j]>> \in R
    BY <1>2
  <2>2. i = j => ~ (<<s[i], s[j]>> \in R)
    BY <1>2 DEF Orders
  <2>3. j < i => ~ (<<s[i], s[j]>> \in R)
    <3>1. j < i => <<s[j], s[i]>> \in R
      BY <1>2
    <3>2. s[i] \in S /\ s[j] \in S
      BY <1>2
    <3> QED
      BY <3>1, <3>2, Zenon DEF Orders
  <2> QED
    BY <1>1, <2>1, <2>2, <2>3
<1>4. s \in Injection(1 .. n, S)
  <2>1. ASSUME NEW i \in 1 .. n, NEW j \in 1 .. n, s[i] = s[j] PROVE i = j
    <3>1. ~ (<<s[i], s[i]>> \in R)
      BY <1>2 DEF Orders
    <3>2. ~ (i < j) /\ ~ (j < i)
      BY <1>3, <2>1, <3>1
    <3> QED
      BY <1>1, <3>2
  <2> QED
    BY <1>2, <2>1 DEF Injection, IsInjective
<1>5. Cardinality(1 .. n) = n /\ n = Cardinality(S)
  BY <1>1, FS_Interval DEF n
<1>6. s \in Surjection(1 .. n, S)
  BY <1>4, <1>5, FS_Injection
<1> QED
  BY <1>1, <1>3, <1>4, <1>6 DEF Bijection, n

\* sorted lists the members of S, each once and in ascending order.
LEMMA SortedIs ==
    ASSUME NEW S, IsFiniteSet(S), NEW R, Orders(R, S)
    PROVE  /\ Cardinality(S) \in Nat
           /\ sorted(S, R) \in Seq(S) /\ Len(sorted(S, R)) = Cardinality(S)
           /\ DOMAIN sorted(S, R) = 1 .. Cardinality(S)
           /\ \A x \in S : \E i \in 1 .. Cardinality(S) : sorted(S, R)[i] = x
           /\ \A i, j \in 1 .. Cardinality(S) :
                  (<<sorted(S, R)[i], sorted(S, R)[j]>> \in R) <=> i < j
<1> DEFINE n == Cardinality(S)
<1>1. PICK s : s \in Sorted(S, R, n)
  BY Sortable
<1>2. /\ n \in Nat /\ s \in Bijection(1 .. n, S) /\ s \in [1 .. n -> S]
      /\ \A i, j \in 1 .. n : (<<s[i], s[j]>> \in R) <=> i < j
  BY <1>1, AscendingIs, Zenon DEF Sorted
<1> HIDE DEF n
<1>3. /\ \A x \in S : \E i \in 1 .. n : s[i] = x
      /\ \A i, j \in 1 .. n : s[i] = s[j] => i = j
  BY <1>2 DEF Bijection, Surjection, Injection, IsInjective
<1>4. ASSUME NEW i \in 1 .. n PROVE Cardinality(before(S, R, s[i])) = i - 1
  <2> DEFINE B == before(S, R, s[i])
             f == [j \in 1 .. i - 1 |-> s[j]]
  <2>1. i \in Nat /\ \A j \in 1 .. i - 1 : j \in 1 .. n /\ j < i
    BY <1>2
  <2>2. \A j \in 1 .. i - 1 : f[j] = s[j] /\ s[j] \in B
    BY <1>2, <2>1 DEF before
  <2>3. \A y \in B : \E j \in 1 .. i - 1 : f[j] = y
    <3> TAKE y \in B
    <3>1. y \in S /\ <<y, s[i]>> \in R
      BY DEF before
    <3>2. PICK j \in 1 .. n : s[j] = y
      BY <1>3, <3>1
    <3>3. j < i
      BY <1>2, <3>1, <3>2
    <3>4. j \in 1 .. i - 1
      BY <2>1, <3>3
    <3> QED
      BY <3>2, <3>4
  <2>4. f \in [1 .. i - 1 -> B]
    BY <2>2
  <2>5. \A j, k \in 1 .. i - 1 : f[j] = f[k] => j = k
    BY <1>3, <2>1, <2>2
  <2> HIDE DEF B, f
  <2>6. f \in Bijection(1 .. i - 1, B)
    BY <2>3, <2>4, <2>5 DEF Bijection, Injection, IsInjective, Surjection
  <2>7. IsFiniteSet(1 .. i - 1) /\ Cardinality(1 .. i - 1) = i - 1
    BY <2>1, FS_Interval
  <2>8. Cardinality(B) = i - 1
    BY <2>6, <2>7, FS_Bijection DEF ExistsBijection
  <2> QED
    BY <2>8 DEF B
<1>5. ASSUME NEW i \in 1 .. n
      PROVE  (CHOOSE x \in S : Cardinality(before(S, R, x)) = i - 1) = s[i]
  <2> DEFINE ith(x) == Cardinality(before(S, R, x)) = i - 1
  <2>1. s[i] \in S /\ ith(s[i])
    BY <1>2, <1>4
  <2>2. ASSUME NEW x \in S, ith(x) PROVE x = s[i]
    <3>1. PICK j \in 1 .. n : s[j] = x
      BY <1>3
    <3>2. j - 1 = i - 1
      BY <1>4, <2>2, <3>1
    <3> QED
      BY <1>2, <3>1, <3>2
  <2> HIDE DEF ith
  <2>3. (CHOOSE x \in S : ith(x)) = s[i]
    BY <2>1, <2>2
  <2> QED
    BY <2>3 DEF ith
<1>6. sorted(S, R) = s
  <2>1. sorted(S, R) = [i \in 1 .. n |-> s[i]]
    BY <1>5 DEF sorted, n
  <2> QED
    BY <1>2, <2>1
<1>7. s \in Seq(S) /\ Len(s) = n /\ DOMAIN s = 1 .. n
  BY <1>2
<1> QED
  BY <1>2, <1>3, <1>6, <1>7 DEF n

\* A property of a finite set that holds when it holds without any one member.
LEMMA SubsetInduction ==
    ASSUME NEW S, IsFiniteSet(S), NEW K \in SUBSET SUBSET S,
           \A T \in SUBSET S : (\A x \in T : T \ {x} \in K) => T \in K
    PROVE  \A T \in SUBSET S : T \in K
<1> DEFINE N == {n \in Nat : \A T \in SUBSET S : Cardinality(T) = n => T \in K}
<1>1. \A T \in SUBSET S : IsFiniteSet(T) /\ Cardinality(T) \in Nat
  BY FS_Subset, FS_CardinalityType
<1>2. 0 \in N
  <2> SUFFICES ASSUME NEW T \in SUBSET S, Cardinality(T) = 0 PROVE T \in K
    OBVIOUS
  <2>1. T = {}
    BY <1>1, FS_EmptySet
  <2> QED
    BY <2>1
<1>3. ASSUME NEW n \in N PROVE n + 1 \in N
  <2> SUFFICES ASSUME NEW T \in SUBSET S, Cardinality(T) = n + 1 PROVE T \in K
    OBVIOUS
  <2>1. ASSUME NEW x \in T PROVE T \ {x} \in K
    <3>1. Cardinality(T \ {x}) = Cardinality(T) - 1
      BY <1>1, FS_RemoveElement, Zenon
    <3>2. Cardinality(T \ {x}) = n
      BY <3>1
    <3> QED
      BY <3>2
  <2> QED
    BY <2>1
<1>4. \A n \in Nat : n \in N
  <2> HIDE DEF N
  <2>1. N \in SUBSET Nat
    BY DEF N
  <2> QED
    BY <1>2, <1>3, <2>1, AllNumbers
<1> QED
  BY <1>1, <1>4

-----------------------------------------------------------------------------
(***************************************************************************)
(* Heights: a recursion along a well-founded relation has a solution.      *)
(***************************************************************************)
\* The greatest of finitely many numbers is Max.
LEMMA MaxOfFinite ==
    ASSUME NEW S \in SUBSET Nat, IsFiniteSet(S), S # {}
    PROVE  Max(S) \in S /\ Max(S) \in Nat /\ \A x \in S : x <= Max(S)
<1> DEFINE R == {p \in Nat \X Nat : p[1] < p[2]}
<1>1. \A a, b \in S : <<a, b>> \in R <=> a < b
  OBVIOUS
<1>2. Orders(R, S)
  <2> HIDE DEF R
  <2> QED
    BY <1>1 DEF Orders
<1>3. PICK m \in S : \A x \in S : x = m \/ <<x, m>> \in R
  <2> HIDE DEF R
  <2> QED
    BY <1>2, LastMember, Zenon
<1>4. \A x \in S : m >= x
  <2> HIDE DEF R
  <2>1. \A x \in S : x = m \/ x < m
    BY <1>1, <1>3, Zenon
  <2> QED
    BY <2>1
<1> QED
  BY <1>4, Zenon DEF Max

\* D leads from each member of X to finitely many others and never back.
Grounded(X, D) ==
    /\ \A x \in X : D[x] \in SUBSET X /\ IsFiniteSet(D[x])
    /\ \A S \in SUBSET X : S # {} => \E x \in S : D[x] \cap S = {}

above(h, P) == IF P = {} THEN 0 ELSE 1 + Max({h[p] : p \in P})

\* h gives the heights of the members of A, a set that D does not leave.
Heights(h, A, D) ==
    /\ \A x \in A : D[x] \subseteq A
    /\ \A x \in A : h[x] = above(h, D[x])

\* The height of a member is greater than that of what it depends on.
LEMMA AboveIs ==
    ASSUME NEW P, IsFiniteSet(P), NEW h, \A p \in P : h[p] \in Nat
    PROVE  above(h, P) \in Nat /\ \A p \in P : h[p] < above(h, P)
<1> DEFINE S == {h[p] : p \in P}
           f == [p \in P |-> h[p]]
<1>1. S \in SUBSET Nat
  OBVIOUS
<1>2. IsFiniteSet(S)
  <2>1. f \in Surjection(P, S)
    BY DEF Surjection
  <2> HIDE DEF f, S
  <2> QED
    BY <2>1, FS_Surjection
<1>3. P # {} => Max(S) \in Nat /\ \A x \in S : x <= Max(S)
  <2>1. P # {} => S # {}
    OBVIOUS
  <2> HIDE DEF S
  <2> QED
    BY <1>1, <1>2, <2>1, MaxOfFinite
<1>4. CASE P = {}
  BY <1>4 DEF above
<1>5. CASE P # {}
  <2>1. above(h, P) = 1 + Max(S)
    BY <1>5 DEF above
  <2>2. \A p \in P : h[p] \in S
    OBVIOUS
  <2> HIDE DEF S
  <2> QED
    BY <1>3, <1>5, <2>1, <2>2
<1> QED
  BY <1>4, <1>5

\* Heights that agree below agree.
LEMMA AboveSame ==
    ASSUME NEW P, NEW g, NEW h, \A p \in P : g[p] = h[p]
    PROVE  above(g, P) = above(h, P)
<1>1. {g[p] : p \in P} = {h[p] : p \in P}
  OBVIOUS
<1> QED
  BY <1>1 DEF above

\* There is at most one height.
LEMMA HeightsAgree ==
    ASSUME NEW X, NEW D, Grounded(X, D), NEW A \in SUBSET X, NEW B \in SUBSET X,
           NEW g, NEW h, Heights(g, A, D), Heights(h, B, D)
    PROVE  \A x \in A \cap B : g[x] = h[x]
<1> DEFINE S == {x \in A \cap B : g[x] # h[x]}
<1> SUFFICES ASSUME S # {} PROVE FALSE
  OBVIOUS
<1>1. PICK b \in S : D[b] \cap S = {}
  BY Zenon DEF Grounded
<1>2. D[b] \subseteq A /\ D[b] \subseteq B
  BY DEF Heights
<1>3. \A p \in D[b] : g[p] = h[p]
  BY <1>1, <1>2
<1>4. above(g, D[b]) = above(h, D[b])
  BY <1>3, AboveSame
<1> QED
  BY <1>4 DEF Heights

\* There is one for all of X.
LEMMA HeightsExist ==
    ASSUME NEW X, NEW D, Grounded(X, D)
    PROVE  \E h : h = [x \in X |-> above(h, D[x])]
<1> DEFINE solved(x, v) == \E A \in SUBSET X : \E h : Heights(h, A, D) /\ x \in A /\ v = h[x]
           U == {x \in X : \E v : solved(x, v)}
           u == [x \in U |-> CHOOSE v : solved(x, v)]
<1>1. ASSUME NEW A \in SUBSET X, NEW h, Heights(h, A, D)
      PROVE  A \subseteq U /\ \A x \in A : u[x] = h[x]
  <2>1. ASSUME NEW x \in A PROVE x \in U /\ u[x] = h[x]
    <3>1. solved(x, h[x])
      BY <1>1
    <3>2. x \in U
      BY <3>1
    <3>3. ASSUME NEW v, solved(x, v) PROVE v = h[x]
      <4>1. PICK B \in SUBSET X : \E g : Heights(g, B, D) /\ x \in B /\ v = g[x]
        BY <3>3
      <4>2. PICK g : Heights(g, B, D) /\ x \in B /\ v = g[x]
        BY <4>1
      <4> QED
        BY <1>1, <4>2, HeightsAgree
    <3> HIDE DEF solved
    <3>4. (CHOOSE v : solved(x, v)) = h[x]
      BY <3>1, <3>3
    <3> QED
      BY <3>2, <3>4
  <2> QED
    BY <2>1, Zenon
<1>2. ASSUME NEW x \in U
      PROVE  D[x] \subseteq U /\ u[x] = above(u, D[x])
  <2>0. PICK A \in SUBSET X : \E h : Heights(h, A, D) /\ x \in A
    BY DEF U
  <2>1. PICK h : Heights(h, A, D) /\ x \in A
    BY <2>0
  <2> HIDE DEF U, u
  <2>2. A \subseteq U /\ \A y \in A : u[y] = h[y]
    BY <1>1, <2>1
  <2>3. D[x] \subseteq A /\ h[x] = above(h, D[x])
    BY <2>1 DEF Heights
  <2>4. above(u, D[x]) = above(h, D[x])
    BY <2>2, <2>3, AboveSame
  <2> QED
    BY <2>1, <2>2, <2>3, <2>4
<1>3. X \subseteq U
  <2> SUFFICES ASSUME X \ U # {} PROVE FALSE
    OBVIOUS
  <2>1. PICK b \in X \ U : D[b] \cap (X \ U) = {}
    BY Zenon DEF Grounded
  <2>2. D[b] \subseteq U /\ U \subseteq X
    BY <2>1, Zenon DEF Grounded
  <2> DEFINE A == U \cup {b}
             h == [x \in A |-> IF x = b THEN above(u, D[b]) ELSE u[x]]
  <2>3. b \in X /\ b \notin U
    BY <2>1
  <2> HIDE DEF U, u
  <2>4. h[b] = above(u, D[b]) /\ \A x \in U : h[x] = u[x]
    BY <2>3
  <2> HIDE DEF h
  <2>5. ASSUME NEW x \in A
        PROVE  D[x] \subseteq U /\ h[x] = above(h, D[x])
    <3>1. D[x] \subseteq U
      BY <1>2, <2>2
    <3>2. h[x] = above(u, D[x])
      BY <1>2, <2>3, <2>4
    <3>3. above(u, D[x]) = above(h, D[x])
      BY <2>4, <3>1, AboveSame
    <3> QED
      BY <3>1, <3>2, <3>3
  <2>6. Heights(h, A, D) /\ A \in SUBSET X
    BY <2>2, <2>3, <2>5 DEF Heights
  <2>7. A \subseteq U
    <3> HIDE DEF A
    <3> QED
      BY <1>1, <2>6
  <2> QED
    BY <2>3, <2>7
<1>4. U = X
  BY <1>3, Zenon
<1>5. u = [x \in X |-> u[x]]
  <2> HIDE DEF U, solved
  <2>1. u = [x \in U |-> u[x]]
    OBVIOUS
  <2> HIDE DEF u
  <2> QED
    BY <1>4, <2>1
<1> HIDE DEF u, U
<1>6. u = [x \in X |-> above(u, D[x])]
  BY <1>2, <1>4, <1>5
<1> QED
  BY <1>6

\* Heights are numbers.
LEMMA HeightsAreNumbers ==
    ASSUME NEW X, NEW D, Grounded(X, D), NEW h, Heights(h, X, D)
    PROVE  \A x \in X : h[x] \in Nat
<1> DEFINE S == {x \in X : h[x] \notin Nat}
<1> SUFFICES ASSUME S # {} PROVE FALSE
  OBVIOUS
<1>1. PICK b \in S : D[b] \cap S = {}
  BY Zenon DEF Grounded
<1>2. D[b] \subseteq X /\ IsFiniteSet(D[b])
  BY DEF Grounded
<1>3. \A p \in D[b] : h[p] \in Nat
  BY <1>1, <1>2
<1>4. above(h, D[b]) \in Nat
  BY <1>2, <1>3, AboveIs
<1> QED
  BY <1>4 DEF Heights

=============================================================================
