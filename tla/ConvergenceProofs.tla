------------------------- MODULE ConvergenceProofs -------------------------
(* Proofs about Convergence.                                                *)
EXTENDS Convergence, FiniteSetTheorems, SequenceTheorems, WellFoundedInduction, TLAPS

-----------------------------------------------------------------------------
(* History.  A commit's ancestors are commits, it is one of them, and of    *)
(* two commits at most one is an ancestor of the other.                     *)
IsHistory(H) ==
    /\ DOMAIN H \subseteq Ids /\ IsFiniteSet(DOMAIN H)
    /\ \A c \in DOMAIN H :
          /\ c \in H[c].anc /\ H[c].anc \subseteq DOMAIN H
          /\ \A d \in H[c].anc : H[d].anc \subseteq H[c].anc /\ (c \in H[d].anc => c = d)

HasTypes(H) ==
    \A c \in DOMAIN H :
        /\ H[c].tree \in Trees /\ H[c].wrote \subseteq Paths
        /\ H[c].creates \in Scopes \cup {NoScope}

(* G holds what H does, as H does. *)
Extends(G, H) == DOMAIN H \subseteq DOMAIN G /\ \A c \in DOMAIN H : G[c] = H[c]

(* H with one more commit, on those of ids. *)
Adds(G, H, id, ids) ==
    /\ DOMAIN G = DOMAIN H \cup {id}
    /\ \A c \in DOMAIN H : G[c] = H[c]
    /\ G[id].anc = {id} \cup AncestorsOf(H, ids)

(* A history with a commit that is new, on commits it has, is a history.    *)
LEMMA HistoryGrows ==
    ASSUME NEW H, NEW G, NEW id \in Ids, NEW ids \in SUBSET DOMAIN H,
           IsHistory(H), Adds(G, H, id, ids), id \notin DOMAIN H
    PROVE  IsHistory(G) /\ Extends(G, H)
<1>1. IsFiniteSet(DOMAIN G)
  BY FS_AddElement DEF IsHistory, Adds
<1>2. AncestorsOf(H, ids) \subseteq DOMAIN H
  BY DEF IsHistory, AncestorsOf
<1>3. ASSUME NEW c \in DOMAIN G
      PROVE  /\ c \in G[c].anc /\ G[c].anc \subseteq DOMAIN G
             /\ \A d \in G[c].anc : G[d].anc \subseteq G[c].anc /\ (c \in G[d].anc => c = d)
  <2>1. CASE c \in DOMAIN H
    BY <2>1 DEF IsHistory, Adds
  <2>2. CASE c = id
    <3>1. ASSUME NEW d \in AncestorsOf(H, ids)
          PROVE  G[d].anc \subseteq AncestorsOf(H, ids) /\ id \notin G[d].anc
      BY <1>2 DEF IsHistory, Adds, AncestorsOf
    <3>. QED  BY <1>2, <2>2, <3>1 DEF Adds
  <2>. QED  BY <2>1, <2>2 DEF Adds
<1>. QED  BY <1>1, <1>3 DEF IsHistory, Extends, Adds

(* A set of numbers has a least member.                                     *)
LEMMA LeastNumber ==
    ASSUME NEW T \in SUBSET Nat, T # {}
    PROVE  \E x \in T : \A y \in T : x <= y
<1>1. PICK x \in T : \A y \in T : <<y, x>> \notin OpToRel(<, Nat)
  BY NatLessThanWellFounded, WFMin
<1>2. \A y \in T : ~(y < x)
  BY <1>1 DEF OpToRel
<1>. QED  BY <1>2

(* What is left of a set of numbers has a least one that is not in it. *)
LEMMA FirstOutside ==
    ASSUME NEW T, NEW n \in Nat, n \notin T
    PROVE  \E k \in Nat : k <= n /\ k \notin T /\ \A j \in 0..(k - 1) : j \in T
<1>. DEFINE bad == {k \in Nat : k \notin T}
<1>1. bad \in SUBSET Nat /\ bad # {} /\ n \in bad
  OBVIOUS
<1>2. PICK k \in bad : \A j \in bad : k <= j
  <2>. HIDE DEF bad
  <2>. QED  BY <1>1, LeastNumber
<1>3. k \in Nat /\ k <= n /\ k \notin T
  BY <1>1, <1>2
<1>4. ASSUME NEW j \in 0..(k - 1)  PROVE j \in T
  BY <1>2, <1>3
<1>. QED  BY <1>3, <1>4

(* What HeadsOf leaves out is an ancestor of something it keeps: of those   *)
(* that have c as an ancestor, one with the most ancestors is no other's.   *)
LEMMA HeadsReachAll ==
    ASSUME NEW H, IsHistory(H), NEW ids \in SUBSET DOMAIN H, NEW c \in ids
    PROVE  \E d \in HeadsOf(H, ids) : c \in H[d].anc
<1>. DEFINE over == {d \in ids : c \in H[d].anc}
            size == [d \in DOMAIN H |-> Cardinality(DOMAIN H \ H[d].anc)]
<1>1. ASSUME NEW d \in DOMAIN H, NEW e \in DOMAIN H, d \in H[e].anc, d # e
      PROVE  size[e] < size[d]
  <2>1. /\ DOMAIN H \ H[e].anc \in SUBSET (DOMAIN H \ H[d].anc)
        /\ DOMAIN H \ H[e].anc # DOMAIN H \ H[d].anc
    BY <1>1 DEF IsHistory
  <2>2. IsFiniteSet(DOMAIN H \ H[d].anc) /\ IsFiniteSet(DOMAIN H \ H[e].anc)
    BY FS_Subset DEF IsHistory
  <2>. HIDE DEF size
  <2>3. /\ Cardinality(DOMAIN H \ H[e].anc) <= Cardinality(DOMAIN H \ H[d].anc)
        /\ Cardinality(DOMAIN H \ H[e].anc) # Cardinality(DOMAIN H \ H[d].anc)
    BY <2>1, <2>2, FS_Subset
  <2>4. /\ Cardinality(DOMAIN H \ H[e].anc) \in Nat
        /\ Cardinality(DOMAIN H \ H[d].anc) \in Nat
    BY <2>2, FS_CardinalityType
  <2>. QED  BY <2>3, <2>4 DEF size
<1>2. size \in [DOMAIN H -> Nat]
  <2>1. ASSUME NEW d \in DOMAIN H  PROVE Cardinality(DOMAIN H \ H[d].anc) \in Nat
    BY FS_Subset, FS_CardinalityType DEF IsHistory
  <2>. QED  BY <2>1
<1>. HIDE DEF size
<1>. DEFINE sizes == {size[d] : d \in over}
<1>3. c \in over
  BY DEF IsHistory
<1>4. sizes \in SUBSET Nat /\ sizes # {}
  BY <1>2, <1>3
<1>5. PICK n \in sizes : \A k \in sizes : n <= k
  <2>. HIDE DEF sizes
  <2>. QED  BY <1>4, LeastNumber
<1>6. PICK d \in over : size[d] = n
  BY <1>5
<1>7. ASSUME NEW e \in ids \ {d}, d \in H[e].anc
      PROVE  FALSE
  <2>1. e \in over
    BY <1>7 DEF IsHistory
  <2>2. size[e] < size[d] /\ size[d] <= size[e]
    BY <1>1, <1>5, <1>6, <1>7, <2>1
  <2>. QED  BY <1>2, <2>2
<1>. QED  BY <1>6, <1>7 DEF HeadsOf

(* The heads among ids are of ids.                                          *)
LEMMA HeadsAreSome ==
    ASSUME NEW H, NEW ids
    PROVE  HeadsOf(H, ids) \subseteq ids
BY DEF HeadsOf

-----------------------------------------------------------------------------
(* The graph of scopes: its orders and what is above a scope are computed   *)
(* by recursion, and what they are is shown by induction on how far that    *)
(* goes.                                                                    *)

(* How the names that are in a set are picked, one after the other. *)
PickedUpTo(S, f, i) ==
    IF i = 0 THEN <<>>
    ELSE IF Names[i] \in S THEN Append(f[i - 1], Names[i])
    ELSE f[i - 1]

IsPicked(S, f, n) == f = [i \in 0..n |-> PickedUpTo(S, f, i)]

(* However many names there are, there is such a picking.                   *)
LEMMA NamesArePicked ==
    ASSUME NEW S, NEW n \in Nat
    PROVE  \E f : IsPicked(S, f, n)
<1>. DEFINE T == {k \in Nat : \E f : IsPicked(S, f, k)}
<1>1. SUFFICES ASSUME n \notin T  PROVE FALSE
  OBVIOUS
<1>2. PICK k \in Nat : k <= n /\ k \notin T /\ \A j \in 0..(k - 1) : j \in T
  <2>. HIDE DEF T
  <2>. QED  BY <1>1, FirstOutside
<1>3. CASE k = 0
  <2>1. IsPicked(S, [i \in 0..0 |-> <<>>], 0)
    BY DEF IsPicked, PickedUpTo
  <2>. QED  BY <1>2, <1>3, <2>1
<1>4. CASE k # 0
  <2>1. k - 1 \in Nat /\ k - 1 \in 0..(k - 1)
    BY <1>4
  <2>2. PICK f : IsPicked(S, f, k - 1)
    BY <1>2, <2>1
  <2>. DEFINE g == [i \in 0..k |-> IF i = k THEN PickedUpTo(S, f, k) ELSE f[i]]
  <2>3. ASSUME NEW i \in 0..k  PROVE g[i] = PickedUpTo(S, g, i)
    <3>1. i # 0 => i - 1 \in 0..k /\ i - 1 # k
      BY <2>1
    <3>2. PickedUpTo(S, g, i) = PickedUpTo(S, f, i)
      BY <3>1 DEF PickedUpTo
    <3>3. i # k => i \in 0..(k - 1)
      BY <2>1
    <3>4. i # k => f[i] = PickedUpTo(S, f, i)
      BY <2>2, <3>3 DEF IsPicked
    <3>. QED  BY <3>2, <3>4
  <2>4. IsPicked(S, g, k)
    BY <2>3 DEF IsPicked
  <2>. QED  BY <1>2, <2>4
<1>. QED  BY <1>3, <1>4

(* The names that are in a set, in order, are of the set. *)
LEMMA AlphabeticalIsOfTheSet ==
    ASSUME NEW S
    PROVE  Alphabetical(S) \in Seq(S)
<1>. DEFINE N == Len(Names)
            F == CHOOSE f : IsPicked(S, f, N)
            T == {k \in Nat : k > N \/ F[k] \in Seq(S)}
<1>1. N \in Nat
  BY NamesAreTheScopes, FS_CardinalityType
<1>2. IsPicked(S, F, N)
  BY <1>1, NamesArePicked
<1>3. Alphabetical(S) = F[N]
  BY DEF Alphabetical, IsPicked, PickedUpTo
<1>. HIDE DEF F, N
<1>4. SUFFICES ASSUME N \notin T  PROVE FALSE
  BY <1>1, <1>3
<1>5. PICK k \in Nat : k <= N /\ k \notin T /\ \A j \in 0..(k - 1) : j \in T
  <2>. HIDE DEF T
  <2>. QED  BY <1>1, <1>4, FirstOutside
<1>6. F[k] = PickedUpTo(S, F, k)
  BY <1>1, <1>2, <1>5 DEF IsPicked
<1>7. k # 0 => F[k - 1] \in Seq(S)
  BY <1>1, <1>5
<1>8. F[k] \in Seq(S)
  BY <1>6, <1>7, AppendProperties DEF PickedUpTo
<1>. QED  BY <1>5, <1>8

(* How the scopes that are left are put in order, those that are ready      *)
(* first.                                                                   *)
Ready(P, S) == {s \in S : P[s] \cap S = {}}
OrderOf(P, f, S) ==
    IF Ready(P, S) = {} THEN <<>>
    ELSE Alphabetical(Ready(P, S)) \o f[S \ Ready(P, S)]
IsOrdered(P, f, F) == f = [S \in F |-> OrderOf(P, f, S)]
OfAtMost(n, V) == {S \in SUBSET V : Cardinality(S) <= n}

(* Without those that are ready there are fewer left. *)
LEMMA FewerAreLeft ==
    ASSUME NEW P, NEW V, IsFiniteSet(V), NEW n \in Nat, NEW S \in OfAtMost(n, V),
           Ready(P, S) # {}
    PROVE  n # 0 /\ S \ Ready(P, S) \in OfAtMost(n - 1, V)
<1>. DEFINE T == S \ Ready(P, S)
<1>1. IsFiniteSet(S) /\ T \in SUBSET S /\ T # S
  BY FS_Subset DEF OfAtMost, Ready
<1>. HIDE DEF T
<1>2. IsFiniteSet(T) /\ Cardinality(T) <= Cardinality(S) /\ Cardinality(T) # Cardinality(S)
  BY <1>1, FS_Subset
<1>3. Cardinality(T) \in Nat /\ Cardinality(S) \in Nat /\ Cardinality(S) <= n
  BY <1>1, <1>2, FS_CardinalityType DEF OfAtMost
<1>4. n # 0 /\ Cardinality(T) <= n - 1
  BY <1>2, <1>3
<1>. QED  BY <1>1, <1>4 DEF T, OfAtMost

(* However many scopes there are, there is such an order.                   *)
LEMMA ScopesAreOrdered ==
    ASSUME NEW P, NEW V, IsFiniteSet(V), NEW n \in Nat
    PROVE  \E f : IsOrdered(P, f, OfAtMost(n, V))
<1>. DEFINE T == {k \in Nat : \E f : IsOrdered(P, f, OfAtMost(k, V))}
<1>1. SUFFICES ASSUME n \notin T  PROVE FALSE
  OBVIOUS
<1>2. PICK k \in Nat : k <= n /\ k \notin T /\ \A j \in 0..(k - 1) : j \in T
  <2>. HIDE DEF T
  <2>. QED  BY <1>1, FirstOutside
<1>3. CASE k = 0
  <2>. DEFINE g == [S \in OfAtMost(0, V) |-> <<>>]
  <2>1. ASSUME NEW S \in OfAtMost(0, V)  PROVE g[S] = OrderOf(P, g, S)
    <3>1. Ready(P, S) = {}
      BY FewerAreLeft
    <3>. QED  BY <3>1 DEF OrderOf
  <2>2. IsOrdered(P, g, OfAtMost(0, V))
    BY <2>1 DEF IsOrdered
  <2>. QED  BY <1>2, <1>3, <2>2
<1>4. CASE k # 0
  <2>1. k - 1 \in Nat /\ k - 1 \in 0..(k - 1)
    BY <1>4
  <2>2. PICK f : IsOrdered(P, f, OfAtMost(k - 1, V))
    BY <1>2, <2>1
  <2>. DEFINE fewer == OfAtMost(k - 1, V)
              g == [S \in OfAtMost(k, V) |-> IF S \in fewer THEN f[S] ELSE OrderOf(P, f, S)]
  <2>3. ASSUME NEW S \in OfAtMost(k, V)  PROVE g[S] = OrderOf(P, g, S)
    <3>1. OrderOf(P, g, S) = OrderOf(P, f, S)
      <4>1. CASE Ready(P, S) # {}
        <5>1. S \ Ready(P, S) \in fewer
          BY <4>1, FewerAreLeft
        <5>2. S \ Ready(P, S) \in OfAtMost(k, V)
          <6>1. \A R \in fewer : Cardinality(R) \in Nat
            BY FS_Subset, FS_CardinalityType DEF OfAtMost
          <6>2. Cardinality(S \ Ready(P, S)) \in Nat
            BY <5>1, <6>1
          <6>. QED  BY <5>1, <6>2 DEF OfAtMost
        <5>. QED  BY <5>1, <5>2 DEF OrderOf
      <4>. QED  BY <4>1 DEF OrderOf
    <3>2. S \in fewer => f[S] = OrderOf(P, f, S)
      BY <2>2 DEF IsOrdered
    <3>. QED  BY <3>1, <3>2
  <2>4. IsOrdered(P, g, OfAtMost(k, V))
    BY <2>3 DEF IsOrdered
  <2>. QED  BY <1>2, <2>4
<1>. QED  BY <1>3, <1>4

(* In such an order what a scope hangs off comes before it.                 *)
GoesDown(P, q) == \A i, j \in 1..Len(q) : q[j] \in P[q[i]] => j < i

(* The order of some scopes has no others in it, and goes down.             *)
LEMMA OrdersGoDown ==
    ASSUME NEW P, NEW V, IsFiniteSet(V), NEW f, IsOrdered(P, f, SUBSET V),
           NEW S \in SUBSET V
    PROVE  f[S] \in Seq(S) /\ GoesDown(P, f[S])
<1>. DEFINE Good(R) == f[R] \in Seq(R) /\ GoesDown(P, f[R])
            T == {k \in Nat : \A R \in OfAtMost(k, V) : Good(R)}
<1>1. Cardinality(S) \in Nat /\ S \in OfAtMost(Cardinality(S), V)
  BY FS_Subset, FS_CardinalityType DEF OfAtMost
<1>. HIDE DEF Good
<1>2. SUFFICES ASSUME Cardinality(S) \notin T  PROVE FALSE
  BY <1>1 DEF Good
<1>3. PICK k \in Nat : k <= Cardinality(S) /\ k \notin T /\ \A j \in 0..(k - 1) : j \in T
  <2>. HIDE DEF T
  <2>. QED  BY <1>1, <1>2, FirstOutside
<1>4. ASSUME NEW R \in OfAtMost(k, V)  PROVE Good(R)
  <2>1. R \in SUBSET V /\ f[R] = OrderOf(P, f, R)
    BY DEF OfAtMost, IsOrdered
  <2>2. CASE Ready(P, R) = {}
    <3>1. f[R] = <<>>
      BY <2>1, <2>2 DEF OrderOf
    <3>. QED  BY <3>1 DEF Good, GoesDown
  <2>3. CASE Ready(P, R) # {}
    <3>. DEFINE A == Alphabetical(Ready(P, R))
                rest == R \ Ready(P, R)
                B == f[rest]
    <3>1. k # 0 /\ rest \in OfAtMost(k - 1, V) /\ k - 1 \in 0..(k - 1)
      BY <2>3, FewerAreLeft
    <3>2. Good(rest)
      BY <1>3, <3>1
    <3>3. f[R] = A \o B
      BY <2>1, <2>3 DEF OrderOf
    <3>4. A \in Seq(Ready(P, R)) /\ B \in Seq(rest) /\ GoesDown(P, B)
      BY <3>2, AlphabeticalIsOfTheSet DEF Good
    <3>. HIDE DEF A, B
    <3>5. Ready(P, R) \subseteq R /\ A \in Seq(R) /\ B \in Seq(R)
      BY <3>4 DEF Ready
    <3>6. /\ f[R] \in Seq(R) /\ Len(f[R]) = Len(A) + Len(B)
          /\ \A i \in 1..Len(A) + Len(B) :
                f[R][i] = IF i <= Len(A) THEN A[i] ELSE B[i - Len(A)]
      BY <3>3, <3>5, ConcatProperties
    <3>7. Len(A) \in Nat /\ Len(B) \in Nat
      BY <3>5
    <3>8. ASSUME NEW i \in 1..Len(f[R]), NEW j \in 1..Len(f[R]), f[R][j] \in P[f[R][i]]
          PROVE  j < i
      <4>1. CASE i <= Len(A)
        <5>1. f[R][i] \in Ready(P, R) /\ f[R][j] \in R
          BY <3>4, <3>6, <3>7, <4>1
        <5>. QED  BY <3>8, <5>1 DEF Ready
      <4>2. CASE i > Len(A) /\ j <= Len(A)
        BY <3>6, <3>7, <4>2
      <4>3. CASE i > Len(A) /\ j > Len(A)
        <5>1. i - Len(A) \in 1..Len(B) /\ j - Len(A) \in 1..Len(B)
          BY <3>6, <3>7, <4>3
        <5>2. f[R][i] = B[i - Len(A)] /\ f[R][j] = B[j - Len(A)]
          BY <3>6, <3>7, <4>3
        <5>3. j - Len(A) < i - Len(A)
          BY <3>4, <3>8, <5>1, <5>2 DEF GoesDown
        <5>. QED  BY <3>6, <3>7, <5>3
      <4>. QED  BY <3>6, <3>7, <4>1, <4>2, <4>3
    <3>. QED  BY <3>6, <3>8 DEF Good, GoesDown
  <2>. QED  BY <2>2, <2>3
<1>. QED  BY <1>3, <1>4

(* The cascade order of a graph is such an order of its scopes. *)
LEMMA CascadeGoesDown ==
    ASSUME NEW P, IsFiniteSet(DOMAIN P)
    PROVE  CascadeOrder(P) \in Seq(DOMAIN P) /\ GoesDown(P, CascadeOrder(P))
<1>. DEFINE V == DOMAIN P
            F == CHOOSE f : IsOrdered(P, f, SUBSET V)
<1>1. SUBSET V = OfAtMost(Cardinality(V), V) /\ Cardinality(V) \in Nat
  BY FS_Subset, FS_CardinalityType DEF OfAtMost
<1>2. IsOrdered(P, F, SUBSET V)
  <2>1. \E f : IsOrdered(P, f, OfAtMost(Cardinality(V), V))
    BY <1>1, ScopesAreOrdered
  <2>. QED  BY <1>1, <2>1
<1>3. CascadeOrder(P) = F[V]
  BY DEF CascadeOrder, IsOrdered, OrderOf, Ready
<1>. HIDE DEF F
<1>. QED  BY <1>2, <1>3, OrdersGoDown

(* In a graph without cycles every scope has its turn, after what it hangs  *)
(* off.                                                                     *)
LEMMA EveryScopeHasItsTurn ==
    ASSUME NEW P, IsFiniteSet(DOMAIN P), IsDag(P)
    PROVE  LET q == CascadeOrder(P) IN
           /\ q \in Seq(DOMAIN P) /\ GoesDown(P, q)
           /\ \A s \in DOMAIN P : \E i \in 1..Len(q) : q[i] = s
<1>. DEFINE q == CascadeOrder(P)
            V == DOMAIN P
            f == [i \in 1..Len(q) |-> q[i]]
<1>1. q \in Seq(V) /\ GoesDown(P, q)
  BY CascadeGoesDown
<1>2. Len(q) = Cardinality(V) /\ \A i, j \in 1..Len(q) : q[i] = q[j] => i = j
  BY DEF IsDag
<1>. HIDE DEF q
<1>3. f \in Injection(1..Len(q), V)
  <2>1. f \in [1..Len(q) -> V]
    BY <1>1
  <2>. QED  BY <1>2, <2>1 DEF Injection, IsInjective
<1>4. Len(q) \in Nat /\ IsFiniteSet(1..Len(q)) /\ Cardinality(1..Len(q)) = Len(q)
  <2>1. Len(q) \in Nat
    BY <1>1
  <2>2. IsFiniteSet(1..Len(q)) /\ Cardinality(1..Len(q)) = IF 1 > Len(q) THEN 0 ELSE Len(q) - 1 + 1
    BY <2>1, FS_Interval
  <2>. QED  BY <2>1, <2>2
<1>. HIDE DEF f
<1>5. f \in Surjection(1..Len(q), V)
  BY <1>2, <1>3, <1>4, FS_Injection
<1>6. \A s \in V : \E i \in 1..Len(q) : q[i] = s
  BY <1>5 DEF Surjection, f
<1>. QED  BY <1>1, <1>6 DEF q

(* What is left of a graph when only the nearest are kept still leads       *)
(* everywhere: a relation that can be chained, and holds between a scope    *)
(* and the nearest above it, holds between it and all above it.             *)
LEMMA NearestLeadEverywhere ==
    ASSUME NEW R, IsFiniteSet(DOMAIN R), IsDag(R),
           \A s \in DOMAIN R : R[s] \subseteq DOMAIN R,
           NEW G,
           \A s, u, t \in DOMAIN R : u \in G[s] /\ t \in G[u] => t \in G[s],
           \A s \in DOMAIN R : \A t \in R[s] :
               (\A u \in R[s] \ {t} : t \notin R[u]) => t \in G[s]
    PROVE  \A s \in DOMAIN R : \A t \in R[s] : t \in G[s]
<1>. DEFINE q == CascadeOrder(R)
            I == 1..Len(q)
            T == {n \in Nat : \A i, j \in I : (q[j] \in R[q[i]] /\ i - j = n) => q[j] \in G[q[i]]}
<1>1. /\ q \in Seq(DOMAIN R) /\ GoesDown(R, q)
      /\ \A s \in DOMAIN R : \E i \in 1..Len(q) : q[i] = s
  BY EveryScopeHasItsTurn
<1>. HIDE DEF q
<1>2. Len(q) \in Nat /\ \A i \in I : q[i] \in DOMAIN R
  BY <1>1
<1>3. \A i, j \in I : q[j] \in R[q[i]] => j < i /\ i - j \in Nat
  BY <1>1, <1>2 DEF GoesDown
<1>4. \A n \in Nat : n \in T
  <2>. SUFFICES ASSUME NEW n \in Nat, n \notin T  PROVE FALSE
    OBVIOUS
  <2>1. PICK k \in Nat : k <= n /\ k \notin T /\ \A j \in 0..(k - 1) : j \in T
    <3>. HIDE DEF T
    <3>. QED  BY FirstOutside
  <2>2. PICK i \in I, j \in I : q[j] \in R[q[i]] /\ i - j = k /\ q[j] \notin G[q[i]]
    BY <2>1
  <2>3. PICK u \in R[q[i]] : u # q[j] /\ q[j] \in R[u]
    BY <1>2, <2>2
  <2>4. u \in DOMAIN R
    BY <1>2, <2>3
  <2>5. PICK h \in I : q[h] = u
    BY <1>1, <2>4
  <2>6. j < h /\ h < i
    BY <1>3, <2>2, <2>3, <2>5
  <2>7. i - h \in 0..(k - 1) /\ h - j \in 0..(k - 1)
    BY <1>2, <2>2, <2>6
  <2>8. q[h] \in G[q[i]]
    BY <2>1, <2>3, <2>5, <2>7
  <2>9. q[j] \in G[q[h]]
    BY <2>1, <2>3, <2>5, <2>7
  <2>. QED  BY <1>2, <2>2, <2>8, <2>9
<1>. SUFFICES ASSUME NEW s \in DOMAIN R, NEW t \in R[s]  PROVE t \in G[s]
  OBVIOUS
<1>5. PICK i \in I, j \in I : q[i] = s /\ q[j] = t
  BY <1>1
<1>6. i - j \in Nat
  BY <1>3, <1>5
<1>. QED  BY <1>4, <1>5, <1>6

(* How the scopes above one are gathered, one level after the other.        *)
WithinOf(P, s, f, i) ==
    IF i = 0 THEN {s} \cap DOMAIN P
    ELSE f[i - 1] \cup UNION {P[t] : t \in f[i - 1]}

IsWithin(P, s, f, n) == f = [i \in 0..n |-> WithinOf(P, s, f, i)]

(* There is such a gathering, however far up it goes.                       *)
LEMMA LevelsAreGathered ==
    ASSUME NEW P, NEW s, NEW n \in Nat
    PROVE  \E f : IsWithin(P, s, f, n)
<1>. DEFINE T == {k \in Nat : \E f : IsWithin(P, s, f, k)}
<1>1. SUFFICES ASSUME n \notin T  PROVE FALSE
  OBVIOUS
<1>2. PICK k \in Nat : k <= n /\ k \notin T /\ \A j \in 0..(k - 1) : j \in T
  <2>. HIDE DEF T
  <2>. QED  BY <1>1, FirstOutside
<1>3. CASE k = 0
  <2>1. IsWithin(P, s, [i \in 0..0 |-> {s} \cap DOMAIN P], 0)
    BY DEF IsWithin, WithinOf
  <2>. QED  BY <1>2, <1>3, <2>1
<1>4. CASE k # 0
  <2>1. k - 1 \in Nat /\ k - 1 \in 0..(k - 1)
    BY <1>4
  <2>2. PICK f : IsWithin(P, s, f, k - 1)
    BY <1>2, <2>1
  <2>. DEFINE g == [i \in 0..k |-> IF i = k THEN WithinOf(P, s, f, k) ELSE f[i]]
  <2>3. ASSUME NEW i \in 0..k  PROVE g[i] = WithinOf(P, s, g, i)
    <3>1. i # 0 => i - 1 \in 0..k /\ i - 1 # k
      BY <2>1
    <3>2. WithinOf(P, s, g, i) = WithinOf(P, s, f, i)
      BY <3>1 DEF WithinOf
    <3>3. i # k => i \in 0..(k - 1)
      BY <2>1
    <3>4. i # k => f[i] = WithinOf(P, s, f, i)
      BY <2>2, <3>3 DEF IsWithin
    <3>. QED  BY <3>2, <3>4
  <2>4. IsWithin(P, s, g, k)
    BY <2>3 DEF IsWithin
  <2>. QED  BY <1>2, <2>4
<1>. QED  BY <1>3, <1>4

(* A graph of scopes without cycles, that names no others.                  *)
IsGraph(P) ==
    DOMAIN P \subseteq Scopes /\ IsDag(P) /\ \A t \in DOMAIN P : P[t] \subseteq DOMAIN P

(* Sets that hold the parents of what they hold.                            *)
Closed(P) == {B \in SUBSET DOMAIN P : \A t \in B : P[t] \subseteq B}

(* The levels end: what is above a scope, and it, are the least set that    *)
(* holds it and the parents of what it holds.                               *)
LEMMA AncestorsAreClosed ==
    ASSUME NEW P, IsGraph(P), NEW s \in DOMAIN P
    PROVE  /\ s \in AncestorsAndSelf(P, s) /\ AncestorsAndSelf(P, s) \in Closed(P)
           /\ \A B \in Closed(P) : s \in B => AncestorsAndSelf(P, s) \subseteq B
<1>. DEFINE V == DOMAIN P
            q == CascadeOrder(P)
            N == Cardinality(Scopes)
            F == CHOOSE f : IsWithin(P, s, f, N)
<1>1. /\ IsFiniteSet(V) /\ N \in Nat /\ Cardinality(V) \in Nat /\ Cardinality(V) <= N
      /\ Len(q) = Cardinality(V)
  BY NamesAreTheScopes, FS_Subset, FS_CardinalityType DEF IsGraph, IsDag
<1>2. /\ q \in Seq(V) /\ GoesDown(P, q) /\ \A t \in V : \E i \in 1..Len(q) : q[i] = t
      /\ \A t \in V : P[t] \subseteq V
  BY <1>1, EveryScopeHasItsTurn DEF IsGraph
<1>3. IsWithin(P, s, F, N)
  BY <1>1, LevelsAreGathered
<1>4. AncestorsAndSelf(P, s) = F[N]
  BY DEF AncestorsAndSelf, IsWithin, WithinOf
<1>. HIDE DEF F, N, q, V
<1>5. \A n \in 0..N : F[n] = WithinOf(P, s, F, n)
  BY <1>3 DEF IsWithin
<1>6. ASSUME NEW B \in Closed(P), s \in B, NEW n \in 0..N
      PROVE  F[n] \subseteq B /\ s \in F[n]
  <2>. DEFINE T == {k \in Nat : k > N \/ (F[k] \subseteq B /\ s \in F[k])}
  <2>1. SUFFICES ASSUME n \notin T  PROVE FALSE
    BY <1>1
  <2>2. PICK k \in Nat : k <= n /\ k \notin T /\ \A j \in 0..(k - 1) : j \in T
    <3>. HIDE DEF T
    <3>1. n \in Nat
      BY <1>1
    <3>. QED  BY <2>1, <3>1, FirstOutside
  <2>3. F[k] = WithinOf(P, s, F, k)
    BY <1>1, <1>5, <2>2
  <2>4. k # 0 => F[k - 1] \subseteq B /\ s \in F[k - 1]
    BY <1>1, <2>2
  <2>5. F[k] \subseteq B /\ s \in F[k]
    <3>1. CASE k = 0
      BY <1>6, <2>3, <3>1 DEF WithinOf
    <3>2. CASE k # 0
      BY <2>3, <2>4, <3>2 DEF WithinOf, Closed
    <3>. QED  BY <3>1, <3>2
  <2>. QED  BY <2>2, <2>5
<1>7. V \in Closed(P) /\ s \in V
  BY <1>2 DEF Closed, V
<1>8. \A n \in 0..N : F[n] \subseteq V /\ s \in F[n]
  BY <1>6, <1>7
<1>. DEFINE New(n, t) == t \in F[n] /\ (n # 0 => t \notin F[n - 1])
            Low == {n \in Nat : n <= N => \A i \in 1..Len(q) : New(n, q[i]) => i <= Len(q) - n}
<1>9. N \in Low
  <2>1. SUFFICES ASSUME N \notin Low  PROVE FALSE
    OBVIOUS
  <2>2. PICK k \in Nat : k <= N /\ k \notin Low /\ \A j \in 0..(k - 1) : j \in Low
    <3>. HIDE DEF Low
    <3>. QED  BY <1>1, <2>1, FirstOutside
  <2>3. PICK i \in 1..Len(q) : New(k, q[i]) /\ ~(i <= Len(q) - k)
    BY <2>2
  <2>4. k # 0
    BY <1>1, <2>3
  <2>5. k - 1 \in 0..N /\ k \in 0..N /\ k - 1 \in Low
    <3>1. k - 1 \in 0..(k - 1) /\ k - 1 \in 0..N /\ k \in 0..N
      <4>. HIDE DEF Low
      <4>. QED  BY <1>1, <2>2, <2>4
    <3>2. \A j \in 0..(k - 1) : j \in Low
      BY <2>2
    <3>. HIDE DEF Low
    <3>. QED  BY <3>1, <3>2
  <2>6. PICK u \in F[k - 1] : q[i] \in P[u]
    <3>1. F[k] = F[k - 1] \cup UNION {P[t] : t \in F[k - 1]}
      BY <1>5, <2>4, <2>5 DEF WithinOf
    <3>2. q[i] \in F[k] /\ q[i] \notin F[k - 1]
      BY <2>3, <2>4
    <3>. QED  BY <3>1, <3>2
  <2>7. New(k - 1, u)
    <3>1. CASE k - 1 # 0
      <4>1. (k - 1) - 1 \in 0..N
        BY <1>1, <2>5, <3>1
      <4>2. u \in F[(k - 1) - 1] => q[i] \in F[k - 1]
        <5>1. F[k - 1] = WithinOf(P, s, F, k - 1)
          BY <1>5, <2>5
        <5>. QED  BY <2>6, <3>1, <5>1 DEF WithinOf
      <4>. QED  BY <2>3, <2>4, <2>6, <4>2
    <3>. QED  BY <2>6, <3>1
  <2>8. PICK j \in 1..Len(q) : q[j] = u
    BY <1>2, <1>8, <2>5, <2>6
  <2>9. i < j
    BY <1>2, <2>6, <2>8 DEF GoesDown
  <2>10. j <= Len(q) - (k - 1)
    BY <1>1, <2>5, <2>7, <2>8
  <2>. QED  BY <1>1, <2>2, <2>3, <2>9, <2>10
<1>10. ASSUME NEW t \in F[N]  PROVE N # 0 /\ t \in F[N - 1]
  <2>1. PICK i \in 1..Len(q) : q[i] = t
    BY <1>1, <1>2, <1>8
  <2>2. ~New(N, q[i])
    BY <1>1, <1>9, <2>1
  <2>. QED  BY <2>1, <2>2
<1>11. F[N] \in Closed(P)
  <2>1. ASSUME NEW t \in F[N]  PROVE P[t] \subseteq F[N]
    <3>1. F[N] = WithinOf(P, s, F, N) /\ t \in F[N - 1] /\ N # 0
      BY <1>1, <1>5, <1>10
    <3>. QED  BY <3>1 DEF WithinOf
  <2>2. F[N] \subseteq V
    BY <1>1, <1>8
  <2>. QED  BY <2>1, <2>2 DEF Closed, V
<1>12. N \in 0..N
  BY <1>1
<1>. QED  BY <1>4, <1>6, <1>8, <1>11, <1>12

(* So a graph without cycles is an order: what is above what is above a     *)
(* scope is above it, and no two scopes are above each other.               *)
LEMMA AncestorsAreOrdered ==
    ASSUME NEW P, IsGraph(P)
    PROVE  LET above(s) == AncestorsAndSelf(P, s) IN
           \A s \in DOMAIN P :
              /\ s \in above(s) /\ above(s) \subseteq DOMAIN P
              /\ \A t \in above(s) : above(t) \subseteq above(s) /\ (s \in above(t) => s = t)
<1>. DEFINE above(s) == AncestorsAndSelf(P, s)
            q == CascadeOrder(P)
<1>1. \A s \in DOMAIN P : /\ s \in above(s) /\ above(s) \in Closed(P)
                          /\ \A B \in Closed(P) : s \in B => above(s) \subseteq B
  BY AncestorsAreClosed
<1>2. /\ q \in Seq(DOMAIN P) /\ GoesDown(P, q)
      /\ \A t \in DOMAIN P : \E i \in 1..Len(q) : q[i] = t
      /\ \A i, j \in 1..Len(q) : q[i] = q[j] => i = j
  <2>1. IsFiniteSet(DOMAIN P) /\ IsDag(P)
    BY NamesAreTheScopes, FS_Subset DEF IsGraph
  <2>. QED  BY <2>1, EveryScopeHasItsTurn DEF IsDag
<1>. HIDE DEF above, q
<1>3. \A s \in DOMAIN P : above(s) \subseteq DOMAIN P
  BY <1>1 DEF Closed
<1>4. ASSUME NEW s \in DOMAIN P, NEW t \in above(s)
      PROVE  above(t) \subseteq above(s)
  BY <1>1, <1>3
<1>5. ASSUME NEW i \in 1..Len(q), NEW j \in 1..Len(q), q[j] \in above(q[i])
      PROVE  j <= i
  <2>. DEFINE B == {q[h] : h \in 1..i}
  <2>1. Len(q) \in Nat /\ \A h \in 1..i : h \in 1..Len(q) /\ q[h] \in DOMAIN P
    BY <1>2
  <2>2. ASSUME NEW h \in 1..i, NEW t \in P[q[h]]  PROVE t \in B
    <3>1. q[h] \in DOMAIN P /\ t \in DOMAIN P
      BY <2>1 DEF IsGraph
    <3>2. PICK g \in 1..Len(q) : q[g] = t
      BY <1>2, <3>1
    <3>3. g < h
      BY <1>2, <2>1, <2>2, <3>2 DEF GoesDown
    <3>. QED  BY <2>1, <3>2, <3>3
  <2>3. B \in Closed(P)
    BY <2>1, <2>2 DEF Closed
  <2>4. q[i] \in DOMAIN P /\ q[i] \in B
    BY <2>1
  <2>5. q[j] \in B
    BY <1>1, <1>5, <2>3, <2>4
  <2>6. PICK h \in 1..i : q[j] = q[h]
    BY <2>5
  <2>. QED  BY <1>2, <2>1, <2>6
<1>6. ASSUME NEW s \in DOMAIN P, NEW t \in above(s), s \in above(t)
      PROVE  s = t
  <2>1. t \in DOMAIN P
    BY <1>3
  <2>2. PICK i \in 1..Len(q), j \in 1..Len(q) : q[i] = s /\ q[j] = t
    BY <1>2, <2>1
  <2>3. j <= i /\ i <= j
    BY <1>5, <1>6, <2>2
  <2>4. i = j
    BY <1>2, <2>3
  <2>. QED  BY <2>2, <2>4
<1>. QED  BY <1>1, <1>3, <1>4, <1>6 DEF above

-----------------------------------------------------------------------------
(* Heads.  A head is at one position or contested between two.              *)
Positions(H) == DOMAIN H \cup {Gone}
IsHead(H, t) == t.base \in Positions(H) /\ \E c, d \in Positions(H) : t.sides = {c, d}

(* A target of one side is resolved, and at that side.                      *)
LEMMA OneSide ==
    ASSUME NEW t, NEW c, t.sides = {c}
    PROVE  ~HasConflict(t) /\ TheOne(t) = c
BY FS_Singleton DEF HasConflict, TheOne

(* A target of two sides is contested.                                      *)
LEMMA TwoSides ==
    ASSUME NEW t, NEW c, NEW d, t.sides = {c, d}, c # d
    PROVE  HasConflict(t)
<1>1. IsFiniteSet({c}) /\ Cardinality({c}) = 1 /\ d \notin {c} /\ {c, d} = {c} \cup {d}
  BY FS_Singleton
<1>2. Cardinality({c, d}) = 2
  BY <1>1, FS_AddElement
<1>. QED  BY <1>2 DEF HasConflict

(* No commit is Gone, the position of a scope that is not there.            *)
LEMMA GoneIsNowhere ==
    ASSUME NEW H, IsHistory(H)
    PROVE  Gone \notin DOMAIN H /\ \A c \in DOMAIN H : Gone \notin H[c].anc
BY GoneIsNoCommit DEF IsHistory, Ids

(* A head is resolved and at a position, or contested between two.          *)
LEMMA HeadShape ==
    ASSUME NEW H, NEW t, IsHead(H, t)
    PROVE  \/ \E c \in Positions(H) : t.sides = {c} /\ ~HasConflict(t) /\ TheOne(t) = c
           \/ \E c, d \in Positions(H) : c # d /\ t.sides = {c, d} /\ HasConflict(t)
<1>1. PICK c \in Positions(H), d \in Positions(H) : t.sides = {c, d}
  BY DEF IsHead
<1>2. CASE c = d
  <2>1. t.sides = {c}
    BY <1>1, <1>2
  <2>. QED  BY <2>1, OneSide
<1>3. CASE c # d
  BY <1>1, <1>3, TwoSides
<1>. QED  BY <1>2, <1>3

(* A head put at a position is resolved, and at it.                         *)
LEMMA AtIsHead ==
    ASSUME NEW H, NEW c \in Positions(H)
    PROVE  /\ IsHead(H, At(c)) /\ At(c).sides = {c}
           /\ ~HasConflict(At(c)) /\ TheOne(At(c)) = c
BY OneSide DEF At, IsHead, Positions

(* Two sets of steps are argued about with one invariant.  Those of Next    *)
(* leave no head where a scope was deleted, those of Placement may leave a  *)
(* local one: del says which it is, "stand" where deletions stand.          *)

(* Commit c carries a creation of s that is not the first one, where        *)
(* deletions stand. *)
Anew(del, H, c, s) ==
    del = "stand" => \E d \in H[c].anc \ {Creation(s)} : H[d].creates = s

(* What a head t owes to what the machine last saw published of scope s: it *)
(* holds that; where nothing was published it is at nothing, or anew; and a *)
(* contested head is between that and a position that is the machine's own, *)
(* which holds what the two moved from.                                     *)
Holds(del, H, t, seen, s) ==
    /\ seen # Gone => \E c \in AddedIds(t) : seen \in H[c].anc
    /\ seen = Gone => \A c \in t.sides : (t.sides = {c} /\ c # Gone) => Anew(del, H, c, s)
    /\ HasConflict(t) =>
          \E c \in t.sides :
                 /\ t.sides = {seen, c} /\ c # seen /\ c # Gone
                 /\ IF t.base = Gone THEN Anew(del, H, c, s) ELSE t.base \in H[c].anc

(* A fetch keeps that, from what was seen to what is there now.             *)
LEMMA MergeTargetsHolds ==
    ASSUME NEW del, NEW H, IsHistory(H), NEW ours \in Positions(H), NEW base \in Positions(H),
           NEW now \in Positions(H), NEW s
    PROVE  LET t == MergeTargets(H, ours, base, now) IN
           /\ IsHead(H, t)
           /\ (IF ours = Gone THEN base = Gone
               ELSE IF base = Gone THEN Anew(del, H, ours, s) ELSE base \in H[ours].anc)
              => Holds(del, H, t, now, s)
<1>. DEFINE t == MergeTargets(H, ours, base, now)
<1>1. Gone \notin DOMAIN H /\ \A c \in DOMAIN H : Gone \notin H[c].anc /\ c \in H[c].anc
  BY GoneIsNowhere DEF IsHistory
<1>2. \/ t = At(ours) /\ (ours = now \/ now = base \/ (ours # Gone /\ now \in H[ours].anc))
      \/ t = At(now) /\ now # base
      \/ t = Contested(ours, now, base) /\ ours # now /\ ours # base /\ now # base
  BY DEF MergeTargets
<1>3. ASSUME IF ours = Gone THEN base = Gone
             ELSE IF base = Gone THEN Anew(del, H, ours, s) ELSE base \in H[ours].anc
      PROVE  Holds(del, H, t, now, s)
  <2>. HIDE DEF t
  <2>1. CASE t = At(ours) /\ (ours = now \/ now = base \/ (ours # Gone /\ now \in H[ours].anc))
    <3>1. t.sides = {ours} /\ ~HasConflict(t)
      BY <2>1, AtIsHead
    <3>2. now # Gone => ours # Gone /\ now \in H[ours].anc
      BY <1>1, <1>3, <2>1 DEF Positions
    <3>3. now = Gone /\ ours # Gone => Anew(del, H, ours, s)
      BY <1>1, <1>3, <2>1 DEF Positions
    <3>. QED  BY <3>1, <3>2, <3>3 DEF Holds, AddedIds
  <2>2. CASE t = At(now)
    <3>1. t.sides = {now} /\ ~HasConflict(t)
      BY <2>2, AtIsHead
    <3>. QED  BY <1>1, <3>1 DEF Holds, AddedIds, Positions
  <2>3. CASE t = Contested(ours, now, base) /\ ours # now /\ ours # base
    <3>1. t.sides = {now, ours} /\ t.base = base /\ ours # Gone
      BY <1>3, <2>3 DEF Contested
    <3>2. now # Gone => now \in AddedIds(t) /\ now \in H[now].anc
      BY <1>1, <3>1 DEF AddedIds, Positions
    <3>. QED  BY <1>3, <2>3, <3>1, <3>2 DEF Holds
  <2>. QED  BY <1>2, <2>1, <2>2, <2>3
<1>4. IsHead(H, Contested(ours, now, base))
  BY DEF IsHead, Contested
<1>5. IsHead(H, t)
  BY <1>2, <1>4, AtIsHead
<1>. QED  BY <1>3, <1>5

(* The import of a fetch leaves a head that owes what is published now as   *)
(* much as it owed what was seen before.                                    *)
LEMMA ImportHolds ==
    ASSUME NEW del, NEW H, IsHistory(H), NEW t, IsHead(H, t), NEW seen \in Positions(H),
           NEW now \in Positions(H), NEW s
    PROVE  LET u == Import(H, t, seen, now) IN
           IsHead(H, u) /\ (Holds(del, H, t, seen, s) => Holds(del, H, u, now, s))
<1>. SUFFICES ASSUME now # seen
              PROVE  LET u == Import(H, t, seen, now) IN
                     IsHead(H, u) /\ (Holds(del, H, t, seen, s) => Holds(del, H, u, now, s))
  BY DEF Import
<1>1. CASE HasConflict(t)
  <2>. DEFINE ours == CHOOSE c \in t.sides : c # seen
  <2>1. PICK c \in Positions(H), d \in Positions(H) : c # d /\ t.sides = {c, d}
    BY <1>1, HeadShape
  <2>2. ours \in {c, d} /\ ours # seen
    BY <2>1
  <2>3. Holds(del, H, t, seen, s) =>
          /\ ours # Gone
          /\ IF t.base = Gone THEN Anew(del, H, ours, s) ELSE t.base \in H[ours].anc
    BY <1>1, <2>1, <2>2 DEF Holds
  <2>4. Import(H, t, seen, now) = MergeTargets(H, ours, t.base, now)
    BY <1>1 DEF Import
  <2>. HIDE DEF ours
  <2>5. t.base \in Positions(H) /\ ours \in Positions(H)
    BY <2>1, <2>2 DEF IsHead
  <2>6. Holds(del, H, t, seen, s) => Holds(del, H, MergeTargets(H, ours, t.base, now), now, s)
    BY <2>3, <2>5, MergeTargetsHolds
  <2>. QED  BY <2>4, <2>5, <2>6, MergeTargetsHolds
<1>2. CASE ~HasConflict(t)
  <2>1. PICK c \in Positions(H) : t.sides = {c} /\ TheOne(t) = c
    BY <1>2, HeadShape
  <2>2. Import(H, t, seen, now) = MergeTargets(H, c, seen, now)
    BY <1>2, <2>1 DEF Import
  <2>3. Holds(del, H, t, seen, s) =>
          IF c = Gone THEN seen = Gone
          ELSE IF seen = Gone THEN Anew(del, H, c, s) ELSE seen \in H[c].anc
    BY <2>1 DEF Holds, AddedIds
  <2>. QED  BY <2>2, <2>3, MergeTargetsHolds
<1>. QED  BY <1>1, <1>2

(* A longer history takes nothing from it.                                  *)
LEMMA HoldsInMore ==
    ASSUME NEW del, NEW H, NEW G, IsHistory(H), Extends(G, H), NEW t, IsHead(H, t),
           NEW seen \in Positions(H), NEW s
    PROVE  /\ IsHead(G, t) /\ seen \in Positions(G)
           /\ Holds(del, H, t, seen, s) => Holds(del, G, t, seen, s)
<1>1. IsHead(G, t) /\ seen \in Positions(G)
  BY DEF IsHead, Extends, Positions
<1>2. ASSUME NEW c \in DOMAIN H, Anew(del, H, c, s)  PROVE Anew(del, G, c, s)
  BY <1>2 DEF Anew, Extends, IsHistory
<1>3. t.sides \subseteq Positions(H)
  BY DEF IsHead
<1>4. ASSUME Holds(del, H, t, seen, s)  PROVE Holds(del, G, t, seen, s)
  <2>1. seen # Gone => \E c \in AddedIds(t) : seen \in G[c].anc
    BY <1>3, <1>4 DEF Holds, AddedIds, Positions, Extends
  <2>2. seen = Gone => \A c \in t.sides : (t.sides = {c} /\ c # Gone) => Anew(del, G, c, s)
    BY <1>2, <1>3, <1>4 DEF Holds, Positions
  <2>3. ASSUME HasConflict(t)
        PROVE  \E c \in t.sides :
                  /\ t.sides = {seen, c} /\ c # seen /\ c # Gone
                  /\ IF t.base = Gone THEN Anew(del, G, c, s) ELSE t.base \in G[c].anc
    <3>1. PICK c \in t.sides :
                   /\ t.sides = {seen, c} /\ c # seen /\ c # Gone
                   /\ IF t.base = Gone THEN Anew(del, H, c, s) ELSE t.base \in H[c].anc
      BY <1>4, <2>3 DEF Holds
    <3>2. c \in DOMAIN H
      BY <1>3, <3>1 DEF Positions
    <3>. QED  BY <1>2, <3>1, <3>2 DEF Extends
  <2>. QED  BY <2>1, <2>2, <2>3 DEF Holds
<1>. QED  BY <1>1, <1>4

(* What a pass, or a resolution, may make of a head: the deletion of one    *)
(* that is contested with one, or a commit that holds all the head held; or *)
(* any commit, of one that was deleted, where deletions need not stand.     *)
Carries(del, H, t, u) ==
    \/ u = t
    \/ u = At(Gone) /\ HasConflict(t) /\ Gone \in t.sides
    \/ \E c \in DOMAIN H : u = At(c) /\ Gone \notin t.sides /\ t.sides \subseteq H[c].anc
    \/ /\ del # "stand" /\ HasConflict(t) /\ Gone \in t.sides
       /\ \E c \in DOMAIN H : u = At(c)

(* A pass and a resolution keep what a head owes to what was seen.          *)
LEMMA CarriesHolds ==
    ASSUME NEW del, NEW H, IsHistory(H), NEW t, IsHead(H, t), NEW u, Carries(del, H, t, u),
           NEW seen \in Positions(H), NEW s, Holds(del, H, t, seen, s)
    PROVE  IsHead(H, u) /\ Holds(del, H, u, seen, s)
<1>1. CASE u = At(Gone) /\ HasConflict(t) /\ Gone \in t.sides
  <2>1. seen = Gone
    BY <1>1 DEF Holds
  <2>. QED  BY <1>1, <2>1, AtIsHead DEF Holds, Positions
<1>2. ASSUME NEW c \in DOMAIN H, u = At(c), Gone \notin t.sides, t.sides \subseteq H[c].anc
      PROVE  IsHead(H, u) /\ Holds(del, H, u, seen, s)
  <2>1. IsHead(H, u) /\ u.sides = {c} /\ ~HasConflict(u)
    BY <1>2, AtIsHead DEF Positions
  <2>2. c # Gone
    BY GoneIsNowhere
  <2>3. ASSUME seen # Gone  PROVE seen \in H[c].anc
    BY <1>2, <2>3 DEF Holds, AddedIds, IsHistory
  <2>4. ASSUME seen = Gone  PROVE Anew(del, H, c, s)
    <3>1. ~HasConflict(t)
      BY <1>2, <2>4 DEF Holds
    <3>2. PICK d \in Positions(H) : t.sides = {d}
      BY <3>1, HeadShape
    <3>3. Anew(del, H, d, s) /\ d \in H[c].anc
      BY <1>2, <2>4, <3>2 DEF Holds
    <3>. QED  BY <3>3 DEF Anew, IsHistory
  <2>. QED  BY <2>1, <2>2, <2>3, <2>4 DEF Holds, AddedIds
<1>3. ASSUME NEW c \in DOMAIN H, u = At(c), del # "stand", HasConflict(t), Gone \in t.sides
      PROVE  IsHead(H, u) /\ Holds(del, H, u, seen, s)
  <2>1. seen = Gone
    BY <1>3 DEF Holds
  <2>2. IsHead(H, u) /\ u.sides = {c} /\ ~HasConflict(u)
    BY <1>3, AtIsHead DEF Positions
  <2>. QED  BY <1>3, <2>1, <2>2 DEF Holds, Anew
<1>. QED  BY <1>1, <1>2, <1>3 DEF Carries

(* A pass may carry a head on that it has carried before.                   *)
LEMMA CarriedOn ==
    ASSUME NEW del, NEW H, IsHistory(H), NEW t, IsHead(H, t), AddedIds(t) # {},
           NEW h, Carries(del, H, t, h), del = "stand" => h = t
    PROVE  /\ DeletedOnOneSide(h) => h = t
           /\ \A c \in DOMAIN H :
                 (~DeletedOnOneSide(h) /\ AddedIds(h) \subseteq H[c].anc)
                    => Carries(del, H, t, At(c))
<1>1. Gone \notin DOMAIN H
  BY GoneIsNowhere
<1>2. \A c \in Positions(H) : ~HasConflict(At(c)) /\ At(c).sides = {c}
  BY AtIsHead
<1>3. DeletedOnOneSide(h) => h = t
  BY <1>2 DEF Carries, DeletedOnOneSide, Positions
<1>4. ASSUME NEW c \in DOMAIN H, ~DeletedOnOneSide(h), AddedIds(h) \subseteq H[c].anc
      PROVE  Carries(del, H, t, At(c))
  <2>1. CASE h = t
    <3>1. Gone \notin t.sides
      <4>1. CASE HasConflict(t)
        BY <1>4, <2>1, <4>1 DEF DeletedOnOneSide
      <4>2. CASE ~HasConflict(t)
        BY <4>2, HeadShape DEF AddedIds
      <4>. QED  BY <4>1, <4>2
    <3>. QED  BY <1>4, <2>1, <3>1 DEF Carries, AddedIds
  <2>2. CASE h = At(Gone) /\ HasConflict(t) /\ Gone \in t.sides
    <3>1. h # t
      BY <1>2, <2>2 DEF Positions
    <3>. QED  BY <2>2, <3>1 DEF Carries
  <2>3. ASSUME NEW d \in DOMAIN H, h = At(d), Gone \notin t.sides, t.sides \subseteq H[d].anc
        PROVE  Carries(del, H, t, At(c))
    <3>1. d \in H[c].anc
      BY <1>1, <1>2, <1>4, <2>3 DEF AddedIds, Positions
    <3>2. t.sides \subseteq H[c].anc
      BY <2>3, <3>1 DEF IsHistory
    <3>. QED  BY <2>3, <3>2 DEF Carries
  <2>4. CASE del # "stand" /\ HasConflict(t) /\ Gone \in t.sides
    BY <2>4 DEF Carries
  <2>. QED  BY <2>1, <2>2, <2>3, <2>4 DEF Carries
<1>. QED  BY <1>3, <1>4

-----------------------------------------------------------------------------
(* The inductive invariant. *)

(* A machine's next commit has an id no commit has. *)
Fresh(H, w) == \A c \in DOMAIN H : c[1] \in Machines => c[2] <= w[c[1]]

RepoInv ==
    /\ IsHistory(commits) /\ HasTypes(commits)
    /\ written \in [Machines -> Nat] /\ Fresh(commits, written)
    /\ remote \in [Scopes -> Positions(commits)]
    /\ tracked \in [Machines -> [Scopes -> Positions(commits)]]
    /\ DOMAIN local = Machines
    /\ \A m \in Machines : /\ DOMAIN local[m] = Scopes
                           /\ \A s \in Scopes : IsHead(commits, local[m][s])
    /\ rewound \subseteq Scopes

(* Every head holds what its machine saw published, unless it was moved     *)
(* back.                                                                    *)
HeadsInv(del) ==
    \A m \in Machines, s \in Scopes \ rewound :
        Holds(del, commits, local[m][s], tracked[m][s], s)

Runs(P) ==
    [cmd : Commands \cup {"none"}, steps : Seq(Steps), attempt : 1..PUSH_ATTEMPTS,
     edit : Edits, pins : SUBSET Pins,
     answer : [scope : Scopes \cup {NoScope}, values : Trees],
     checkpoint : [Scopes -> P]]

Records(P) ==
    [saved : BOOLEAN, checkpoint : [Scopes -> P],
     commit : [scope : Scopes \cup {NoScope}, path : Paths, parent : P]]

RecordInv ==
    /\ record \in [Machines -> Records(Positions(commits))]
    /\ \A m \in Machines :
          record[m].commit # NoCommit =>
              record[m].commit.scope \in Scopes /\ record[m].commit.parent # Gone

(* The steps that read an edit have one, and a commit that stopped is       *)
(* resolved first of all, while its record is there.                        *)
StepsFit(r, c) ==
    \A i \in 1..Len(r.steps) :
        /\ r.steps[i] \in {"plan", "create", "delete", "place"} => r.edit.scope \in Scopes
        /\ r.steps[i] = "resolve" => i = 1 /\ c.commit # NoCommit

RunInv ==
    /\ run \in [Machines -> Runs(Positions(commits))]
    /\ \A m \in Machines : StepsFit(run[m], record[m])

RestInv ==
    /\ mark \in [Machines -> DOMAIN commits]
    /\ stopped \in [Machines -> Scopes \cup {NoScope}]
    /\ edits \in 0..MaxEdits /\ answers \in 0..MaxAnswers /\ failures \in 0..MaxFailures

IsPass(p) ==
    p = [by |-> p.by, heads |-> p.heads, before |-> p.before, parents |-> p.parents,
         todo |-> p.todo, moved |-> p.moved, stop |-> p.stop, commits |-> p.commits,
         written |-> p.written]

(* A pass has made of every head what it may make of one, each comes once,  *)
(* and where deletions stand it has made nothing yet of those to come.      *)
PassOK(del, p) ==
    /\ IsPass(p)
    /\ p.by \in Machines /\ p.stop \in Scopes \cup {NoScope}
    /\ IsHistory(p.commits) /\ HasTypes(p.commits) /\ Extends(p.commits, commits)
    /\ p.written \in Nat /\ written[p.by] <= p.written
    /\ Fresh(p.commits, [written EXCEPT ![p.by] = p.written])
    /\ DOMAIN p.heads = Scopes
    /\ \A s \in Scopes : /\ IsHead(p.commits, p.heads[s])
                         /\ Carries(del, p.commits, local[p.by][s], p.heads[s])
    /\ DOMAIN p.parents \subseteq Scopes
    /\ \A s \in DOMAIN p.parents : /\ p.parents[s] \subseteq Scopes
                                   /\ AddedIds(local[p.by][s]) # {}
    /\ IsDag(p.parents)
    /\ p.todo \in Seq(DOMAIN p.parents)
    /\ \A i, j \in 1..Len(p.todo) : p.todo[i] = p.todo[j] => i = j
    /\ del = "stand" => \A i \in 1..Len(p.todo) : p.heads[p.todo[i]] = local[p.by][p.todo[i]]

PassInv(del) == pass # NoPass => PassOK(del, pass)

IInv(del) == RepoInv /\ HeadsInv(del) /\ RecordInv /\ RunInv /\ RestInv /\ PassInv(del)

-----------------------------------------------------------------------------
(* What the steps have in common. *)

(* A longer history has the positions of the shorter.                       *)
LEMMA PositionsGrow ==
    ASSUME NEW H, NEW G, Extends(G, H)
    PROVE  Positions(H) \subseteq Positions(G)
BY DEF Extends, Positions

(* A step that touches no repository keeps what is known of them.           *)
LEMMA RepoRests ==
    ASSUME NEW del, RepoInv, HeadsInv(del), UNCHANGED <<repo, rewound>>
    PROVE  RepoInv' /\ HeadsInv(del)' /\ Extends(commits', commits)
<1>1. /\ commits' = commits /\ written' = written /\ remote' = remote
      /\ local' = local /\ tracked' = tracked /\ rewound' = rewound
  BY DEF repo
<1>2. RepoInv'
  BY <1>1 DEF RepoInv
<1>3. HeadsInv(del)'
  BY <1>1 DEF HeadsInv
<1>. QED  BY <1>1, <1>2, <1>3 DEF Extends

(* The records rest: their commits are there still.                         *)
LEMMA RecordRests ==
    ASSUME RecordInv, Extends(commits', commits), UNCHANGED record
    PROVE  RecordInv'
BY PositionsGrow DEF RecordInv, Records

(* The rest rests: a mark's commit is there still.                          *)
LEMMA MarkRests ==
    ASSUME RestInv, Extends(commits', commits), UNCHANGED <<mark, stopped, counters>>
    PROVE  RestInv'
BY DEF RestInv, Extends, counters, asked

(* A machine between two commands has a run like any other.                 *)
LEMMA IdleIsARun ==
    ASSUME NEW H, NEW c
    PROVE  Idle \in Runs(Positions(H)) /\ StepsFit(Idle, c)
<1>1. NoEdit \in Edits
  BY PathsExist DEF NoEdit, Edits, Contents
<1>2. NoAnswer \in [scope : Scopes \cup {NoScope}, values : Trees]
  BY DEF NoAnswer, EmptyTree, Trees, Contents
<1>3. NoCheckpoint \in [Scopes -> Positions(H)] /\ NoPins \in SUBSET Pins
  BY DEF NoCheckpoint, Positions, NoPins
<1>4. <<>> \in Seq(Steps) /\ 1 \in 1..PUSH_ATTEMPTS
  BY DEF PUSH_ATTEMPTS
<1>. QED  BY <1>1, <1>2, <1>3, <1>4 DEF Idle, Runs, StepsFit

(* One machine's run moves on. *)
LEMMA RunMoves ==
    ASSUME RunInv, Extends(commits', commits), NEW m \in Machines,
           NEW r \in Runs(Positions(commits')), Goes(m, r), StepsFit(r, record'[m]),
           \A n \in Machines \ {m} : record'[n] = record[n]
    PROVE  RunInv'
<1>1. PICK q \in {r, Idle} : run' = [run EXCEPT ![m] = q]
  BY DEF Goes, RunEnds
<1>2. q \in Runs(Positions(commits')) /\ StepsFit(q, record'[m])
  BY <1>1, IdleIsARun
<1>3. run \in [Machines -> Runs(Positions(commits'))]
  BY PositionsGrow DEF RunInv, Runs
<1>4. run' \in [Machines -> Runs(Positions(commits'))]
  BY <1>1, <1>2, <1>3
<1>5. ASSUME NEW n \in Machines  PROVE StepsFit(run'[n], record'[n])
  <2>1. CASE n = m
    BY <1>1, <1>2, <1>3, <2>1
  <2>2. CASE n # m
    BY <1>1, <1>3, <2>2 DEF RunInv
  <2>. QED  BY <2>1, <2>2
<1>. QED  BY <1>4, <1>5 DEF RunInv

(* One machine's run ends.                                                  *)
LEMMA RunEndsFits ==
    ASSUME RunInv, Extends(commits', commits), NEW m \in Machines, RunEnds(m),
           \A n \in Machines \ {m} : record'[n] = record[n]
    PROVE  RunInv'
<1>1. Goes(m, Idle)
  BY DEF Goes, Idle
<1>. QED  BY <1>1, IdleIsARun, RunMoves

(* A run that goes on from its next step, whatever it takes along. *)
LEMMA TailFits ==
    ASSUME NEW q, q.steps \in Seq(Steps), q.steps # <<>>, NEW c, StepsFit(q, c),
           NEW r, r.steps = Tail(q.steps), r.edit = q.edit, NEW d
    PROVE  r.steps \in Seq(Steps) /\ StepsFit(r, d)
<1>1. /\ r.steps \in Seq(Steps) /\ Len(r.steps) = Len(q.steps) - 1
      /\ \A i \in 1..Len(r.steps) : i + 1 \in 1..Len(q.steps) /\ r.steps[i] = q.steps[i + 1]
  OBVIOUS
<1>. QED  BY <1>1 DEF StepsFit

(* One machine's run goes on to its next step.                              *)
LEMMA AdvancesFits ==
    ASSUME RunInv, Extends(commits', commits), NEW m \in Machines,
           run[m].steps # <<>>, Advances(m),
           \A n \in Machines \ {m} : record'[n] = record[n]
    PROVE  RunInv'
<1>. DEFINE r == [run[m] EXCEPT !.steps = Tail(@)]
<1>1. run[m] \in Runs(Positions(commits')) /\ StepsFit(run[m], record[m])
  BY PositionsGrow DEF RunInv, Runs
<1>2. r.steps = Tail(run[m].steps) /\ r.edit = run[m].edit
  BY <1>1 DEF Runs
<1>3. r.steps \in Seq(Steps) /\ StepsFit(r, record'[m])
  <2>. HIDE DEF r
  <2>1. run[m].steps \in Seq(Steps)
    BY <1>1 DEF Runs
  <2>. QED  BY <1>1, <1>2, <2>1, TailFits
<1>4. r \in Runs(Positions(commits'))
  BY <1>1, <1>3 DEF Runs
<1>. QED  BY <1>3, <1>4, RunMoves DEF Advances

(* One machine's heads move, in a history that grows or stays. *)
LEMMA HeadsMove ==
    ASSUME NEW del, RepoInv, HeadsInv(del), IsHistory(commits'), HasTypes(commits'),
           Extends(commits', commits), NEW m \in Machines, NEW k \in Nat,
           written' = [written EXCEPT ![m] = k], Fresh(commits', written'),
           NEW h, DOMAIN h = Scopes, local' = [local EXCEPT ![m] = h],
           UNCHANGED <<remote, tracked>>, rewound \subseteq rewound', rewound' \subseteq Scopes,
           \A s \in Scopes : /\ IsHead(commits', h[s])
                             /\ s \notin rewound' => Holds(del, commits', h[s], tracked[m][s], s)
    PROVE  RepoInv' /\ HeadsInv(del)'
<1>1. \A n \in Machines : local'[n] = IF n = m THEN h ELSE local[n]
  BY DEF RepoInv
<1>2. ASSUME NEW n \in Machines, NEW s \in Scopes
      PROVE  /\ IsHead(commits', local'[n][s])
             /\ s \notin rewound' => Holds(del, commits', local'[n][s], tracked[n][s], s)
  <2>1. CASE n = m
    BY <1>1, <2>1
  <2>2. CASE n # m
    <3>1. IsHead(commits, local[n][s]) /\ tracked[n][s] \in Positions(commits)
      BY DEF RepoInv
    <3>2. s \notin rewound' => Holds(del, commits, local[n][s], tracked[n][s], s)
      BY DEF HeadsInv
    <3>. QED  BY <1>1, <2>2, <3>1, <3>2, HoldsInMore DEF RepoInv
  <2>. QED  BY <2>1, <2>2
<1>3. /\ remote' \in [Scopes -> Positions(commits')]
      /\ tracked' \in [Machines -> [Scopes -> Positions(commits')]]
  BY PositionsGrow DEF RepoInv
<1>4. written' \in [Machines -> Nat] /\ DOMAIN local' = Machines
  BY DEF RepoInv
<1>5. \A n \in Machines : DOMAIN local'[n] = Scopes
  BY <1>1 DEF RepoInv
<1>6. HeadsInv(del)'
  BY <1>2 DEF HeadsInv
<1>. QED  BY <1>2, <1>3, <1>4, <1>5, <1>6 DEF RepoInv

-----------------------------------------------------------------------------
(* The start. *)

(* The first repositories: each scope created on what it is founded on,     *)
(* every machine at what is published.                                      *)
LEMMA InitRepo ==
    ASSUME NEW del, Init
    PROVE  RepoInv /\ HeadsInv(del)
<1>. DEFINE above(s) == AncestorsAndSelf(FoundedOn, s)
<1>1. /\ DOMAIN commits = Founded \X {0}
      /\ \A s \in Founded : /\ commits[<<s, 0>>].anc = {Creation(t) : t \in above(s)}
                            /\ commits[<<s, 0>>].tree = EmptyTree
                            /\ commits[<<s, 0>>].wrote = {}
                            /\ commits[<<s, 0>>].creates = s
  BY DEF Init
<1>2. \A s \in Founded :
        /\ s \in above(s) /\ above(s) \subseteq Founded
        /\ \A t \in above(s) : above(t) \subseteq above(s) /\ (s \in above(t) => s = t)
  <2>1. IsGraph(FoundedOn) /\ DOMAIN FoundedOn = Founded
    BY FleetIsFounded DEF IsGraph
  <2>. QED  BY <2>1, AncestorsAreOrdered
<1>. HIDE DEF above
<1>3. IsHistory(commits)
  <2>1. DOMAIN commits \subseteq Ids
    BY <1>1, FleetIsFounded DEF Ids
  <2>2. IsFiniteSet(DOMAIN commits)
    <3>1. IsFiniteSet(Founded) /\ IsFiniteSet({0})
      BY FS_Subset, FS_Singleton, FleetIsFounded, NamesAreTheScopes
    <3>. QED  BY <1>1, <3>1, FS_Product
  <2>3. ASSUME NEW c \in DOMAIN commits
        PROVE  /\ c \in commits[c].anc /\ commits[c].anc \subseteq DOMAIN commits
               /\ \A d \in commits[c].anc :
                     commits[d].anc \subseteq commits[c].anc /\ (c \in commits[d].anc => c = d)
    <3>1. PICK s \in Founded : c = <<s, 0>>
      BY <1>1
    <3>2. commits[c].anc = {Creation(t) : t \in above(s)}
      BY <1>1, <3>1
    <3>3. ASSUME NEW d \in commits[c].anc
          PROVE  commits[d].anc \subseteq commits[c].anc /\ (c \in commits[d].anc => c = d)
      <4>1. PICK t \in above(s) : d = <<t, 0>>
        BY <3>2 DEF Creation
      <4>2. t \in Founded /\ commits[d].anc = {Creation(u) : u \in above(t)}
        BY <1>1, <1>2, <4>1
      <4>3. above(t) \subseteq above(s) /\ (s \in above(t) => s = t)
        BY <1>2
      <4>. QED  BY <3>1, <3>2, <4>1, <4>2, <4>3 DEF Creation
    <3>. QED  BY <1>1, <1>2, <3>1, <3>2, <3>3 DEF Creation
  <2>. QED  BY <2>1, <2>2, <2>3 DEF IsHistory
<1>4. HasTypes(commits)
  BY <1>1, FleetIsFounded DEF HasTypes, EmptyTree, Trees, Contents
<1>5. written \in [Machines -> Nat] /\ Fresh(commits, written)
  BY <1>1 DEF Init, Fresh
<1>6. /\ remote \in [Scopes -> Positions(commits)]
      /\ \A s \in Scopes : remote[s] # Gone => remote[s] \in commits[remote[s]].anc
  <2>1. ASSUME NEW s \in Scopes
        PROVE  /\ remote[s] \in Positions(commits)
               /\ remote[s] # Gone => remote[s] \in commits[remote[s]].anc
    <3>1. remote[s] = IF s \in Founded THEN <<s, 0>> ELSE Gone
      BY DEF Init, Creation
    <3>2. s \in Founded => <<s, 0>> \in DOMAIN commits
      BY <1>1
    <3>. QED  BY <1>3, <3>1, <3>2 DEF Positions, IsHistory
  <2>. QED  BY <2>1 DEF Init
<1>7. \A m \in Machines : tracked[m] = remote /\ DOMAIN local[m] = Scopes
  BY DEF Init
<1>8. tracked \in [Machines -> [Scopes -> Positions(commits)]] /\ DOMAIN local = Machines
  BY <1>6 DEF Init
<1>9. ASSUME NEW m \in Machines, NEW s \in Scopes
      PROVE  IsHead(commits, local[m][s]) /\ Holds(del, commits, local[m][s], tracked[m][s], s)
  <2>1. local[m][s] = At(remote[s]) /\ tracked[m][s] = remote[s]
    BY <1>7 DEF Init
  <2>2. /\ IsHead(commits, At(remote[s])) /\ At(remote[s]).sides = {remote[s]}
        /\ ~HasConflict(At(remote[s]))
    BY <1>6, AtIsHead
  <2>. QED  BY <1>6, <2>1, <2>2 DEF Holds, AddedIds
<1>10. rewound \subseteq Scopes
  BY DEF Init
<1>. QED  BY <1>3, <1>4, <1>5, <1>6, <1>7, <1>8, <1>9, <1>10 DEF RepoInv, HeadsInv

(* The inductive invariant holds at the start.                              *)
LEMMA InitIInv ==
    ASSUME NEW del, Init
    PROVE  IInv(del)
<1>1. RepoInv /\ HeadsInv(del)
  BY InitRepo
<1>2. RecordInv
  <2>1. NoRecord \in Records(Positions(commits))
    BY PathsExist DEF NoRecord, Records, NoCheckpoint, NoCommit, NoEdit, Positions
  <2>2. record = [m \in Machines |-> NoRecord] /\ NoRecord.commit = NoCommit
    BY DEF Init, NoRecord
  <2>. QED  BY <2>1, <2>2 DEF RecordInv
<1>3. RunInv
  BY IdleIsARun DEF Init, RunInv
<1>4. RestInv
  BY FleetIsFounded, BoundsAreNumbers DEF Init, RestInv, Creation
<1>5. PassInv(del)
  BY DEF Init, PassInv
<1>. QED  BY <1>1, <1>2, <1>3, <1>4, <1>5 DEF IInv

-----------------------------------------------------------------------------
(* Commands. *)

(* The steps that need nothing of the run they are in. *)
PlainSteps == Steps \ {"plan", "create", "delete", "place", "resolve"}

(* Steps that need nothing of their run fit any, and those of an edit of a  *)
(* scope fit that edit.                                                     *)
LEMMA PlainStepsFit ==
    ASSUME NEW r, NEW c,
           \/ r.steps \in Seq(PlainSteps)
           \/ r.steps \in Seq(Steps \ {"resolve"}) /\ r.edit.scope \in Scopes
    PROVE  r.steps \in Seq(Steps) /\ StepsFit(r, c)
BY DEF StepsFit, PlainSteps

(* A command leaves all but its own run as it was. *)
LEMMA StartsKeeps ==
    ASSUME NEW del, IInv(del), NEW m \in Machines, NEW cmd,
           NEW steps \in Seq(Steps), NEW edit \in Edits, NEW values \in Trees, Starts(m, cmd, steps, edit, values),
           StepsFit([steps |-> steps, edit |-> edit], record[m])
    PROVE  /\ RepoInv' /\ HeadsInv(del)' /\ RecordInv' /\ RunInv' /\ PassInv(del)'
           /\ UNCHANGED <<mark, stopped, failures, commits>>
<1>. DEFINE r == [Idle EXCEPT !.cmd = cmd, !.steps = steps, !.edit = edit,
                              !.answer.values = values]
<1>1. /\ cmd \in Commands /\ pass = NoPass /\ Goes(m, r)
      /\ UNCHANGED <<repo, mark, record, pass, stopped, rewound, failures>>
  BY DEF Starts, MayStart, Free, Quiet
<1>2. RepoInv' /\ HeadsInv(del)' /\ Extends(commits', commits) /\ commits' = commits
  BY <1>1, RepoRests DEF IInv, repo
<1>3. RecordInv'
  BY <1>1, <1>2, RecordRests DEF IInv
<1>4. Idle \in Runs(Positions(commits'))
  BY IdleIsARun
<1>5. r \in Runs(Positions(commits')) /\ r.steps = steps /\ r.edit = edit
  BY <1>1, <1>4 DEF Runs, Idle
<1>. HIDE DEF r
<1>6. StepsFit(r, record'[m])
  BY <1>1, <1>5 DEF StepsFit
<1>7. RunInv'
  BY <1>1, <1>2, <1>5, <1>6, RunMoves DEF IInv
<1>8. PassInv(del)'
  BY <1>1 DEF PassInv
<1>. QED  BY <1>1, <1>2, <1>3, <1>7, <1>8

(* What a command without an edit carries is typed like one.                *)
LEMMA NoEditIsAnEdit == NoEdit \in Edits /\ EmptyTree \in Trees
BY PathsExist DEF NoEdit, Edits, Contents, EmptyTree, Trees

(* Every command a machine may start keeps the invariant.                   *)
LEMMA StartKeeps ==
    ASSUME NEW del, IInv(del), NEW m \in Machines, Start(m)
    PROVE  IInv(del)'
<1>. DEFINE Kept == /\ RepoInv' /\ HeadsInv(del)' /\ RecordInv' /\ RunInv' /\ PassInv(del)'
                    /\ UNCHANGED <<mark, stopped, failures, commits>>
<1>1. ASSUME Kept, edits' \in 0..MaxEdits, answers' \in 0..MaxAnswers
      PROVE  IInv(del)'
  BY <1>1 DEF IInv, RestInv
<1>2. edits \in 0..MaxEdits /\ answers \in 0..MaxAnswers /\ MaxEdits \in Nat /\ MaxAnswers \in Nat
  BY BoundsAreNumbers DEF IInv, RestInv
<1>. HIDE DEF Kept
<1>3. ASSUME NEW cmd, NEW steps \in Seq(PlainSteps), NEW edit \in Edits,
             NEW values \in Trees, Starts(m, cmd, steps, edit, values)
      PROVE  Kept
  <2>. DEFINE r == [steps |-> steps, edit |-> edit]
  <2>1. r.steps = steps
    OBVIOUS
  <2>2. steps \in Seq(Steps) /\ StepsFit(r, record[m])
    BY <2>1, PlainStepsFit
  <2>. QED  BY <1>3, <2>2, StartsKeeps DEF Kept
<1>4. ASSUME NEW cmd, NEW steps \in Seq(Steps \ {"resolve"}), NEW edit \in Edits,
             edit.scope \in Scopes, Starts(m, cmd, steps, edit, EmptyTree)
      PROVE  Kept
  <2>. DEFINE r == [steps |-> steps, edit |-> edit]
  <2>1. r.steps = steps /\ r.edit.scope \in Scopes
    BY <1>4
  <2>2. steps \in Seq(Steps) /\ StepsFit(r, record[m])
    BY <2>1, PlainStepsFit
  <2>. QED  BY <1>4, <2>2, StartsKeeps, NoEditIsAnEdit DEF Kept
<1>5. CASE StartRead(m)
  <2>1. <<"fetch">> \in Seq(PlainSteps)
    BY DEF PlainSteps, Steps, PassSteps
  <2>. QED  BY <1>1, <1>2, <1>3, <1>5, <2>1, NoEditIsAnEdit DEF StartRead, asked
<1>6. CASE StartSync(m)
  <2>1. <<"fetch", "converge", "publish", "home">> \in Seq(PlainSteps)
    BY DEF PlainSteps, Steps, PassSteps
  <2>. QED  BY <1>1, <1>2, <1>3, <1>6, <2>1, NoEditIsAnEdit DEF StartSync, asked
<1>7. CASE StartAbort(m)
  <2>. DEFINE steps == IF record[m].commit # NoCommit THEN <<"restore", "forget", "home">>
                       ELSE <<"find", "restore", "forget", "home">>
  <2>1. steps \in Seq(PlainSteps)
    <3>1. /\ <<"restore", "forget", "home">> \in Seq(PlainSteps)
          /\ <<"find", "restore", "forget", "home">> \in Seq(PlainSteps)
      BY DEF PlainSteps, Steps, PassSteps
    <3>. QED  BY <3>1
  <2>2. Starts(m, "abort", steps, NoEdit, EmptyTree) /\ UNCHANGED asked
    BY <1>7 DEF StartAbort
  <2>. HIDE DEF steps
  <2>. QED  BY <1>1, <1>2, <1>3, <2>1, <2>2, NoEditIsAnEdit DEF asked
<1>8. ASSUME NEW s \in Scopes, NEW p \in Paths, NEW v \in Contents, StartCommit(m, s, p, v)
      PROVE  IInv(del)'
  <2>. DEFINE steps == <<"check", "fetch", "converge", "publish", "plan", "converge",
                         "publish", "home">>
              edit == [scope |-> s, path |-> p, value |-> v, on |-> {}]
  <2>1. steps \in Seq(Steps \ {"resolve"})
    BY DEF Steps, PassSteps
  <2>2. edit \in Edits /\ edit.scope \in Scopes
    BY DEF Edits
  <2>3. /\ Starts(m, "commit", steps, edit, EmptyTree)
        /\ edits < MaxEdits /\ edits' = edits + 1 /\ answers' = answers
    BY <1>8 DEF StartCommit
  <2>. HIDE DEF steps, edit
  <2>. QED  BY <1>1, <1>2, <1>4, <2>1, <2>2, <2>3
<1>9. ASSUME NEW s \in Scopes, StartDelete(m, s)
      PROVE  IInv(del)'
  <2>. DEFINE steps == <<"check", "fetch", "delete">>
              edit == [NoEdit EXCEPT !.scope = s]
  <2>1. steps \in Seq(Steps \ {"resolve"})
    BY DEF Steps, PassSteps
  <2>2. edit \in Edits /\ edit.scope \in Scopes
    BY NoEditIsAnEdit DEF Edits
  <2>3. /\ Starts(m, "delete", steps, edit, EmptyTree)
        /\ edits < MaxEdits /\ edits' = edits + 1 /\ answers' = answers
    BY <1>9 DEF StartDelete
  <2>. HIDE DEF steps, edit
  <2>. QED  BY <1>1, <1>2, <1>4, <2>1, <2>2, <2>3
<1>10. ASSUME NEW s \in Scopes, NEW on \in SUBSET Scopes, StartCreate(m, s, on)
       PROVE  IInv(del)'
  <2>. DEFINE steps == <<"check", "fetch", "create", "push">>
              edit == [NoEdit EXCEPT !.scope = s, !.on = on]
  <2>1. steps \in Seq(Steps \ {"resolve"})
    BY DEF Steps, PassSteps
  <2>2. edit \in Edits /\ edit.scope \in Scopes
    BY NoEditIsAnEdit DEF Edits
  <2>3. /\ Starts(m, "create", steps, edit, EmptyTree)
        /\ edits < MaxEdits /\ edits' = edits + 1 /\ answers' = answers
    BY <1>10 DEF StartCreate
  <2>. HIDE DEF steps, edit
  <2>. QED  BY <1>1, <1>2, <1>4, <2>1, <2>2, <2>3
<1>11. ASSUME NEW on \in SUBSET Scopes, StartJoin(m, on)
       PROVE  IInv(del)'
  <2>. DEFINE steps == <<"fetch", "create", "push", "home">>
              edit == [NoEdit EXCEPT !.scope = m, !.on = on]
  <2>1. steps \in Seq(Steps \ {"resolve"})
    BY DEF Steps, PassSteps
  <2>2. edit \in Edits /\ edit.scope \in Scopes
    BY NoEditIsAnEdit, FleetIsFounded DEF Edits
  <2>3. /\ Starts(m, "join", steps, edit, EmptyTree)
        /\ edits < MaxEdits /\ edits' = edits + 1 /\ answers' = answers
    BY <1>11 DEF StartJoin
  <2>. HIDE DEF steps, edit
  <2>. QED  BY <1>1, <1>2, <1>4, <2>1, <2>2, <2>3
<1>12. ASSUME NEW values \in Trees, StartContinue(m, values)
       PROVE  IInv(del)'
  <2>1. /\ answers < MaxAnswers /\ answers' = answers + 1 /\ edits' = edits
    BY <1>12 DEF StartContinue
  <2>2. CASE record[m].commit # NoCommit
    <3>. DEFINE steps == <<"resolve", "forget", "converge", "publish", "home">>
    <3>1. steps \in Seq(Steps)
      BY DEF Steps, PassSteps
    <3>2. StepsFit([steps |-> steps, edit |-> NoEdit], record[m])
      BY <2>2 DEF StepsFit
    <3>3. Starts(m, "continue", steps, NoEdit, values)
      BY <1>12, <2>2 DEF StartContinue
    <3>. HIDE DEF steps
    <3>4. Kept
      BY <3>1, <3>2, <3>3, NoEditIsAnEdit, StartsKeeps DEF Kept
    <3>. QED  BY <1>1, <1>2, <2>1, <3>4
  <2>3. CASE record[m].commit = NoCommit
    <3>1. <<"find">> \in Seq(PlainSteps)
      BY DEF PlainSteps, Steps, PassSteps
    <3>2. Starts(m, "continue", <<"find">>, NoEdit, values)
      BY <1>12, <2>3 DEF StartContinue
    <3>3. Kept
      BY <1>3, <3>1, <3>2, NoEditIsAnEdit
    <3>. QED  BY <1>1, <1>2, <2>1, <3>3
  <2>. QED  BY <2>2, <2>3
<1>13. \/ StartRead(m) \/ StartSync(m) \/ StartAbort(m)
       \/ \E s \in Scopes, p \in Paths, v \in Contents : StartCommit(m, s, p, v)
       \/ \E s \in Scopes : StartDelete(m, s)
       \/ \E s \in Scopes, on \in SUBSET Scopes : StartCreate(m, s, on)
       \/ \E on \in SUBSET Scopes : StartJoin(m, on)
       \/ \E values \in Trees : StartContinue(m, values)
  BY DEF Start
<1>. QED  BY <1>5, <1>6, <1>7, <1>8, <1>9, <1>10, <1>11, <1>12, <1>13

-----------------------------------------------------------------------------
(* Steps that leave the repositories as they are. *)

(* A pass rests with the repositories, or ends.                             *)
LEMMA PassRests ==
    ASSUME NEW del, PassInv(del), UNCHANGED repo, pass' = pass \/ pass' = NoPass
    PROVE  PassInv(del)'
<1>1. commits' = commits /\ written' = written /\ local' = local
  BY DEF repo
<1>. QED  BY <1>1 DEF PassInv, PassOK

(* A checkpoint has a position for every scope.                             *)
LEMMA CheckpointsAreTyped ==
    ASSUME NEW H, NEW h, \A s \in Scopes : IsHead(H, h[s])
    PROVE  Checkpoint(h) \in [Scopes -> Positions(H)]
<1>1. ASSUME NEW s \in Scopes
      PROVE  (IF HasConflict(h[s]) THEN Gone ELSE TheOne(h[s])) \in Positions(H)
  BY HeadShape DEF Positions
<1>. QED  BY <1>1 DEF Checkpoint

(* What a run at a step is, and that the step is its first.                 *)
LEMMA TheFirstStep ==
    ASSUME RunInv, NEW m \in Machines, NEW step, AtStep(m, step)
    PROVE  /\ run[m] \in Runs(Positions(commits)) /\ run[m].steps # <<>>
           /\ run[m].steps[1] = step /\ 1 \in 1..Len(run[m].steps)
           /\ StepsFit(run[m], record[m])
<1>1. run[m] \in Runs(Positions(commits)) /\ StepsFit(run[m], record[m])
  BY DEF RunInv
<1>2. run[m].steps \in Seq(Steps) /\ run[m].steps # <<>> /\ Head(run[m].steps) = step
  BY <1>1 DEF Runs, AtStep
<1>. QED  BY <1>1, <1>2

(* The run goes on, or ends, and nothing else happens but at its home and   *)
(* its record.                                                              *)
LEMMA QuietStepKeeps ==
    ASSUME NEW del, IInv(del), NEW m \in Machines, UNCHANGED <<repo, rewound>>,
           pass' = pass \/ pass' = NoPass, RecordInv', RestInv',
           \A n \in Machines \ {m} : record'[n] = record[n],
           \/ RunEnds(m)
           \/ run[m].steps # <<>> /\ Advances(m)
           \/ \E r \in Runs(Positions(commits)) : Goes(m, r) /\ StepsFit(r, record'[m])
    PROVE  IInv(del)'
<1>1. RepoInv' /\ HeadsInv(del)' /\ Extends(commits', commits) /\ commits' = commits
  BY RepoRests DEF IInv, repo
<1>2. RunInv /\ PassInv(del)
  BY DEF IInv
<1>3. RunInv'
  BY <1>1, <1>2, RunEndsFits, AdvancesFits, RunMoves
<1>4. PassInv(del)'
  BY <1>2, PassRests
<1>. QED  BY <1>1, <1>3, <1>4 DEF IInv

(* A step that touches neither repositories nor records keeps what is known *)
(* of both.                                                                 *)
LEMMA RecordAndRestRest ==
    ASSUME NEW del, IInv(del), UNCHANGED <<repo, record>>
    PROVE  RecordInv' /\ (UNCHANGED <<mark, stopped, counters>> => RestInv')
<1>1. Extends(commits', commits)
  BY DEF repo, Extends
<1>. QED  BY <1>1, RecordRests, MarkRests DEF IInv

(* The check for a waiting conflict refuses the command, or lets it go on.  *)
LEMMA CheckKeeps ==
    ASSUME NEW del, IInv(del), NEW m \in Machines, CheckRefuses(m) \/ CheckEnds(m)
    PROVE  IInv(del)'
<1>1. RecordInv' /\ RestInv'
  BY RecordAndRestRest DEF CheckRefuses, CheckEnds, IInv
<1>2. CASE CheckRefuses(m)
  BY <1>1, <1>2, QuietStepKeeps DEF CheckRefuses
<1>3. CASE CheckEnds(m)
  BY <1>1, <1>3, QuietStepKeeps DEF CheckEnds, PassEnds, AtStep
<1>. QED  BY <1>2, <1>3

(* What continue and abort do with what their pass found.                   *)
LEMMA FindKeeps ==
    ASSUME NEW del, IInv(del), NEW m \in Machines,
           \/ FoundNothing(m) \/ ContinueSettlesHome(m)
           \/ AbortFoundStop(m) \/ ContinueFoundStop(m)
    PROVE  IInv(del)'
<1>1. FindEnds(m)
  BY DEF FoundNothing, ContinueSettlesHome, AbortFoundStop, ContinueFoundStop
<1>2. /\ AtStep(m, "find") /\ pass # NoPass /\ pass' = NoPass
      /\ UNCHANGED <<repo, record, stopped, rewound, counters>>
  BY <1>1 DEF FindEnds, PassEnds
<1>3. RecordInv' /\ (mark' = mark => RestInv')
  BY <1>2, RecordAndRestRest
<1>4. run[m] \in Runs(Positions(commits)) /\ run[m].steps # <<>>
  BY <1>2, TheFirstStep DEF IInv
<1>5. Checkpoint(local[m]) \in [Scopes -> Positions(commits)]
  BY CheckpointsAreTyped DEF IInv, RepoInv
<1>6. CASE FoundNothing(m)
  BY <1>2, <1>3, <1>6, QuietStepKeeps DEF FoundNothing
<1>7. CASE AbortFoundStop(m)
  BY <1>2, <1>3, <1>4, <1>7, QuietStepKeeps DEF AbortFoundStop
<1>8. CASE ContinueSettlesHome(m)
  <2>. DEFINE r == [run[m] EXCEPT !.steps = <<"publish">>, !.checkpoint = Checkpoint(local[m])]
  <2>1. PICK c \in AddedIds(local[m][m]) : mark' = [mark EXCEPT ![m] = c]
    BY <1>8 DEF ContinueSettlesHome
  <2>2. c \in DOMAIN commits
    BY FleetIsFounded DEF IInv, RepoInv, IsHead, AddedIds, Positions
  <2>3. RestInv'
    BY <1>2, <2>1, <2>2 DEF IInv, RestInv, counters, asked, repo
  <2>4. r.steps = <<"publish">> /\ <<"publish">> \in Seq(PlainSteps) /\ <<"publish">> \in Seq(Steps)
    BY <1>4 DEF Runs, PlainSteps, Steps, PassSteps
  <2>5. r \in Runs(Positions(commits))
    BY <1>4, <1>5, <2>4 DEF Runs
  <2>6. Goes(m, r)
    BY <1>8 DEF ContinueSettlesHome
  <2>. HIDE DEF r
  <2>7. StepsFit(r, record'[m])
    BY <2>4, PlainStepsFit
  <2>. QED  BY <1>2, <1>3, <2>3, <2>5, <2>6, <2>7, QuietStepKeeps
<1>9. CASE ContinueFoundStop(m)
  <2>. DEFINE steps == <<"converge", "forget", "publish", "home">>
              saved == IF record[m].saved THEN record[m].checkpoint ELSE Checkpoint(local[m])
              r == [run[m] EXCEPT !.steps = steps, !.answer.scope = pass.stop,
                                  !.checkpoint = saved]
  <2>1. RestInv'
    BY <1>3, <1>9 DEF ContinueFoundStop
  <2>2. steps \in Seq(PlainSteps) /\ steps \in Seq(Steps)
    BY DEF PlainSteps, Steps, PassSteps
  <2>3. saved \in [Scopes -> Positions(commits)] /\ pass.stop \in Scopes \cup {NoScope}
    BY <1>2, <1>5 DEF IInv, RecordInv, Records, PassInv, PassOK
  <2>4. Goes(m, r)
    BY <1>9 DEF ContinueFoundStop
  <2>. HIDE DEF steps, saved
  <2>5. r \in Runs(Positions(commits)) /\ r.steps = steps
    BY <1>4, <2>2, <2>3 DEF Runs
  <2>. HIDE DEF r
  <2>6. StepsFit(r, record'[m])
    BY <2>2, <2>5, PlainStepsFit
  <2>. QED  BY <1>2, <1>3, <2>1, <2>4, <2>5, <2>6, QuietStepKeeps
<1>. QED  BY <1>6, <1>7, <1>8, <1>9

(* The record of a stop is written whole, and taken away whole.             *)
LEMMA SaveAndForgetKeep ==
    ASSUME NEW del, IInv(del), NEW m \in Machines, Save(m) \/ Forget(m)
    PROVE  IInv(del)'
<1>1. UNCHANGED <<repo, mark, pass, stopped, rewound, counters>> /\ run[m].steps # <<>>
  BY DEF Save, Forget, AtStep
<1>2. RestInv'
  BY <1>1 DEF IInv, RestInv, counters, asked, repo
<1>3. ASSUME NEW c \in Records(Positions(commits)), record' = [record EXCEPT ![m] = c],
             c.commit = NoCommit
      PROVE  RecordInv' /\ \A n \in Machines \ {m} : record'[n] = record[n]
  <2>1. commits' = commits
    BY <1>1 DEF repo
  <2>2. record' \in [Machines -> Records(Positions(commits))]
    BY <1>3 DEF IInv, RecordInv
  <2>3. \A n \in Machines : record'[n] = IF n = m THEN c ELSE record[n]
    BY <1>3 DEF IInv, RecordInv
  <2>. QED  BY <1>3, <2>1, <2>2, <2>3 DEF IInv, RecordInv
<1>4. NoCommit \in [scope : Scopes \cup {NoScope}, path : Paths, parent : Positions(commits)]
  BY NoEditIsAnEdit DEF NoCommit, Edits, Positions
<1>5. CASE Save(m)
  <2>. DEFINE c == [saved |-> TRUE, checkpoint |-> run[m].checkpoint, commit |-> NoCommit]
  <2>1. record' = [record EXCEPT ![m] = c] /\ RunEnds(m)
    BY <1>5 DEF Save
  <2>2. run[m].checkpoint \in [Scopes -> Positions(commits)]
    BY DEF IInv, RunInv, Runs
  <2>3. c \in Records(Positions(commits)) /\ c.commit = NoCommit
    BY <1>4, <2>2 DEF Records
  <2>. HIDE DEF c
  <2>. QED  BY <1>1, <1>2, <1>3, <2>1, <2>3, QuietStepKeeps
<1>6. CASE Forget(m)
  <2>1. NoRecord \in Records(Positions(commits)) /\ NoRecord.commit = NoCommit
    BY <1>4 DEF NoRecord, Records, NoCheckpoint, Positions
  <2>2. record' = [record EXCEPT ![m] = NoRecord] /\ Advances(m)
    BY <1>6 DEF Forget
  <2>. QED  BY <1>1, <1>2, <1>3, <2>1, <2>2, QuietStepKeeps
<1>. QED  BY <1>5, <1>6

(* A machine brings its home up to its own scope's head.                    *)
LEMMA SyncHomeKeeps ==
    ASSUME NEW del, IInv(del), NEW m \in Machines, SyncHome(m)
    PROVE  IInv(del)'
<1>1. UNCHANGED <<repo, record, pass, stopped, rewound, counters>> /\ RunEnds(m)
  BY DEF SyncHome
<1>2. m \in Scopes
  BY FleetIsFounded
<1>3. mark' \in [Machines -> DOMAIN commits]
  <2>1. mark \in [Machines -> DOMAIN commits]
    BY DEF IInv, RestInv
  <2>2. CASE mark' = mark
    BY <2>1, <2>2
  <2>3. CASE mark' # mark
    <3>1. PICK c \in AddedIds(local[m][m]) : IsOne(local[m][m], c)
      BY <2>3 DEF SyncHome
    <3>2. mark' = [mark EXCEPT ![m] = TheOne(local[m][m])]
      BY <2>3 DEF SyncHome
    <3>3. TheOne(local[m][m]) = c
      BY <3>1, OneSide DEF IsOne
    <3>4. c \in DOMAIN commits
      BY <1>2, <3>1 DEF IInv, RepoInv, IsHead, AddedIds, Positions
    <3>. QED  BY <2>1, <3>2, <3>3, <3>4
  <2>. QED  BY <2>2, <2>3
<1>4. RestInv'
  BY <1>1, <1>3 DEF IInv, RestInv, counters, asked, repo
<1>5. RecordInv'
  BY <1>1, RecordAndRestRest
<1>. QED  BY <1>1, <1>4, <1>5, QuietStepKeeps

(* A run dies, or does not reach the remote to publish.                     *)
LEMMA CutShortKeeps ==
    ASSUME NEW del, IInv(del), NEW m \in Machines, Crash(m) \/ PublishUnreachable(m)
    PROVE  IInv(del)'
<1>1. /\ UNCHANGED <<repo, mark, record, pass, stopped, rewound, asked>>
      /\ failures < MaxFailures /\ failures' = failures + 1
  BY DEF Crash, PublishUnreachable
<1>2. RecordInv'
  BY <1>1, RecordAndRestRest
<1>3. RestInv'
  BY <1>1, BoundsAreNumbers DEF IInv, RestInv, asked, repo
<1>4. CASE Crash(m)
  BY <1>1, <1>2, <1>3, <1>4, QuietStepKeeps DEF Crash
<1>5. CASE PublishUnreachable(m)
  <2>. DEFINE r == [run[m] EXCEPT !.attempt = 1, !.steps = Tail(@)]
  <2>1. PICK step \in {"publish", "push"} : AtStep(m, step)
    BY <1>5 DEF PublishUnreachable, AtPush
  <2>2. /\ run[m] \in Runs(Positions(commits)) /\ run[m].steps # <<>>
        /\ StepsFit(run[m], record[m])
    BY <2>1, TheFirstStep DEF IInv
  <2>3. Goes(m, r)
    BY <1>5 DEF PublishUnreachable
  <2>4. r.steps = Tail(run[m].steps) /\ r.edit = run[m].edit /\ run[m].steps \in Seq(Steps)
    BY <2>2 DEF Runs
  <2>5. Tail(run[m].steps) \in Seq(Steps) /\ StepsFit(r, record'[m])
    <3>. HIDE DEF r
    <3>. QED  BY <2>2, <2>4, TailFits
  <2>6. r \in Runs(Positions(commits))
    <3>1. 1 \in 1..PUSH_ATTEMPTS
      BY DEF PUSH_ATTEMPTS
    <3>. QED  BY <2>2, <2>5, <3>1 DEF Runs
  <2>. HIDE DEF r
  <2>. QED  BY <1>1, <1>2, <1>3, <2>3, <2>5, <2>6, QuietStepKeeps
<1>. QED  BY <1>4, <1>5

(* A commit is merged before anything is written: it goes on with what came *)
(* out, or is recorded as waiting.                                          *)
LEMMA PlanKeeps ==
    ASSUME NEW del, IInv(del), NEW m \in Machines, Plan(m)
    PROVE  IInv(del)'
<1>. DEFINE e == run[m].edit
            head == TheOne(local[m][e.scope])
            entry == EditMerge(m, e, head)
            lays == [run[m] EXCEPT !.steps = Tail(@),
                        !.pins = {[scope |-> e.scope, path |-> e.path,
                                   holds |-> {ValueOf(entry)}]}]
            stop == [saved |-> TRUE, checkpoint |-> run[m].checkpoint,
                     commit |-> [scope |-> e.scope, path |-> e.path, parent |-> head]]
<1>1. /\ AtStep(m, "plan")
      /\ UNCHANGED <<repo, mark, pass, stopped, rewound, counters>>
      /\ \/ RunEnds(m) /\ UNCHANGED record
         \/ Resolved(entry) /\ Goes(m, lays) /\ UNCHANGED record
         \/ /\ head # Gone /\ ~HasConflict(local[m][e.scope])
            /\ record' = [record EXCEPT ![m] = stop] /\ RunEnds(m)
  BY DEF Plan
<1>2. /\ run[m] \in Runs(Positions(commits)) /\ run[m].steps # <<>>
      /\ StepsFit(run[m], record[m]) /\ run[m].steps \in Seq(Steps)
      /\ e \in Edits /\ e.scope \in Scopes
  BY <1>1, TheFirstStep DEF IInv, StepsFit, Runs
<1>3. RestInv'
  BY <1>1 DEF IInv, RestInv, counters, asked, repo
<1>4. CASE RunEnds(m) /\ UNCHANGED record
  <2>1. RecordInv'
    BY <1>1, <1>4, RecordAndRestRest
  <2>. QED  BY <1>1, <1>3, <1>4, <2>1, QuietStepKeeps
<1>5. CASE Resolved(entry) /\ Goes(m, lays) /\ UNCHANGED record
  <2>. HIDE DEF entry
  <2>1. ValueOf(entry) \in Contents
    BY <1>5 DEF Resolved, ValueOf
  <2>2. {[scope |-> e.scope, path |-> e.path, holds |-> {ValueOf(entry)}]} \in SUBSET Pins
    BY <1>2, <2>1 DEF Pins, Edits
  <2>3. lays.steps = Tail(run[m].steps) /\ lays.edit = run[m].edit
    BY <1>2 DEF Runs
  <2>4. Tail(run[m].steps) \in Seq(Steps) /\ StepsFit(lays, record'[m])
    <3>. HIDE DEF lays
    <3>. QED  BY <1>2, <2>3, TailFits
  <2>5. lays \in Runs(Positions(commits))
    BY <1>2, <2>2, <2>4 DEF Runs
  <2>6. RecordInv'
    BY <1>1, <1>5, RecordAndRestRest
  <2>. HIDE DEF lays
  <2>. QED  BY <1>1, <1>3, <1>5, <2>4, <2>5, <2>6, QuietStepKeeps
<1>6. CASE /\ head # Gone /\ ~HasConflict(local[m][e.scope])
           /\ record' = [record EXCEPT ![m] = stop] /\ RunEnds(m)
  <2>1. head \in Positions(commits)
    BY <1>2, <1>6, HeadShape DEF IInv, RepoInv
  <2>2. stop \in Records(Positions(commits))
    BY <1>2, <2>1 DEF Records, Runs, Edits
  <2>3. stop.commit.scope \in Scopes /\ stop.commit.parent # Gone
    BY <1>2, <1>6
  <2>. HIDE DEF stop
  <2>4. \A n \in Machines : record'[n] = IF n = m THEN stop ELSE record[n]
    BY <1>6 DEF IInv, RecordInv
  <2>5. record' \in [Machines -> Records(Positions(commits))] /\ commits' = commits
    BY <1>1, <1>6, <2>2 DEF IInv, RecordInv, repo
  <2>6. RecordInv'
    BY <2>3, <2>4, <2>5 DEF IInv, RecordInv
  <2>. QED  BY <1>1, <1>3, <1>6, <2>4, <2>6, QuietStepKeeps
<1>. QED  BY <1>1, <1>4, <1>5, <1>6

-----------------------------------------------------------------------------
(* The convergence pass. *)

(* The rest of a sequence, from its k-th member on.                         *)
LEMMA RestOfSequence ==
    ASSUME NEW S, NEW q \in Seq(S), NEW k \in 1..Len(q)
    PROVE  /\ SubSeq(q, k, Len(q)) \in Seq(S) /\ k - 1 \in Nat
           /\ Len(SubSeq(q, k, Len(q))) = Len(q) - k + 1
           /\ \A i \in 1..Len(SubSeq(q, k, Len(q))) : SubSeq(q, k, Len(q))[i] = q[k + i - 1]
<1>1. /\ Len(q) \in Nat /\ k \in Int /\ Len(q) \in Int /\ k <= Len(q)
      /\ \A i \in k..Len(q) : q[i] \in S
  OBVIOUS
<1>2. /\ SubSeq(q, k, Len(q)) \in Seq(S)
      /\ Len(SubSeq(q, k, Len(q))) = Len(q) - k + 1
      /\ \A i \in 1..(Len(q) - k + 1) : SubSeq(q, k, Len(q))[i] = q[k + i - 1]
  BY <1>1, SubSeqProperties
<1>. QED  BY <1>1, <1>2

(* Scopes that are passed over leave the pass as good as it was.            *)
LEMMA PassedOver ==
    ASSUME NEW del, NEW p, PassOK(del, p), NEW t \in Seq(DOMAIN p.parents), NEW k \in Nat,
           \A i \in 1..Len(t) : i + k \in 1..Len(p.todo) /\ t[i] = p.todo[i + k]
    PROVE  PassOK(del, [p EXCEPT !.todo = t])
<1>. DEFINE q == [p EXCEPT !.todo = t]
<1>0. IsPass(p)
  BY DEF PassOK
<1>1. /\ q.by = p.by /\ q.heads = p.heads /\ q.before = p.before /\ q.parents = p.parents
      /\ q.todo = t /\ q.moved = p.moved /\ q.stop = p.stop /\ q.commits = p.commits
      /\ q.written = p.written
      /\ IsPass(q)
  BY <1>0 DEF IsPass
<1>. HIDE DEF q
<1>2. \A i, j \in 1..Len(t) : t[i] = t[j] => i = j
  <2>. SUFFICES ASSUME NEW i \in 1..Len(t), NEW j \in 1..Len(t), t[i] = t[j]
                PROVE  i = j
    OBVIOUS
  <2>1. i + k = j + k
    BY DEF PassOK
  <2>. QED  BY <2>1
<1>3. del = "stand" => \A i \in 1..Len(t) : p.heads[t[i]] = local[p.by][t[i]]
  BY DEF PassOK
<1>4. PassOK(del, q)
  BY <1>1, <1>2, <1>3 DEF PassOK
<1>. QED  BY <1>4 DEF q

(* A pass that goes on to the next scope due is as good as it was.          *)
LEMMA GoesOnKeeps ==
    ASSUME NEW del, NEW p, PassOK(del, p), PassGoesOn(p), UNCHANGED repo
    PROVE  PassInv(del)'
<1>. DEFINE due == {i \in 1..Len(p.todo) : ~AtRest(p, p.todo[i])}
            k == CHOOSE i \in due : \A j \in due : i <= j
            t == IF due = {} THEN <<>> ELSE SubSeq(p.todo, k, Len(p.todo))
<1>1. pass' = [p EXCEPT !.todo = t]
  BY DEF PassGoesOn
<1>2. p.todo \in Seq(DOMAIN p.parents) /\ due \in SUBSET Nat
  BY DEF PassOK
<1>3. due # {} => k \in due
  <2>. HIDE DEF due
  <2>1. due # {} => \E i \in due : \A j \in due : i <= j
    BY <1>2, LeastNumber
  <2>. QED  BY <2>1
<1>4. PassOK(del, [p EXCEPT !.todo = t])
  <2>1. CASE due = {}
    <3>1. t = <<>> /\ t \in Seq(DOMAIN p.parents) /\ Len(t) = 0
      BY <2>1
    <3>. HIDE DEF t
    <3>2. \A i \in 1..Len(t) : i + 0 \in 1..Len(p.todo) /\ t[i] = p.todo[i + 0]
      BY <3>1
    <3>. QED  BY <3>1, <3>2, PassedOver
  <2>2. CASE due # {}
    <3>1. k \in 1..Len(p.todo) /\ t = SubSeq(p.todo, k, Len(p.todo))
      BY <1>3, <2>2
    <3>. HIDE DEF t, k, due
    <3>2. /\ t \in Seq(DOMAIN p.parents) /\ k - 1 \in Nat
          /\ Len(t) = Len(p.todo) - k + 1
          /\ \A i \in 1..Len(t) : t[i] = p.todo[k + i - 1]
      BY <1>2, <3>1, RestOfSequence
    <3>3. \A i \in 1..Len(t) : i + (k - 1) \in 1..Len(p.todo) /\ t[i] = p.todo[i + (k - 1)]
      <4>1. k \in Nat /\ Len(p.todo) \in Nat /\ k <= Len(p.todo) /\ 1 <= k
        BY <1>2, <3>1
      <4>2. Len(t) \in Nat /\ Len(t) = Len(p.todo) - k + 1
        BY <3>2
      <4>. SUFFICES ASSUME NEW i \in 1..Len(t)
                    PROVE  /\ i + (k - 1) \in 1..Len(p.todo)
                           /\ t[i] = p.todo[i + (k - 1)]
        OBVIOUS
      <4>3. t[i] = p.todo[k + i - 1] /\ i \in Nat /\ 1 <= i /\ i <= Len(t)
        BY <3>2, <4>2
      <4>4. k + i - 1 = i + (k - 1)
        BY <4>1, <4>3
      <4>5. i + (k - 1) \in 1..Len(p.todo)
        BY <4>1, <4>2, <4>3
      <4>. QED  BY <4>3, <4>4, <4>5
    <3>. DEFINE n == k - 1
    <3>. HIDE DEF n
    <3>4. n \in Nat /\ \A i \in 1..Len(t) : i + n \in 1..Len(p.todo) /\ t[i] = p.todo[i + n]
      BY <3>2, <3>3 DEF n
    <3>. QED  BY <3>2, <3>4, PassedOver
  <2>. QED  BY <2>1, <2>2
<1>5. commits' = commits /\ written' = written /\ local' = local
  BY DEF repo
<1>. HIDE DEF t
<1>6. PassOK(del, pass')
  BY <1>1, <1>4
<1>. QED  BY <1>5, <1>6 DEF PassInv, PassOK

(* A scope is in the graph for a commit its own head has. *)
LEMMA MembersHaveHeads ==
    ASSUME NEW m
    PROVE  /\ DOMAIN Parents(m) \subseteq Scopes
           /\ \A s \in DOMAIN Parents(m) : /\ Parents(m)[s] \subseteq DOMAIN Parents(m)
                                           /\ AddedIds(local[m][s]) # {}
<1>. DEFINE members == MembersOf(commits, local[m])
            reached == Reached(commits, local[m])
<1>1. DOMAIN reached = members /\ \A s \in members : reached[s] \subseteq members
  BY DEF Reached
<1>2. DOMAIN Parents(m) = members /\ \A s \in members : Parents(m)[s] \subseteq reached[s]
  BY <1>1 DEF Parents, ParentsOf
<1>3. \A s \in members : s \in Scopes /\ AddedIds(local[m][s]) # {}
  BY DEF MembersOf, Created, AncestorsOf
<1>. QED  BY <1>1, <1>2, <1>3

(* A pass begins at the machine's own heads, with every scope of an acyclic *)
(* graph to come.                                                           *)
LEMMA PassBegins ==
    ASSUME NEW del, IInv(del), NEW m \in Machines, IsDag(Parents(m))
    PROVE  PassOK(del, [by |-> m, heads |-> local[m], before |-> local[m],
                        parents |-> Parents(m), todo |-> CascadeOrder(Parents(m)),
                        moved |-> FALSE, stop |-> NoScope, commits |-> commits,
                        written |-> written[m]])
<1>. DEFINE order == CascadeOrder(Parents(m))
<1>1. /\ order \in Seq(DOMAIN Parents(m))
      /\ \A i, j \in 1..Len(order) : order[i] = order[j] => i = j
  BY DEF IsDag
<1>2. /\ DOMAIN Parents(m) \subseteq Scopes
      /\ \A s \in DOMAIN Parents(m) : Parents(m)[s] \subseteq Scopes
                                      /\ AddedIds(local[m][s]) # {}
  BY MembersHaveHeads
<1>3. /\ IsHistory(commits) /\ HasTypes(commits) /\ Extends(commits, commits)
      /\ written[m] \in Nat /\ written[m] <= written[m] /\ Fresh(commits, written)
      /\ [written EXCEPT ![m] = written[m]] = written
  BY DEF IInv, RepoInv, Extends
<1>4. /\ DOMAIN local[m] = Scopes
      /\ \A s \in Scopes : /\ IsHead(commits, local[m][s])
                            /\ Carries(del, commits, local[m][s], local[m][s])
  BY DEF IInv, RepoInv, Carries
<1>. HIDE DEF order
<1>5. PassOK(del, [by |-> m, heads |-> local[m], before |-> local[m],
                   parents |-> Parents(m), todo |-> order, moved |-> FALSE,
                   stop |-> NoScope, commits |-> commits, written |-> written[m]])
  BY <1>1, <1>2, <1>3, <1>4 DEF PassOK, IsPass
<1>. QED  BY <1>5 DEF order

(* Or the graph is refused: nothing else is changed.                        *)
LEMMA TransactsKeeps ==
    ASSUME NEW del, IInv(del), NEW m \in Machines, Transacts(m)
    PROVE  IInv(del)'
<1>1. UNCHANGED <<repo, mark, record, stopped, rewound, counters>>
  BY DEF Transacts
<1>2. RecordInv' /\ RestInv'
  BY <1>1, RecordAndRestRest
<1>3. CASE RunEnds(m) /\ UNCHANGED pass
  BY <1>1, <1>2, <1>3, QuietStepKeeps
<1>4. CASE IsDag(Parents(m)) /\ UNCHANGED run
  <2>. DEFINE p == [by |-> m, heads |-> local[m], before |-> local[m],
                    parents |-> Parents(m), todo |-> CascadeOrder(Parents(m)),
                    moved |-> FALSE, stop |-> NoScope, commits |-> commits,
                    written |-> written[m]]
  <2>1. PassOK(del, p)
    BY <1>4, PassBegins
  <2>2. PassGoesOn(p)
    BY <1>1, <1>4 DEF Transacts
  <2>. HIDE DEF p
  <2>3. PassInv(del)'
    BY <1>1, <2>1, <2>2, GoesOnKeeps
  <2>4. RepoInv' /\ HeadsInv(del)' /\ commits' = commits
    BY <1>1, RepoRests DEF IInv, repo
  <2>5. RunInv'
    BY <1>1, <1>4, <2>4 DEF IInv, RunInv
  <2>. QED  BY <1>2, <2>3, <2>4, <2>5 DEF IInv
<1>. QED  BY <1>1, <1>3, <1>4 DEF Transacts

(* G is H with the commit new, on those of ids, as id.                      *)
CommitsOne(G, H, id, new, ids) ==
    /\ G = [i \in DOMAIN H \cup {id} |-> IF i = id THEN new ELSE H[i]]
    /\ new.anc = {id} \cup AncestorsOf(H, ids) /\ new.tree \in Trees
    /\ new.wrote \subseteq Paths /\ new.creates \in Scopes \cup {NoScope}

(* The same with the next id of m, which has written w[m] commits of H.     *)
CommitsNext(G, H, w, m, id, new, ids) ==
    /\ IsHistory(H) /\ HasTypes(H)
    /\ w \in [Machines -> Nat] /\ Fresh(H, w)
    /\ m \in Machines /\ id = <<m, w[m] + 1>>
    /\ ids \subseteq DOMAIN H /\ CommitsOne(G, H, id, new, ids)

(* What that makes: a history, in which m has written one commit more.      *)
IsGrown(G, H, w, m, id, new) ==
    /\ IsHistory(G) /\ HasTypes(G) /\ Extends(G, H)
    /\ w[m] + 1 \in Nat /\ Fresh(G, [w EXCEPT ![m] = w[m] + 1])
    /\ id \in DOMAIN G /\ G[id] = new

(* A commit with the machine's next id makes a history of a history.        *)
LEMMA CommitAdded ==
    ASSUME NEW H, NEW w, NEW m, NEW ids, NEW new, NEW G, NEW id,
           CommitsNext(G, H, w, m, id, new, ids)
    PROVE  IsGrown(G, H, w, m, id, new)
<1>. DEFINE k == w[m] + 1
<1>0. /\ G = [i \in DOMAIN H \cup {id} |-> IF i = id THEN new ELSE H[i]]
      /\ new.anc = {id} \cup AncestorsOf(H, ids) /\ new.tree \in Trees
      /\ new.wrote \subseteq Paths /\ new.creates \in Scopes \cup {NoScope}
      /\ IsHistory(H) /\ HasTypes(H)
      /\ w \in [Machines -> Nat] /\ Fresh(H, w)
      /\ m \in Machines /\ id = <<m, w[m] + 1>> /\ ids \in SUBSET DOMAIN H
  BY DEF CommitsOne, CommitsNext
<1>1. k \in Nat /\ w[m] \in Nat /\ k > w[m] /\ id \in Ids /\ id[1] = m /\ id[2] = k
  BY <1>0, FleetIsFounded DEF Ids
<1>. HIDE DEF k
<1>2. id \notin DOMAIN H
  BY <1>0, <1>1 DEF Fresh
<1>3. Adds(G, H, id, ids)
  BY <1>0, <1>2 DEF Adds
<1>4. IsHistory(G) /\ Extends(G, H)
  BY <1>0, <1>1, <1>2, <1>3, HistoryGrows
<1>5. HasTypes(G)
  BY <1>0 DEF HasTypes
<1>6. Fresh(G, [w EXCEPT ![m] = k])
  <2>1. ASSUME NEW c \in DOMAIN G, c[1] \in Machines
        PROVE  c[2] <= [w EXCEPT ![m] = k][c[1]]
    <3>1. CASE c = id
      BY <1>0, <1>1, <3>1
    <3>2. CASE c # id
      <4>1. c[2] <= w[c[1]] /\ c[2] \in Nat
        BY <1>0, <2>1, <3>2 DEF Fresh, IsHistory, Ids
      <4>2. CASE c[1] = m
        BY <1>0, <1>1, <4>1, <4>2
      <4>3. CASE c[1] # m
        BY <1>0, <2>1, <4>1, <4>3
      <4>. QED  BY <4>2, <4>3
    <3>. QED  BY <3>1, <3>2
  <2>. QED  BY <2>1 DEF Fresh
<1>. QED  BY <1>0, <1>1, <1>4, <1>5, <1>6 DEF k, IsGrown

(* Everything a scope's new head has to account for is below an input.      *)
LEMMA InputsReach ==
    ASSUME NEW del, NEW p, PassOK(del, p), NEW s \in DOMAIN p.parents
    PROVE  /\ Inputs(p, s) \subseteq DOMAIN p.commits
           /\ \A t \in {s} \cup p.parents[s] : \A c \in AddedIds(p.heads[t]) :
                 \E d \in Inputs(p, s) : c \in p.commits[d].anc
<1>. DEFINE ids == UNION {AddedIds(p.heads[t]) : t \in {s} \cup p.parents[s]}
<1>1. \A t \in {s} \cup p.parents[s] : AddedIds(p.heads[t]) \subseteq DOMAIN p.commits
  BY DEF PassOK, IsHead, AddedIds, Positions
<1>2. /\ ids \in SUBSET DOMAIN p.commits
      /\ \A t \in {s} \cup p.parents[s] : AddedIds(p.heads[t]) \subseteq ids
  BY <1>1
<1>3. IsHistory(p.commits) /\ Inputs(p, s) = HeadsOf(p.commits, ids)
  BY DEF PassOK, Inputs
<1>. HIDE DEF ids
<1>4. Inputs(p, s) \subseteq DOMAIN p.commits
  BY <1>2, <1>3, HeadsAreSome
<1>5. ASSUME NEW t \in {s} \cup p.parents[s], NEW c \in AddedIds(p.heads[t])
      PROVE  \E d \in Inputs(p, s) : c \in p.commits[d].anc
  <2>1. c \in ids
    BY <1>2
  <2>. QED  BY <1>2, <1>3, <2>1, HeadsReachAll
<1>. QED  BY <1>4, <1>5

(* Pass q is p with the head of its next scope moved to u, in history H.    *)
Moves(q, p, s, u, H, w) ==
    /\ IsPass(q)
    /\ q.by = p.by /\ q.parents = p.parents /\ q.stop = p.stop
    /\ q.heads = [p.heads EXCEPT ![s] = u] /\ q.todo = Tail(p.todo)
    /\ q.commits = H /\ q.written = w

(* What the pass makes of itself at a scope that moves is such a move.      *)
LEMMA IsAMove ==
    ASSUME NEW p, IsPass(p), NEW s, NEW u, NEW v, NEW n, NEW c
    PROVE  /\ Moves([p EXCEPT !.heads[s] = u, !.todo = Tail(@), !.moved = v],
                    p, s, u, p.commits, p.written)
           /\ Moves([p EXCEPT !.heads[s] = u, !.todo = Tail(@), !.moved = v,
                             !.written = n, !.commits = c], p, s, u, c, n)
<1>. DEFINE h == [p.heads EXCEPT ![s] = u]
            t == Tail(p.todo)
            pass5(a, b, d, e, f) ==
                [by |-> p.by, heads |-> a, before |-> p.before, parents |-> p.parents,
                 todo |-> b, moved |-> d, stop |-> p.stop, commits |-> e, written |-> f]
<1>1. p = pass5(p.heads, p.todo, p.moved, p.commits, p.written)
  BY DEF IsPass
<1>2. /\ [p EXCEPT !.heads[s] = u, !.todo = Tail(@), !.moved = v]
            = [p EXCEPT !.heads = h, !.todo = t, !.moved = v]
      /\ [p EXCEPT !.heads[s] = u, !.todo = Tail(@), !.moved = v, !.written = n, !.commits = c]
            = [p EXCEPT !.heads = h, !.todo = t, !.moved = v, !.written = n, !.commits = c]
  OBVIOUS
<1>. HIDE DEF h, t
<1>. DEFINE p1 == [p EXCEPT !.heads = h]
            p2 == [p1 EXCEPT !.todo = t]
            p3 == [p2 EXCEPT !.moved = v]
            p4 == [p3 EXCEPT !.written = n]
            p5 == [p4 EXCEPT !.commits = c]
<1>3. /\ [p EXCEPT !.heads = h, !.todo = t, !.moved = v] = p3
      /\ [p EXCEPT !.heads = h, !.todo = t, !.moved = v, !.written = n, !.commits = c] = p5
  OBVIOUS
<1>4. p1 = pass5(h, p.todo, p.moved, p.commits, p.written)
  BY <1>1
<1>. HIDE DEF p1
<1>5. p2 = pass5(h, t, p.moved, p.commits, p.written)
  BY <1>4
<1>. HIDE DEF p2
<1>6. p3 = pass5(h, t, v, p.commits, p.written)
  BY <1>5
<1>. HIDE DEF p3
<1>7. p4 = pass5(h, t, v, p.commits, n)
  BY <1>6
<1>. HIDE DEF p4
<1>8. p5 = pass5(h, t, v, c, n)
  BY <1>7
<1>. HIDE DEF p5
<1>9. \A e, f : Moves(pass5(h, t, v, e, f), p, s, u, e, f)
  BY DEF Moves, IsPass, h, t
<1>. QED  BY <1>2, <1>3, <1>6, <1>8, <1>9

(* The next scope's head is moved, to what it may be made of it.            *)
LEMMA NextHeadMoves ==
    ASSUME NEW del, NEW p, PassOK(del, p), p.todo # <<>>, NEW s, s = Head(p.todo),
           NEW H, IsHistory(H), HasTypes(H), Extends(H, p.commits),
           NEW w \in Nat, p.written <= w, Fresh(H, [written EXCEPT ![p.by] = w]),
           NEW u, IsHead(H, u), Carries(del, H, local[p.by][s], u),
           RepoInv, NEW q, Moves(q, p, s, u, H, w)
    PROVE  PassOK(del, q)
<1>1. /\ q.by = p.by /\ q.heads = [p.heads EXCEPT ![s] = u]
      /\ q.parents = p.parents /\ q.todo = Tail(p.todo)
      /\ q.stop = p.stop /\ q.commits = H /\ q.written = w
      /\ IsPass(q)
  BY DEF Moves
<1>2. p.todo \in Seq(DOMAIN p.parents) /\ DOMAIN p.parents \subseteq Scopes
  BY DEF PassOK
<1>3. /\ Tail(p.todo) \in Seq(DOMAIN p.parents) /\ Len(Tail(p.todo)) = Len(p.todo) - 1
      /\ \A i \in 1..Len(Tail(p.todo)) : i + 1 \in 1..Len(p.todo)
                                         /\ Tail(p.todo)[i] = p.todo[i + 1]
      /\ s = p.todo[1] /\ s \in Scopes /\ 1 \in 1..Len(p.todo)
  <2>. DEFINE todo == p.todo
  <2>1. todo \in Seq(DOMAIN p.parents) /\ todo # <<>> /\ s = Head(todo)
    BY <1>2
  <2>. HIDE DEF todo
  <2>2. /\ Head(todo) \in DOMAIN p.parents /\ Tail(todo) \in Seq(DOMAIN p.parents)
        /\ Len(Tail(todo)) = Len(todo) - 1 /\ Len(todo) \in Nat
        /\ \A i \in 1..Len(Tail(todo)) : Tail(todo)[i] = todo[i + 1]
    BY <2>1, HeadTailProperties
  <2>3. Head(todo) = todo[1] /\ 1 \in 1..Len(todo)
    BY <2>1
  <2>. QED  BY <1>2, <2>1, <2>2, <2>3 DEF todo
<1>4. \A i, j \in 1..Len(Tail(p.todo)) : Tail(p.todo)[i] = Tail(p.todo)[j] => i = j
  <2>. SUFFICES ASSUME NEW i \in 1..Len(Tail(p.todo)), NEW j \in 1..Len(Tail(p.todo)),
                       Tail(p.todo)[i] = Tail(p.todo)[j]
                PROVE  i = j
    OBVIOUS
  <2>1. i + 1 = j + 1
    BY <1>3 DEF PassOK
  <2>. QED  BY <2>1
<1>5. DOMAIN q.heads = Scopes /\ \A t \in Scopes : q.heads[t] = IF t = s THEN u ELSE p.heads[t]
  BY <1>1, <1>3 DEF PassOK
<1>6. ASSUME del = "stand", NEW i \in 1..Len(Tail(p.todo))
      PROVE  q.heads[Tail(p.todo)[i]] = local[p.by][Tail(p.todo)[i]]
  <2>1. Tail(p.todo)[i] = p.todo[i + 1] /\ i + 1 \in 1..Len(p.todo)
    BY <1>3
  <2>2. p.todo[i + 1] # s /\ p.todo[i + 1] \in Scopes
    <3>1. i + 1 # 1
      OBVIOUS
    <3>2. p.todo[i + 1] = p.todo[1] => i + 1 = 1
      BY <1>3, <2>1 DEF PassOK
    <3>. QED  BY <1>2, <1>3, <2>1, <3>1, <3>2
  <2>. QED  BY <1>5, <1>6, <2>1, <2>2 DEF PassOK
<1>7. ASSUME NEW t \in Scopes
      PROVE  IsHead(H, q.heads[t]) /\ Carries(del, H, local[p.by][t], q.heads[t])
  <2>1. IsHead(p.commits, p.heads[t]) /\ Carries(del, p.commits, local[p.by][t], p.heads[t])
    BY DEF PassOK
  <2>2. IsHead(H, p.heads[t])
    BY <2>1, PositionsGrow DEF IsHead
  <2>3. Carries(del, H, local[p.by][t], p.heads[t])
    BY <2>1 DEF Carries, Extends
  <2>. QED  BY <1>5, <2>2, <2>3
<1>8. Extends(H, commits)
  BY DEF PassOK, Extends
<1>9. written[p.by] <= w
  BY DEF PassOK, RepoInv
<1>. QED  BY <1>1, <1>3, <1>4, <1>5, <1>6, <1>7, <1>8, <1>9 DEF PassOK

(* A step that moves nothing but the pass keeps the rest.                   *)
LEMMA PassOnlyKeeps ==
    ASSUME NEW del, IInv(del), PassInv(del)',
           UNCHANGED <<repo, mark, record, run, stopped, rewound, counters>>
    PROVE  IInv(del)'
<1>1. RepoInv' /\ HeadsInv(del)' /\ commits' = commits
  BY RepoRests DEF IInv, repo
<1>2. RecordInv' /\ RestInv'
  BY RecordAndRestRest
<1>3. RunInv'
  BY <1>1 DEF IInv, RunInv
<1>. QED  BY <1>1, <1>2, <1>3 DEF IInv

(* The turn of scope s makes q of the pass, and u of its head: a deletion,  *)
(* of one that is contested with one, or a commit that holds what the head  *)
(* and the parents do; and it notes that something moved if something did.  *)
Turns(del, q, s, u, H, w) ==
    /\ Moves(q, pass, s, u, H, w)
    /\ IsHistory(H) /\ HasTypes(H) /\ Extends(H, pass.commits)
    /\ w \in Nat /\ pass.written <= w /\ Fresh(H, [written EXCEPT ![pass.by] = w])
    /\ IsHead(H, u) /\ Carries(del, H, local[pass.by][s], u)
    /\ \/ u = At(Gone) /\ DeletedOnOneSide(pass.heads[s])
       \/ \E c \in DOMAIN H :
             /\ u = At(c)
             /\ \A t \in {s} \cup pass.parents[s] : AddedIds(pass.heads[t]) \subseteq H[c].anc
    /\ ~q.moved => ~pass.moved /\ H = pass.commits /\ u.sides = pass.heads[s].sides

(* A scope has its turn like that, or the pass stops at it.                 *)
LEMMA ScopeTurns ==
    ASSUME NEW del, IInv(del), NEW s \in Scopes, ConvergeScope(s)
    PROVE  \/ pass' = [pass EXCEPT !.stop = s]
           \/ \E q, u, H, w : Turns(del, q, s, u, H, w) /\ PassGoesOn(q)
<1>. DEFINE b == pass.by
            t == local[b][s]
            h == pass.heads[s]
            account(H, c) ==
                \A v \in {s} \cup pass.parents[s] : AddedIds(pass.heads[v]) \subseteq H[c].anc
<1>1. pass # NoPass /\ pass.todo # <<>> /\ s = Head(pass.todo)
  BY DEF ConvergeScope, Converges
<1>2. PassOK(del, pass) /\ IsPass(pass) /\ RepoInv /\ b \in Machines
  BY <1>1 DEF IInv, PassInv, PassOK
<1>3. s \in DOMAIN pass.parents /\ s \in Scopes /\ (del = "stand" => h = t)
  <2>1. pass.todo \in Seq(DOMAIN pass.parents)
    BY <1>2 DEF PassOK
  <2>2. s = pass.todo[1] /\ 1 \in 1..Len(pass.todo) /\ s \in DOMAIN pass.parents
    BY <1>1, <2>1
  <2>. QED  BY <1>2, <2>2 DEF PassOK
<1>4. /\ IsHistory(pass.commits) /\ HasTypes(pass.commits)
      /\ Extends(pass.commits, pass.commits) /\ pass.written \in Nat
      /\ pass.written <= pass.written
      /\ Fresh(pass.commits, [written EXCEPT ![b] = pass.written])
      /\ AddedIds(t) # {} /\ IsHead(pass.commits, h)
      /\ Carries(del, pass.commits, t, h)
  BY <1>2, <1>3 DEF PassOK, Extends
<1>5. IsHead(pass.commits, t)
  <2>1. IsHead(commits, t) /\ Extends(pass.commits, commits)
    BY <1>2, <1>3 DEF RepoInv, PassOK
  <2>. QED  BY <2>1, PositionsGrow DEF IsHead
<1>6. CASE ScopeIsDeleted(s)
  <2>. DEFINE q == [pass EXCEPT !.heads[s] = At(Gone), !.todo = Tail(@), !.moved = TRUE]
  <2>1. DeletedOnOneSide(h) /\ PassGoesOn(q)
    BY <1>6 DEF ScopeIsDeleted
  <2>2. HasConflict(t) /\ Gone \in t.sides
    <3>. HIDE DEF t, h
    <3>1. h = t
      BY <1>3, <1>4, <1>5, <2>1, CarriedOn
    <3>. QED  BY <2>1, <3>1 DEF DeletedOnOneSide
  <2>3. IsHead(pass.commits, At(Gone)) /\ Carries(del, pass.commits, t, At(Gone))
    BY <2>2, AtIsHead DEF Carries, Positions
  <2>4. Moves(q, pass, s, At(Gone), pass.commits, pass.written)
    BY <1>2, IsAMove, Zenon
  <2>5. q.moved
    BY <1>2 DEF IsPass
  <2>. HIDE DEF q
  <2>6. Turns(del, q, s, At(Gone), pass.commits, pass.written)
    BY <1>4, <2>1, <2>3, <2>4, <2>5 DEF Turns
  <2>. QED  BY <2>1, <2>6
<1>7. ASSUME ~DeletedOnOneSide(pass.heads[s]), NEW laid, laid = Laid(s),
             NEW inputs, inputs = Inputs(pass, s),
             \/ ScopeFollows(s, laid, inputs) \/ ScopeMerges(s, laid, inputs)
             \/ ScopeStops(s, laid, inputs)
      PROVE  \/ pass' = [pass EXCEPT !.stop = s]
             \/ \E q, u, H, w : Turns(del, q, s, u, H, w) /\ PassGoesOn(q)
  <2>1. /\ inputs \subseteq DOMAIN pass.commits
        /\ \A v \in {s} \cup pass.parents[s] : \A c \in AddedIds(pass.heads[v]) :
              \E d \in inputs : c \in pass.commits[d].anc
    BY <1>2, <1>3, <1>7, InputsReach
  <2>2. ASSUME NEW H, IsHistory(H), Extends(H, pass.commits), NEW c \in DOMAIN H,
               account(H, c)
        PROVE  IsHead(H, At(c)) /\ Carries(del, H, t, At(c))
    <3>1. AddedIds(h) \subseteq H[c].anc
      BY <2>2
    <3>. HIDE DEF t, h
    <3>2. IsHead(H, t) /\ IsHead(H, h)
      BY <1>4, <1>5, <2>2, PositionsGrow DEF IsHead
    <3>3. Carries(del, H, t, h)
      BY <1>4, <2>2 DEF Carries, Extends
    <3>4. ~DeletedOnOneSide(h)
      BY <1>7 DEF h
    <3>5. Carries(del, H, t, At(c))
      BY <1>3, <1>4, <2>2, <3>1, <3>2, <3>3, <3>4, CarriedOn
    <3>. QED  BY <2>2, <3>5, AtIsHead DEF Positions
  <2>3. CASE ScopeFollows(s, laid, inputs)
    <3>1. PICK c \in inputs : inputs = {c}
      BY <2>3 DEF ScopeFollows, Follows
    <3>2. c = CHOOSE d \in inputs : TRUE
      BY <3>1
    <3>. DEFINE q == [pass EXCEPT !.heads[s] = At(c), !.todo = Tail(@),
                                  !.moved = @ \/ ~IsOne(pass.heads[s], c)]
    <3>3. c \in DOMAIN pass.commits /\ account(pass.commits, c)
      BY <2>1, <3>1
    <3>4. IsHead(pass.commits, At(c)) /\ Carries(del, pass.commits, t, At(c))
      BY <1>4, <2>2, <3>3
    <3>5. Moves(q, pass, s, At(c), pass.commits, pass.written)
      BY <1>2, IsAMove, Zenon
    <3>6. PassGoesOn(q)
      BY <2>3, <3>2 DEF ScopeFollows
    <3>7. ~q.moved => ~pass.moved /\ At(c).sides = pass.heads[s].sides
      <4>1. q.moved = (pass.moved \/ ~IsOne(pass.heads[s], c))
        BY <1>2 DEF IsPass
      <4>. HIDE DEF q
      <4>. QED  BY <4>1 DEF IsOne, At
    <3>. HIDE DEF q
    <3>8. Turns(del, q, s, At(c), pass.commits, pass.written)
      BY <1>4, <3>3, <3>4, <3>5, <3>7 DEF Turns
    <3>. QED  BY <3>6, <3>8
  <2>4. CASE ScopeMerges(s, laid, inputs)
    <3>. DEFINE k == pass.written + 1
                id == <<pass.by, k>>
                wrote == {p \in PinnedAt(s) \cup AnsweredAt(s) : laid[p] # Merged(s)[p]}
                tree == [p \in Paths |-> ValueOf(laid[p])]
                commit == [anc   |-> {id} \cup AncestorsOf(pass.commits, inputs),
                           tree  |-> tree, wrote |-> wrote, creates |-> NoScope]
                more == [i \in DOMAIN pass.commits \cup {id} |->
                           IF i = id THEN commit ELSE pass.commits[i]]
                q == [pass EXCEPT !.heads[s] = At(id), !.todo = Tail(@), !.moved = TRUE,
                                  !.written = k, !.commits = more]
    <3>1. PassGoesOn(q)
      BY <2>4, <1>2 DEF ScopeMerges, PassOK
    <3>2. tree \in Trees
      <4>1. \A p \in Paths : Resolved(laid[p])
        BY <2>4 DEF ScopeMerges
      <4>2. \A p \in Paths : ValueOf(laid[p]) \in Contents
        BY <4>1 DEF Resolved, ValueOf
      <4>. QED  BY <4>2 DEF Trees
    <3>3. wrote \subseteq Paths
      <4>1. run[b].pins \subseteq Pins
        BY <1>2 DEF IInv, RunInv, Runs
      <4>2. PinnedAt(s) \subseteq Paths /\ AnsweredAt(s) \subseteq Paths
        BY <4>1 DEF PinnedAt, PinsAt, Pins, AnsweredAt
      <4>. QED  BY <4>2
    <3>. HIDE DEF tree, wrote
    <3>4. /\ commit.anc = {id} \cup AncestorsOf(pass.commits, inputs)
          /\ commit.tree \in Trees /\ commit.wrote \subseteq Paths
          /\ commit.creates \in Scopes \cup {NoScope}
      BY <3>2, <3>3
    <3>. DEFINE w == [written EXCEPT ![b] = pass.written]
    <3>5. w \in [Machines -> Nat] /\ k = w[b] + 1 /\ [w EXCEPT ![b] = k] = [written EXCEPT ![b] = k]
      BY <1>2, <1>4 DEF RepoInv
    <3>. HIDE DEF commit, w
    <3>6. /\ IsHistory(more) /\ HasTypes(more) /\ Extends(more, pass.commits)
          /\ k \in Nat /\ Fresh(more, [w EXCEPT ![b] = k])
          /\ id \in DOMAIN more /\ more[id] = commit
      <4>1. CommitsOne(more, pass.commits, id, commit, inputs) /\ id = <<b, w[b] + 1>>
        BY <3>4, <3>5 DEF CommitsOne
      <4>2. Fresh(pass.commits, w) /\ inputs \subseteq DOMAIN pass.commits
        BY <1>4, <2>1 DEF w
      <4>. HIDE DEF more, id, k
      <4>3. CommitsNext(more, pass.commits, w, b, id, commit, inputs)
        BY <1>2, <1>4, <3>5, <4>1, <4>2 DEF CommitsNext
      <4>4. IsGrown(more, pass.commits, w, b, id, commit)
        BY <4>3, CommitAdded, Zenon
      <4>. QED  BY <3>5, <4>4 DEF IsGrown
    <3>7. account(more, id)
      <4>. HIDE DEF more, id
      <4>. QED  BY <2>1, <3>4, <3>6 DEF AncestorsOf
    <3>8. Carries(del, more, t, At(id)) /\ IsHead(more, At(id))
      <4>. HIDE DEF more, id, account
      <4>. QED  BY <2>2, <3>6, <3>7
    <3>9. pass.written <= k
      BY <1>4
    <3>10. q.moved
      BY <1>2 DEF IsPass
    <3>11. Moves(q, pass, s, At(id), more, k)
      BY <1>2, IsAMove, Zenon
    <3>. HIDE DEF more, id, k
    <3>12. Fresh(more, [written EXCEPT ![b] = k])
      BY <3>5, <3>6
    <3>. HIDE DEF q
    <3>13. Turns(del, q, s, At(id), more, k)
      BY <3>6, <3>7, <3>8, <3>9, <3>10, <3>11, <3>12 DEF Turns
    <3>. QED  BY <3>1, <3>13
  <2>5. CASE ScopeStops(s, laid, inputs)
    BY <2>5 DEF ScopeStops
  <2>. QED  BY <1>7, <2>3, <2>4, <2>5
<1>. QED  BY <1>6, <1>7 DEF ConvergeScope

(* Whatever the turn of a scope makes of its head, it is what a pass may    *)
(* make of it.                                                              *)
LEMMA ConvergeScopeKeeps ==
    ASSUME NEW del, IInv(del), NEW s \in Scopes, ConvergeScope(s)
    PROVE  IInv(del)'
<1>1. /\ pass # NoPass /\ pass.todo # <<>> /\ s = Head(pass.todo)
      /\ UNCHANGED <<repo, mark, record, run, stopped, rewound, counters>>
  BY DEF ConvergeScope, Converges
<1>2. PassOK(del, pass) /\ RepoInv
  BY <1>1 DEF IInv, PassInv
<1>3. SUFFICES PassInv(del)'
  BY <1>1, PassOnlyKeeps
<1>4. ASSUME NEW q, NEW u, NEW H, NEW w, Turns(del, q, s, u, H, w), PassGoesOn(q)
      PROVE  PassInv(del)'
  <2>1. PassOK(del, q)
    BY <1>1, <1>2, <1>4, NextHeadMoves DEF Turns
  <2>. QED  BY <1>1, <1>4, <2>1, GoesOnKeeps
<1>5. CASE pass' = [pass EXCEPT !.stop = s]
  <2>. DEFINE q == [pass EXCEPT !.stop = s]
  <2>1. /\ q.by = pass.by /\ q.heads = pass.heads /\ q.before = pass.before
        /\ q.parents = pass.parents /\ q.todo = pass.todo /\ q.moved = pass.moved
        /\ q.stop = s /\ q.commits = pass.commits /\ q.written = pass.written
        /\ IsPass(q)
    BY <1>2 DEF PassOK, IsPass
  <2>2. pass' = q /\ commits' = commits /\ written' = written /\ local' = local
    BY <1>1, <1>5 DEF repo
  <2>. HIDE DEF q
  <2>3. PassOK(del, q)
    BY <1>2, <2>1 DEF PassOK
  <2>. QED  BY <2>2, <2>3 DEF PassInv, PassOK
<1>. QED  BY <1>4, <1>5, ScopeTurns

-----------------------------------------------------------------------------
(* Fetching and publishing. *)

(* One machine's heads and what it has seen change, in the same history.    *)
LEMMA SeenMoves ==
    ASSUME NEW del, RepoInv, HeadsInv(del), UNCHANGED <<commits, written, rewound>>,
           remote' \in [Scopes -> Positions(commits)], NEW m \in Machines,
           NEW h, DOMAIN h = Scopes, DOMAIN local' = Machines,
           \A n \in Machines : local'[n] = IF n = m THEN h ELSE local[n],
           NEW k \in [Scopes -> Positions(commits)], tracked' = [tracked EXCEPT ![m] = k],
           \A s \in Scopes : /\ IsHead(commits, h[s])
                             /\ s \notin rewound => Holds(del, commits, h[s], k[s], s)
    PROVE  RepoInv' /\ HeadsInv(del)' /\ Extends(commits', commits)
<1>1. /\ tracked' \in [Machines -> [Scopes -> Positions(commits)]]
      /\ \A n \in Machines : tracked'[n] = IF n = m THEN k ELSE tracked[n]
  BY DEF RepoInv
<1>2. ASSUME NEW n \in Machines, NEW s \in Scopes
      PROVE  /\ DOMAIN local'[n] = Scopes /\ IsHead(commits, local'[n][s])
             /\ s \notin rewound => Holds(del, commits, local'[n][s], tracked'[n][s], s)
  <2>1. CASE n = m
    BY <1>1, <2>1
  <2>2. CASE n # m
    BY <1>1, <2>2 DEF RepoInv, HeadsInv
  <2>. QED  BY <2>1, <2>2
<1>3. HeadsInv(del)'
  BY <1>2 DEF HeadsInv
<1>4. \A n \in Machines : DOMAIN local'[n] = Scopes
  BY DEF RepoInv
<1>. QED  BY <1>1, <1>2, <1>3, <1>4 DEF RepoInv, Extends

(* The run goes on, or ends, and its machine's heads were moved.            *)
LEMMA RepoStepKeeps ==
    ASSUME NEW del, IInv(del), NEW m \in Machines, pass = NoPass, pass' = pass,
           RepoInv', HeadsInv(del)', Extends(commits', commits), UNCHANGED <<mark, record, stopped>>,
           edits' = edits, answers' = answers, failures' \in 0..MaxFailures,
           \/ RunEnds(m)
           \/ run[m].steps # <<>> /\ Advances(m)
           \/ \E r \in Runs(Positions(commits')) : Goes(m, r) /\ StepsFit(r, record[m])
    PROVE  IInv(del)'
<1>1. RecordInv'
  BY RecordRests DEF IInv
<1>2. RunInv'
  BY RunEndsFits, AdvancesFits, RunMoves DEF IInv
<1>3. RestInv'
  BY DEF IInv, RestInv, Extends
<1>4. PassInv(del)'
  BY DEF PassInv
<1>. QED  BY <1>1, <1>2, <1>3, <1>4 DEF IInv

(* A fetch imports every head, or finds no remote.                          *)
LEMMA FetchKeeps ==
    ASSUME NEW del, IInv(del), NEW m \in Machines, pass = NoPass,
           Fetch(m) \/ FetchUnreachable(m)
    PROVE  IInv(del)'
<1>1. PICK h : /\ FetchInto(m, h)
               /\ \/ h = Imported(m) /\ tracked' = [tracked EXCEPT ![m] = remote]
                  \/ h = local[m] /\ tracked' = tracked
  BY DEF Fetch, FetchUnreachable
<1>2. failures' \in 0..MaxFailures
  BY BoundsAreNumbers DEF Fetch, FetchUnreachable, IInv, RestInv
<1>3. /\ local' = [local EXCEPT ![m] = h]
      /\ commits' = commits /\ written' = written /\ remote' = remote
      /\ mark' = mark /\ record' = record /\ pass' = pass /\ stopped' = stopped
      /\ rewound' = rewound /\ edits' = edits /\ answers' = answers
  BY <1>1 DEF FetchInto, asked
<1>4. DOMAIN local' = Machines /\ \A n \in Machines : local'[n] = IF n = m THEN h ELSE local[n]
  BY <1>3 DEF IInv, RepoInv
<1>5. PICK k : /\ tracked' = [tracked EXCEPT ![m] = k]
               /\ \/ h = Imported(m) /\ k = remote
                  \/ h = local[m] /\ k = tracked[m]
  BY <1>1 DEF IInv, RepoInv
<1>6. k \in [Scopes -> Positions(commits)] /\ DOMAIN h = Scopes
  BY <1>5 DEF IInv, RepoInv, Imported
<1>7. ASSUME NEW s \in Scopes
      PROVE  IsHead(commits, h[s]) /\ (s \notin rewound => Holds(del, commits, h[s], k[s], s))
  <2>1. /\ IsHistory(commits) /\ IsHead(commits, local[m][s])
        /\ tracked[m][s] \in Positions(commits) /\ remote[s] \in Positions(commits)
        /\ s \notin rewound => Holds(del, commits, local[m][s], tracked[m][s], s)
    BY DEF IInv, RepoInv, HeadsInv
  <2>2. CASE h = local[m] /\ k = tracked[m]
    BY <2>1, <2>2
  <2>3. CASE h = Imported(m) /\ k = remote
    <3>1. h[s] = Import(commits, local[m][s], tracked[m][s], remote[s]) /\ k[s] = remote[s]
      BY <2>3 DEF Imported
    <3>. QED  BY <2>1, <3>1, ImportHolds
  <2>. QED  BY <1>5, <2>2, <2>3
<1>8. RepoInv' /\ HeadsInv(del)' /\ Extends(commits', commits)
  BY <1>3, <1>4, <1>5, <1>6, <1>7, SeenMoves DEF IInv, RepoInv
<1>9. CASE AtStep(m, "refetch") /\ Advances(m)
  BY <1>2, <1>3, <1>8, <1>9, RepoStepKeeps DEF AtStep
<1>10. ASSUME NEW r, r = [run[m] EXCEPT !.steps = Tail(@), !.checkpoint = Checkpoint(h)],
              AtStep(m, "fetch"), Goes(m, r)
       PROVE  IInv(del)'
  <2>1. /\ run[m] \in Runs(Positions(commits)) /\ run[m].steps # <<>>
        /\ StepsFit(run[m], record[m]) /\ run[m].steps \in Seq(Steps)
    BY <1>10, TheFirstStep DEF IInv, Runs
  <2>2. Checkpoint(h) \in [Scopes -> Positions(commits)]
    BY <1>7, CheckpointsAreTyped
  <2>3. r.steps = Tail(run[m].steps) /\ r.edit = run[m].edit
    BY <1>10, <2>1 DEF Runs
  <2>4. r.steps \in Seq(Steps) /\ StepsFit(r, record[m])
    BY <2>1, <2>3, TailFits
  <2>5. r \in Runs(Positions(commits'))
    BY <1>3, <1>10, <2>1, <2>2, <2>3, <2>4 DEF Runs
  <2>. QED  BY <1>2, <1>3, <1>8, <1>10, <2>4, <2>5, RepoStepKeeps
<1>. QED  BY <1>1, <1>9, <1>10 DEF FetchInto

(* What a push sends is one commit of the history.                          *)
LEMMA PendingAreCommits ==
    ASSUME RepoInv, NEW m \in Machines, NEW s \in Pending(m), NEW c, c = TheOne(local[m][s])
    PROVE  /\ s \in Scopes /\ c \in DOMAIN commits /\ c # Gone /\ c \in commits[c].anc
           /\ local[m][s].sides = {c} /\ ~HasConflict(local[m][s])
<1>1. PICK d \in AddedIds(local[m][s]) : IsOne(local[m][s], d)
  BY DEF Pending
<1>2. s \in Scopes /\ local[m][s].sides = {d} /\ d # Gone /\ IsHead(commits, local[m][s])
  BY <1>1 DEF Pending, Members, MembersOf, IsOne, RepoInv
<1>3. c = d /\ ~HasConflict(local[m][s])
  BY <1>2, OneSide
<1>4. d \in DOMAIN commits
  BY <1>2 DEF IsHead, Positions
<1>. QED  BY <1>2, <1>3, <1>4 DEF RepoInv, IsHistory

(* A push that lost the race is made again, after a fetch and a pass.       *)
LEMMA AgainFits ==
    ASSUME NEW q, q.steps \in Seq(Steps), q.steps # <<>>, q.steps[1] # "resolve",
           NEW c, StepsFit(q, c),
           NEW r, r.steps = <<"refetch", "converge">> \o q.steps, r.edit = q.edit
    PROVE  r.steps \in Seq(Steps) /\ StepsFit(r, c)
<1>1. <<"refetch", "converge">> \in Seq(Steps)
  BY DEF Steps, PassSteps
<1>2. /\ r.steps \in Seq(Steps) /\ Len(r.steps) = Len(q.steps) + 2
      /\ r.steps[1] = "refetch" /\ r.steps[2] = "converge"
      /\ \A i \in 1..Len(r.steps) :
            i > 2 => i - 2 \in 1..Len(q.steps) /\ r.steps[i] = q.steps[i - 2]
  BY <1>1
<1>3. ASSUME NEW i \in 1..Len(r.steps)
      PROVE  /\ r.steps[i] \in {"plan", "create", "delete", "place"} => r.edit.scope \in Scopes
             /\ r.steps[i] # "resolve"
  <2>1. CASE i = 1 \/ i = 2
    BY <1>2, <2>1
  <2>2. CASE i > 2
    BY <1>2, <2>2 DEF StepsFit
  <2>. QED  BY <1>2, <2>1, <2>2
<1>. QED  BY <1>2, <1>3 DEF StepsFit

(* A publication takes the branches it has the lease of, and tries again or *)
(* goes on.                                                                 *)
LEMMA PublishKeeps ==
    ASSUME NEW del, IInv(del), NEW m \in Machines, pass = NoPass,
           NEW refused, Publish(m, refused)
    PROVE  IInv(del)'
<1>. DEFINE taken == {s \in Pending(m) \ refused : Leased(m, s)}
            k == [s \in Scopes |-> IF s \in taken THEN remote'[s] ELSE tracked[m][s]]
            again == [run[m] EXCEPT !.attempt = @ + 1, !.steps = <<"refetch", "converge">> \o @]
            on == [run[m] EXCEPT !.attempt = 1, !.steps = Tail(@)]
<1>1. /\ AtStep(m, "publish") \/ AtStep(m, "push")
      /\ refused = {} \/ failures < MaxFailures
      /\ remote' = PushedTo(m, taken)
      /\ tracked' = [tracked EXCEPT ![m] =
                        [s \in Scopes |-> IF s \in taken THEN remote'[s] ELSE @[s]]]
      /\ \/ run[m].attempt < PUSH_ATTEMPTS /\ Goes(m, again)
         \/ Goes(m, on)
      /\ failures' = IF refused = {} THEN failures ELSE failures + 1
  BY DEF Publish, AtPush
<1>2. /\ commits' = commits /\ written' = written /\ local' = local /\ mark' = mark
      /\ record' = record /\ pass' = pass /\ stopped' = stopped /\ rewound' = rewound
      /\ edits' = edits /\ answers' = answers
  BY DEF Publish, asked
<1>3. failures' \in 0..MaxFailures
  BY <1>1, BoundsAreNumbers DEF IInv, RestInv
<1>4. tracked' = [tracked EXCEPT ![m] = k]
  BY <1>1 DEF IInv, RepoInv
<1>5. taken \subseteq Pending(m)
  OBVIOUS
<1>6. \A s \in Scopes : remote'[s] = IF s \in taken THEN TheOne(local[m][s]) ELSE remote[s]
  BY <1>1 DEF PushedTo
<1>. HIDE DEF taken, again, on
<1>7. ASSUME NEW s \in Scopes
      PROVE  /\ remote'[s] \in Positions(commits) /\ k[s] \in Positions(commits)
             /\ IsHead(commits, local[m][s])
             /\ s \notin rewound => Holds(del, commits, local[m][s], k[s], s)
  <2>1. /\ IsHead(commits, local[m][s]) /\ remote[s] \in Positions(commits)
        /\ tracked[m][s] \in Positions(commits)
        /\ s \notin rewound => Holds(del, commits, local[m][s], tracked[m][s], s)
    BY DEF IInv, RepoInv, HeadsInv
  <2>2. CASE s \in taken
    <3>1. PICK c : c = TheOne(local[m][s])
      OBVIOUS
    <3>2. /\ c \in DOMAIN commits /\ c # Gone /\ c \in commits[c].anc
          /\ local[m][s].sides = {c} /\ ~HasConflict(local[m][s])
      BY <1>5, <2>2, <3>1, PendingAreCommits DEF IInv
    <3>3. remote'[s] = c /\ k[s] = c
      BY <1>6, <2>2, <3>1
    <3>. QED  BY <2>1, <3>2, <3>3 DEF Holds, AddedIds, Positions
  <2>3. CASE s \notin taken
    BY <1>6, <2>1, <2>3
  <2>. QED  BY <2>2, <2>3
<1>8. k \in [Scopes -> Positions(commits)] /\ remote' \in [Scopes -> Positions(commits)]
  BY <1>1, <1>7 DEF PushedTo
<1>. HIDE DEF k
<1>9. DOMAIN local[m] = Scopes /\ DOMAIN local' = Machines
      /\ \A n \in Machines : local'[n] = IF n = m THEN local[m] ELSE local[n]
  BY <1>2 DEF IInv, RepoInv
<1>10. RepoInv' /\ HeadsInv(del)' /\ Extends(commits', commits)
  BY <1>2, <1>4, <1>7, <1>8, <1>9, SeenMoves DEF IInv
<1>11. /\ run[m] \in Runs(Positions(commits)) /\ run[m].steps # <<>>
       /\ StepsFit(run[m], record[m]) /\ run[m].steps \in Seq(Steps)
       /\ run[m].steps[1] # "resolve"
  BY <1>1, TheFirstStep DEF IInv, Runs
<1>12. CASE run[m].attempt < PUSH_ATTEMPTS /\ Goes(m, again)
  <2>1. again.steps = <<"refetch", "converge">> \o run[m].steps /\ again.edit = run[m].edit
    BY <1>11 DEF Runs, again
  <2>2. again.steps \in Seq(Steps) /\ StepsFit(again, record[m])
    BY <1>11, <2>1, AgainFits
  <2>3. run[m].attempt + 1 \in 1..PUSH_ATTEMPTS
    BY <1>11, <1>12 DEF Runs, PUSH_ATTEMPTS
  <2>4. again \in Runs(Positions(commits'))
    BY <1>2, <1>11, <2>1, <2>2, <2>3 DEF Runs, again
  <2>. QED  BY <1>2, <1>3, <1>10, <1>12, <2>2, <2>4, RepoStepKeeps
<1>13. CASE Goes(m, on)
  <2>1. on.steps = Tail(run[m].steps) /\ on.edit = run[m].edit
    BY <1>11 DEF Runs, on
  <2>2. on.steps \in Seq(Steps) /\ StepsFit(on, record[m])
    BY <1>11, <2>1, TailFits
  <2>3. on \in Runs(Positions(commits'))
    <3>1. 1 \in 1..PUSH_ATTEMPTS
      BY DEF PUSH_ATTEMPTS
    <3>. QED  BY <1>2, <1>11, <2>1, <2>2, <3>1 DEF Runs, on
  <2>. QED  BY <1>2, <1>3, <1>10, <1>13, <2>2, <2>3, RepoStepKeeps
<1>. QED  BY <1>1, <1>12, <1>13

(* A run that dies after its push has moved the remote and knows nothing of *)
(* it.                                                                      *)
LEMMA DiesAfterPushKeeps ==
    ASSUME NEW del, IInv(del), NEW m \in Machines, pass = NoPass, DiesAfterPush(m)
    PROVE  IInv(del)'
<1>. DEFINE taken == {s \in Pending(m) : Leased(m, s)}
<1>1. /\ failures < MaxFailures /\ failures' = failures + 1
      /\ remote' = PushedTo(m, taken) /\ RunEnds(m)
  BY DEF DiesAfterPush
<1>2. /\ commits' = commits /\ written' = written /\ local' = local /\ mark' = mark
      /\ record' = record /\ pass' = pass /\ stopped' = stopped /\ rewound' = rewound
      /\ edits' = edits /\ answers' = answers /\ tracked' = tracked
  BY DEF DiesAfterPush, asked
<1>3. failures' \in 0..MaxFailures
  BY <1>1, BoundsAreNumbers DEF IInv, RestInv
<1>4. taken \subseteq Pending(m)
  OBVIOUS
<1>. HIDE DEF taken
<1>5. remote' \in [Scopes -> Positions(commits)]
  <2>1. ASSUME NEW s \in Scopes
        PROVE  (IF s \in taken THEN TheOne(local[m][s]) ELSE remote[s]) \in Positions(commits)
    <3>1. s \in taken => TheOne(local[m][s]) \in DOMAIN commits
      BY <1>4, PendingAreCommits DEF IInv
    <3>. QED  BY <3>1 DEF IInv, RepoInv, Positions
  <2>. QED  BY <1>1, <2>1 DEF PushedTo
<1>6. RepoInv' /\ HeadsInv(del)'
  BY <1>2, <1>5 DEF IInv, RepoInv, HeadsInv
<1>7. Extends(commits', commits)
  BY <1>2 DEF Extends
<1>. QED  BY <1>1, <1>2, <1>3, <1>6, <1>7, RepoStepKeeps

-----------------------------------------------------------------------------
(* Steps that add to the history. *)

(* The pass is recorded: its heads hold what the ones before held.          *)
LEMMA PassIsRecordedKeeps ==
    ASSUME NEW del, IInv(del), NEW m \in Machines, NEW step, PassIsRecorded(m, step)
    PROVE  IInv(del)'
<1>. DEFINE r == [run[m] EXCEPT
                    !.steps = IF pass.stop = NoScope THEN Tail(@) ELSE <<"save">>,
                    !.pins = NoPins, !.answer = NoAnswer]
<1>1. /\ pass # NoPass /\ pass.by = m /\ AtStep(m, step) /\ pass' = NoPass
      /\ \/ /\ local' = [local EXCEPT ![m] = pass.heads] /\ commits' = pass.commits
            /\ written' = [written EXCEPT ![m] = pass.written]
         \/ local' = local /\ commits' = commits /\ written' = written
      /\ stopped' = [stopped EXCEPT ![m] = pass.stop] /\ Goes(m, r)
      /\ remote' = remote /\ tracked' = tracked /\ mark' = mark /\ record' = record
      /\ rewound' = rewound /\ edits' = edits /\ answers' = answers /\ failures' = failures
  BY DEF PassIsRecorded, PassEnds, counters, asked
<1>. HIDE DEF r
<1>2. PassOK(del, pass)
  BY <1>1 DEF IInv, PassInv
<1>3. RepoInv' /\ HeadsInv(del)' /\ Extends(commits', commits)
  <2>1. CASE local' = local /\ commits' = commits /\ written' = written
    BY <1>1, <2>1, RepoRests DEF IInv, repo
  <2>2. CASE /\ local' = [local EXCEPT ![m] = pass.heads] /\ commits' = pass.commits
             /\ written' = [written EXCEPT ![m] = pass.written]
    <3>. DEFINE h == pass.heads
                k == pass.written
    <3>1. /\ IsHistory(commits') /\ HasTypes(commits') /\ Extends(commits', commits)
          /\ k \in Nat /\ Fresh(commits', written') /\ DOMAIN h = Scopes
      BY <1>1, <1>2, <2>2 DEF PassOK
    <3>2. ASSUME NEW s \in Scopes
          PROVE  /\ IsHead(commits', h[s])
                 /\ s \notin rewound' => Holds(del, commits', h[s], tracked[m][s], s)
      <4>1. /\ IsHead(commits, local[m][s]) /\ tracked[m][s] \in Positions(commits)
            /\ s \notin rewound => Holds(del, commits, local[m][s], tracked[m][s], s)
            /\ IsHistory(commits)
        BY DEF IInv, RepoInv, HeadsInv
      <4>2. /\ IsHead(commits', local[m][s]) /\ tracked[m][s] \in Positions(commits')
            /\ s \notin rewound => Holds(del, commits', local[m][s], tracked[m][s], s)
        BY <3>1, <4>1, HoldsInMore
      <4>3. Carries(del, commits', local[m][s], h[s]) /\ IsHead(commits', h[s])
        BY <1>1, <1>2, <2>2 DEF PassOK
      <4>. HIDE DEF h
      <4>. QED  BY <1>1, <3>1, <4>2, <4>3, CarriesHolds
    <3>3. /\ RepoInv /\ HeadsInv(del) /\ local' = [local EXCEPT ![m] = h]
          /\ written' = [written EXCEPT ![m] = k] /\ remote' = remote /\ tracked' = tracked
          /\ rewound \subseteq rewound' /\ rewound' \subseteq Scopes
      BY <1>1, <2>2 DEF IInv, RepoInv
    <3>. HIDE DEF h, k
    <3>. QED  BY <3>1, <3>2, <3>3, HeadsMove
  <2>. QED  BY <1>1, <2>1, <2>2
<1>4. RecordInv'
  BY <1>1, <1>3, RecordRests DEF IInv
<1>5. RestInv'
  <2>1. pass.stop \in Scopes \cup {NoScope}
    BY <1>2 DEF PassOK
  <2>. QED  BY <1>1, <1>3, <2>1 DEF IInv, RestInv, Extends
<1>6. RunInv'
  <2>1. /\ run[m] \in Runs(Positions(commits)) /\ run[m].steps # <<>>
        /\ StepsFit(run[m], record[m]) /\ run[m].steps \in Seq(Steps)
    BY <1>1, TheFirstStep DEF IInv, Runs
  <2>2. run[m] \in Runs(Positions(commits'))
    BY <1>3, <2>1, PositionsGrow DEF Runs
  <2>3. /\ r.steps = IF pass.stop = NoScope THEN Tail(run[m].steps) ELSE <<"save">>
        /\ r.edit = run[m].edit
    BY <2>1 DEF Runs, r
  <2>4. r.steps \in Seq(Steps) /\ StepsFit(r, record'[m])
    <3>1. CASE pass.stop = NoScope
      BY <2>1, <2>3, <3>1, TailFits
    <3>2. CASE pass.stop # NoScope
      <4>1. <<"save">> \in Seq(PlainSteps)
        BY DEF PlainSteps, Steps, PassSteps
      <4>. QED  BY <2>3, <3>2, <4>1, PlainStepsFit
    <3>. QED  BY <3>1, <3>2
  <2>5. r \in Runs(Positions(commits'))
    <3>1. Idle \in Runs(Positions(commits'))
      BY IdleIsARun
    <3>2. NoPins \in SUBSET Pins /\ NoAnswer \in [scope : Scopes \cup {NoScope}, values : Trees]
      BY <3>1 DEF Idle, Runs
    <3>. QED  BY <2>2, <2>3, <2>4, <3>2 DEF Runs, r
  <2>. QED  BY <1>1, <1>3, <2>4, <2>5, RunMoves DEF IInv
<1>7. PassInv(del)'
  BY <1>1 DEF PassInv
<1>. QED  BY <1>3, <1>4, <1>5, <1>6, <1>7 DEF IInv

(* abort: a scope goes back to a commit, and counts as moved back.          *)
LEMMA RestoreKeeps ==
    ASSUME NEW del, IInv(del), NEW m \in Machines, pass = NoPass, Restore(m)
    PROVE  IInv(del)'
<1>. DEFINE back == {s \in Scopes : record[m].checkpoint[s] # Gone}
            h == [s \in Scopes |-> IF s \in back THEN At(record[m].checkpoint[s])
                                   ELSE local[m][s]]
            k == written[m]
<1>1. /\ run[m].steps # <<>> /\ Advances(m)
      /\ rewound' = rewound \cup {s \in back : local'[m][s] # local[m][s]}
      /\ commits' = commits /\ written' = written /\ remote' = remote /\ tracked' = tracked
      /\ mark' = mark /\ record' = record /\ pass' = pass /\ stopped' = stopped
      /\ edits' = edits /\ answers' = answers /\ failures' = failures
  BY DEF Restore, AtStep, counters, asked
<1>2. local' = [local EXCEPT ![m] = h]
  BY DEF Restore
<1>3. DOMAIN h = Scopes /\ local'[m] = h
  BY <1>2 DEF IInv, RepoInv
<1>4. /\ IsHistory(commits') /\ HasTypes(commits') /\ Extends(commits', commits)
      /\ Fresh(commits', written') /\ k \in Nat /\ written' = [written EXCEPT ![m] = k]
      /\ rewound \subseteq rewound' /\ rewound' \subseteq Scopes
  BY <1>1 DEF IInv, RepoInv, Extends
<1>5. ASSUME NEW s \in Scopes
      PROVE  /\ IsHead(commits', h[s])
             /\ s \notin rewound' => Holds(del, commits', h[s], tracked[m][s], s)
  <2>1. /\ IsHead(commits, local[m][s])
        /\ s \notin rewound => Holds(del, commits, local[m][s], tracked[m][s], s)
    BY DEF IInv, RepoInv, HeadsInv
  <2>2. s \in back => IsHead(commits, At(record[m].checkpoint[s]))
    <3>1. record[m].checkpoint[s] \in Positions(commits)
      BY DEF IInv, RecordInv, Records
    <3>. QED  BY <3>1, AtIsHead
  <2>3. IsHead(commits, h[s])
    BY <2>1, <2>2
  <2>4. s \notin rewound' => s \notin rewound /\ h[s] = local[m][s]
    BY <1>1, <1>3
  <2>. QED  BY <1>1, <2>1, <2>3, <2>4
<1>. HIDE DEF h, k, back
<1>6. RepoInv' /\ HeadsInv(del)'
  BY <1>1, <1>2, <1>3, <1>4, <1>5, HeadsMove DEF IInv
<1>7. failures' \in 0..MaxFailures
  BY <1>1 DEF IInv, RestInv
<1>. QED  BY <1>1, <1>4, <1>6, <1>7, RepoStepKeeps

(* One head moves to a new commit, or to nothing.                           *)
LEMMA OneHeadMoves ==
    ASSUME NEW del, RepoInv, HeadsInv(del), IsHistory(commits'), HasTypes(commits'),
           Extends(commits', commits), NEW m \in Machines, NEW k \in Nat,
           written' = [written EXCEPT ![m] = k], Fresh(commits', written'),
           NEW s \in Scopes, NEW u, local' = [local EXCEPT ![m][s] = u],
           UNCHANGED <<remote, tracked>>, rewound \subseteq rewound', rewound' \subseteq Scopes,
           IsHead(commits', u), s \notin rewound' => Holds(del, commits', u, tracked[m][s], s)
    PROVE  RepoInv' /\ HeadsInv(del)'
<1>. DEFINE h == [local[m] EXCEPT ![s] = u]
<1>1. local' = [local EXCEPT ![m] = h]
  OBVIOUS
<1>2. DOMAIN h = Scopes /\ \A t \in Scopes : h[t] = IF t = s THEN u ELSE local[m][t]
  BY DEF RepoInv
<1>. HIDE DEF h
<1>3. ASSUME NEW t \in Scopes
      PROVE  /\ IsHead(commits', h[t])
             /\ t \notin rewound' => Holds(del, commits', h[t], tracked[m][t], t)
  <2>1. /\ IsHead(commits, local[m][t]) /\ tracked[m][t] \in Positions(commits)
        /\ t \notin rewound' => Holds(del, commits, local[m][t], tracked[m][t], t)
        /\ IsHistory(commits)
    BY DEF RepoInv, HeadsInv
  <2>2. /\ IsHead(commits', local[m][t])
        /\ t \notin rewound' => Holds(del, commits', local[m][t], tracked[m][t], t)
    BY <2>1, HoldsInMore
  <2>. QED  BY <1>2, <2>2
<1>. QED  BY <1>1, <1>2, <1>3, HeadsMove

(* A resolution is written on the parent its record names, wherever the     *)
(* scope's head is by then.                                                 *)
LEMMA ResolveKeeps ==
    ASSUME NEW del, IInv(del), NEW m \in Machines, pass = NoPass, Resolve(m)
    PROVE  IInv(del)'
<1>. DEFINE c == record[m].commit
            id == <<m, written[m] + 1>>
            new == [anc   |-> {id} \cup commits[c.parent].anc,
                    tree  |-> [commits[c.parent].tree EXCEPT
                                 ![c.path] = run[m].answer.values[c.path]],
                    wrote |-> {c.path}, creates |-> NoScope]
            r == [run[m] EXCEPT !.steps = Tail(@), !.answer = NoAnswer,
                                !.checkpoint = record[m].checkpoint]
            t == local[m][c.scope]
<1>1. /\ AtStep(m, "resolve") /\ Goes(m, r)
      /\ commits' = [i \in DOMAIN commits \cup {id} |-> IF i = id THEN new ELSE commits[i]]
      /\ local' = [local EXCEPT ![m][c.scope] = At(id)]
      /\ rewound' = IF IsOne(t, c.parent) THEN rewound ELSE rewound \cup {c.scope}
      /\ written' = [written EXCEPT ![m] = written[m] + 1]
  BY DEF Resolve
<1>2. /\ remote' = remote /\ tracked' = tracked /\ mark' = mark /\ record' = record
      /\ pass' = pass /\ stopped' = stopped /\ edits' = edits /\ answers' = answers
      /\ failures' = failures
  BY DEF Resolve, counters, asked
<1>3. /\ run[m] \in Runs(Positions(commits)) /\ run[m].steps # <<>>
      /\ StepsFit(run[m], record[m]) /\ run[m].steps \in Seq(Steps)
      /\ c # NoCommit
  BY <1>1, TheFirstStep DEF IInv, Runs, StepsFit
<1>4. /\ record[m] \in Records(Positions(commits))
      /\ c.scope \in Scopes /\ c.path \in Paths /\ c.parent \in DOMAIN commits
      /\ record[m].checkpoint \in [Scopes -> Positions(commits)]
  BY <1>3 DEF IInv, RecordInv, Records, Positions
<1>. HIDE DEF c, r
<1>5. IsGrown(commits', commits, written, m, id, new)
  <2>1. new.tree \in Trees
    <3>1. commits[c.parent].tree \in Trees /\ run[m].answer.values \in Trees
      BY <1>3, <1>4 DEF IInv, RepoInv, HasTypes, Runs
    <3>. QED  BY <1>4, <3>1 DEF Trees
  <2>2. AncestorsOf(commits, {c.parent}) = commits[c.parent].anc
    BY DEF AncestorsOf
  <2>3. /\ new.anc = {id} \cup AncestorsOf(commits, {c.parent}) /\ new.wrote \subseteq Paths
        /\ new.creates \in Scopes \cup {NoScope}
    BY <1>4, <2>2
  <2>. HIDE DEF new
  <2>4. CommitsOne(commits', commits, id, new, {c.parent})
    BY <1>1, <2>1, <2>3 DEF CommitsOne
  <2>. HIDE DEF id
  <2>5. CommitsNext(commits', commits, written, m, id, new, {c.parent})
    BY <1>4, <2>4 DEF CommitsNext, IInv, RepoInv, id
  <2>. QED  BY <2>5, CommitAdded, Zenon
<1>6. /\ IsHistory(commits') /\ HasTypes(commits') /\ Extends(commits', commits)
      /\ written[m] + 1 \in Nat /\ Fresh(commits', written')
      /\ id \in DOMAIN commits' /\ commits'[id].anc = {id} \cup commits[c.parent].anc
  <2>1. new.anc = {id} \cup commits[c.parent].anc
    OBVIOUS
  <2>. HIDE DEF id, new
  <2>. QED  BY <1>1, <1>5, <2>1 DEF IsGrown
<1>. HIDE DEF id, new
<1>7. IsHead(commits', At(id))
  BY <1>6, AtIsHead DEF Positions
<1>8. ASSUME c.scope \notin rewound'
      PROVE  Holds(del, commits', At(id), tracked[m][c.scope], c.scope)
  <2>1. IsOne(t, c.parent) /\ c.scope \notin rewound
    BY <1>1, <1>8
  <2>2. /\ IsHistory(commits) /\ IsHead(commits, t) /\ tracked[m][c.scope] \in Positions(commits)
        /\ Holds(del, commits, t, tracked[m][c.scope], c.scope)
    BY <1>4, <2>1 DEF IInv, RepoInv, HeadsInv
  <2>. HIDE DEF t
  <2>3. /\ IsHead(commits', t) /\ tracked[m][c.scope] \in Positions(commits')
        /\ Holds(del, commits', t, tracked[m][c.scope], c.scope)
    BY <1>6, <2>2, HoldsInMore
  <2>4. c.parent \in commits'[id].anc
    BY <1>4, <1>6 DEF IInv, RepoInv, IsHistory
  <2>5. Carries(del, commits', t, At(id))
    BY <1>6, <2>1, <2>4 DEF Carries, IsOne
  <2>. QED  BY <1>6, <2>3, <2>5, CarriesHolds
<1>9. rewound \subseteq rewound' /\ rewound' \subseteq Scopes
  BY <1>1, <1>4 DEF IInv, RepoInv
<1>10. RepoInv' /\ HeadsInv(del)'
  <2>. DEFINE k == written[m] + 1
              s == c.scope
              u == At(id)
  <2>1. /\ s \in Scopes /\ k \in Nat /\ written' = [written EXCEPT ![m] = k]
        /\ local' = [local EXCEPT ![m][s] = u] /\ IsHead(commits', u)
        /\ s \notin rewound' => Holds(del, commits', u, tracked[m][s], s)
    BY <1>1, <1>4, <1>6, <1>7, <1>8
  <2>. HIDE DEF k, s, u
  <2>. QED  BY <1>2, <1>6, <1>9, <2>1, OneHeadMoves DEF IInv
<1>11. r.steps \in Seq(Steps) /\ StepsFit(r, record[m]) /\ r \in Runs(Positions(commits'))
  <2>1. r.steps = Tail(run[m].steps) /\ r.edit = run[m].edit
    BY <1>3 DEF Runs, r
  <2>2. r.steps \in Seq(Steps) /\ StepsFit(r, record[m])
    BY <1>3, <2>1, TailFits
  <2>3. NoAnswer \in [scope : Scopes \cup {NoScope}, values : Trees]
    BY NoEditIsAnEdit DEF NoAnswer
  <2>4. /\ run[m] \in Runs(Positions(commits'))
        /\ record[m].checkpoint \in [Scopes -> Positions(commits')]
    BY <1>3, <1>4, <1>6, PositionsGrow DEF Runs
  <2>. QED  BY <2>1, <2>2, <2>3, <2>4 DEF Runs, r
<1>12. failures' \in 0..MaxFailures
  BY <1>2 DEF IInv, RestInv
<1>. QED  BY <1>1, <1>2, <1>6, <1>10, <1>11, <1>12, RepoStepKeeps

(* create-scope: the machine had nothing of that name, so it saw nothing of *)
(* that name published, and what it has now carries a creation.             *)
LEMMA CreateKeeps ==
    ASSUME NEW del, IInv(del), NEW m \in Machines, pass = NoPass, Create(m)
    PROVE  IInv(del)'
<1>. DEFINE s == run[m].edit.scope
            on == {TheOne(local[m][t]) : t \in run[m].edit.on}
            merge == MergeOf(commits, on)
            tree == [p \in Paths |-> ValueOf(merge[p])]
            id == <<m, written[m] + 1>>
            new == [anc |-> {id} \cup AncestorsOf(commits, on), tree |-> tree,
                    wrote |-> {}, creates |-> s]
            free == /\ local[m][s] = At(Gone)
                    /\ \A t \in run[m].edit.on : t \in Members(m) /\ ~HasConflict(local[m][t])
                    /\ \A p \in Paths : Resolved(merge[p])
<1>1. /\ AtStep(m, "create")
      /\ \/ /\ free /\ Advances(m)
            /\ commits' = [i \in DOMAIN commits \cup {id} |-> IF i = id THEN new ELSE commits[i]]
            /\ local' = [local EXCEPT ![m][s] = At(id)]
            /\ written' = [written EXCEPT ![m] = written[m] + 1]
         \/ RunEnds(m) /\ commits' = commits /\ local' = local /\ written' = written
  BY DEF Create
<1>2. /\ remote' = remote /\ tracked' = tracked /\ mark' = mark /\ record' = record
      /\ pass' = pass /\ stopped' = stopped /\ edits' = edits /\ answers' = answers
      /\ failures' = failures /\ rewound' = rewound
  BY DEF Create, counters, asked
<1>3. run[m].steps # <<>> /\ s \in Scopes
  BY <1>1, TheFirstStep DEF IInv, StepsFit
<1>4. failures' \in 0..MaxFailures
  BY <1>2 DEF IInv, RestInv
<1>5. CASE RunEnds(m) /\ commits' = commits /\ local' = local /\ written' = written
  <2>1. RepoInv' /\ HeadsInv(del)' /\ Extends(commits', commits)
    BY <1>2, <1>5, RepoRests DEF IInv, repo
  <2>. QED  BY <1>2, <1>4, <1>5, <2>1, RepoStepKeeps
<1>6. CASE /\ free /\ Advances(m)
           /\ commits' = [i \in DOMAIN commits \cup {id} |-> IF i = id THEN new ELSE commits[i]]
           /\ local' = [local EXCEPT ![m][s] = At(id)]
           /\ written' = [written EXCEPT ![m] = written[m] + 1]
  <2>1. ASSUME NEW t \in run[m].edit.on  PROVE TheOne(local[m][t]) \in DOMAIN commits
    <3>1. t \in Scopes /\ AddedIds(local[m][t]) # {}
      BY <1>6 DEF Members, MembersOf, Created, AncestorsOf
    <3>2. IsHead(commits, local[m][t]) /\ ~HasConflict(local[m][t])
      BY <1>6, <3>1 DEF IInv, RepoInv
    <3>. QED  BY <3>1, <3>2, HeadShape DEF AddedIds, Positions
  <2>2. tree \in Trees
    <3>1. \A p \in Paths : ValueOf(merge[p]) \in Contents
      BY <1>6 DEF Resolved, ValueOf
    <3>. QED  BY <3>1 DEF Trees
  <2>3. on \subseteq DOMAIN commits /\ s \in Scopes /\ local[m][s] = At(Gone)
    BY <1>3, <1>6, <2>1
  <2>4. /\ Advances(m) /\ local' = [local EXCEPT ![m][s] = At(id)]
        /\ commits' = [i \in DOMAIN commits \cup {id} |-> IF i = id THEN new ELSE commits[i]]
        /\ written' = [written EXCEPT ![m] = written[m] + 1]
    BY <1>6
  <2>. HIDE DEF s, on, tree, free, merge
  <2>5. /\ new.anc = {id} \cup AncestorsOf(commits, on) /\ new.tree \in Trees
        /\ new.wrote \subseteq Paths /\ new.creates \in Scopes \cup {NoScope} /\ new.creates = s
    BY <2>2, <2>3
  <2>. HIDE DEF new
  <2>6. CommitsOne(commits', commits, id, new, on)
    BY <2>4, <2>5 DEF CommitsOne
  <2>7. id # Creation(s)
    <3>1. written[m] \in Nat
      BY DEF IInv, RepoInv
    <3>. QED  BY <3>1 DEF Creation
  <2>. HIDE DEF id
  <2>8. CommitsNext(commits', commits, written, m, id, new, on)
    BY <2>3, <2>6 DEF CommitsNext, IInv, RepoInv, id
  <2>9. IsGrown(commits', commits, written, m, id, new)
    BY <2>8, CommitAdded, Zenon
  <2>10. /\ IsHistory(commits') /\ HasTypes(commits') /\ Extends(commits', commits)
         /\ written[m] + 1 \in Nat /\ Fresh(commits', written')
         /\ id \in DOMAIN commits' /\ id \in commits'[id].anc /\ commits'[id].creates = s
    BY <2>4, <2>5, <2>9 DEF IsGrown
  <2>11. IsHead(commits', At(id)) /\ At(id).sides = {id} /\ ~HasConflict(At(id))
    BY <2>10, AtIsHead DEF Positions
  <2>12. ASSUME s \notin rewound
         PROVE  Holds(del, commits', At(id), tracked[m][s], s)
    <3>1. At(Gone).sides = {Gone}
      BY DEF At
    <3>2. tracked[m][s] = Gone
      BY <2>3, <2>12, <3>1 DEF IInv, HeadsInv, Holds, AddedIds
    <3>3. Anew(del, commits', id, s)
      BY <2>7, <2>10 DEF Anew
    <3>. QED  BY <2>11, <3>2, <3>3 DEF Holds
  <2>13. RepoInv' /\ HeadsInv(del)'
    <3>. DEFINE k == written[m] + 1
                u == At(id)
    <3>1. /\ s \in Scopes /\ k \in Nat /\ written' = [written EXCEPT ![m] = k]
          /\ local' = [local EXCEPT ![m][s] = u] /\ IsHead(commits', u)
          /\ s \notin rewound' => Holds(del, commits', u, tracked[m][s], s)
          /\ rewound \subseteq rewound' /\ rewound' \subseteq Scopes
      BY <1>2, <2>3, <2>4, <2>10, <2>11, <2>12 DEF IInv, RepoInv
    <3>. HIDE DEF k, u
    <3>. QED  BY <1>2, <2>10, <3>1, OneHeadMoves DEF IInv
  <2>. QED  BY <1>2, <1>3, <1>4, <2>4, <2>10, <2>13, RepoStepKeeps
<1>. QED  BY <1>1, <1>5, <1>6

(* A deletion takes the branch and the head, one of the two, or neither.    *)
LEMMA DeleteKeeps ==
    ASSUME NEW del, IInv(del), NEW m \in Machines, pass = NoPass, Delete(m)
    PROVE  IInv(del)'
<1>. DEFINE s == run[m].edit.scope
<1>1. /\ AtStep(m, "delete") /\ RunEnds(m)
      /\ \/ remote' = [remote EXCEPT ![s] = Gone]
         \/ remote' = remote
      /\ \/ /\ local' = [local EXCEPT ![m][s] = At(Gone)]
            /\ tracked' = [tracked EXCEPT ![m][s] = Gone]
            /\ failures' = failures
         \/ /\ failures' \in {failures, failures + 1}
            /\ failures' = failures \/ failures < MaxFailures
            /\ local' = local /\ tracked' = tracked
  BY DEF Delete
<1>2. /\ commits' = commits /\ written' = written /\ mark' = mark
      /\ record' = record /\ pass' = pass /\ stopped' = stopped /\ rewound' = rewound
      /\ edits' = edits /\ answers' = answers
  BY DEF Delete, asked
<1>3. failures' \in 0..MaxFailures
  BY <1>1, BoundsAreNumbers DEF IInv, RestInv
<1>4. s \in Scopes
  BY <1>1, TheFirstStep DEF IInv, StepsFit
<1>. HIDE DEF s
<1>5. remote' \in [Scopes -> Positions(commits)]
  BY <1>1, <1>4 DEF IInv, RepoInv, Positions
<1>6. CASE /\ local' = [local EXCEPT ![m][s] = At(Gone)]
           /\ tracked' = [tracked EXCEPT ![m][s] = Gone]
  <2>. DEFINE h == [local[m] EXCEPT ![s] = At(Gone)]
              k == [tracked[m] EXCEPT ![s] = Gone]
  <2>1. local' = [local EXCEPT ![m] = h] /\ tracked' = [tracked EXCEPT ![m] = k]
    BY <1>6
  <2>2. /\ DOMAIN h = Scopes /\ k \in [Scopes -> Positions(commits)]
        /\ h[s] = At(Gone) /\ k[s] = Gone
        /\ \A t \in Scopes \ {s} : h[t] = local[m][t] /\ k[t] = tracked[m][t]
    <3>1. /\ DOMAIN local[m] = Scopes /\ tracked[m] \in [Scopes -> Positions(commits)]
          /\ Gone \in Positions(commits)
      BY DEF IInv, RepoInv, Positions
    <3>2. DOMAIN h = Scopes /\ h[s] = At(Gone) /\ \A t \in Scopes \ {s} : h[t] = local[m][t]
      BY <1>4, <3>1
    <3>3. /\ k \in [Scopes -> Positions(commits)] /\ k[s] = Gone
          /\ \A t \in Scopes \ {s} : k[t] = tracked[m][t]
      BY <1>4, <3>1
    <3>. QED  BY <3>2, <3>3
  <2>. HIDE DEF h, k
  <2>3. DOMAIN local' = Machines /\ \A n \in Machines : local'[n] = IF n = m THEN h ELSE local[n]
    BY <2>1 DEF IInv, RepoInv
  <2>4. IsHead(commits, At(Gone)) /\ Holds(del, commits, At(Gone), Gone, s)
    <3>1. /\ IsHead(commits, At(Gone)) /\ At(Gone).sides = {Gone}
          /\ ~HasConflict(At(Gone))
      BY AtIsHead DEF Positions
    <3>. QED  BY <3>1 DEF Holds
  <2>5. ASSUME NEW t \in Scopes
        PROVE  IsHead(commits, h[t]) /\ (t \notin rewound => Holds(del, commits, h[t], k[t], t))
    <3>1. /\ IsHead(commits, local[m][t])
          /\ t \notin rewound => Holds(del, commits, local[m][t], tracked[m][t], t)
      BY DEF IInv, RepoInv, HeadsInv
    <3>2. CASE t = s
      <4>1. h[t] = At(Gone) /\ k[t] = Gone
        BY <1>4, <2>2, <3>2
      <4>. QED  BY <2>4, <3>2, <4>1
    <3>3. CASE t # s
      <4>1. h[t] = local[m][t] /\ k[t] = tracked[m][t]
        BY <2>2, <3>3
      <4>. QED  BY <3>1, <4>1
    <3>. QED  BY <3>2, <3>3
  <2>6. RepoInv' /\ HeadsInv(del)' /\ Extends(commits', commits)
    BY <1>2, <1>5, <2>1, <2>2, <2>3, <2>5, SeenMoves DEF IInv
  <2>. QED  BY <1>1, <1>2, <1>3, <2>6, RepoStepKeeps
<1>7. CASE local' = local /\ tracked' = tracked
  <2>1. RepoInv' /\ HeadsInv(del)'
    BY <1>2, <1>5, <1>7 DEF IInv, RepoInv, HeadsInv
  <2>2. Extends(commits', commits)
    BY <1>2 DEF Extends
  <2>. QED  BY <1>1, <1>2, <1>3, <2>1, <2>2, RepoStepKeeps
<1>. QED  BY <1>1, <1>6, <1>7

-----------------------------------------------------------------------------
(* Every step keeps the invariant.                                          *)
LEMMA NextKeeps ==
    ASSUME NEW del, IInv(del), [Next]_vars
    PROVE  IInv(del)'
<1>1. CASE UNCHANGED vars
  <2>1. UNCHANGED <<repo, mark, record, run, pass, stopped, rewound, counters>>
    BY <1>1 DEF vars
  <2>2. PassInv(del)'
    BY <2>1, PassRests DEF IInv
  <2>. QED  BY <2>1, <2>2, PassOnlyKeeps
<1>2. ASSUME NEW m \in Machines, PassStep(m)  PROVE IInv(del)'
  <2>1. CASE \E s \in Scopes : ConvergeScope(s)
    BY <2>1, ConvergeScopeKeeps
  <2>2. CASE CheckEnds(m)
    BY <2>2, CheckKeeps
  <2>3. CASE \/ FoundNothing(m) \/ ContinueSettlesHome(m)
             \/ AbortFoundStop(m) \/ ContinueFoundStop(m)
    BY <2>3, FindKeeps
  <2>4. CASE ConvergeEnds(m)
    BY <2>4, PassIsRecordedKeeps DEF ConvergeEnds
  <2>. QED  BY <1>2, <2>1, <2>2, <2>3, <2>4 DEF PassStep
<1>3. ASSUME NEW m \in Machines, RunStep(m)  PROVE IInv(del)'
  <2>1. pass = NoPass
    BY <1>3 DEF RunStep, Quiet
  <2>2. CASE Fetch(m)
    BY <2>1, <2>2, FetchKeeps
  <2>3. CASE CheckRefuses(m)
    BY <2>3, CheckKeeps
  <2>4. CASE BeginPass(m)
    BY <2>4, TransactsKeeps DEF BeginPass
  <2>5. CASE Publish(m, {})
    BY <2>1, <2>5, PublishKeeps
  <2>6. CASE Plan(m)
    BY <2>6, PlanKeeps
  <2>7. CASE Save(m) \/ Forget(m)
    BY <2>7, SaveAndForgetKeep
  <2>8. CASE Resolve(m)
    BY <2>1, <2>8, ResolveKeeps
  <2>9. CASE Restore(m)
    BY <2>1, <2>9, RestoreKeeps
  <2>10. CASE Create(m)
    BY <2>1, <2>10, CreateKeeps
  <2>11. CASE Delete(m)
    BY <2>1, <2>11, DeleteKeeps
  <2>12. CASE SyncHome(m)
    BY <2>12, SyncHomeKeeps
  <2>. QED  BY <1>3, <2>2, <2>3, <2>4, <2>5, <2>6, <2>7, <2>8, <2>9, <2>10, <2>11, <2>12
            DEF RunStep
<1>4. ASSUME NEW m \in Machines, Fails(m)  PROVE IInv(del)'
  <2>1. pass = NoPass
    BY <1>4 DEF Fails, Quiet
  <2>2. CASE FetchUnreachable(m)
    BY <2>1, <2>2, FetchKeeps
  <2>3. CASE PublishUnreachable(m) \/ Crash(m)
    BY <2>3, CutShortKeeps
  <2>4. CASE DiesAfterPush(m)
    BY <2>1, <2>4, DiesAfterPushKeeps
  <2>5. CASE \E refused \in (SUBSET Scopes) \ {{}} : Publish(m, refused)
    BY <2>1, <2>5, PublishKeeps
  <2>. QED  BY <1>4, <2>2, <2>3, <2>4, <2>5 DEF Fails
<1>. QED  BY <1>1, <1>2, <1>3, <1>4, StartKeeps DEF Next

(* The invariant holds of every behaviour of the fleet.                     *)
THEOREM Invariance == Spec => []IInv("stand")
<1>1. Init => IInv("stand")
  BY InitIInv
<1>2. IInv("stand") /\ [Next]_vars => IInv("stand")'
  BY NextKeeps
<1>. QED  BY <1>1, <1>2, PTL DEF Spec

(* A head has one side or two.                                              *)
LEMMA SidesAreFew ==
    ASSUME NEW H, NEW t, IsHead(H, t)
    PROVE  t.sides \subseteq Positions(H) /\ Cardinality(t.sides) \in {1, 2}
<1>1. PICK c \in Positions(H), d \in Positions(H) : t.sides = {c, d}
  BY DEF IsHead
<1>2. IsFiniteSet({c}) /\ Cardinality({c}) = 1
  BY FS_Singleton
<1>3. CASE c = d
  <2>1. t.sides = {c}
    BY <1>1, <1>3
  <2>. QED  BY <1>2, <2>1
<1>4. CASE c # d
  <2>1. d \notin {c} /\ t.sides = {c} \cup {d}
    BY <1>1, <1>4
  <2>2. Cardinality(t.sides) = 2
    BY <1>2, <2>1, FS_AddElement
  <2>. QED  BY <1>1, <2>2
<1>. QED  BY <1>1, <1>3, <1>4

(* The invariant gives everything its type.                                 *)
LEMMA TypesFollow ==
    ASSUME NEW del, IInv(del)
    PROVE  TypeOK
<1>1. /\ DOMAIN commits \subseteq Ids
      /\ \A c \in DOMAIN commits :
            /\ commits[c].anc \subseteq DOMAIN commits
            /\ commits[c].tree \in Trees /\ commits[c].wrote \subseteq Paths
            /\ commits[c].creates \in Scopes \cup {NoScope}
  BY DEF IInv, RepoInv, IsHistory, HasTypes
<1>2. /\ written \in [Machines -> Nat] /\ remote \in [Scopes -> DOMAIN commits \cup {Gone}]
      /\ rewound \subseteq Scopes
  BY DEF IInv, RepoInv, Positions
<1>3. ASSUME NEW m \in Machines, NEW s \in Scopes
      PROVE  /\ tracked[m][s] \in DOMAIN commits \cup {Gone}
             /\ local[m][s].sides \subseteq DOMAIN commits \cup {Gone}
             /\ Cardinality(local[m][s].sides) \in {1, 2}
             /\ local[m][s].base \in DOMAIN commits \cup {Gone}
  <2>1. IsHead(commits, local[m][s]) /\ tracked[m][s] \in Positions(commits)
    BY DEF IInv, RepoInv
  <2>. QED  BY <2>1, SidesAreFew DEF IsHead, Positions
<1>4. ASSUME NEW m \in Machines
      PROVE  /\ record[m].saved \in BOOLEAN
             /\ record[m].commit.parent \in DOMAIN commits \cup {Gone}
             /\ run[m].cmd \in Commands \cup {"none"}
             /\ \A i \in 1..Len(run[m].steps) : run[m].steps[i] \in Steps
             /\ run[m].attempt \in 1..PUSH_ATTEMPTS
             /\ run[m].edit \in Edits /\ run[m].pins \subseteq Pins
  <2>1. record[m] \in Records(Positions(commits)) /\ run[m] \in Runs(Positions(commits))
    BY DEF IInv, RecordInv, RunInv
  <2>. QED  BY <2>1 DEF Records, Runs, Positions
<1>5. /\ mark \in [Machines -> DOMAIN commits]
      /\ stopped \in [Machines -> Scopes \cup {NoScope}]
      /\ edits \in 0..MaxEdits /\ answers \in 0..MaxAnswers /\ failures \in 0..MaxFailures
  BY DEF IInv, RestInv
<1>. QED  BY <1>1, <1>2, <1>3, <1>4, <1>5 DEF TypeOK

(* Everything has its type.                                                 *)
THEOREM TypeTheorem == Spec => []TypeOK
<1>1. IInv("stand") => TypeOK
  BY TypesFollow
<1>. QED  BY <1>1, Invariance, PTL

(* The invariant gives the heads what their machines saw published.         *)
LEMMA HeadsFollow ==
    ASSUME NEW del, IInv(del)
    PROVE  HeadsHoldWhatWasPublished
BY DEF IInv, HeadsInv, Holds, HeadsHoldWhatWasPublished

(* However the machines race, whatever is refused, dies or is deleted, a    *)
(* head holds what its machine saw published of it, unless the machine      *)
(* moved it back.                                                           *)
THEOREM HeadsTheorem == Spec => []HeadsHoldWhatWasPublished
<1>1. IInv("stand") => HeadsHoldWhatWasPublished
  BY HeadsFollow
<1>. QED  BY <1>1, Invariance, PTL

-----------------------------------------------------------------------------
(* What moves on the remote. *)

(* A branch of the remote is deleted, or moves from where a machine saw it  *)
(* to the one commit that machine has for its head.                         *)
LEMMA RemoteMoves ==
    ASSUME NEW del, IInv(del), Next, NEW s \in Scopes,
           remote'[s] # remote[s], remote'[s] # Gone
    PROVE  /\ commits' = commits
           /\ \E m \in Machines : /\ s \in Pending(m) /\ Leased(m, s)
                                  /\ remote'[s] = TheOne(local[m][s])
<1>1. ASSUME NEW m \in Machines, PassStep(m)  PROVE remote' = remote
  BY <1>1 DEF PassStep, ConvergeScope, Converges, CheckEnds, FindEnds, FoundNothing,
     ContinueSettlesHome, AbortFoundStop, ContinueFoundStop, ConvergeEnds, PassIsRecorded, repo
<1>2. ASSUME NEW m \in Machines, Start(m)  PROVE remote' = remote
  BY <1>2 DEF Start, StartRead, StartSync, StartAbort, StartCommit, StartDelete, StartCreate,
     StartJoin, StartContinue, Starts, repo
<1>3. ASSUME NEW m \in Machines,
             \/ Fetch(m) \/ FetchUnreachable(m) \/ CheckRefuses(m) \/ BeginPass(m) \/ Plan(m)
             \/ Save(m) \/ Resolve(m) \/ Restore(m) \/ Forget(m) \/ Create(m) \/ SyncHome(m)
             \/ PublishUnreachable(m) \/ Crash(m)
      PROVE  remote' = remote
  BY <1>3 DEF Fetch, FetchUnreachable, FetchInto, CheckRefuses, BeginPass, Transacts, Plan,
     Save, Resolve, Restore, Forget, Create, SyncHome, PublishUnreachable, Crash, repo
<1>4. ASSUME NEW m \in Machines, Delete(m)  PROVE remote'[s] \in {remote[s], Gone}
  <2>1. remote' = remote \/ \E t \in Scopes : remote' = [remote EXCEPT ![t] = Gone]
    <3>1. run[m].edit.scope \in Scopes
      BY <1>4, TheFirstStep DEF Delete, IInv, StepsFit
    <3>. QED  BY <1>4, <3>1 DEF Delete
  <2>. QED  BY <2>1 DEF IInv, RepoInv
<1>5. PICK m \in Machines : (\E refused : Publish(m, refused)) \/ DiesAfterPush(m)
  BY <1>1, <1>2, <1>3, <1>4 DEF Next, RunStep, Fails
<1>6. commits' = commits
  BY <1>5 DEF Publish, DiesAfterPush
<1>7. PICK taken : /\ remote' = PushedTo(m, taken)
                   /\ \A t \in taken : t \in Pending(m) /\ Leased(m, t)
  <2>1. ASSUME NEW refused, Publish(m, refused)
        PROVE  remote' = PushedTo(m, {t \in Pending(m) \ refused : Leased(m, t)})
    BY <2>1 DEF Publish
  <2>2. DiesAfterPush(m) => remote' = PushedTo(m, {t \in Pending(m) : Leased(m, t)})
    BY DEF DiesAfterPush
  <2>3. ASSUME NEW S, S \subseteq Pending(m), remote' = PushedTo(m, {t \in S : Leased(m, t)})
        PROVE  \E taken : /\ remote' = PushedTo(m, taken)
                          /\ \A t \in taken : t \in Pending(m) /\ Leased(m, t)
    <3>. DEFINE T == {t \in S : Leased(m, t)}
    <3>1. \A t \in T : t \in Pending(m) /\ Leased(m, t)
      BY <2>3
    <3>. HIDE DEF T
    <3>2. remote' = PushedTo(m, T)
      BY <2>3 DEF T
    <3>. QED  BY <3>1, <3>2
  <2>4. ASSUME NEW refused  PROVE Pending(m) \ refused \subseteq Pending(m)
    OBVIOUS
  <2>. QED  BY <1>5, <2>1, <2>2, <2>3, <2>4
<1>8. remote'[s] = IF s \in taken THEN TheOne(local[m][s]) ELSE remote[s]
  BY <1>7 DEF PushedTo
<1>. QED  BY <1>6, <1>7, <1>8

(* What is pushed there holds what the branch was at, or carries a creation *)
(* of the scope where there was none.                                       *)
LEMMA PushHolds ==
    ASSUME NEW del, IInv(del), Next, NEW s \in Scopes \ rewound,
           remote'[s] # remote[s], remote'[s] # Gone
    PROVE  /\ commits' = commits /\ remote'[s] \in DOMAIN commits
           /\ IF remote[s] = Gone THEN Anew(del, commits, remote'[s], s)
              ELSE remote[s] \in commits[remote'[s]].anc
<1>1. commits' = commits
  BY RemoteMoves
<1>2. PICK m \in Machines : /\ s \in Pending(m) /\ Leased(m, s)
                            /\ remote'[s] = TheOne(local[m][s])
  BY RemoteMoves
<1>3. PICK c : c = remote'[s]
  OBVIOUS
<1>4. /\ c \in DOMAIN commits /\ c # Gone /\ local[m][s].sides = {c}
  BY <1>2, <1>3, PendingAreCommits DEF IInv
<1>5. Holds(del, commits, local[m][s], remote[s], s)
  BY <1>2 DEF IInv, HeadsInv, Leased
<1>6. IF remote[s] = Gone THEN Anew(del, commits, c, s) ELSE remote[s] \in commits[c].anc
  BY <1>4, <1>5 DEF Holds, AddedIds
<1>. QED  BY <1>1, <1>3, <1>4, <1>6

(* Published history is only added to: every branch of the remote moves to  *)
(* a descendant of where it was, is deleted, or is created again, unless a  *)
(* machine had moved the scope back.                                        *)
THEOREM GrowthTheorem == Spec => RemoteGrows
<1>. DEFINE grows == \A s \in Scopes \ rewound : remote'[s] # remote[s] =>
                        \/ remote'[s] = Gone
                        \/ remote[s] = Gone /\ CreatedSince(s)
                        \/ remote[s] # Gone /\ Descends(remote'[s], remote[s])
<1>1. IInv("stand") /\ [Next]_vars => [grows]_vars
  <2>. SUFFICES ASSUME IInv("stand"), Next, NEW s \in Scopes \ rewound, remote'[s] # remote[s],
                       remote'[s] # Gone
                PROVE  \/ remote[s] = Gone /\ CreatedSince(s)
                       \/ remote[s] # Gone /\ Descends(remote'[s], remote[s])
    OBVIOUS
  <2>1. /\ commits' = commits /\ remote'[s] \in DOMAIN commits
        /\ IF remote[s] = Gone THEN Anew("stand", commits, remote'[s], s)
           ELSE remote[s] \in commits[remote'[s]].anc
    BY PushHolds
  <2>2. commits[remote'[s]].anc \subseteq DOMAIN commits
    BY <2>1 DEF IInv, RepoInv, IsHistory
  <2>. QED  BY <2>1, <2>2 DEF Anew, CreatedSince, Descends
<1>. QED  BY <1>1, Invariance, PTL DEF Spec, RemoteGrows

(* A scope deleted on the remote comes back only as a new scope of its      *)
(* name, unless a machine had moved it back.                                *)
THEOREM DeletionTheorem == Spec => DeletionStands
<1>. DEFINE stands == \A s \in Scopes \ rewound : (remote[s] = Gone /\ remote'[s] # Gone) =>
                         \E c \in commits'[remote'[s]].anc \ {Creation(s)} :
                             commits'[c].creates = s
<1>1. IInv("stand") /\ [Next]_vars => [stands]_vars
  <2>. SUFFICES ASSUME IInv("stand"), Next, NEW s \in Scopes \ rewound, remote[s] = Gone,
                       remote'[s] # Gone
                PROVE  \E c \in commits'[remote'[s]].anc \ {Creation(s)} :
                          commits'[c].creates = s
    OBVIOUS
  <2>1. commits' = commits /\ Anew("stand", commits, remote'[s], s)
    BY PushHolds
  <2>. QED  BY <2>1 DEF Anew
<1>. QED  BY <1>1, Invariance, PTL DEF Spec, DeletionStands
=============================================================================
