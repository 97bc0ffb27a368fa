---------------------------- MODULE Lists_proofs ----------------------------
(***************************************************************************)
(* The lists of p2/exp2, for any sets of lists and elements.               *)
(* The walk: a pointer structure that is a chain is met element by element.*)
(* The heap: Holds(h, L) says that the pointers of h are those of the      *)
(* sequences L, and Linked and Unlinked keep it so (SortedList.c).         *)
(* The workers: the same, store by store and thread by thread, for any     *)
(* number of threads, iterations and parts (list.c).                       *)
(***************************************************************************)
EXTENDS SortedList, ListWorkers, FiniteSetTheorems, SequenceTheorems, WellFoundedInduction, TLAPS

\* Induction over the numbers, as a fact about the set of those that do.
LEMMA Numbers ==
  ASSUME NEW S, 0 \in S, \A n \in Nat : n \in S => n + 1 \in S
  PROVE  Nat \subseteq S
<1>1. SUFFICES ASSUME Nat \ S # {} PROVE FALSE
  OBVIOUS
<1>2. PICK x \in Nat \ S : \A y \in Nat \ S : ~(<<y, x>> \in OpToRel(<, Nat))
  BY <1>1, NatLessThanWellFounded, WFMin
<1>3. \A y \in Nat \ S : ~(y < x)
  BY <1>2 DEF OpToRel
<1>4. x # 0 /\ x - 1 \in Nat /\ x - 1 < x
  OBVIOUS
<1> QED
  BY <1>3, <1>4

\* x, s[x], s[s[x]], ... is a function of the numbers.
Iterated(X, s, x) ==
  \E g \in [Nat -> X] : g[0] = x /\ \A n \in Nat : g[n + 1] = s[g[n]]

LEMMA Iterates ==
  ASSUME NEW X, NEW s, s \in [X -> X], NEW x, x \in X
  PROVE  Iterated(X, s, x)
<1> DEFINE Prefix(k) == {f \in [0 .. k -> X] :
                           f[0] = x /\ \A n \in 0 .. k - 1 : f[n + 1] = s[f[n]]}
           S == {k \in Nat : Prefix(k) # {}}
<1>1. 0 \in S
  <2>1. [n \in 0 .. 0 |-> x] \in Prefix(0)
    OBVIOUS
  <2> QED BY <2>1
<1>2. ASSUME NEW k \in Nat, k \in S PROVE k + 1 \in S
  <2>1. PICK f : f \in Prefix(k)
    BY <1>2
  <2>2. [n \in 0 .. k + 1 |-> IF n <= k THEN f[n] ELSE s[f[k]]] \in Prefix(k + 1)
    BY <2>1
  <2>3. k + 1 \in Nat
    OBVIOUS
  <2> HIDE DEF Prefix
  <2> QED BY <2>2, <2>3
<1> HIDE DEF S
<1>3. \A k \in Nat : Prefix(k) # {}
  <2>1. Nat \subseteq S
    BY <1>1, <1>2, Numbers
  <2> QED BY <2>1 DEF S
<1> DEFINE F(k) == CHOOSE f : f \in Prefix(k)
<1>4. \A k \in Nat : F(k) \in Prefix(k)
  BY <1>3
<1> HIDE DEF F
<1>5. \A k \in Nat : /\ F(k) \in [0 .. k -> X] /\ F(k)[0] = x
                     /\ \A n \in 0 .. k - 1 : F(k)[n + 1] = s[F(k)[n]]
  BY <1>4
<1>6. ASSUME NEW k \in Nat PROVE F(k + 1)[k] = F(k)[k]
  <2> DEFINE T == {n \in Nat : n <= k => F(k + 1)[n] = F(k)[n]}
  <2>1. 0 \in T
    BY <1>5
  <2>2. ASSUME NEW n \in Nat, n \in T PROVE n + 1 \in T
    <3>1. SUFFICES ASSUME n + 1 <= k PROVE F(k + 1)[n + 1] = F(k)[n + 1]
      OBVIOUS
    <3>2. n \in 0 .. k - 1 /\ n \in 0 .. (k + 1) - 1
      BY <3>1
    <3>3. F(k + 1)[n] = F(k)[n]
      BY <2>2, <3>2
    <3>4. F(k)[n + 1] = s[F(k)[n]]
      BY <1>5, <3>2
    <3>5. F(k + 1)[n + 1] = s[F(k + 1)[n]]
      BY <1>5, <3>2
    <3> QED BY <3>3, <3>4, <3>5
  <2> HIDE DEF T
  <2>3. k \in T
    BY <2>1, <2>2, Numbers
  <2> QED BY <2>3 DEF T
<1> DEFINE g == [k \in Nat |-> F(k)[k]]
<1>7. g \in [Nat -> X] /\ g[0] = x
  BY <1>5
<1>8. ASSUME NEW n \in Nat PROVE g[n + 1] = s[g[n]]
  <2>1. F(n + 1)[n + 1] = s[F(n + 1)[n]]
    BY <1>5
  <2> QED BY <2>1, <1>6
<1> QED
  BY <1>7, <1>8 DEF Iterated

Unfolds(h, l, D, m, q) ==
  Ahead(h, l)[m][q] = IF m > 0 /\ q \in D \ {l}
                      THEN <<q>> \o Ahead(h, l)[m - 1][h.next[q]] ELSE << >>

LEMMA AheadUnfolds ==
  ASSUME NEW h, NEW l, NEW D, h.next \in [D -> D \cup {Uninit}],
         NEW m \in Nat, NEW q \in D \cup {Uninit}
  PROVE  Unfolds(h, l, D, m, q)
<1> DEFINE X == [D \cup {Uninit} -> Seq(D)]
           s == [g \in X |-> [n \in D \cup {Uninit} |->
                   IF n \in D \ {l} THEN <<n>> \o g[h.next[n]] ELSE << >>]]
           x == [n \in D \cup {Uninit} |-> << >>]
           Unfolded(f) == [most \in Nat |-> [n \in D \cup {Uninit} |->
              IF most > 0 /\ n \in D \ {l}
              THEN <<n>> \o f[most - 1][h.next[n]] ELSE << >>]]
<1>1. x \in X
  OBVIOUS
<1>2. s \in [X -> X]
  OBVIOUS
<1>3. PICK g \in [Nat -> X] : g[0] = x /\ \A n \in Nat : g[n + 1] = s[g[n]]
  <2> HIDE DEF X, s, x
  <2>1. Iterated(X, s, x)
    BY <1>1, <1>2, Iterates, Zenon
  <2> QED BY <2>1, Zenon DEF Iterated
<1>4. g = Unfolded(g)
  <2>1. g = [most \in Nat |-> g[most]]
    OBVIOUS
  <2>2. ASSUME NEW most \in Nat
        PROVE  g[most] = [n \in D \cup {Uninit} |->
                            IF most > 0 /\ n \in D \ {l}
                            THEN <<n>> \o g[most - 1][h.next[n]] ELSE << >>]
    <3>1. CASE most = 0
      <4>1. g[0] = x
        BY <1>3, Zenon
      <4>2. g[most] = x
        BY <4>1, <3>1, Zenon
      <4>3. ~(most > 0)
        BY <3>1
      <4> QED BY <4>2, <4>3
    <3>2. CASE most # 0
      <4>1. most - 1 \in Nat /\ (most - 1) + 1 = most
        BY <3>2
      <4>2. g[most] = s[g[most - 1]] /\ g[most - 1] \in X
        BY <1>3, <4>1
      <4>3. most > 0
        BY <3>2
      <4> QED BY <4>2, <4>3
    <3> QED BY <3>1, <3>2
  <2> QED BY <2>1, <2>2
<1>5. Ahead(h, l) = CHOOSE f : f = Unfolded(f)
  BY DEF Ahead
<1> HIDE DEF Unfolded
<1>6. Ahead(h, l) = Unfolded(Ahead(h, l))
  BY <1>4, <1>5
<1> DEFINE A == Ahead(h, l)
<1>7. A = [most \in Nat |-> [n \in D \cup {Uninit} |->
              IF most > 0 /\ n \in D \ {l}
              THEN <<n>> \o A[most - 1][h.next[n]] ELSE << >>]]
  BY <1>6 DEF Unfolded
<1> HIDE DEF A
<1>8. A[m] = [n \in D \cup {Uninit} |->
              IF m > 0 /\ n \in D \ {l}
              THEN <<n>> \o A[m - 1][h.next[n]] ELSE << >>]
  BY <1>7, Zenon
<1>9. A[m][q] = IF m > 0 /\ q \in D \ {l}
                THEN <<q>> \o A[m - 1][h.next[q]] ELSE << >>
  BY <1>8, Zenon
<1> QED
  BY <1>9, Zenon DEF A, Unfolds

-----------------------------------------------------------------------------
(* A list as a sequence: the head stands at 0 and again behind the last.   *)

Place(s, l, k) == IF k \in 1 .. Len(s) THEN s[k] ELSE l

\* From the head l the next pointers lead through the elements of s and back.
Chain(h, l, s) ==
  \A k \in 0 .. Len(s) : h.next[Place(s, l, k)] = Place(s, l, k + 1)

\* What the walk meets is the list: it stops at the head, and has nodes enough.
LEMMA WalkMeets ==
  ASSUME NEW h, NEW D, IsFiniteSet(D), h.next \in [D -> D \cup {Uninit}],
         NEW l \in D, NEW s \in Seq(D \ {l}), Chain(h, l, s),
         \A j, k \in 1 .. Len(s) : s[j] = s[k] => j = k
  PROVE  Contents(h, l) = s
<1> DEFINE A == Ahead(h, l)
           T == {m \in Nat : \A k \in 1 .. Len(s) + 1 :
                   Len(s) + 1 - k <= m => A[m][Place(s, l, k)] = SubSeq(s, k, Len(s))}
<1>1. ASSUME NEW m \in Nat, NEW n \in D \cup {Uninit}
      PROVE  A[m][n] = IF m > 0 /\ n \in D \ {l}
                       THEN <<n>> \o A[m - 1][h.next[n]] ELSE << >>
  <2>1. Unfolds(h, l, D, m, n)
    BY AheadUnfolds, Zenon
  <2> QED BY <2>1, Zenon DEF Unfolds
<1> HIDE DEF A
<1>2. \A k \in 1 .. Len(s) : Place(s, l, k) = s[k] /\ s[k] \in D \ {l}
  BY DEF Place
<1>3. Place(s, l, Len(s) + 1) = l /\ SubSeq(s, Len(s) + 1, Len(s)) = << >>
  BY DEF Place
<1>4. ASSUME NEW m \in Nat
      PROVE  A[m][Place(s, l, Len(s) + 1)] = SubSeq(s, Len(s) + 1, Len(s))
  <2>1. A[m][l] = << >>
    BY <1>1
  <2> QED BY <2>1, <1>3, Zenon
<1>5. 0 \in T
  <2>1. SUFFICES ASSUME NEW k \in 1 .. Len(s) + 1, Len(s) + 1 - k <= 0
                 PROVE  A[0][Place(s, l, k)] = SubSeq(s, k, Len(s))
    OBVIOUS
  <2>2. k = Len(s) + 1
    BY <2>1
  <2>3. 0 \in Nat
    OBVIOUS
  <2> QED BY <2>2, <2>3, <1>4, Zenon
<1>6. ASSUME NEW m \in Nat, m \in T PROVE m + 1 \in T
  <2>1. SUFFICES ASSUME NEW k \in 1 .. Len(s) + 1, Len(s) + 1 - k <= m + 1
                 PROVE  A[m + 1][Place(s, l, k)] = SubSeq(s, k, Len(s))
    OBVIOUS
  <2>2. CASE k = Len(s) + 1
    <3>1. m + 1 \in Nat
      OBVIOUS
    <3> QED BY <2>2, <3>1, <1>4, Zenon
  <2>3. CASE k # Len(s) + 1
    <3>1. k \in 1 .. Len(s) /\ k + 1 \in 1 .. Len(s) + 1 /\ Len(s) + 1 - (k + 1) <= m
      BY <2>1, <2>3
    <3>2. A[m][Place(s, l, k + 1)] = SubSeq(s, k + 1, Len(s))
      BY <1>6, <3>1
    <3>3. h.next[s[k]] = Place(s, l, k + 1)
      BY <1>2, <3>1 DEF Chain
    <3>4. A[m + 1][s[k]] = <<s[k]>> \o A[(m + 1) - 1][h.next[s[k]]]
      <4>1. m + 1 \in Nat /\ m + 1 > 0 /\ s[k] \in D \ {l}
        BY <1>2, <3>1
      <4> QED BY <1>1, <4>1
    <3>5. (m + 1) - 1 = m
      OBVIOUS
    <3>6. A[m + 1][s[k]] = <<s[k]>> \o SubSeq(s, k + 1, Len(s))
      BY <3>2, <3>3, <3>4, <3>5
    <3>7. <<s[k]>> \o SubSeq(s, k + 1, Len(s)) = SubSeq(s, k, Len(s))
      BY <3>1
    <3> QED BY <3>1, <3>6, <3>7, <1>2
  <2> QED BY <2>2, <2>3
<1>7. Len(s) \in Nat /\ Len(s) <= Cardinality(D)
  <2>1. IsFiniteSet(1 .. Len(s)) /\ Cardinality(1 .. Len(s)) = Len(s)
    <3>1. 1 \in Int /\ Len(s) \in Int /\ Len(s) \in Nat
      OBVIOUS
    <3>2. /\ IsFiniteSet(1 .. Len(s))
          /\ Cardinality(1 .. Len(s)) = IF 1 > Len(s) THEN 0 ELSE Len(s) - 1 + 1
      BY <3>1, FS_Interval, Zenon
    <3> QED BY <3>1, <3>2
  <2>2. [k \in 1 .. Len(s) |-> s[k]] \in Injection(1 .. Len(s), D)
    BY <1>2 DEF Injection, IsInjective
  <2> QED BY <2>1, <2>2, FS_Injection
<1>8. Cardinality(D) \in T
  <2> HIDE DEF T
  <2>1. Cardinality(D) \in Nat
    BY FS_CardinalityType
  <2> QED BY <1>5, <1>6, <2>1, Numbers
<1>9. h.next[l] = Place(s, l, 1)
  BY DEF Chain, Place
<1>10. A[Cardinality(D)][Place(s, l, 1)] = SubSeq(s, 1, Len(s))
  BY <1>7, <1>8
<1>11. SubSeq(s, 1, Len(s)) = s
  OBVIOUS
<1>12. DOMAIN h.next = D
  OBVIOUS
<1> QED
  BY <1>9, <1>10, <1>11, <1>12 DEF Contents, A

-----------------------------------------------------------------------------
(* All the lists at once: L says which elements are on which list.          *)

\* No element is at two places.
Once(L, Ls) ==
  \A l, m \in Ls : \A j \in 1 .. Len(L[l]), k \in 1 .. Len(L[m]) :
    L[l][j] = L[m][k] => l = m /\ j = k

OnNone(L, Ls, e) == \A l \in Ls : \A k \in 1 .. Len(L[l]) : L[l][k] # e

Forward(next, L, Ls) ==
  \A l \in Ls : \A k \in 0 .. Len(L[l]) : next[Place(L[l], l, k)] = Place(L[l], l, k + 1)

Backward(prev, L, Ls) ==
  \A l \in Ls : \A k \in 0 .. Len(L[l]) : prev[Place(L[l], l, k + 1)] = Place(L[l], l, k)

LEMMA Places ==
  ASSUME NEW Es, NEW s \in Seq(Es), NEW l
  PROVE  /\ Len(s) \in Nat
         /\ Place(s, l, 0) = l /\ Place(s, l, Len(s) + 1) = l
         /\ \A k \in 1 .. Len(s) : Place(s, l, k) = s[k] /\ s[k] \in Es
         /\ \A k \in 0 .. Len(s) + 1 : Place(s, l, k) \in Es \cup {l}
BY DEF Place

LEMMA AllPlaces ==
  ASSUME NEW Es, NEW Ls, NEW L \in [Ls -> Seq(Es)], NEW l \in Ls
  PROVE  /\ Len(L[l]) \in Nat
         /\ Place(L[l], l, 0) = l /\ Place(L[l], l, Len(L[l]) + 1) = l
         /\ \A k \in 1 .. Len(L[l]) : Place(L[l], l, k) = L[l][k] /\ L[l][k] \in Es
         /\ \A k \in 0 .. Len(L[l]) + 1 : Place(L[l], l, k) \in Es \cup {l}
<1>1. PICK s \in Seq(Es) : s = L[l]
  OBVIOUS
<1> QED BY <1>1, Places

LEMMA Placed ==
  ASSUME NEW Es, NEW Ls, NEW L \in [Ls -> Seq(Es)], NEW l \in Ls,
         NEW k \in 1 .. Len(L[l])
  PROVE  Place(L[l], l, k) = L[l][k] /\ L[l][k] \in Es /\ Place(L[l], l, k) \in Es
BY DEF Place

\* The head and the elements of all the lists are different nodes.
LEMMA PlacedOnce ==
  ASSUME NEW Ls, NEW Es, Ls \cap Es = {}, NEW L \in [Ls -> Seq(Es)], Once(L, Ls),
         NEW l \in Ls, NEW m \in Ls, NEW j \in 0 .. Len(L[l]), NEW k \in 0 .. Len(L[m]),
         Place(L[l], l, j) = Place(L[m], m, k)
  PROVE  l = m /\ j = k
<1>1. L[l] \in Seq(Es) /\ L[m] \in Seq(Es)
  OBVIOUS
<1>2. CASE j = 0 /\ k = 0
  BY <1>2, AllPlaces
<1>3. CASE j = 0 /\ k # 0
  <2>1. Place(L[l], l, j) = l
    BY <1>3, AllPlaces
  <2>2. k \in 1 .. Len(L[m])
    BY <1>3
  <2>3. Place(L[m], m, k) \in Es
    BY <2>2, Placed
  <2> QED BY <2>1, <2>3
<1>4. CASE j # 0 /\ k = 0
  <2>1. Place(L[m], m, k) = m
    BY <1>4, AllPlaces
  <2>2. j \in 1 .. Len(L[l])
    BY <1>4
  <2>3. Place(L[l], l, j) \in Es
    BY <2>2, Placed
  <2> QED BY <2>1, <2>3
<1>5. CASE j # 0 /\ k # 0
  <2>1. j \in 1 .. Len(L[l]) /\ k \in 1 .. Len(L[m])
    BY <1>5
  <2>2. L[l][j] = L[m][k]
    BY <2>1, Placed
  <2> QED BY <2>1, <2>2 DEF Once
<1> QED BY <1>2, <1>3, <1>4, <1>5

\* Likewise when the heads are counted behind the last elements.
LEMMA PlacedOnceAfter ==
  ASSUME NEW Ls, NEW Es, Ls \cap Es = {}, NEW L \in [Ls -> Seq(Es)], Once(L, Ls),
         NEW l \in Ls, NEW m \in Ls, NEW j \in 0 .. Len(L[l]), NEW k \in 0 .. Len(L[m]),
         Place(L[l], l, j + 1) = Place(L[m], m, k + 1)
  PROVE  l = m /\ j = k
<1> DEFINE J == IF j = Len(L[l]) THEN 0 ELSE j + 1
           K == IF k = Len(L[m]) THEN 0 ELSE k + 1
<1>1. L[l] \in Seq(Es) /\ L[m] \in Seq(Es) /\ Len(L[l]) \in Nat /\ Len(L[m]) \in Nat
  OBVIOUS
<1>2. J \in 0 .. Len(L[l]) /\ K \in 0 .. Len(L[m])
  BY <1>1
<1>3. Place(L[l], l, J) = Place(L[l], l, j + 1) /\ Place(L[m], m, K) = Place(L[m], m, k + 1)
  <2>1. Place(L[l], l, 0) = Place(L[l], l, Len(L[l]) + 1)
    BY AllPlaces
  <2>2. Place(L[m], m, 0) = Place(L[m], m, Len(L[m]) + 1)
    BY AllPlaces
  <2> QED BY <2>1, <2>2
<1> HIDE DEF J, K
<1>4. l = m /\ J = K
  BY <1>2, <1>3, PlacedOnce
<1> QED
  BY <1>1, <1>4 DEF J, K

LEMMA Removed ==
  ASSUME NEW Es, NEW s \in Seq(Es), NEW i \in 1 .. Len(s), NEW l
  PROVE  /\ RemoveAt(s, i) \in Seq(Es) /\ Len(RemoveAt(s, i)) = Len(s) - 1
         /\ \A k \in 1 .. Len(s) - 1 :
              RemoveAt(s, i)[k] = IF k < i THEN s[k] ELSE s[k + 1]
         /\ \A k \in 0 .. Len(s) :
              Place(RemoveAt(s, i), l, k) = IF k < i THEN Place(s, l, k) ELSE Place(s, l, k + 1)
<1> DEFINE a == SubSeq(s, 1, i - 1)
           b == SubSeq(s, i + 1, Len(s))
<1>1. RemoveAt(s, i) = a \o b
  BY DEF RemoveAt
<1>2. /\ a \in Seq(Es) /\ Len(a) = i - 1 /\ \A k \in 1 .. i - 1 : a[k] = s[k]
      /\ b \in Seq(Es) /\ Len(b) = Len(s) - i
      /\ \A k \in 1 .. Len(s) - i : b[k] = s[k + i]
  OBVIOUS
<1> HIDE DEF a, b
<1>3. /\ a \o b \in Seq(Es) /\ Len(a \o b) = Len(s) - 1
      /\ \A k \in 1 .. i - 1 : (a \o b)[k] = s[k]
      /\ \A k \in 1 .. Len(s) - i : (a \o b)[(i - 1) + k] = s[k + i]
  <2>1. /\ a \o b \in Seq(Es) /\ Len(a \o b) = Len(a) + Len(b)
        /\ \A k \in 1 .. Len(a) : (a \o b)[k] = a[k]
        /\ \A k \in 1 .. Len(b) : (a \o b)[Len(a) + k] = b[k]
    <3>1. a \in Seq(Es) /\ b \in Seq(Es)
      BY <1>2
    <3> QED BY <3>1
  <2>2. Len(s) \in Nat /\ (i - 1) + (Len(s) - i) = Len(s) - 1
    OBVIOUS
  <2>3. Len(a \o b) = Len(s) - 1
    BY <1>2, <2>1, <2>2
  <2>4. \A k \in 1 .. i - 1 : (a \o b)[k] = s[k]
    BY <1>2, <2>1, Zenon
  <2>5. \A k \in 1 .. Len(s) - i : (a \o b)[(i - 1) + k] = s[k + i]
    BY <1>2, <2>1, Zenon
  <2> QED BY <2>1, <2>3, <2>4, <2>5, Zenon
<1>4. ASSUME NEW k \in 1 .. Len(s) - 1
      PROVE  RemoveAt(s, i)[k] = IF k < i THEN s[k] ELSE s[k + 1]
  <2>1. CASE k < i
    BY <1>1, <1>3, <2>1
  <2>2. CASE ~(k < i)
    <3>1. /\ k - (i - 1) \in 1 .. Len(s) - i /\ (i - 1) + (k - (i - 1)) = k
          /\ (k - (i - 1)) + i = k + 1
      BY <2>2
    <3>2. PICK j \in 1 .. Len(s) - i : (i - 1) + j = k /\ j + i = k + 1
      BY <3>1
    <3>3. (a \o b)[k] = s[k + 1]
      BY <1>3, <3>2
    <3> QED BY <1>1, <2>2, <3>3
  <2> QED BY <2>1, <2>2
<1>5. RemoveAt(s, i) \in Seq(Es) /\ Len(RemoveAt(s, i)) = Len(s) - 1
  BY <1>1, <1>3
<1>6. ASSUME NEW k \in 0 .. Len(s)
      PROVE  Place(RemoveAt(s, i), l, k) = IF k < i THEN Place(s, l, k) ELSE Place(s, l, k + 1)
  BY <1>4, <1>5 DEF Place
<1> QED
  BY <1>4, <1>5, <1>6

-----------------------------------------------------------------------------
(* The stores of an insertion and of a deletion.                            *)

Longer(L, l, e)  == [L EXCEPT ![l] = <<e>> \o @]
Shorter(L, l, i) == [L EXCEPT ![l] = RemoveAt(@, i)]

\* A node that is no head and on no list is nobody's successor.
LEMMA NotPlaced ==
  ASSUME NEW Ls, NEW Es, Ls \cap Es = {}, NEW L \in [Ls -> Seq(Es)],
         NEW e \in Es, OnNone(L, Ls, e), NEW l \in Ls, NEW k \in 0 .. Len(L[l]) + 1
  PROVE  Place(L[l], l, k) # e
<1>1. CASE k \in 1 .. Len(L[l])
  BY <1>1, Placed DEF OnNone
<1>2. CASE k \notin 1 .. Len(L[l])
  <2>1. Place(L[l], l, k) = l
    BY <1>2 DEF Place
  <2> QED BY <2>1
<1> QED BY <1>1, <1>2

\* What is stored in the pointers of such a node matters to no list.
LEMMA StoreAside ==
  ASSUME NEW Ls, NEW Es, Ls \cap Es = {}, NEW L \in [Ls -> Seq(Es)],
         NEW e \in Es, OnNone(L, Ls, e), NEW v, NEW N, NEW V,
         NEW next \in [N -> V], NEW prev \in [N -> V]
  PROVE  /\ Forward(next, L, Ls) => Forward([next EXCEPT ![e] = v], L, Ls)
         /\ Backward(prev, L, Ls) => Backward([prev EXCEPT ![e] = v], L, Ls)
<1>1. ASSUME NEW l \in Ls, NEW k \in 0 .. Len(L[l])
      PROVE  Place(L[l], l, k) # e /\ Place(L[l], l, k + 1) # e
  <2>1. k \in 0 .. Len(L[l]) + 1 /\ k + 1 \in 0 .. Len(L[l]) + 1
    OBVIOUS
  <2> QED BY <2>1, NotPlaced
<1>2. \A n : n # e => [next EXCEPT ![e] = v][n] = next[n] /\ [prev EXCEPT ![e] = v][n] = prev[n]
  OBVIOUS
<1>3. ASSUME Forward(next, L, Ls) PROVE Forward([next EXCEPT ![e] = v], L, Ls)
  BY <1>1, <1>2, <1>3, Zenon DEF Forward
<1>4. ASSUME Backward(prev, L, Ls) PROVE Backward([prev EXCEPT ![e] = v], L, Ls)
  BY <1>1, <1>2, <1>4, Zenon DEF Backward
<1> QED BY <1>3, <1>4

IsLonger(L, Ls, Es, l, e) ==
  /\ Longer(L, l, e) \in [Ls -> Seq(Es)]
  /\ \A m \in Ls : m # l => Longer(L, l, e)[m] = L[m]
  /\ Longer(L, l, e)[l] = <<e>> \o L[l]
  /\ Len(Longer(L, l, e)[l]) = Len(L[l]) + 1
  /\ Place(Longer(L, l, e)[l], l, 0) = l /\ Place(Longer(L, l, e)[l], l, 1) = e
  /\ \A k \in 1 .. Len(L[l]) + 1 :
       Place(Longer(L, l, e)[l], l, k + 1) = Place(L[l], l, k)
  /\ Longer(L, l, e)[l][1] = e
  /\ \A k \in 1 .. Len(L[l]) : Longer(L, l, e)[l][k + 1] = L[l][k]

\* A longer list has its old places one further on.
LEMMA LongerPlaces ==
  ASSUME NEW Ls, NEW Es, NEW L \in [Ls -> Seq(Es)], NEW l \in Ls, NEW e \in Es
  PROVE  IsLonger(L, Ls, Es, l, e)
<1>1. PICK s \in Seq(Es) : s = L[l]
  OBVIOUS
<1>2. Longer(L, l, e)[l] = <<e>> \o s
  BY <1>1 DEF Longer
<1>3. /\ <<e>> \o s \in Seq(Es) /\ Len(<<e>> \o s) = Len(s) + 1
      /\ (<<e>> \o s)[1] = e
      /\ \A k \in 1 .. Len(s) : (<<e>> \o s)[k + 1] = s[k]
      /\ Place(<<e>> \o s, l, 0) = l /\ Place(<<e>> \o s, l, 1) = e
      /\ \A k \in 1 .. Len(s) + 1 : Place(<<e>> \o s, l, k + 1) = Place(s, l, k)
  <2>1. /\ <<e>> \o s \in Seq(Es) /\ Len(<<e>> \o s) = Len(s) + 1
        /\ (<<e>> \o s)[1] = e
    OBVIOUS
  <2>2. \A k \in 1 .. Len(s) : (<<e>> \o s)[k + 1] = s[k]
    OBVIOUS
  <2>3. Place(<<e>> \o s, l, 0) = l /\ Place(<<e>> \o s, l, 1) = e
    BY <2>1 DEF Place
  <2>4. \A k \in 1 .. Len(s) + 1 : Place(<<e>> \o s, l, k + 1) = Place(s, l, k)
    BY <2>1, <2>2 DEF Place
  <2> QED
    BY <2>1, <2>2, <2>3, <2>4
<1>4. Longer(L, l, e) \in [Ls -> Seq(Es)] /\ \A m \in Ls : m # l => Longer(L, l, e)[m] = L[m]
  BY <1>1, <1>3 DEF Longer
<1> HIDE DEF Longer
<1> QED
  BY <1>1, <1>2, <1>3, <1>4, Zenon DEF IsLonger

IsShorter(L, Ls, Es, l, i) ==
  /\ Shorter(L, l, i) \in [Ls -> Seq(Es)]
  /\ \A m \in Ls : m # l => Shorter(L, l, i)[m] = L[m]
  /\ Shorter(L, l, i)[l] = RemoveAt(L[l], i)
  /\ Len(Shorter(L, l, i)[l]) = Len(L[l]) - 1
  /\ \A k \in 0 .. Len(L[l]) :
       Place(Shorter(L, l, i)[l], l, k) =
         IF k < i THEN Place(L[l], l, k) ELSE Place(L[l], l, k + 1)
  /\ \A k \in 1 .. Len(L[l]) - 1 :
       Shorter(L, l, i)[l][k] = IF k < i THEN L[l][k] ELSE L[l][k + 1]

LEMMA ShorterPlaces ==
  ASSUME NEW Ls, NEW Es, NEW L \in [Ls -> Seq(Es)], NEW l \in Ls, NEW i \in 1 .. Len(L[l])
  PROVE  IsShorter(L, Ls, Es, l, i)
<1>1. PICK s \in Seq(Es) : s = L[l]
  OBVIOUS
<1>2. Shorter(L, l, i)[l] = RemoveAt(s, i)
  BY <1>1 DEF Shorter
<1>3. /\ RemoveAt(s, i) \in Seq(Es) /\ Len(RemoveAt(s, i)) = Len(s) - 1
      /\ \A k \in 1 .. Len(s) - 1 :
           RemoveAt(s, i)[k] = IF k < i THEN s[k] ELSE s[k + 1]
      /\ \A k \in 0 .. Len(s) :
           Place(RemoveAt(s, i), l, k) = IF k < i THEN Place(s, l, k) ELSE Place(s, l, k + 1)
  <2>1. i \in 1 .. Len(s)
    BY <1>1
  <2> QED BY <2>1, Removed
<1>4. Shorter(L, l, i) \in [Ls -> Seq(Es)] /\ \A m \in Ls : m # l => Shorter(L, l, i)[m] = L[m]
  BY <1>1, <1>3 DEF Shorter
<1> HIDE DEF Shorter
<1> QED
  BY <1>1, <1>2, <1>3, <1>4, Zenon DEF IsShorter

\* Linking e in front: the head's next and the prev of what was the first.
LEMMA LinkForward ==
  ASSUME NEW Ls, NEW Es, Ls \cap Es = {}, NEW L \in [Ls -> Seq(Es)], Once(L, Ls),
         NEW l \in Ls, NEW e \in Es, OnNone(L, Ls, e),
         NEW V, NEW next \in [Ls \cup Es -> V],
         Forward(next, L, Ls), next[e] = next[l]
  PROVE  Forward([next EXCEPT ![l] = e], Longer(L, l, e), Ls)
<1> DEFINE new == [next EXCEPT ![l] = e]
           M == Longer(L, l, e)
<1>1. new[l] = e /\ \A n : n # l => new[n] = next[n]
  OBVIOUS
<1>2. SUFFICES ASSUME NEW m \in Ls, NEW k \in 0 .. Len(M[m])
               PROVE  new[Place(M[m], m, k)] = Place(M[m], m, k + 1)
  BY DEF Forward
<1>8. IsLonger(L, Ls, Es, l, e)
  BY LongerPlaces
<1>3. m # l => M[m] = L[m]
  BY <1>8, Zenon DEF IsLonger
<1>4. Len(L[l]) \in Nat /\ Len(L[m]) \in Nat
  OBVIOUS
<1> HIDE DEF new, M
<1>5. \A q \in Ls : \A j \in 0 .. Len(L[q]) : next[Place(L[q], q, j)] = Place(L[q], q, j + 1)
  BY DEF Forward
<1>6. CASE m # l
  <2>1. k \in 0 .. Len(L[m]) /\ M[m] = L[m]
    BY <1>3, <1>6
  <2>2. Place(L[m], m, k) # l
    <3>1. 0 \in 0 .. Len(L[l]) /\ Place(L[l], l, 0) = l
      BY AllPlaces
    <3> QED BY <2>1, <3>1, <1>6, PlacedOnce
  <2> QED BY <2>1, <2>2, <1>1, <1>5
<1>7. CASE m = l
  <2>1. /\ Len(M[l]) = Len(L[l]) + 1
        /\ Place(M[l], l, 0) = l /\ Place(M[l], l, 1) = e
        /\ \A j \in 1 .. Len(L[l]) + 1 : Place(M[l], l, j + 1) = Place(L[l], l, j)
    BY <1>8, Zenon DEF IsLonger, M
  <2>2. CASE k = 0
    BY <1>1, <1>7, <2>1, <2>2
  <2>3. CASE k = 1
    <3>1. Place(M[l], l, 1 + 1) = Place(L[l], l, 1)
      <4>1. 1 \in 1 .. Len(L[l]) + 1
        BY <1>4
      <4> QED BY <2>1, <4>1
    <3>2. next[l] = Place(L[l], l, 1)
      <4>1. 0 \in 0 .. Len(L[l]) /\ 0 + 1 = 1 /\ Place(L[l], l, 0) = l
        BY AllPlaces, <1>4
      <4> QED BY <1>5, <4>1
    <3>3. new[e] = next[e]
      BY <1>1
    <3> QED BY <1>7, <2>1, <2>3, <3>1, <3>2, <3>3
  <2>4. CASE k # 0 /\ k # 1
    <3>1. PICK j \in 1 .. Len(L[l]) : k = j + 1
      <4>1. k - 1 \in 1 .. Len(L[l]) /\ k = (k - 1) + 1
        BY <1>4, <1>7, <2>1, <2>4
      <4> QED BY <4>1
    <3>2. j \in 1 .. Len(L[l]) + 1 /\ j + 1 \in 1 .. Len(L[l]) + 1 /\ j \in 0 .. Len(L[l])
      BY <1>4
    <3>3. Place(M[l], l, k) = Place(L[l], l, j) /\ Place(M[l], l, k + 1) = Place(L[l], l, j + 1)
      BY <2>1, <3>1, <3>2
    <3>4. Place(L[l], l, j) # l
      <4>1. Place(L[l], l, j) \in Es
        BY Placed
      <4> QED BY <4>1
    <3>5. new[Place(L[l], l, j)] = next[Place(L[l], l, j)]
      BY <1>1, <3>4
    <3>6. next[Place(L[l], l, j)] = Place(L[l], l, j + 1)
      BY <1>5, <3>2
    <3> QED BY <1>7, <3>3, <3>5, <3>6
  <2> QED BY <2>2, <2>3, <2>4
<1> QED BY <1>6, <1>7

LEMMA LinkBackward ==
  ASSUME NEW Ls, NEW Es, Ls \cap Es = {}, NEW L \in [Ls -> Seq(Es)], Once(L, Ls),
         NEW l \in Ls, NEW e \in Es, OnNone(L, Ls, e),
         NEW V, NEW prev \in [Ls \cup Es -> V],
         Backward(prev, L, Ls), prev[e] = l, NEW c, c = Place(L[l], l, 1)
  PROVE  Backward([prev EXCEPT ![c] = e], Longer(L, l, e), Ls)
<1> DEFINE new == [prev EXCEPT ![c] = e]
           M == Longer(L, l, e)
<1>a. Len(L[l]) \in Nat
  OBVIOUS
<1>b. 0 \in 0 .. Len(L[l]) /\ 0 + 1 = 1 /\ 1 \in 0 .. Len(L[l]) + 1 /\ 1 \in 1 .. Len(L[l]) + 1
  BY <1>a
<1>1. new[c] = e /\ \A n : n # c => new[n] = prev[n]
  <2>1. c \in Ls \cup Es
    <3>1. Place(L[l], l, 1) \in Es \cup {l}
      BY <1>b, AllPlaces
    <3> QED BY <3>1
  <2> QED BY <2>1
<1>c. c # e
  BY <1>b, NotPlaced
<1>2. SUFFICES ASSUME NEW m \in Ls, NEW k \in 0 .. Len(M[m])
               PROVE  new[Place(M[m], m, k + 1)] = Place(M[m], m, k)
  BY DEF Backward
<1>8. IsLonger(L, Ls, Es, l, e)
  BY LongerPlaces
<1>3. m # l => M[m] = L[m]
  BY <1>8, Zenon DEF IsLonger
<1>4. Len(L[l]) \in Nat /\ Len(L[m]) \in Nat
  OBVIOUS
<1> HIDE DEF new, M
<1>5. \A q \in Ls : \A j \in 0 .. Len(L[q]) : prev[Place(L[q], q, j + 1)] = Place(L[q], q, j)
  BY DEF Backward
<1>6. CASE m # l
  <2>1. k \in 0 .. Len(L[m]) /\ M[m] = L[m]
    BY <1>3, <1>6
  <2>2. Place(L[m], m, k + 1) # c
    BY <2>1, <1>b, <1>6, PlacedOnceAfter
  <2> QED BY <2>1, <2>2, <1>1, <1>5
<1>7. CASE m = l
  <2>1. /\ Len(M[l]) = Len(L[l]) + 1
        /\ Place(M[l], l, 0) = l /\ Place(M[l], l, 1) = e
        /\ \A j \in 1 .. Len(L[l]) + 1 : Place(M[l], l, j + 1) = Place(L[l], l, j)
    BY <1>8, Zenon DEF IsLonger, M
  <2>2. CASE k = 0
    BY <1>1, <1>7, <1>c, <2>1, <2>2
  <2>3. CASE k = 1
    <3>1. Place(M[l], l, 1 + 1) = Place(L[l], l, 1)
      BY <2>1, <1>b
    <3> QED BY <1>1, <1>7, <2>1, <2>3, <3>1
  <2>4. CASE k # 0 /\ k # 1
    <3>1. PICK j \in 1 .. Len(L[l]) : k = j + 1
      <4>1. k - 1 \in 1 .. Len(L[l]) /\ k = (k - 1) + 1
        BY <1>4, <1>7, <2>1, <2>4
      <4> QED BY <4>1
    <3>2. /\ j \in 1 .. Len(L[l]) + 1 /\ j + 1 \in 1 .. Len(L[l]) + 1 /\ j \in 0 .. Len(L[l])
          /\ j # 0
      BY <1>4
    <3>3. Place(M[l], l, k) = Place(L[l], l, j) /\ Place(M[l], l, k + 1) = Place(L[l], l, j + 1)
      BY <2>1, <3>1, <3>2
    <3>4. Place(L[l], l, j + 1) # c
      BY <3>2, <1>b, PlacedOnceAfter
    <3>5. new[Place(L[l], l, j + 1)] = prev[Place(L[l], l, j + 1)]
      BY <1>1, <3>4
    <3>6. prev[Place(L[l], l, j + 1)] = Place(L[l], l, j)
      BY <1>5, <3>2
    <3> QED BY <1>7, <3>3, <3>5, <3>6
  <2> QED BY <2>2, <2>3, <2>4
<1> QED BY <1>6, <1>7

\* Taking out the element at i: its neighbours point past it.
LEMMA UnlinkForward ==
  ASSUME NEW Ls, NEW Es, Ls \cap Es = {}, NEW L \in [Ls -> Seq(Es)], Once(L, Ls),
         NEW l \in Ls, NEW i \in 1 .. Len(L[l]),
         NEW V, NEW next \in [Ls \cup Es -> V], Forward(next, L, Ls),
         NEW b, b = Place(L[l], l, i - 1), NEW a, a = Place(L[l], l, i + 1)
  PROVE  Forward([next EXCEPT ![b] = a], Shorter(L, l, i), Ls)
<1> DEFINE new == [next EXCEPT ![b] = a]
           M == Shorter(L, l, i)
<1>a. Len(L[l]) \in Nat
  OBVIOUS
<1>b. i - 1 \in 0 .. Len(L[l]) /\ i - 1 \in 0 .. Len(L[l]) + 1
  BY <1>a
<1>c. PICK h \in 0 .. Len(L[l]) : h = i - 1 /\ b = Place(L[l], l, h)
  BY <1>b
<1>1. new[b] = a /\ \A n : n # b => new[n] = next[n]
  <2>1. Place(L[l], l, i - 1) \in Es \cup {l}
    BY <1>b, AllPlaces
  <2> QED BY <2>1
<1>2. SUFFICES ASSUME NEW m \in Ls, NEW k \in 0 .. Len(M[m])
               PROVE  new[Place(M[m], m, k)] = Place(M[m], m, k + 1)
  BY DEF Forward
<1>4. Len(L[m]) \in Nat
  OBVIOUS
<1>9. IsShorter(L, Ls, Es, l, i)
  BY ShorterPlaces
<1>3. m # l => M[m] = L[m]
  BY <1>9, Zenon DEF IsShorter
<1>8. /\ Len(M[l]) = Len(L[l]) - 1
      /\ \A j \in 0 .. Len(L[l]) :
           Place(M[l], l, j) = IF j < i THEN Place(L[l], l, j) ELSE Place(L[l], l, j + 1)
  BY <1>9, Zenon DEF IsShorter
<1> HIDE DEF new, M
<1>5. \A q \in Ls : \A j \in 0 .. Len(L[q]) : next[Place(L[q], q, j)] = Place(L[q], q, j + 1)
  BY DEF Forward
<1>6. CASE m # l
  <2>1. k \in 0 .. Len(L[m]) /\ M[m] = L[m]
    BY <1>3, <1>6
  <2>2. Place(L[m], m, k) # b
    <3>1. Place(L[m], m, k) # Place(L[l], l, h)
      BY <2>1, <1>6, PlacedOnce
    <3> QED BY <3>1, <1>c, Zenon
  <2> QED BY <2>1, <2>2, <1>1, <1>5
<1>7. CASE m = l
  <2>1. k \in 0 .. Len(L[l]) - 1 /\ k \in 0 .. Len(L[l]) /\ k + 1 \in 0 .. Len(L[l])
    BY <1>a, <1>7, <1>8
  <2>2. CASE k = i - 1
    <3>1. k < i /\ ~(k + 1 < i) /\ (k + 1) + 1 = i + 1
      BY <2>2
    <3> QED BY <1>1, <1>7, <1>8, <2>1, <2>2, <3>1
  <2>3. CASE k < i - 1
    <3>1. k < i /\ k + 1 < i /\ k # i - 1
      BY <2>3
    <3>2. Place(M[l], l, k) = Place(L[l], l, k) /\ Place(M[l], l, k + 1) = Place(L[l], l, k + 1)
      BY <1>8, <2>1, <3>1
    <3>3. Place(L[l], l, k) # b
      <4>1. k # h
        BY <1>c, <3>1, Zenon
      <4>2. Place(L[l], l, k) # Place(L[l], l, h)
        BY <4>1, <2>1, PlacedOnce
      <4> QED BY <4>2, <1>c, Zenon
    <3>4. next[Place(L[l], l, k)] = Place(L[l], l, k + 1)
      BY <1>5, <2>1
    <3> QED BY <1>1, <1>7, <3>2, <3>3, <3>4
  <2>4. CASE k > i - 1
    <3>1. ~(k < i) /\ ~(k + 1 < i) /\ k + 1 # i - 1
      BY <2>4
    <3>2. /\ Place(M[l], l, k) = Place(L[l], l, k + 1)
          /\ Place(M[l], l, k + 1) = Place(L[l], l, (k + 1) + 1)
      BY <1>8, <2>1, <3>1
    <3>3. Place(L[l], l, k + 1) # b
      <4>1. k + 1 # h
        BY <1>c, <3>1, Zenon
      <4>2. Place(L[l], l, k + 1) # Place(L[l], l, h)
        BY <4>1, <2>1, PlacedOnce
      <4> QED BY <4>2, <1>c, Zenon
    <3>4. next[Place(L[l], l, k + 1)] = Place(L[l], l, (k + 1) + 1)
      BY <1>5, <2>1
    <3> QED BY <1>1, <1>7, <3>2, <3>3, <3>4
  <2> QED BY <2>2, <2>3, <2>4
<1> QED BY <1>6, <1>7

LEMMA UnlinkBackward ==
  ASSUME NEW Ls, NEW Es, Ls \cap Es = {}, NEW L \in [Ls -> Seq(Es)], Once(L, Ls),
         NEW l \in Ls, NEW i \in 1 .. Len(L[l]),
         NEW V, NEW prev \in [Ls \cup Es -> V], Backward(prev, L, Ls),
         NEW b, b = Place(L[l], l, i - 1), NEW a, a = Place(L[l], l, i + 1)
  PROVE  Backward([prev EXCEPT ![a] = b], Shorter(L, l, i), Ls)
<1> DEFINE new == [prev EXCEPT ![a] = b]
           M == Shorter(L, l, i)
<1>a. Len(L[l]) \in Nat
  OBVIOUS
<1>b. i \in 0 .. Len(L[l]) /\ i + 1 \in 0 .. Len(L[l]) + 1
  BY <1>a
<1>1. new[a] = b /\ \A n : n # a => new[n] = prev[n]
  <2>1. Place(L[l], l, i + 1) \in Es \cup {l}
    BY <1>b, AllPlaces
  <2> QED BY <2>1
<1>2. SUFFICES ASSUME NEW m \in Ls, NEW k \in 0 .. Len(M[m])
               PROVE  new[Place(M[m], m, k + 1)] = Place(M[m], m, k)
  BY DEF Backward
<1>4. Len(L[m]) \in Nat
  OBVIOUS
<1>9. IsShorter(L, Ls, Es, l, i)
  BY ShorterPlaces
<1>3. m # l => M[m] = L[m]
  BY <1>9, Zenon DEF IsShorter
<1>8. /\ Len(M[l]) = Len(L[l]) - 1
      /\ \A j \in 0 .. Len(L[l]) :
           Place(M[l], l, j) = IF j < i THEN Place(L[l], l, j) ELSE Place(L[l], l, j + 1)
  BY <1>9, Zenon DEF IsShorter
<1> HIDE DEF new, M
<1>5. \A q \in Ls : \A j \in 0 .. Len(L[q]) : prev[Place(L[q], q, j + 1)] = Place(L[q], q, j)
  BY DEF Backward
<1>6. CASE m # l
  <2>1. k \in 0 .. Len(L[m]) /\ M[m] = L[m]
    BY <1>3, <1>6
  <2>2. Place(L[m], m, k + 1) # a
    BY <2>1, <1>b, <1>6, PlacedOnceAfter
  <2> QED BY <2>1, <2>2, <1>1, <1>5
<1>7. CASE m = l
  <2>1. k \in 0 .. Len(L[l]) - 1 /\ k \in 0 .. Len(L[l]) /\ k + 1 \in 0 .. Len(L[l])
    BY <1>a, <1>7, <1>8
  <2>2. CASE k = i - 1
    <3>1. k < i /\ ~(k + 1 < i) /\ (k + 1) + 1 = i + 1
      BY <2>2
    <3> QED BY <1>1, <1>7, <1>8, <2>1, <2>2, <3>1
  <2>3. CASE k < i - 1
    <3>1. k < i /\ k + 1 < i /\ k # i
      BY <2>3
    <3>2. Place(M[l], l, k) = Place(L[l], l, k) /\ Place(M[l], l, k + 1) = Place(L[l], l, k + 1)
      BY <1>8, <2>1, <3>1
    <3>3. Place(L[l], l, k + 1) # a
      BY <1>b, <2>1, <3>1, PlacedOnceAfter
    <3>4. prev[Place(L[l], l, k + 1)] = Place(L[l], l, k)
      BY <1>5, <2>1
    <3> QED BY <1>1, <1>7, <3>2, <3>3, <3>4
  <2>4. CASE k > i - 1
    <3>1. ~(k < i) /\ ~(k + 1 < i) /\ k + 1 # i
      BY <2>4
    <3>2. /\ Place(M[l], l, k) = Place(L[l], l, k + 1)
          /\ Place(M[l], l, k + 1) = Place(L[l], l, (k + 1) + 1)
      BY <1>8, <2>1, <3>1
    <3>3. Place(L[l], l, (k + 1) + 1) # a
      BY <1>b, <2>1, <3>1, PlacedOnceAfter
    <3>4. prev[Place(L[l], l, (k + 1) + 1)] = Place(L[l], l, k + 1)
      BY <1>5, <2>1
    <3> QED BY <1>1, <1>7, <3>2, <3>3, <3>4
  <2> QED BY <2>2, <2>3, <2>4
<1> QED BY <1>6, <1>7

LEMMA OnceLonger ==
  ASSUME NEW Ls, NEW Es, NEW L \in [Ls -> Seq(Es)], Once(L, Ls),
         NEW l \in Ls, NEW e \in Es, OnNone(L, Ls, e)
  PROVE  Once(Longer(L, l, e), Ls)
<1> DEFINE M == Longer(L, l, e)
<1>1. IsLonger(L, Ls, Es, l, e)
  BY LongerPlaces
<1>2. /\ \A m \in Ls : m # l => M[m] = L[m]
      /\ Len(M[l]) = Len(L[l]) + 1 /\ M[l][1] = e
      /\ \A k \in 1 .. Len(L[l]) : M[l][k + 1] = L[l][k]
  BY <1>1, Zenon DEF IsLonger
<1> HIDE DEF M
<1>3. \A m \in Ls : Len(L[m]) \in Nat
  OBVIOUS
\* where the element at a place of M comes from
<1>4. ASSUME NEW m \in Ls, NEW j \in 1 .. Len(M[m])
      PROVE  \/ m = l /\ j = 1 /\ M[m][j] = e
             \/ \E k \in 1 .. Len(L[m]) : /\ M[m][j] = L[m][k]
                                         /\ j = IF m = l THEN k + 1 ELSE k
  <2>1. CASE m # l
    BY <1>2, <2>1
  <2>2. CASE m = l /\ j = 1
    BY <1>2, <2>2
  <2>3. CASE m = l /\ j # 1
    <3>1. j - 1 \in 1 .. Len(L[l]) /\ (j - 1) + 1 = j
      BY <1>2, <1>3, <2>3
    <3>2. PICK k \in 1 .. Len(L[l]) : j = k + 1
      BY <3>1
    <3>3. M[l][j] = L[l][k]
      BY <1>2, <3>2
    <3> QED BY <2>3, <3>2, <3>3
  <2> QED BY <2>1, <2>2, <2>3
<1>5. SUFFICES ASSUME NEW m \in Ls, NEW n \in Ls, NEW j \in 1 .. Len(M[m]),
                      NEW i \in 1 .. Len(M[n]), M[m][j] = M[n][i]
               PROVE  m = n /\ j = i
  BY DEF Once, M
<1>6. CASE m = l /\ j = 1 /\ M[m][j] = e
  BY <1>4, <1>5, <1>6 DEF OnNone
<1>7. CASE n = l /\ i = 1 /\ M[n][i] = e
  BY <1>4, <1>5, <1>7 DEF OnNone
<1>8. CASE /\ \E k \in 1 .. Len(L[m]) : /\ M[m][j] = L[m][k]
                                        /\ j = IF m = l THEN k + 1 ELSE k
           /\ \E k \in 1 .. Len(L[n]) : /\ M[n][i] = L[n][k]
                                        /\ i = IF n = l THEN k + 1 ELSE k
  <2>1. PICK k \in 1 .. Len(L[m]) : M[m][j] = L[m][k] /\ j = IF m = l THEN k + 1 ELSE k
    BY <1>8
  <2>2. PICK q \in 1 .. Len(L[n]) : M[n][i] = L[n][q] /\ i = IF n = l THEN q + 1 ELSE q
    BY <1>8
  <2>3. m = n /\ k = q
    <3>1. L[m][k] = L[n][q]
      BY <1>5, <2>1, <2>2, Zenon
    <3> QED BY <3>1 DEF Once
  <2> QED BY <2>1, <2>2, <2>3, Zenon
<1> QED
  BY <1>4, <1>6, <1>7, <1>8

LEMMA OnceShorter ==
  ASSUME NEW Ls, NEW Es, NEW L \in [Ls -> Seq(Es)], Once(L, Ls),
         NEW l \in Ls, NEW i \in 1 .. Len(L[l])
  PROVE  Once(Shorter(L, l, i), Ls)
<1> DEFINE M == Shorter(L, l, i)
<1>1. IsShorter(L, Ls, Es, l, i)
  BY ShorterPlaces
<1>2. /\ \A m \in Ls : m # l => M[m] = L[m]
      /\ Len(M[l]) = Len(L[l]) - 1
      /\ \A k \in 1 .. Len(L[l]) - 1 : M[l][k] = IF k < i THEN L[l][k] ELSE L[l][k + 1]
  BY <1>1, Zenon DEF IsShorter
<1> HIDE DEF M
<1>3. \A m \in Ls : Len(L[m]) \in Nat
  OBVIOUS
<1>4. ASSUME NEW m \in Ls, NEW j \in 1 .. Len(M[m])
      PROVE  \E k \in 1 .. Len(L[m]) : /\ M[m][j] = L[m][k]
                                      /\ k = IF m = l /\ j >= i THEN j + 1 ELSE j
  <2>1. CASE m # l
    BY <1>2, <2>1
  <2>2. CASE m = l /\ j < i
    <3>1. j \in 1 .. Len(L[l]) - 1 /\ j \in 1 .. Len(L[l]) /\ ~(j >= i)
      BY <1>2, <1>3, <2>2
    <3> QED BY <1>2, <2>2, <3>1
  <2>3. CASE m = l /\ ~(j < i)
    <3>1. j \in 1 .. Len(L[l]) - 1 /\ j + 1 \in 1 .. Len(L[l]) /\ j >= i
      BY <1>2, <1>3, <2>3
    <3> QED BY <1>2, <2>3, <3>1
  <2> QED BY <2>1, <2>2, <2>3
<1>5. SUFFICES ASSUME NEW m \in Ls, NEW n \in Ls, NEW j \in 1 .. Len(M[m]),
                      NEW g \in 1 .. Len(M[n]), M[m][j] = M[n][g]
               PROVE  m = n /\ j = g
  BY DEF Once, M
<1>6. PICK k \in 1 .. Len(L[m]) : M[m][j] = L[m][k] /\ k = IF m = l /\ j >= i THEN j + 1 ELSE j
  BY <1>4
<1>7. PICK q \in 1 .. Len(L[n]) : M[n][g] = L[n][q] /\ q = IF n = l /\ g >= i THEN g + 1 ELSE g
  BY <1>4
<1>8. m = n /\ k = q
  <2>1. L[m][k] = L[n][q]
    BY <1>5, <1>6, <1>7, Zenon
  <2> QED BY <2>1 DEF Once
<1> QED
  BY <1>6, <1>7, <1>8

\* Forward next pointers fix what every walk meets.
Leads(h, L, Ls, Es) ==
  /\ h.next \in [Ls \cup Es -> Ls \cup Es \cup {Uninit}]
  /\ L \in [Ls -> Seq(Es)] /\ Once(L, Ls) /\ Forward(h.next, L, Ls)

LEMMA ContentsAre ==
  ASSUME NEW Ls, NEW Es, Ls \cap Es = {}, IsFiniteSet(Ls \cup Es),
         NEW h, NEW L, Leads(h, L, Ls, Es)
  PROVE  [l \in Ls |-> Contents(h, l)] = L
<1> SUFFICES ASSUME NEW l \in Ls PROVE Contents(h, l) = L[l]
  BY DEF Leads
<1> USE DEF Leads
<1> DEFINE D == Ls \cup Es
<1>1. PICK s \in Seq(Es) : s = L[l]
  OBVIOUS
<1>2. l \in D /\ s \in Seq(D \ {l})
  <2>1. \A e \in Es : e \in D \ {l}
    OBVIOUS
  <2> QED BY <1>1, <2>1
<1>3. Chain(h, l, s)
  BY <1>1 DEF Chain, Forward
<1>4. \A j, k \in 1 .. Len(s) : s[j] = s[k] => j = k
  BY <1>1 DEF Once
<1>5. IsFiniteSet(D) /\ h.next \in [D -> D \cup {Uninit}]
  OBVIOUS
<1> HIDE DEF D
<1> QED
  BY <1>1, <1>2, <1>3, <1>4, <1>5, WalkMeets

-----------------------------------------------------------------------------
(* The heap holds the lists L: both pointers of every node are right.       *)

Holds(h, L, Ls, Es) ==
  /\ h.next \in [Ls \cup Es -> Ls \cup Es \cup {Uninit}]
  /\ h.prev \in [Ls \cup Es -> Ls \cup Es \cup {Uninit}]
  /\ L \in [Ls -> Seq(Es)] /\ Once(L, Ls)
  /\ Forward(h.next, L, Ls) /\ Backward(h.prev, L, Ls)

LEMMA FreshHolds ==
  ASSUME NEW Ls, NEW Es, Ls \cap Es = {}
  PROVE  Holds(Fresh(Ls, Es), [l \in Ls |-> << >>], Ls, Es)
<1> DEFINE L == [l \in Ls |-> << >>]
           self == [n \in Ls \cup Es |-> IF n \in Ls THEN n ELSE Uninit]
<1>1. L \in [Ls -> Seq(Es)] /\ Once(L, Ls)
  BY DEF Once
<1>2. \A l \in Ls : \A k \in 0 .. Len(L[l]) : Place(L[l], l, k) = l /\ Place(L[l], l, k + 1) = l
  BY DEF Place
<1>3. self \in [Ls \cup Es -> Ls \cup Es \cup {Uninit}] /\ \A l \in Ls : self[l] = l
  OBVIOUS
<1> HIDE DEF L, self
<1>4. Forward(self, L, Ls) /\ Backward(self, L, Ls)
  BY <1>2, <1>3 DEF Forward, Backward
<1>5. Fresh(Ls, Es) = [next |-> self, prev |-> self]
  BY DEF Fresh, self
<1> QED
  BY <1>1, <1>3, <1>4, <1>5 DEF Holds, L

\* The pointers around a member.
LEMMA Around ==
  ASSUME NEW Ls, NEW Es, NEW h, NEW L, Holds(h, L, Ls, Es), NEW l \in Ls,
         NEW k \in 1 .. Len(L[l])
  PROVE  /\ Place(L[l], l, k) = L[l][k]
         /\ h.next[L[l][k]] = Place(L[l], l, k + 1) /\ h.prev[L[l][k]] = Place(L[l], l, k - 1)
         /\ h.prev[Place(L[l], l, k + 1)] = L[l][k] /\ h.next[Place(L[l], l, k - 1)] = L[l][k]
         /\ Place(L[l], l, k + 1) \in Ls \cup Es /\ Place(L[l], l, k - 1) \in Ls \cup Es
<1>1. L \in [Ls -> Seq(Es)]
  BY DEF Holds
<1>2. k \in 0 .. Len(L[l]) /\ k + 1 \in 0 .. Len(L[l]) + 1
  BY <1>1
<1>3. PICK j \in 0 .. Len(L[l]) : j = k - 1 /\ j + 1 = k /\ j \in 0 .. Len(L[l]) + 1
  BY <1>1
<1>4. Place(L[l], l, k) = L[l][k]
  BY <1>1, Placed
<1>5. h.next[L[l][k]] = Place(L[l], l, k + 1) /\ h.prev[Place(L[l], l, k + 1)] = L[l][k]
  BY <1>2, <1>4 DEF Holds, Forward, Backward
<1>6. h.next[Place(L[l], l, j)] = Place(L[l], l, j + 1) /\ h.prev[Place(L[l], l, j + 1)] = Place(L[l], l, j)
  BY DEF Holds, Forward, Backward
<1>7. Place(L[l], l, k + 1) \in Ls \cup Es /\ Place(L[l], l, j) \in Ls \cup Es
  <2>1. Place(L[l], l, k + 1) \in Es \cup {l}
    BY <1>1, <1>2, AllPlaces
  <2>2. Place(L[l], l, j) \in Es \cup {l}
    BY <1>1, <1>3, AllPlaces
  <2> QED BY <2>1, <2>2
<1> QED
  BY <1>3, <1>4, <1>5, <1>6, <1>7

LEMMA MemberIntact ==
  ASSUME NEW Ls, NEW Es, Uninit \notin Ls \cup Es, NEW h, NEW L, Holds(h, L, Ls, Es),
         NEW l \in Ls, NEW k \in 1 .. Len(L[l])
  PROVE  Intact(h, L[l][k])
BY Around DEF Intact

LEMMA LinkedHolds ==
  ASSUME NEW Ls, NEW Es, Ls \cap Es = {}, NEW h, NEW L, Holds(h, L, Ls, Es),
         NEW l \in Ls, NEW e \in Es, OnNone(L, Ls, e)
  PROVE  /\ Holds(Linked(h, l, e), Longer(L, l, e), Ls, Es)
         /\ \A n \in Ls \cup Es : n # l /\ n # e => Linked(h, l, e).next[n] = h.next[n]
         /\ \A n \in Ls \cup Es : Linked(h, l, e).prev[n] \in {h.prev[n], l, e}
<1> DEFINE c == h.next[l]
           next == [h.next EXCEPT ![e] = c]
           prev == [h.prev EXCEPT ![e] = l]
           N == Ls \cup Es
           V == Ls \cup Es \cup {Uninit}
<1>1. /\ h.next \in [N -> V] /\ h.prev \in [N -> V] /\ L \in [Ls -> Seq(Es)] /\ Once(L, Ls)
      /\ Forward(h.next, L, Ls) /\ Backward(h.prev, L, Ls)
  BY DEF Holds
<1>2. 0 \in 0 .. Len(L[l]) /\ 0 + 1 = 1 /\ Place(L[l], l, 0) = l /\ 1 \in 0 .. Len(L[l]) + 1
  BY <1>1, AllPlaces
<1>3. c = Place(L[l], l, 1) /\ h.prev[c] = l
  BY <1>1, <1>2 DEF Forward, Backward
<1>4. c \in N /\ c # e
  <2>1. Place(L[l], l, 1) \in Es \cup {l} /\ Place(L[l], l, 1) # e
    BY <1>1, <1>2, AllPlaces, NotPlaced
  <2> QED BY <1>3, <2>1
<1>5. Linked(h, l, e) = [next |-> [next EXCEPT ![l] = e], prev |-> [prev EXCEPT ![c] = e]]
  BY <1>3 DEF Linked
<1>6. /\ next \in [N -> V] /\ next[e] = next[l] /\ next[e] = c
      /\ \A n \in N : n # e => next[n] = h.next[n]
  <2>1. l # e /\ e \in N /\ l \in N
    OBVIOUS
  <2> QED BY <1>1, <1>4, <2>1
<1>7. prev \in [N -> V] /\ prev[e] = l /\ \A n \in N : n # e => prev[n] = h.prev[n]
  BY <1>1
<1>8. Forward(next, L, Ls) /\ Backward(prev, L, Ls)
  BY <1>1, StoreAside
<1> HIDE DEF c, next, prev
<1>9. Forward([next EXCEPT ![l] = e], Longer(L, l, e), Ls)
  BY <1>1, <1>6, <1>8, LinkForward
<1>10. Backward([prev EXCEPT ![c] = e], Longer(L, l, e), Ls)
  BY <1>1, <1>3, <1>7, <1>8, LinkBackward
<1>11. Longer(L, l, e) \in [Ls -> Seq(Es)] /\ Once(Longer(L, l, e), Ls)
  <2>1. IsLonger(L, Ls, Es, l, e)
    BY <1>1, LongerPlaces
  <2>2. Once(Longer(L, l, e), Ls)
    BY <1>1, OnceLonger
  <2> QED BY <2>1, <2>2, Zenon DEF IsLonger
<1>12. [next EXCEPT ![l] = e] \in [N -> V] /\ [prev EXCEPT ![c] = e] \in [N -> V]
  BY <1>6, <1>7
<1>13. Holds(Linked(h, l, e), Longer(L, l, e), Ls, Es)
  BY <1>5, <1>9, <1>10, <1>11, <1>12 DEF Holds
<1>14. ASSUME NEW n \in N, n # l, n # e PROVE Linked(h, l, e).next[n] = h.next[n]
  BY <1>5, <1>6, <1>14
<1>15. ASSUME NEW n \in N PROVE Linked(h, l, e).prev[n] \in {h.prev[n], l, e}
  BY <1>5, <1>7
<1> QED
  BY <1>13, <1>14, <1>15

\* g is h without the i-th element of l.
CutOut(h, g, L, l, i, Ls, Es) ==
  /\ Holds(g, Shorter(L, l, i), Ls, Es)
  /\ \A n \in Ls \cup Es : n # Place(L[l], l, i - 1) => g.next[n] = h.next[n]
  /\ \A n \in Ls \cup Es : g.prev[n] =
       IF n = Place(L[l], l, i + 1) THEN Place(L[l], l, i - 1) ELSE h.prev[n]

LEMMA UnlinkedHolds ==
  ASSUME NEW Ls, NEW Es, Ls \cap Es = {}, NEW h, NEW L, Holds(h, L, Ls, Es),
         NEW l \in Ls, NEW i \in 1 .. Len(L[l]), NEW e, e = L[l][i]
  PROVE  CutOut(h, Unlinked(h, e), L, l, i, Ls, Es)
<1> DEFINE b == Place(L[l], l, i - 1)
           a == Place(L[l], l, i + 1)
           N == Ls \cup Es
           V == Ls \cup Es \cup {Uninit}
<1>1. /\ h.next \in [N -> V] /\ h.prev \in [N -> V] /\ L \in [Ls -> Seq(Es)] /\ Once(L, Ls)
      /\ Forward(h.next, L, Ls) /\ Backward(h.prev, L, Ls)
  BY DEF Holds
<1>2. h.next[e] = a /\ h.prev[e] = b /\ a \in N /\ b \in N
  BY Around
<1>3. Unlinked(h, e) = [next |-> [h.next EXCEPT ![b] = a], prev |-> [h.prev EXCEPT ![a] = b]]
  BY <1>2, Zenon DEF Unlinked
<1> HIDE DEF a, b
<1>4. Forward([h.next EXCEPT ![b] = a], Shorter(L, l, i), Ls)
  BY <1>1, UnlinkForward DEF a, b
<1>5. Backward([h.prev EXCEPT ![a] = b], Shorter(L, l, i), Ls)
  BY <1>1, UnlinkBackward DEF a, b
<1>6. Shorter(L, l, i) \in [Ls -> Seq(Es)] /\ Once(Shorter(L, l, i), Ls)
  <2>1. IsShorter(L, Ls, Es, l, i)
    BY <1>1, ShorterPlaces
  <2>2. Once(Shorter(L, l, i), Ls)
    BY <1>1, OnceShorter
  <2> QED BY <2>1, <2>2, Zenon DEF IsShorter
<1>7. [h.next EXCEPT ![b] = a] \in [N -> V] /\ [h.prev EXCEPT ![a] = b] \in [N -> V]
  BY <1>1, <1>2
<1>8. Holds(Unlinked(h, e), Shorter(L, l, i), Ls, Es)
  BY <1>3, <1>4, <1>5, <1>6, <1>7 DEF Holds
<1>9. ASSUME NEW n \in N, n # b PROVE Unlinked(h, e).next[n] = h.next[n]
  BY <1>1, <1>3, <1>9
<1>10. ASSUME NEW n \in N PROVE Unlinked(h, e).prev[n] = IF n = a THEN b ELSE h.prev[n]
  BY <1>1, <1>3
<1> QED
  BY <1>8, <1>9, <1>10 DEF a, b, CutOut

-----------------------------------------------------------------------------
(* The client of the lists.                                                 *)

On == [l \in Lists |-> Contents(heap, l)]

\* An element that has been taken off is not pointed back to by the element
\* that its next pointer still names.
Stale == \A e \in inserted \ OnSomeList :
           heap.next[e] \in Nodes /\ heap.prev[heap.next[e]] # e

IInv == TypeOK /\ Holds(heap, On, Lists, Elements) /\ Stale

LEMMA HeldIsOn ==
  ASSUME NEW h, NEW L, Holds(h, L, Lists, Elements)
  PROVE  [l \in Lists |-> Contents(h, l)] = L
<1>1. Lists \cap Elements = {} /\ IsFiniteSet(Lists \cup Elements)
  BY ListsAssumption
<1>2. Leads(h, L, Lists, Elements)
  BY DEF Holds, Leads
<1> QED
  BY <1>1, <1>2, ContentsAre

LEMMA OnTheLists ==
  ASSUME NEW L, L \in [Lists -> Seq(Elements)], NEW e
  PROVE  e \in UNION {ToSet(L[l]) : l \in Lists} <=> ~ OnNone(L, Lists, e)
<1>1. \A l \in Lists : DOMAIN L[l] = 1 .. Len(L[l])
  OBVIOUS
<1> QED
  BY <1>1 DEF OnNone, ToSet

LEMMA Pointers ==
  ASSUME NEW S, NEW a \in S, NEW b \in S
  PROVE  [next |-> a, prev |-> b] \in [{"next", "prev"} -> S]
OBVIOUS

LEMMA OffLists ==
  ASSUME On \in [Lists -> Seq(Elements)], NEW x
  PROVE  x \notin OnSomeList <=> OnNone(On, Lists, x)
<1>1. OnSomeList = UNION {ToSet(On[l]) : l \in Lists}
  BY DEF OnSomeList, On
<1> QED
  BY <1>1, OnTheLists

LEMMA OffListsLater ==
  ASSUME On' \in [Lists -> Seq(Elements)], NEW x
  PROVE  x \notin OnSomeList' <=> OnNone(On', Lists, x)
<1>1. OnSomeList' = UNION {ToSet(On'[l]) : l \in Lists}
  BY DEF OnSomeList, On
<1> QED
  BY <1>1, OnTheLists

LEMMA Initially == Init => IInv
<1> SUFFICES ASSUME Init PROVE IInv
  OBVIOUS
<1> USE DEF Init
<1>1. Holds(heap, [l \in Lists |-> << >>], Lists, Elements)
  BY FreshHolds, ListsAssumption
<1>2. Holds(heap, On, Lists, Elements)
  BY <1>1, HeldIsOn DEF On
<1>3. TypeOK
  <2>1. heap \in [{"next", "prev"} -> [Nodes -> Nodes \cup {Uninit}]]
    BY DEF Fresh, Nodes
  <2> QED BY <2>1 DEF TypeOK
<1>4. Stale
  BY DEF Stale
<1> QED
  BY <1>2, <1>3, <1>4 DEF IInv

\* What a longer list does not hold, the list did not hold.
LEMMA OffLonger ==
  ASSUME NEW Ls, NEW Es, NEW L \in [Ls -> Seq(Es)], NEW l \in Ls, NEW e \in Es, NEW x,
         OnNone(Longer(L, l, e), Ls, x)
  PROVE  OnNone(L, Ls, x) /\ x # e
<1> DEFINE M == Longer(L, l, e)
<1>1. IsLonger(L, Ls, Es, l, e)
  BY LongerPlaces
<1>2. /\ \A m \in Ls : m # l => M[m] = L[m]
      /\ Len(M[l]) = Len(L[l]) + 1 /\ M[l][1] = e
      /\ \A k \in 1 .. Len(L[l]) : M[l][k + 1] = L[l][k]
  BY <1>1, Zenon DEF IsLonger
<1> HIDE DEF M
<1>3. \A m \in Ls : \A k \in 1 .. Len(M[m]) : M[m][k] # x
  BY DEF OnNone, M
<1>4. Len(L[l]) \in Nat
  OBVIOUS
<1>5. x # e
  <2>1. 1 \in 1 .. Len(M[l])
    BY <1>2, <1>4
  <2> QED BY <1>2, <1>3, <2>1
<1>6. ASSUME NEW m \in Ls, NEW k \in 1 .. Len(L[m]) PROVE L[m][k] # x
  <2>1. CASE m # l
    BY <1>2, <1>3, <2>1
  <2>2. CASE m = l
    <3>1. k + 1 \in 1 .. Len(M[l])
      BY <1>2, <1>4, <2>2
    <3> QED BY <1>2, <1>3, <2>2, <3>1
  <2> QED BY <2>1, <2>2
<1> QED BY <1>5, <1>6 DEF OnNone

LEMMA OffShorter ==
  ASSUME NEW Ls, NEW Es, NEW L \in [Ls -> Seq(Es)], NEW l \in Ls,
         NEW i \in 1 .. Len(L[l]), NEW x, OnNone(Shorter(L, l, i), Ls, x)
  PROVE  OnNone(L, Ls, x) \/ x = L[l][i]
<1> DEFINE M == Shorter(L, l, i)
<1>1. IsShorter(L, Ls, Es, l, i)
  BY ShorterPlaces
<1>2. /\ \A m \in Ls : m # l => M[m] = L[m]
      /\ Len(M[l]) = Len(L[l]) - 1
      /\ \A k \in 1 .. Len(L[l]) - 1 : M[l][k] = IF k < i THEN L[l][k] ELSE L[l][k + 1]
  BY <1>1, Zenon DEF IsShorter
<1> HIDE DEF M
<1>3. \A m \in Ls : \A k \in 1 .. Len(M[m]) : M[m][k] # x
  BY DEF OnNone, M
<1>4. Len(L[l]) \in Nat
  OBVIOUS
<1>5. ASSUME NEW m \in Ls, NEW k \in 1 .. Len(L[m]), L[m][k] = x PROVE m = l /\ k = i
  <2>1. CASE m # l
    BY <1>2, <1>3, <1>5, <2>1
  <2>2. CASE m = l /\ k < i
    <3>1. k \in 1 .. Len(L[l]) - 1
      BY <1>4, <2>2
    <3> QED BY <1>2, <1>3, <1>5, <2>2, <3>1
  <2>3. CASE m = l /\ k > i
    <3>1. PICK j \in 1 .. Len(L[l]) - 1 : j + 1 = k /\ ~(j < i)
      <4>1. k - 1 \in 1 .. Len(L[l]) - 1 /\ (k - 1) + 1 = k /\ ~(k - 1 < i)
        BY <1>4, <2>3
      <4> QED BY <4>1
    <3> QED BY <1>2, <1>3, <1>5, <2>3, <3>1
  <2> QED BY <2>1, <2>2, <2>3
<1> QED BY <1>5 DEF OnNone

LEMMA HeapIs ==
  ASSUME TypeOK
  PROVE  /\ heap.next \in [Nodes -> Nodes \cup {Uninit}]
         /\ heap.prev \in [Nodes -> Nodes \cup {Uninit}]
BY DEF TypeOK

\* An insertion puts the element in front of its list.
LEMMA InsertStep ==
  ASSUME IInv, NEW l \in Lists, NEW e \in Elements, Insert(l, e)
  PROVE  IInv' /\ On' = Longer(On, l, e)
<1> DEFINE h == Linked(heap, l, e)
<1>1. /\ Lists \cap Elements = {} /\ Uninit \notin Nodes
      /\ On \in [Lists -> Seq(Elements)] /\ Holds(heap, On, Lists, Elements)
  BY ListsAssumption DEF IInv, Holds, Nodes
<1>2. heap' = h /\ inserted' = inserted \cup {e} /\ ret' = ret /\ e \notin OnSomeList
  BY DEF Insert
<1>3. OnNone(On, Lists, e)
  BY <1>1, <1>2, OffLists
<1>4. /\ Holds(h, Longer(On, l, e), Lists, Elements)
      /\ \A n \in Nodes : n # l /\ n # e => h.next[n] = heap.next[n]
      /\ \A n \in Nodes : h.prev[n] \in {heap.prev[n], l, e}
  BY <1>1, <1>3, LinkedHolds DEF Nodes
<1>5. [m \in Lists |-> Contents(h, m)] = Longer(On, l, e)
  BY <1>4, HeldIsOn
<1>6. On' = Longer(On, l, e)
  BY <1>2, <1>5 DEF On
<1>7. Holds(heap, On, Lists, Elements)'
  BY <1>2, <1>4, <1>6 DEF Holds
<1>8. TypeOK'
  <2>1. h.next \in [Nodes -> Nodes \cup {Uninit}] /\ h.prev \in [Nodes -> Nodes \cup {Uninit}]
    BY <1>4 DEF Holds, Nodes
  <2>2. h = [next |-> h.next, prev |-> h.prev]
    BY DEF Linked
  <2> HIDE DEF h
  <2>3. h \in [{"next", "prev"} -> [Nodes -> Nodes \cup {Uninit}]]
    BY <2>1, <2>2, Pointers
  <2> QED BY <1>2, <2>3 DEF IInv, TypeOK
<1>9. ASSUME NEW x, x \notin OnSomeList' PROVE x \notin OnSomeList /\ x # e
  <2>1. On' \in [Lists -> Seq(Elements)]
    BY <1>7 DEF Holds
  <2>2. OnNone(On', Lists, x)
    BY <1>9, <2>1, OffListsLater
  <2>3. OnNone(On, Lists, x) /\ x # e
    BY <1>1, <1>6, <2>2, OffLonger
  <2> QED BY <1>1, <2>3, OffLists
<1>10. Stale'
  <2>1. SUFFICES ASSUME NEW x \in inserted', x \notin OnSomeList'
                 PROVE  h.next[x] \in Nodes /\ h.prev[h.next[x]] # x
    BY <1>2 DEF Stale
  <2>2. x \in inserted /\ x \notin OnSomeList /\ x # e
    BY <1>2, <1>9, <2>1
  <2>3. heap.next[x] \in Nodes /\ heap.prev[heap.next[x]] # x /\ x \in Elements
    BY <2>2 DEF IInv, Stale, TypeOK
  <2>4. x # l /\ x \in Nodes
    BY <1>1, <2>3 DEF Nodes
  <2>5. h.next[x] = heap.next[x]
    BY <1>4, <2>2, <2>4
  <2>6. h.prev[heap.next[x]] \in {heap.prev[heap.next[x]], l, e}
    BY <1>4, <2>3
  <2> QED BY <2>2, <2>3, <2>4, <2>5, <2>6
<1> QED
  BY <1>6, <1>7, <1>8, <1>10 DEF IInv

\* SortedList_delete takes out exactly the members.
LEMMA DeleteStep ==
  ASSUME IInv, NEW e \in Elements, Delete(e)
  PROVE  /\ IInv'
         /\ \/ UNCHANGED On
            \/ \E l \in Lists : \E k \in 1 .. Len(On[l]) : On' = Shorter(On, l, k)
<1> DEFINE h == Unlinked(heap, e)
<1>1. /\ Lists \cap Elements = {} /\ Uninit \notin Nodes
      /\ On \in [Lists -> Seq(Elements)] /\ Holds(heap, On, Lists, Elements)
  BY ListsAssumption DEF IInv, Holds, Nodes
<1>2. CASE ~ Intact(heap, e)
  <2>1. heap' = heap /\ inserted' = inserted /\ ret' = 1
    BY <1>2 DEF Delete
  <2>2. On' = On /\ OnSomeList' = OnSomeList
    BY <2>1 DEF On, OnSomeList
  <2> QED BY <2>1, <2>2 DEF IInv, TypeOK, Stale, Holds
<1>3. CASE Intact(heap, e)
  <2>1. heap' = h /\ inserted' = inserted /\ ret' = 0 /\ e \in inserted
    BY <1>3 DEF Delete
  <2>2. e \in OnSomeList
    BY <1>3, <2>1 DEF IInv, Stale, Intact
  <2>3. PICK l \in Lists : \E k \in 1 .. Len(On[l]) : On[l][k] = e
    <3>1. ~ OnNone(On, Lists, e)
      BY <1>1, <2>2, OffLists
    <3> QED BY <3>1 DEF OnNone
  <2>4. PICK i \in 1 .. Len(On[l]) : On[l][i] = e
    BY <2>3
  <2> DEFINE b == Place(On[l], l, i - 1)
             a == Place(On[l], l, i + 1)
  <2>5. /\ Holds(h, Shorter(On, l, i), Lists, Elements)
        /\ \A n \in Nodes : n # b => h.next[n] = heap.next[n]
        /\ \A n \in Nodes : h.prev[n] = IF n = a THEN b ELSE heap.prev[n]
    <3>1. CutOut(heap, h, On, l, i, Lists, Elements)
      BY <1>1, <2>4, UnlinkedHolds
    <3> HIDE DEF h, b, a
    <3> QED BY <3>1, Zenon DEF CutOut, Nodes, a, b
  <2>6. On' = Shorter(On, l, i)
    <3>1. [m \in Lists |-> Contents(h, m)] = Shorter(On, l, i)
      BY <2>5, HeldIsOn
    <3> QED BY <2>1, <3>1 DEF On
  <2>7. Holds(heap, On, Lists, Elements)'
    BY <2>1, <2>5, <2>6 DEF Holds
  <2>8. TypeOK'
    <3>1. h.next \in [Nodes -> Nodes \cup {Uninit}] /\ h.prev \in [Nodes -> Nodes \cup {Uninit}]
      BY <2>5 DEF Holds, Nodes
    <3>2. h = [next |-> h.next, prev |-> h.prev]
      BY DEF Unlinked
    <3> HIDE DEF h
    <3>3. h \in [{"next", "prev"} -> [Nodes -> Nodes \cup {Uninit}]]
      BY <3>1, <3>2, Pointers
    <3> QED BY <2>1, <3>3 DEF IInv, TypeOK
  <2>9. ASSUME NEW x, x \notin OnSomeList' PROVE x \notin OnSomeList \/ x = e
    <3>1. On' \in [Lists -> Seq(Elements)]
      BY <2>7 DEF Holds
    <3>2. OnNone(On', Lists, x)
      BY <2>9, <3>1, OffListsLater
    <3>3. OnNone(On, Lists, x) \/ x = On[l][i]
      BY <1>1, <2>6, <3>2, OffShorter
    <3> QED BY <1>1, <2>4, <3>3, OffLists
  <2>10. /\ heap.next[e] = a /\ a \in Nodes /\ b \in Nodes
         /\ heap.next[b] = e /\ b = Place(On[l], l, i - 1)
    BY <1>1, <2>4, Around DEF Nodes
  \* the places around e are not e, nor any element off the lists
  <2>11. b # e
    <3>1. PICK j \in 0 .. Len(On[l]) : j = i - 1 /\ j # i
      BY <1>1
    <3>2. i \in 0 .. Len(On[l]) /\ Place(On[l], l, i) = On[l][i]
      BY <1>1, Placed
    <3>3. Place(On[l], l, j) # Place(On[l], l, i)
      <4>1. Once(On, Lists)
        BY <1>1 DEF Holds
      <4>2. Lists \cap Elements = {} /\ On \in [Lists -> Seq(Elements)] /\ i \in 0 .. Len(On[l])
        BY <1>1, <3>2
      <4>3. ASSUME Place(On[l], l, j) = Place(On[l], l, i) PROVE j = i
        BY <4>1, <4>2, <4>3, PlacedOnce
      <4> QED BY <3>1, <4>3
    <3> QED BY <2>4, <3>1, <3>2, <3>3
  <2>12. ASSUME NEW x \in Elements, x \notin OnSomeList PROVE b # x
    <3>1. OnNone(On, Lists, x)
      BY <1>1, <2>12, OffLists
    <3>2. PICK j \in 0 .. Len(On[l]) + 1 : j = i - 1
      BY <1>1
    <3>3. Place(On[l], l, j) # x
      BY <1>1, <3>1, NotPlaced
    <3> QED BY <3>2, <3>3
  <2> HIDE DEF h, b, a
  <2>13. Stale'
    <3>1. SUFFICES ASSUME NEW x \in inserted', x \notin OnSomeList'
                   PROVE  h.next[x] \in Nodes /\ h.prev[h.next[x]] # x
      BY <2>1 DEF Stale
    <3>2. x \in inserted /\ x \in Elements /\ x \in Nodes
      BY <2>1, <3>1 DEF IInv, TypeOK, Nodes
    <3>3. CASE x = e
      BY <2>5, <2>10, <2>11, <3>2, <3>3
    <3>4. CASE x # e
      <4>1. x \notin OnSomeList
        BY <2>9, <3>1, <3>4
      <4>2. heap.next[x] \in Nodes /\ heap.prev[heap.next[x]] # x
        BY <3>2, <4>1 DEF IInv, Stale
      <4>3. b # x
        BY <2>12, <3>2, <4>1
      <4>4. h.next[x] = heap.next[x]
        BY <2>5, <3>2, <4>3
      <4> QED BY <2>5, <4>2, <4>3, <4>4
    <3> QED BY <3>3, <3>4
  <2> QED
    BY <2>6, <2>7, <2>8, <2>13 DEF IInv
<1> QED
  BY <1>2, <1>3

LEMMA Step ==
  ASSUME IInv, [Next]_vars
  PROVE  /\ IInv'
         /\ \/ UNCHANGED On
            \/ \E l \in Lists, e \in Elements : e \notin OnSomeList /\ On' = Longer(On, l, e)
            \/ \E l \in Lists : \E k \in 1 .. Len(On[l]) : On' = Shorter(On, l, k)
<1>1. ASSUME NEW l \in Lists, NEW e \in Elements, Insert(l, e)
      PROVE  IInv' /\ e \notin OnSomeList /\ On' = Longer(On, l, e)
  <2>1. e \notin OnSomeList
    BY <1>1 DEF Insert
  <2> QED BY <1>1, <2>1, InsertStep
<1>2. ASSUME NEW e \in Elements, Delete(e)
      PROVE  /\ IInv'
             /\ \/ UNCHANGED On
                \/ \E l \in Lists : \E k \in 1 .. Len(On[l]) : On' = Shorter(On, l, k)
  BY <1>2, DeleteStep
<1>3. CASE UNCHANGED vars
  <2>1. On' = On /\ OnSomeList' = OnSomeList
    BY <1>3 DEF On, OnSomeList, vars
  <2> QED BY <1>3, <2>1 DEF IInv, TypeOK, Stale, Holds, vars
<1> QED
  BY <1>1, <1>2, <1>3, Zenon DEF Next

\* The inductive invariant: the pointers of both directions hold the lists, and
\* no element that was taken off looks like a member.
THEOREM Invariant == Spec => []IInv
<1>1. IInv /\ [Next]_vars => IInv'
  BY Step
<1> QED
  BY Initially, <1>1, PTL DEF Spec

\* The pointers and the return value are well typed.
THEOREM TypeCorrect == Spec => []TypeOK
<1>1. IInv => TypeOK
  BY DEF IInv
<1> QED
  BY Invariant, <1>1, PTL

\* SortedList_delete tells an element that is on a list from one that is not,
\* whatever its stale pointers name.
THEOREM DeletesMembers == Spec => []DeleteTellsMembers
<1>1. IInv => DeleteTellsMembers
  <2>1. SUFFICES ASSUME IInv, NEW e \in inserted
                 PROVE  Intact(heap, e) <=> e \in OnSomeList
    BY DEF DeleteTellsMembers
  <2>2. On \in [Lists -> Seq(Elements)] /\ Uninit \notin Lists \cup Elements
    BY <2>1, ListsAssumption DEF IInv, Holds
  <2>3. CASE e \notin OnSomeList
    BY <2>1, <2>3 DEF IInv, Stale, Intact
  <2>4. CASE e \in OnSomeList
    <3>1. ~ OnNone(On, Lists, e)
      BY <2>2, <2>4, OffLists
    <3>2. PICK l \in Lists : \E k \in 1 .. Len(On[l]) : On[l][k] = e
      BY <3>1 DEF OnNone
    <3>3. PICK k \in 1 .. Len(On[l]) : On[l][k] = e
      BY <3>2
    <3>4. Intact(heap, On[l][k])
      BY <2>1, <2>2, MemberIntact DEF IInv
    <3> QED BY <2>4, <3>3, <3>4
  <2> QED BY <2>3, <2>4
<1> QED
  BY Invariant, <1>1, PTL

\* SortedList_length finds every list intact and counts all of it.
THEOREM CountsAll == Spec => []LengthCounts
<1>1. IInv => LengthCounts
  <2>1. SUFFICES ASSUME IInv, NEW l \in Lists
                 PROVE  Length(heap, l) = Len(Contents(heap, l))
    BY DEF LengthCounts
  <2>2. On \in [Lists -> Seq(Elements)] /\ Uninit \notin Lists \cup Elements
    BY <2>1, ListsAssumption DEF IInv, Holds
  <2>3. Contents(heap, l) = On[l]
    BY DEF On
  <2>4. \A k \in 1 .. Len(On[l]) : Intact(heap, On[l][k])
    BY <2>1, <2>2, MemberIntact DEF IInv
  <2>5. DOMAIN On[l] = 1 .. Len(On[l])
    BY <2>2
  <2> QED
    BY <2>3, <2>4, <2>5 DEF Length
<1> QED
  BY Invariant, <1>1, PTL

\* The pointer operations of SortedList.c are the operations on sequences of
\* ElementLists: every step of a client is one of them, or changes no list.
THEOREM ImplementsThem == Spec => ImplementsLists
<1>1. Init => Abstract!Init
  <2>1. SUFFICES ASSUME Init PROVE Abstract!Init
    OBVIOUS
  <2>2. Holds(heap, [l \in Lists |-> << >>], Lists, Elements)
    BY <2>1, FreshHolds, ListsAssumption DEF Init
  <2> QED BY <2>2, HeldIsOn DEF Abstract!Init
<1>2. IInv /\ [Next]_vars => [Abstract!Next]_[l \in Lists |-> Contents(heap, l)]
  <2>1. SUFFICES ASSUME IInv, [Next]_vars
                 PROVE  Abstract!Next \/ UNCHANGED On
    BY DEF On
  <2>2. On \in [Lists -> Seq(Elements)]
    BY <2>1 DEF IInv, Holds
  <2>3. ASSUME NEW l \in Lists, NEW e \in Elements, e \notin OnSomeList, On' = Longer(On, l, e)
        PROVE  Abstract!Next
    <3>1. e \in Elements \ Abstract!OnSomeList
      BY <2>3 DEF OnSomeList, Abstract!OnSomeList, ToSet, Abstract!ToSet
    <3>2. On'[l] = <<e>> \o On[l] /\ On[l] \in Seq(Elements) /\ e \in Abstract!ToSet(On'[l])
      <4>1. On'[l] = <<e>> \o On[l] /\ On[l] \in Seq(Elements)
        BY <2>2, <2>3 DEF Longer
      <4>2. 1 \in DOMAIN (<<e>> \o On[l]) /\ (<<e>> \o On[l])[1] = e
        BY <4>1
      <4> QED BY <4>1, <4>2 DEF Abstract!ToSet
    <3>3. On' = [On EXCEPT ![l] = <<e>> \o @]
      BY <2>2, <2>3 DEF Longer
    <3>4. Abstract!Insert(l)
      BY <3>1, <3>2, <3>3 DEF Abstract!Insert, On
    <3> QED BY <3>4 DEF Abstract!Next
  <2>4. ASSUME NEW l \in Lists, NEW k \in 1 .. Len(On[l]), On' = Shorter(On, l, k)
        PROVE  Abstract!Next
    <3>1. k \in DOMAIN On[l]
      BY <2>2
    <3>2. Len(On'[l]) < Len(On[l])
      <4>1. On'[l] = RemoveAt(On[l], k) /\ On[l] \in Seq(Elements)
        BY <2>2, <2>4 DEF Shorter
      <4>2. Len(RemoveAt(On[l], k)) = Len(On[l]) - 1 /\ Len(On[l]) \in Nat
        <5>1. PICK s \in Seq(Elements) : s = On[l]
          BY <4>1
        <5>2. k \in 1 .. Len(s)
          BY <2>4, <5>1
        <5>3. Len(RemoveAt(s, k)) = Len(s) - 1 /\ Len(s) \in Nat
          BY <5>2, Removed
        <5> QED BY <5>1, <5>3
      <4> QED BY <4>1, <4>2
    <3>3. On' = [On EXCEPT ![l] = Abstract!RemoveAt(@, k)]
      BY <2>4 DEF Shorter, RemoveAt, Abstract!RemoveAt
    <3>4. Abstract!Delete(l)
      BY <3>1, <3>2, <3>3 DEF Abstract!Delete, On
    <3> QED BY <3>4 DEF Abstract!Next
  <2> QED
    BY <2>1, <2>3, <2>4, Step
<1> QED
  BY Invariant, <1>1, <1>2, PTL DEF Spec, ImplementsLists, Abstract!Spec

-----------------------------------------------------------------------------
(* An insertion store by store: between the last two of them the node that *)
(* was the first still points back to the head.                            *)

\* The prev pointers are right, except of the nodes in P.
BackwardBut(prev, L, Ls, P) ==
  \A l \in Ls : \A k \in 0 .. Len(L[l]) :
    Place(L[l], l, k + 1) \notin P => prev[Place(L[l], l, k + 1)] = Place(L[l], l, k)

LEMMA StoreAsideBut ==
  ASSUME NEW Ls, NEW Es, Ls \cap Es = {}, NEW L \in [Ls -> Seq(Es)], NEW P,
         NEW e \in Es, OnNone(L, Ls, e), NEW v, NEW N, NEW V, NEW prev \in [N -> V],
         BackwardBut(prev, L, Ls, P)
  PROVE  BackwardBut([prev EXCEPT ![e] = v], L, Ls, P)
<1>1. ASSUME NEW l \in Ls, NEW k \in 0 .. Len(L[l])
      PROVE  Place(L[l], l, k + 1) # e
  <2>1. k + 1 \in 0 .. Len(L[l]) + 1
    OBVIOUS
  <2> QED BY <2>1, NotPlaced
<1>2. \A n : n # e => [prev EXCEPT ![e] = v][n] = prev[n]
  OBVIOUS
<1> QED
  BY <1>1, <1>2, Zenon DEF BackwardBut

\* With curr->prev->next stored, e is on the list and curr->prev is to come.
LEMMA LinkBackwardBut ==
  ASSUME NEW Ls, NEW Es, NEW L \in [Ls -> Seq(Es)], NEW P,
         NEW l \in Ls, NEW e \in Es, NEW prev, BackwardBut(prev, L, Ls, P),
         prev[e] = l, NEW c, c = Place(L[l], l, 1)
  PROVE  BackwardBut(prev, Longer(L, l, e), Ls, P \cup {c})
<1> DEFINE M == Longer(L, l, e)
<1>1. Len(L[l]) \in Nat
  OBVIOUS
<1>2. IsLonger(L, Ls, Es, l, e)
  BY LongerPlaces
<1>3. /\ \A m \in Ls : m # l => M[m] = L[m]
      /\ Len(M[l]) = Len(L[l]) + 1
      /\ Place(M[l], l, 0) = l /\ Place(M[l], l, 1) = e
      /\ \A j \in 1 .. Len(L[l]) + 1 : Place(M[l], l, j + 1) = Place(L[l], l, j)
  BY <1>2, Zenon DEF IsLonger
<1>4. SUFFICES ASSUME NEW m \in Ls, NEW k \in 0 .. Len(M[m]),
                      Place(M[m], m, k + 1) \notin P \cup {c}
               PROVE  prev[Place(M[m], m, k + 1)] = Place(M[m], m, k)
  BY DEF BackwardBut
<1> HIDE DEF M
<1>5. CASE m # l
  <2>1. M[m] = L[m] /\ k \in 0 .. Len(L[m]) /\ Place(M[m], m, k + 1) \notin P
    BY <1>3, <1>4, <1>5
  <2> QED BY <2>1, Zenon DEF BackwardBut
<1>6. CASE m = l
  <2>1. CASE k = 0
    BY <1>3, <1>6, <2>1
  <2>2. CASE k = 1
    <3>1. 1 \in 1 .. Len(L[l]) + 1
      BY <1>1
    <3>2. Place(M[l], l, 1 + 1) = c
      BY <1>3, <3>1
    <3> QED BY <1>4, <1>6, <2>2, <3>2
  <2>3. CASE k # 0 /\ k # 1
    <3>1. PICK j \in 1 .. Len(L[l]) : k = j + 1
      <4>1. k - 1 \in 1 .. Len(L[l]) /\ k = (k - 1) + 1
        BY <1>1, <1>3, <1>6, <2>3
      <4> QED BY <4>1
    <3>2. j \in 1 .. Len(L[l]) + 1 /\ j + 1 \in 1 .. Len(L[l]) + 1 /\ j \in 0 .. Len(L[l])
      BY <1>1
    <3>3. Place(M[l], l, k) = Place(L[l], l, j) /\ Place(M[l], l, k + 1) = Place(L[l], l, j + 1)
      BY <1>3, <3>1, <3>2
    <3>4. Place(L[l], l, j + 1) \notin P
      BY <1>4, <1>6, <3>3
    <3>5. prev[Place(L[l], l, j + 1)] = Place(L[l], l, j)
      BY <3>2, <3>4 DEF BackwardBut
    <3> QED BY <1>6, <3>3, <3>5
  <2> QED BY <2>1, <2>2, <2>3
<1> QED BY <1>5, <1>6

\* The last store settles its node.
LEMMA StoreBackwardBut ==
  ASSUME NEW Ls, NEW Es, Ls \cap Es = {}, NEW L \in [Ls -> Seq(Es)], Once(L, Ls), NEW P,
         NEW V, NEW prev \in [Ls \cup Es -> V], BackwardBut(prev, L, Ls, P),
         NEW l \in Ls, NEW k \in 0 .. Len(L[l]),
         NEW c \in Ls \cup Es, c = Place(L[l], l, k + 1), NEW e, e = Place(L[l], l, k)
  PROVE  BackwardBut([prev EXCEPT ![c] = e], L, Ls, P \ {c})
<1> DEFINE new == [prev EXCEPT ![c] = e]
<1>1. new[c] = e /\ \A n : n # c => new[n] = prev[n]
  OBVIOUS
<1>2. SUFFICES ASSUME NEW m \in Ls, NEW j \in 0 .. Len(L[m]),
                      Place(L[m], m, j + 1) \notin P \ {c}
               PROVE  new[Place(L[m], m, j + 1)] = Place(L[m], m, j)
  BY DEF BackwardBut
<1> HIDE DEF new
<1>3. CASE Place(L[m], m, j + 1) = c
  <2>1. m = l /\ j = k
    <3>1. Place(L[m], m, j + 1) = Place(L[l], l, k + 1)
      BY <1>3
    <3> QED BY <3>1, PlacedOnceAfter
  <2> QED BY <1>1, <1>3, <2>1
<1>4. CASE Place(L[m], m, j + 1) # c
  <2>1. Place(L[m], m, j + 1) \notin P
    BY <1>2, <1>4
  <2>2. prev[Place(L[m], m, j + 1)] = Place(L[m], m, j)
    BY <2>1 DEF BackwardBut
  <2> QED BY <1>1, <1>4, <2>2
<1> QED BY <1>3, <1>4

LEMMA BackwardButMore ==
  ASSUME NEW Ls, NEW L, NEW P, NEW Q, P \subseteq Q, NEW prev, BackwardBut(prev, L, Ls, P)
  PROVE  BackwardBut(prev, L, Ls, Q)
BY DEF BackwardBut

\* What a longer list holds: one element more.
LEMMA OnLonger ==
  ASSUME NEW Ls, NEW Es, NEW L \in [Ls -> Seq(Es)], NEW l \in Ls, NEW e \in Es, NEW x,
         OnNone(L, Ls, x), x # e
  PROVE  OnNone(Longer(L, l, e), Ls, x)
<1> DEFINE M == Longer(L, l, e)
<1>1. IsLonger(L, Ls, Es, l, e)
  BY LongerPlaces
<1>2. /\ \A m \in Ls : m # l => M[m] = L[m]
      /\ Len(M[l]) = Len(L[l]) + 1 /\ M[l][1] = e
      /\ \A k \in 1 .. Len(L[l]) : M[l][k + 1] = L[l][k]
  BY <1>1, Zenon DEF IsLonger
<1>3. SUFFICES ASSUME NEW m \in Ls, NEW k \in 1 .. Len(M[m]) PROVE M[m][k] # x
  BY DEF OnNone
<1> HIDE DEF M
<1>4. Len(L[l]) \in Nat
  OBVIOUS
<1>5. CASE m # l
  <2>1. M[m] = L[m] /\ k \in 1 .. Len(L[m])
    BY <1>2, <1>5
  <2> QED BY <2>1 DEF OnNone
<1>6. CASE m = l /\ k = 1
  BY <1>2, <1>6
<1>7. CASE m = l /\ k # 1
  <2>1. PICK j \in 1 .. Len(L[l]) : k = j + 1
    <3>1. k - 1 \in 1 .. Len(L[l]) /\ k = (k - 1) + 1
      BY <1>2, <1>4, <1>7
    <3> QED BY <3>1
  <2> QED BY <1>2, <1>7, <2>1 DEF OnNone
<1> QED BY <1>5, <1>6, <1>7

-----------------------------------------------------------------------------
(* The parts of the elements: equal spans, one behind the other.            *)

\* The few facts about products that the solvers do not find alone.
LEMMA Multiples ==
  /\ \A a, b, c \in Nat : b <= c => a * b <= a * c
  /\ \A a, b \in Nat : a * b \in Nat /\ a * (b + 1) = a * b + a
<1>1. ASSUME NEW a \in Nat, NEW b \in Nat, NEW c \in Nat, b <= c PROVE a * b <= a * c
  <2>1. PICK d \in Nat : c = b + d
    BY <1>1
  <2>2. a * c = a * b + a * d
    BY <2>1
  <2>3. a * b \in Nat /\ a * d \in Nat
    OBVIOUS
  <2> QED BY <2>2, <2>3
<1>2. ASSUME NEW a \in Nat, NEW b \in Nat PROVE a * b \in Nat /\ a * (b + 1) = a * b + a
  OBVIOUS
<1> QED BY <1>1, <1>2

LEMMA PartsFit ==
  ASSUME NEW n \in Nat, NEW k \in Nat \ {0}
  PROVE  n \div k \in Nat /\ (n \div k) * k <= n
OBVIOUS

LEMMA InSomeSpan ==
  ASSUME NEW a \in Nat, NEW k \in Nat, NEW n \in 0 .. a * k - 1
  PROVE  \E p \in 0 .. k - 1 : n \in a * p .. a * (p + 1) - 1
<1> DEFINE T == {w \in Nat : \A x \in 0 .. a * w - 1 :
                   \E p \in 0 .. w - 1 : x \in a * p .. a * (p + 1) - 1}
<1>1. 0 \in T
  OBVIOUS
<1>2. ASSUME NEW w \in Nat, w \in T PROVE w + 1 \in T
  <2>1. SUFFICES ASSUME NEW x \in 0 .. a * (w + 1) - 1
                 PROVE  \E p \in 0 .. (w + 1) - 1 : x \in a * p .. a * (p + 1) - 1
    OBVIOUS
  <2>2. CASE x < a * w
    <3>1. a * w \in Nat /\ \A y \in 0 .. a * w - 1 :
            \E p \in 0 .. w - 1 : y \in a * p .. a * (p + 1) - 1
      BY <1>2, Multiples
    <3>2. x \in 0 .. a * w - 1
      BY <2>1, <2>2, <3>1
    <3>3. PICK p \in 0 .. w - 1 : x \in a * p .. a * (p + 1) - 1
      BY <3>1, <3>2
    <3>4. p \in 0 .. (w + 1) - 1
      OBVIOUS
    <3> QED BY <3>3, <3>4
  <2>3. CASE ~(x < a * w)
    <3>1. x \in a * w .. a * (w + 1) - 1
      BY <2>3, Multiples
    <3>2. w \in 0 .. (w + 1) - 1
      OBVIOUS
    <3> QED BY <3>1, <3>2
  <2> QED BY <2>2, <2>3
<1> HIDE DEF T
<1>3. k \in T
  BY <1>1, <1>2, Numbers
<1> QED
  BY <1>3 DEF T

-----------------------------------------------------------------------------
(* The workers of list.c.                                                   *)

All     == {m \in 0 .. NumThreads * the_n_elements - 1 :
              \/ m < the_n_elements
              \/ \E p \in PartCounts : m < (the_n_elements \div p) * NumThreads}
Item(t) == Elem(at[t])
Home(t) == ListOf(t)
Held    == [l \in Heads |-> Contents(pointers, l)]

\* t is in the middle of an insertion; t works on a part; the elements of the
\* part below Upto(t) are on the lists.
Inside(t)  == pc[t] \in {"find", "point", "link", "back"}
Working(t) == pc[t] = "loop" \/ Inside(t)
Upto(t)    == IF pc[t] = "back" THEN at[t] + 1 ELSE at[t]
IsOn(n)    == ~ OnNone(Held, Heads, Elem(n))
Span(p)    == PartBegin(p) .. PartEnd(p) - 1
Claimed(p) == IF build = "lb" THEN spinLocks[p] = 1 ELSE p \in Threads /\ pc[p] # "start"
Pending    == {curr[t] : t \in {u \in Threads : pc[u] = "back"}}

\* The variables are well typed.
Types ==
  /\ build \in {"biglock", "multilists", "lb"}
  /\ numParts \in Nat \ {0} /\ numParts \in PartCounts /\ LegalParts(build, numParts)
  /\ pointers \in [next : [Heads \cup Items -> Heads \cup Items \cup {Uninit}],
                   prev : [Heads \cup Items -> Heads \cup Items \cup {Uninit}]]
  /\ mutex \in Threads \cup {None}
  /\ spinLocks \in [Parts -> {0, 1}]
  /\ pc \in [Threads -> {"start", "claim", "loop", "find", "point", "link", "back", "done"}]
  /\ part \in [Threads -> Nat] /\ at \in [Threads -> Nat]
  /\ curr \in [Threads -> Heads \cup Items \cup {Uninit, None}]

\* The next pointers are those of whole lists at any time, the prev pointers
\* but for the stores to curr->prev that are still to come.
Chains == /\ Leads(pointers, Held, Heads, Items)
          /\ BackwardBut(pointers.prev, Held, Heads, Pending)

\* what a thread has read and stored so far is still so
Stored(t) ==
  /\ pc[t] \in {"point", "link"} => curr[t] = pointers.next[Home(t)]
  /\ pc[t] = "link" => /\ pointers.next[Item(t)] = curr[t]
                       /\ pointers.prev[Item(t)] = Home(t)
  /\ pc[t] = "back" => /\ Len(Held[Home(t)]) >= 1 /\ Held[Home(t)][1] = Item(t)
                       /\ pointers.next[Item(t)] = curr[t]

Stores == \A t \in Threads : Stored(t)

\* In the biglock build only the holder of the mutex is in an insertion.
Exclusive == build = "biglock" => \A t \in Threads : Inside(t) => mutex = t

\* A thread works within a part that has been claimed,
OwnPart ==
  \A t \in Threads : Working(t) =>
    /\ part[t] \in Parts /\ Claimed(part[t])
    /\ at[t] \in PartBegin(part[t]) .. PartEnd(part[t])
    /\ Inside(t) => at[t] < PartEnd(part[t])

\* has inserted the elements of it in front of i and no others,
OwnItems ==
  \A t \in Threads : Working(t) =>
    \A n \in Span(part[t]) : IsOn(n) <=> n < Upto(t)

\* and is the only one that works on it.
OnePart ==
  \A t, u \in Threads : Working(t) /\ Working(u) /\ part[t] = part[u] => t = u

\* Nothing of an unclaimed part is on a list, all of a part that was left is,
\* and nothing else.
Unclaimed == \A p \in Parts : ~ Claimed(p) => \A n \in Span(p) : ~ IsOn(n)

Finished ==
  \A p \in Parts : Claimed(p) /\ (\A t \in Threads : Working(t) => part[t] # p)
    => \A n \in Span(p) : IsOn(n)

OnlySpans == \A n \in All : IsOn(n) => \E p \in Parts : n \in Span(p)

Shares == OwnPart /\ OwnItems /\ OnePart /\ Unclaimed /\ Finished /\ OnlySpans

\* A thread of the lb build has gone past claimed parts only, until there are
\* none left; a thread of the others works on the part of its own number.
Control ==
  /\ build = "lb" => \A t \in Threads : /\ part[t] <= numParts
                                        /\ \A p \in 0 .. part[t] - 1 : Claimed(p)
                                        /\ pc[t] = "done" => part[t] = numParts
  /\ build # "lb" => \A t \in Threads : /\ pc[t] # "claim"
                                        /\ pc[t] # "start" => part[t] = t
  /\ joined => \A t \in Threads : pc[t] = "done"

WInv == Types /\ Chains /\ Stores /\ Exclusive /\ Shares /\ Control

LEMMA NodeFacts ==
  /\ Heads \cap Items = {} /\ IsFiniteSet(Heads \cup Items)
  /\ the_n_elements \in Nat /\ NumThreads * the_n_elements \in Nat /\ NumThreads \in Nat
  /\ \A n \in All : Elem(n) \in Items
  /\ \A e \in Items : \E n \in All : e = Elem(n)
  /\ \A m, n : Elem(m) = Elem(n) => m = n
  /\ \A t \in Threads : Home(t) \in Heads
  /\ \A t, u : build # "biglock" /\ Home(t) = Home(u) => t = u
  /\ 0 \in Threads
<1>1. /\ the_n_elements \in Nat /\ NumThreads * the_n_elements \in Nat /\ NumThreads \in Nat
      /\ 0 \in Threads
  <2>1. NumThreads \in Nat \ {0} /\ Iterations \in Nat
    BY WorkersAssumption
  <2>2. the_n_elements \in Nat
    BY <2>1, Multiples DEF the_n_elements
  <2> QED
    BY <2>1, <2>2, Multiples DEF Threads
<1>2. Heads \cap Items = {}
  BY DEF Heads, Items, Elem
<1>3. /\ \A n \in All : Elem(n) \in Items
      /\ \A e \in Items : \E n \in All : e = Elem(n)
  BY DEF Items, All
<1>4. \A m, n : Elem(m) = Elem(n) => m = n
  BY DEF Elem
<1>5. \A t \in Threads : Home(t) \in Heads
  BY <1>1 DEF Home, Heads, ListOf, Threads
<1>6. \A t, u : build # "biglock" /\ Home(t) = Home(u) => t = u
  BY DEF Home, ListOf
<1>7. IsFiniteSet(Heads \cup Items)
  <2>1. IsFiniteSet(All) /\ IsFiniteSet(Threads)
    <3>1. 0 \in Int /\ NumThreads * the_n_elements - 1 \in Int /\ NumThreads - 1 \in Int
      BY <1>1, WorkersAssumption
    <3>2. All \subseteq 0 .. NumThreads * the_n_elements - 1
      BY DEF All
    <3> QED BY <3>1, <3>2, FS_Interval, FS_Subset DEF Threads
  <2>2. [e \in Items |-> e[2]] \in Injection(Items, All)
    BY DEF Injection, IsInjective, Items, All, Elem
  <2>3. [l \in Heads |-> l[2]] \in Injection(Heads, Threads)
    BY DEF Injection, IsInjective, Heads, Threads
  <2> QED BY <2>1, <2>2, <2>3, FS_Injection, FS_Union
<1> QED
  BY <1>1, <1>2, <1>3, <1>4, <1>5, <1>6, <1>7

LEMMA HeldIs ==
  ASSUME NEW h, NEW L, Leads(h, L, Heads, Items)
  PROVE  [l \in Heads |-> Contents(h, l)] = L
<1>1. Heads \cap Items = {} /\ IsFiniteSet(Heads \cup Items)
  BY NodeFacts
<1> QED
  BY <1>1, ContentsAre

LEMMA SpanFacts ==
  ASSUME numParts \in Nat \ {0}, numParts \in PartCounts
  PROVE  /\ per_part \in Nat /\ Worked \in Nat
         /\ \A p \in Nat : /\ PartBegin(p) \in Nat /\ PartEnd(p) \in Nat
                           /\ PartBegin(p) <= PartEnd(p)
         /\ \A p \in Parts : p \in Nat /\ PartEnd(p) <= per_part * Worked
         /\ \A p \in Parts : Span(p) \subseteq All
         /\ \A p, q \in Parts : \A n \in Span(p) : n \in Span(q) => p = q
         /\ \A m \in Nat : m < per_part * Worked => m \in All
         /\ per_part * numParts <= the_n_elements
<1> DEFINE a == per_part
           N == the_n_elements
<1>1. a \in Nat /\ a * numParts <= N /\ N \in Nat /\ NumThreads \in Nat /\ a = N \div numParts
  BY NodeFacts, PartsFit DEF per_part
<1>2. \A p : PartBegin(p) = a * p /\ PartEnd(p) = a * (p + 1)
  BY DEF PartBegin, PartEnd
<1>9. /\ Worked \in Nat /\ (Worked = numParts \/ Worked = NumThreads)
      /\ Parts = 0 .. Worked - 1
  BY <1>1 DEF Worked, Parts
<1> HIDE DEF a, N
<1>3. \A p \in Nat : a * p \in Nat /\ a * (p + 1) = a * p + a
  BY <1>1, Multiples
<1>4. \A p \in Nat : /\ PartBegin(p) \in Nat /\ PartEnd(p) \in Nat
                     /\ PartBegin(p) <= PartEnd(p)
  BY <1>1, <1>2, <1>3
<1>5. \A p \in Parts : p \in Nat /\ p + 1 <= Worked /\ p + 1 \in Nat
  BY <1>9
<1>6. ASSUME NEW p \in Parts PROVE PartEnd(p) <= a * Worked
  <2>1. a * (p + 1) <= a * Worked
    BY <1>1, <1>9, <1>5, Multiples
  <2> QED BY <1>2, <2>1
<1>10. \A m \in Nat : m < a * Worked => m \in All
  <2>1. SUFFICES ASSUME NEW m \in Nat, m < a * Worked PROVE m \in All
    OBVIOUS
  <2>2. N <= NumThreads * N /\ a <= N /\ NumThreads * N \in Nat
    <3>1. N * 1 <= N * NumThreads /\ N * NumThreads = NumThreads * N
      <4>1. NumThreads \in Nat \ {0} /\ 1 <= NumThreads /\ 1 \in Nat
        BY WorkersAssumption
      <4> QED BY <1>1, <4>1, Multiples
    <3>2. a * 1 <= a * numParts
      <4>1. 1 \in Nat /\ 1 <= numParts
        OBVIOUS
      <4> QED BY <1>1, <4>1, Multiples
    <3> QED BY <1>1, <3>1, <3>2, Multiples
  <2>3. CASE Worked = numParts
    <3>1. m < N
      BY <1>1, <1>3, <2>1, <2>3
    <3>2. m \in 0 .. NumThreads * N - 1
      BY <1>1, <2>2, <3>1
    <3> QED BY <3>1, <3>2 DEF All, N
  <2>4. CASE Worked = NumThreads
    <3>1. m < (N \div numParts) * NumThreads
      BY <1>1, <2>1, <2>4
    <3>2. a * NumThreads <= NumThreads * N /\ a * NumThreads \in Nat
      <4>1. NumThreads * a <= NumThreads * N
        BY <1>1, <2>2, Multiples
      <4> QED BY <1>1, <1>3, <4>1
    <3>3. m \in 0 .. NumThreads * N - 1
      BY <2>1, <2>2, <2>4, <3>2
    <3> QED BY <3>1, <3>3 DEF All, N
  <2> QED BY <1>9, <2>3, <2>4
<1>7. ASSUME NEW p \in Parts PROVE Span(p) \subseteq All
  <2>1. SUFFICES ASSUME NEW n \in Span(p) PROVE n \in All
    OBVIOUS
  <2>2. /\ n \in PartBegin(p) .. PartEnd(p) - 1 /\ PartBegin(p) \in Nat /\ PartEnd(p) \in Nat
        /\ PartEnd(p) <= a * Worked /\ a * Worked \in Nat
    BY <1>3, <1>4, <1>5, <1>6, <1>9 DEF Span
  <2> QED BY <1>10, <2>2
<1>8. ASSUME NEW p \in Parts, NEW q \in Parts, NEW n \in Span(p), n \in Span(q) PROVE p = q
  <2>1. n \in Nat /\ a * p <= n /\ n < a * (p + 1) /\ a * q <= n /\ n < a * (q + 1)
    BY <1>2, <1>3, <1>4, <1>5, <1>8 DEF Span
  <2>2. CASE p < q
    <3>1. a * (p + 1) <= a * q
      BY <1>1, <1>5, <2>2, Multiples
    <3> QED BY <1>3, <1>5, <2>1, <3>1
  <2>3. CASE q < p
    <3>1. a * (q + 1) <= a * p
      BY <1>1, <1>5, <2>3, Multiples
    <3> QED BY <1>3, <1>5, <2>1, <3>1
  <2> QED BY <1>5, <2>2, <2>3
<1> QED
  BY <1>1, <1>9, <1>4, <1>5, <1>6, <1>7, <1>8, <1>10 DEF a, N

\* Threads in the middle of an insertion work on different lists.
LEMMA Alone ==
  ASSUME Exclusive, NEW t \in Threads, NEW u \in Threads,
         Inside(t), Inside(u), Home(t) = Home(u)
  PROVE  t = u
<1>1. CASE build = "biglock"
  BY <1>1 DEF Exclusive
<1>2. CASE build # "biglock"
  BY <1>2, NodeFacts
<1> QED BY <1>1, <1>2

\* The element that a thread is about to insert.
LEMMA ItemFacts ==
  ASSUME Types, OwnPart, NEW t \in Threads, Inside(t)
  PROVE  /\ at[t] \in Span(part[t]) /\ part[t] \in Parts /\ at[t] \in All
         /\ Item(t) \in Items
<1>1. /\ part[t] \in Parts /\ at[t] \in Nat
      /\ PartBegin(part[t]) <= at[t] /\ at[t] < PartEnd(part[t])
  <2>1. Working(t)
    BY DEF Working
  <2>2. part[t] \in Parts /\ at[t] \in PartBegin(part[t]) .. PartEnd(part[t])
    BY <2>1 DEF OwnPart
  <2>3. at[t] < PartEnd(part[t])
    BY <2>1 DEF OwnPart
  <2>4. PartBegin(part[t]) \in Nat /\ PartEnd(part[t]) \in Nat
    BY <2>2, SpanFacts DEF Types
  <2> QED BY <2>2, <2>3, <2>4 DEF Types
<1>2. PartBegin(part[t]) \in Nat /\ PartEnd(part[t]) \in Nat
  BY <1>1, SpanFacts DEF Types
<1>3. at[t] \in Span(part[t])
  BY <1>1, <1>2 DEF Span
<1>4. at[t] \in All
  BY <1>1, <1>3, SpanFacts DEF Types
<1>5. Item(t) \in Items
  BY <1>4, NodeFacts DEF Item
<1> QED
  BY <1>1, <1>3, <1>4, <1>5

LEMMA Different ==
  ASSUME Types, OwnPart, OnePart, NEW t \in Threads, NEW u \in Threads,
         Inside(t), Inside(u), at[t] = at[u]
  PROVE  t = u
<1>1. /\ at[t] \in Span(part[t]) /\ part[t] \in Parts
      /\ at[u] \in Span(part[u]) /\ part[u] \in Parts
  BY ItemFacts
<1>2. part[t] = part[u]
  BY <1>1, SpanFacts DEF Types
<1> QED
  BY <1>2 DEF OnePart, Working

LEMMA ItemOff ==
  ASSUME Types, OwnPart, OwnItems, NEW t \in Threads, Inside(t), pc[t] # "back"
  PROVE  OnNone(Held, Heads, Item(t)) /\ ~ IsOn(at[t])
<1>1. at[t] \in Span(part[t]) /\ Working(t) /\ at[t] \in Nat
  BY ItemFacts DEF Working, Types
<1>2. IsOn(at[t]) <=> at[t] < Upto(t)
  BY <1>1 DEF OwnItems
<1>3. ~ IsOn(at[t])
  BY <1>1, <1>2 DEF Upto
<1> QED
  BY <1>3 DEF IsOn, Item

LEMMA HeldType ==
  ASSUME Chains
  PROVE  /\ Held \in [Heads -> Seq(Items)] /\ Once(Held, Heads)
         /\ Forward(pointers.next, Held, Heads)
         /\ \A l \in Heads : Len(Held[l]) \in Nat
BY DEF Chains, Leads

LEMMA PointersType ==
  ASSUME Types
  PROVE  /\ pointers.next \in [Heads \cup Items -> Heads \cup Items \cup {Uninit}]
         /\ pointers.prev \in [Heads \cup Items -> Heads \cup Items \cup {Uninit}]
BY DEF Types

\* A thread whose last store is to come has its element at the front, and
\* holds the node behind it.
LEMMA BackPlace ==
  ASSUME Chains, Stores, NEW t \in Threads, pc[t] = "back"
  PROVE  /\ 1 \in 0 .. Len(Held[Home(t)])
         /\ Place(Held[Home(t)], Home(t), 1) = Item(t)
         /\ curr[t] = Place(Held[Home(t)], Home(t), 1 + 1)
         /\ curr[t] \in Heads \cup Items
<1>1. /\ Home(t) \in Heads /\ Held \in [Heads -> Seq(Items)]
      /\ Forward(pointers.next, Held, Heads) /\ Len(Held[Home(t)]) \in Nat
  BY NodeFacts, HeldType
<1>2. /\ Len(Held[Home(t)]) >= 1 /\ Held[Home(t)][1] = Item(t)
      /\ pointers.next[Item(t)] = curr[t]
  BY DEF Stores, Stored
<1> HIDE DEF Held
<1>3. 1 \in 1 .. Len(Held[Home(t)]) /\ 1 \in 0 .. Len(Held[Home(t)])
      /\ 1 + 1 \in 0 .. Len(Held[Home(t)]) + 1
  BY <1>1, <1>2
<1>4. Place(Held[Home(t)], Home(t), 1) = Item(t)
  BY <1>1, <1>2, <1>3, Placed
<1>5. curr[t] = Place(Held[Home(t)], Home(t), 1 + 1)
  BY <1>1, <1>2, <1>3, <1>4 DEF Forward
<1>6. Place(Held[Home(t)], Home(t), 1 + 1) \in Items \cup {Home(t)}
  BY <1>1, <1>3, AllPlaces
<1> QED
  BY <1>1, <1>3, <1>4, <1>5, <1>6

\* As long as a thread has not linked its element, the first node of its list
\* points back to the head: no store to its prev is to come.
LEMMA FirstPointsBack ==
  ASSUME Chains, Stores, Exclusive, NEW t \in Threads, Inside(t), pc[t] # "back"
  PROVE  /\ pointers.next[Home(t)] = Place(Held[Home(t)], Home(t), 1)
         /\ pointers.prev[Place(Held[Home(t)], Home(t), 1)] = Home(t)
         /\ Place(Held[Home(t)], Home(t), 1) \in Heads \cup Items
<1>1. /\ Home(t) \in Heads /\ Held \in [Heads -> Seq(Items)] /\ Once(Held, Heads)
      /\ Forward(pointers.next, Held, Heads) /\ Len(Held[Home(t)]) \in Nat
      /\ Heads \cap Items = {} /\ BackwardBut(pointers.prev, Held, Heads, Pending)
  BY NodeFacts, HeldType DEF Chains
<1> DEFINE c == Place(Held[Home(t)], Home(t), 1)
<1>2. /\ 0 \in 0 .. Len(Held[Home(t)]) /\ 0 + 1 = 1 /\ 1 \in 0 .. Len(Held[Home(t)]) + 1
      /\ Place(Held[Home(t)], Home(t), 0) = Home(t)
  BY <1>1, AllPlaces
<1>3. c \notin Pending
  <2>1. SUFFICES ASSUME NEW u \in Threads, pc[u] = "back", curr[u] = c PROVE FALSE
    BY DEF Pending
  <2>2. u # t /\ Inside(u)
    BY <2>1 DEF Inside
  <2>3. Home(u) # Home(t) /\ Home(u) \in Heads
    BY <2>2, Alone, NodeFacts
  <2>4. 1 \in 0 .. Len(Held[Home(u)]) /\ curr[u] = Place(Held[Home(u)], Home(u), 1 + 1)
    BY <2>1, BackPlace
  <2>5. Place(Held[Home(u)], Home(u), 1 + 1) = Place(Held[Home(t)], Home(t), 0 + 1)
    BY <1>2, <2>1, <2>4
  <2> HIDE DEF Held
  <2> QED BY <1>1, <1>2, <2>3, <2>4, <2>5, PlacedOnceAfter
<1> HIDE DEF Held
<1>4. pointers.next[Home(t)] = c
  BY <1>1, <1>2 DEF Forward
<1>5. pointers.prev[c] = Home(t)
  BY <1>1, <1>2, <1>3 DEF BackwardBut
<1>6. c \in Items \cup {Home(t)}
  BY <1>1, <1>2, AllPlaces
<1> QED
  BY <1>1, <1>4, <1>5, <1>6

LEMMA PendingSame ==
  ASSUME \A u \in Threads : /\ pc'[u] = "back" <=> pc[u] = "back"
                            /\ pc[u] = "back" => curr'[u] = curr[u]
  PROVE  Pending' = Pending
BY DEF Pending, Threads

LEMMA Goes ==
  ASSUME Types, NEW t \in Threads, NEW a, NEW b, Goto(t, a, b)
  PROVE  /\ pc[t] = a /\ pc'[t] = b /\ \A u \in Threads : u # t => pc'[u] = pc[u]
BY DEF Types, Goto

\* element->prev and element->next: no list changes.
LEMMA PointStep ==
  ASSUME WInv, NEW t \in Threads, Point(t)
  PROVE  /\ Held' = Held /\ Chains'
         /\ pointers' \in [next : [Heads \cup Items -> Heads \cup Items \cup {Uninit}],
                           prev : [Heads \cup Items -> Heads \cup Items \cup {Uninit}]]
         /\ \A n \in Heads \cup Items : n # Item(t) =>
              pointers'.next[n] = pointers.next[n] /\ pointers'.prev[n] = pointers.prev[n]
         /\ pointers'.next[Item(t)] = curr[t] /\ pointers'.prev[Item(t)] = Home(t)
<1> DEFINE e == Item(t)
           next == [pointers.next EXCEPT ![e] = curr[t]]
           prev == [pointers.prev EXCEPT ![e] = Home(t)]
           N == Heads \cup Items
           V == Heads \cup Items \cup {Uninit}
<1>1. /\ Types /\ Chains /\ Stores /\ Exclusive /\ OwnPart /\ OwnItems
      /\ Inside(t) /\ pc[t] = "point" /\ pc'[t] = "link" /\ curr' = curr
      /\ \A u \in Threads : u # t => pc'[u] = pc[u]
  BY Goes DEF WInv, Shares, Point, Inside
<1>2. /\ Heads \cap Items = {} /\ e \in Items /\ Home(t) \in Heads /\ OnNone(Held, Heads, e)
  BY <1>1, NodeFacts, ItemFacts, ItemOff
<1>3. curr[t] = pointers.next[Home(t)]
  BY <1>1 DEF Stores, Stored
<1>4. pointers.prev[curr[t]] = Home(t) /\ curr[t] \in N
  BY <1>1, <1>3, FirstPointsBack
<1>5. pointers.next \in [N -> V] /\ pointers.prev \in [N -> V]
  BY <1>1, PointersType
<1>6. pointers' = [next |-> next, prev |-> prev]
  <2>1. pointers' = [pointers EXCEPT !.prev[e] = pointers.prev[curr[t]], !.next[e] = curr[t]]
    BY DEF Point, Item
  <2>2. pointers \in [next : [N -> V], prev : [N -> V]]
    BY <1>1 DEF Types
  <2> QED BY <1>4, <2>1, <2>2
<1>7. next \in [N -> V] /\ prev \in [N -> V]
  BY <1>2, <1>4, <1>5
<1>8. /\ Held \in [Heads -> Seq(Items)] /\ Once(Held, Heads)
      /\ Forward(pointers.next, Held, Heads) /\ BackwardBut(pointers.prev, Held, Heads, Pending)
  BY <1>1, HeldType DEF Chains
<1> HIDE DEF Held
<1>9. Forward(next, Held, Heads)
  BY <1>2, <1>5, <1>8, StoreAside
<1>10. BackwardBut(prev, Held, Heads, Pending)
  BY <1>2, <1>5, <1>8, StoreAsideBut
<1> HIDE DEF next, prev
<1>11. Leads([next |-> next, prev |-> prev], Held, Heads, Items)
  BY <1>7, <1>8, <1>9 DEF Leads
<1>12. Held' = Held
  <2>1. [l \in Heads |-> Contents([next |-> next, prev |-> prev], l)] = Held
    BY <1>11, HeldIs
  <2>2. Held' = [l \in Heads |-> Contents(pointers', l)]
    BY DEF Held
  <2> QED BY <1>6, <2>1, <2>2
<1>13. Pending' = Pending
  BY <1>1, PendingSame
<1>14. Chains'
  BY <1>6, <1>10, <1>11, <1>12, <1>13 DEF Chains
<1>15. \A n \in N : n # e => next[n] = pointers.next[n] /\ prev[n] = pointers.prev[n]
  BY <1>5 DEF next, prev
<1>16. next[e] = curr[t] /\ prev[e] = Home(t)
  BY <1>2, <1>5 DEF next, prev
<1> QED
  BY <1>6, <1>7, <1>12, <1>14, <1>15, <1>16

\* curr->prev->next: the element is on the list.
LEMMA LinkStep ==
  ASSUME WInv, NEW t \in Threads, Link(t)
  PROVE  /\ Held' = Longer(Held, Home(t), Item(t)) /\ Chains'
         /\ pointers' \in [next : [Heads \cup Items -> Heads \cup Items \cup {Uninit}],
                           prev : [Heads \cup Items -> Heads \cup Items \cup {Uninit}]]
         /\ pointers'.prev = pointers.prev
         /\ \A n \in Heads \cup Items : n # Home(t) => pointers'.next[n] = pointers.next[n]
<1> DEFINE e == Item(t)
           l == Home(t)
           next == [pointers.next EXCEPT ![l] = e]
           N == Heads \cup Items
           V == Heads \cup Items \cup {Uninit}
           M == Longer(Held, l, e)
<1>1. /\ Types /\ Chains /\ Stores /\ Exclusive /\ OwnPart /\ OwnItems
      /\ Inside(t) /\ pc[t] = "link" /\ pc'[t] = "back" /\ curr' = curr
      /\ \A u \in Threads : u # t => pc'[u] = pc[u]
  BY Goes DEF WInv, Shares, Link, Inside
<1>2. /\ Heads \cap Items = {} /\ e \in Items /\ l \in Heads /\ OnNone(Held, Heads, e)
  BY <1>1, NodeFacts, ItemFacts, ItemOff
<1>3. /\ curr[t] = pointers.next[l] /\ pointers.next[e] = curr[t] /\ pointers.prev[e] = l
  BY <1>1 DEF Stores, Stored
<1>4. /\ pointers.prev[curr[t]] = l /\ curr[t] \in N
      /\ curr[t] = Place(Held[l], l, 1)
  BY <1>1, <1>3, FirstPointsBack
<1>5. pointers.next \in [N -> V] /\ pointers.prev \in [N -> V]
  BY <1>1, PointersType
<1>6. pointers' = [next |-> next, prev |-> pointers.prev]
  <2>1. pointers' = [pointers EXCEPT !.next[pointers.prev[curr[t]]] = e]
    BY DEF Link, Item
  <2>2. pointers \in [next : [N -> V], prev : [N -> V]]
    BY <1>1 DEF Types
  <2> QED BY <1>4, <2>1, <2>2
<1>7. next \in [N -> V]
  BY <1>2, <1>5
<1>8. /\ Held \in [Heads -> Seq(Items)] /\ Once(Held, Heads)
      /\ Forward(pointers.next, Held, Heads) /\ BackwardBut(pointers.prev, Held, Heads, Pending)
  BY <1>1, HeldType DEF Chains
<1> HIDE DEF Held
<1>9. Forward(next, M, Heads)
  <2>1. pointers.next[e] = pointers.next[l]
    BY <1>3
  <2> HIDE DEF e, l
  <2> QED BY <1>2, <1>5, <1>8, <2>1, LinkForward
<1>10. BackwardBut(pointers.prev, M, Heads, Pending \cup {curr[t]})
  BY <1>2, <1>3, <1>4, <1>8, LinkBackwardBut
<1>11. M \in [Heads -> Seq(Items)] /\ Once(M, Heads)
  <2>1. IsLonger(Held, Heads, Items, l, e)
    BY <1>2, <1>8, LongerPlaces
  <2>2. Once(M, Heads)
    BY <1>2, <1>8, OnceLonger
  <2> QED BY <2>1, <2>2, Zenon DEF IsLonger
<1> HIDE DEF next, M
<1>12. Leads([next |-> next, prev |-> pointers.prev], M, Heads, Items)
  BY <1>7, <1>9, <1>11 DEF Leads
<1>13. Held' = M
  <2>1. [m \in Heads |-> Contents([next |-> next, prev |-> pointers.prev], m)] = M
    BY <1>12, HeldIs
  <2>2. Held' = [m \in Heads |-> Contents(pointers', m)]
    BY DEF Held
  <2> QED BY <1>6, <2>1, <2>2
<1>14. BackwardBut(pointers.prev, M, Heads, Pending')
  <2>1. Pending \cup {curr[t]} \subseteq Pending'
    BY <1>1 DEF Pending, Threads
  <2> QED BY <1>10, <2>1, BackwardButMore
<1>15. Chains'
  BY <1>6, <1>12, <1>13, <1>14 DEF Chains
<1>16. \A n \in N : n # l => next[n] = pointers.next[n]
  BY <1>5 DEF next
<1> QED
  BY <1>5, <1>6, <1>7, <1>13, <1>15, <1>16 DEF M

\* curr->prev
LEMMA BackStep ==
  ASSUME WInv, NEW t \in Threads, Back(t)
  PROVE  /\ Held' = Held /\ Chains'
         /\ pointers' \in [next : [Heads \cup Items -> Heads \cup Items \cup {Uninit}],
                           prev : [Heads \cup Items -> Heads \cup Items \cup {Uninit}]]
         /\ pointers'.next = pointers.next
         /\ \A n \in Heads \cup Items : OnNone(Held, Heads, n) /\ n \notin Heads =>
              pointers'.prev[n] = pointers.prev[n]
<1> DEFINE e == Item(t)
           l == Home(t)
           c == curr[t]
           prev == [pointers.prev EXCEPT ![c] = e]
           N == Heads \cup Items
           V == Heads \cup Items \cup {Uninit}
<1>1. /\ Types /\ Chains /\ Stores /\ Exclusive /\ OwnPart /\ OwnItems
      /\ Inside(t) /\ pc[t] = "back" /\ pc'[t] = "loop" /\ curr' = curr
      /\ \A u \in Threads : u # t => pc'[u] = pc[u]
  BY Goes DEF WInv, Shares, Back, Inside
<1>2. /\ Heads \cap Items = {} /\ e \in Items /\ l \in Heads
  BY <1>1, NodeFacts, ItemFacts
<1>3. /\ 1 \in 0 .. Len(Held[l]) /\ e = Place(Held[l], l, 1)
      /\ c = Place(Held[l], l, 1 + 1) /\ c \in N
  BY <1>1, BackPlace
<1>4. pointers.next \in [N -> V] /\ pointers.prev \in [N -> V]
  BY <1>1, PointersType
<1>5. pointers' = [next |-> pointers.next, prev |-> prev]
  <2>1. pointers' = [pointers EXCEPT !.prev[c] = e]
    BY DEF Back, Item
  <2>2. pointers \in [next : [N -> V], prev : [N -> V]]
    BY <1>1 DEF Types
  <2> QED BY <2>1, <2>2
<1>6. prev \in [N -> V]
  BY <1>2, <1>4
<1>7. /\ Held \in [Heads -> Seq(Items)] /\ Once(Held, Heads) /\ Leads(pointers, Held, Heads, Items)
      /\ BackwardBut(pointers.prev, Held, Heads, Pending)
  BY <1>1, HeldType DEF Chains
<1> HIDE DEF Held
<1>8. BackwardBut(prev, Held, Heads, Pending \ {c})
  <2> HIDE DEF e, l, c
  <2> QED BY <1>2, <1>3, <1>4, <1>7, StoreBackwardBut
<1>9. OnNone(Held, Heads, c) => c \in Heads
  <2>1. ASSUME OnNone(Held, Heads, c), c \in Items PROVE FALSE
    <3>1. 1 + 1 \in 0 .. Len(Held[l]) + 1
      BY <1>2, <1>3, <1>7
    <3> HIDE DEF l, c
    <3>2. Place(Held[l], l, 1 + 1) # c
      BY <1>2, <1>7, <2>1, <3>1, NotPlaced
    <3> QED BY <1>3, <3>2
  <2> QED BY <1>3, <2>1
<1>10. \A n \in N : n # c => prev[n] = pointers.prev[n]
  BY <1>4
<1> HIDE DEF prev
<1>11. Leads([next |-> pointers.next, prev |-> prev], Held, Heads, Items)
  BY <1>7 DEF Leads
<1>12. Held' = Held
  <2>1. [m \in Heads |-> Contents([next |-> pointers.next, prev |-> prev], m)] = Held
    BY <1>11, HeldIs
  <2>2. Held' = [m \in Heads |-> Contents(pointers', m)]
    BY DEF Held
  <2> QED BY <1>5, <2>1, <2>2
<1>13. BackwardBut(prev, Held, Heads, Pending')
  <2>1. Pending \ {c} \subseteq Pending'
    BY <1>1 DEF Pending, Threads
  <2> QED BY <1>8, <2>1, BackwardButMore
<1>14. Chains'
  BY <1>5, <1>11, <1>12, <1>13 DEF Chains
<1> QED
  BY <1>4, <1>5, <1>6, <1>9, <1>10, <1>12, <1>14

-----------------------------------------------------------------------------
(* What the steps do to the parts.                                          *)

\* u works on where it was, if it works on a part at all.
Keeps(u) ==
  /\ Working(u)' <=> Working(u)
  /\ Working(u) => /\ part'[u] = part[u] /\ Upto(u)' = Upto(u)
                   /\ at'[u] \in PartBegin(part[u]) .. PartEnd(part[u])
                   /\ Inside(u)' => at'[u] < PartEnd(part[u])

LEMMA Untouched ==
  ASSUME OwnPart, NEW u \in Threads, pc'[u] = pc[u], at'[u] = at[u],
         Working(u) => part'[u] = part[u]
  PROVE  Keeps(u)
BY DEF Keeps, OwnPart, Working, Inside, Upto

LEMMA SpansSame ==
  ASSUME build' = build, numParts' = numParts
  PROVE  /\ Parts' = Parts
         /\ \A p : Span(p)' = Span(p)
         /\ \A p : PartBegin(p)' = PartBegin(p)
         /\ \A p : PartEnd(p)' = PartEnd(p)
BY DEF Parts, Worked, Span, PartBegin, PartEnd, per_part

\* Nothing happens to the shares.
LEMMA SharesStay ==
  ASSUME Types, Shares, build' = build, numParts' = numParts,
         \A n \in All : IsOn(n)' <=> IsOn(n),
         \A p \in Parts : Claimed(p)' <=> Claimed(p),
         \A u \in Threads : Keeps(u)
  PROVE  Shares'
<1>1. /\ Parts' = Parts /\ \A p : Span(p)' = Span(p)
      /\ \A p : PartBegin(p)' = PartBegin(p)
      /\ \A p : PartEnd(p)' = PartEnd(p)
  BY SpansSame
<1>2. \A u \in Threads :
        /\ Working(u)' <=> Working(u)
        /\ Working(u) => /\ part'[u] = part[u] /\ Upto(u)' = Upto(u)
                         /\ at'[u] \in PartBegin(part[u]) .. PartEnd(part[u])
                         /\ Inside(u)' => at'[u] < PartEnd(part[u])
  BY DEF Keeps
<1>3. \A p \in Parts : Span(p) \subseteq All
  BY SpanFacts DEF Types
<1>4. OwnPart /\ OwnItems /\ OnePart /\ Unclaimed /\ Finished /\ OnlySpans
  BY DEF Shares
<1>5. Threads' = Threads /\ All' = All
  BY DEF Threads, All
<1>6. OwnPart'
  BY <1>1, <1>2, <1>4 DEF OwnPart
<1>7. OwnItems'
  BY <1>1, <1>2, <1>3, <1>4 DEF OwnItems, OwnPart
<1>8. OnePart'
  BY <1>2, <1>4 DEF OnePart
<1>9. Unclaimed'
  BY <1>1, <1>3, <1>4 DEF Unclaimed
<1>10. Finished'
  BY <1>1, <1>2, <1>3, <1>4 DEF Finished
<1>11. OnlySpans'
  BY <1>1, <1>4 DEF OnlySpans
<1> QED
  BY <1>6, <1>7, <1>8, <1>9, <1>10, <1>11 DEF Shares


\* t turns to a part that nobody had claimed.
LEMMA SharesBegin ==
  ASSUME Types, Shares, build' = build, numParts' = numParts,
         \A n \in All : IsOn(n)' <=> IsOn(n),
         NEW t \in Threads, NEW q \in Parts, ~ Claimed(q),
         \A p \in Parts : Claimed(p)' <=> (Claimed(p) \/ p = q),
         ~ Working(t), pc'[t] = "loop", part'[t] = q, at'[t] = PartBegin(q),
         \A u \in Threads : u # t => Keeps(u)
  PROVE  Shares'
<1>1. /\ Parts' = Parts /\ \A p : Span(p)' = Span(p)
      /\ \A p : PartBegin(p)' = PartBegin(p)
      /\ \A p : PartEnd(p)' = PartEnd(p)
  BY SpansSame
<1>2. \A u \in Threads : u # t =>
        /\ Working(u)' <=> Working(u)
        /\ Working(u) => /\ part'[u] = part[u] /\ Upto(u)' = Upto(u)
                         /\ at'[u] \in PartBegin(part[u]) .. PartEnd(part[u])
                         /\ Inside(u)' => at'[u] < PartEnd(part[u])
  BY DEF Keeps
<1>3. \A p \in Parts : Span(p) \subseteq All
  BY SpanFacts DEF Types
<1>4. OwnPart /\ OwnItems /\ OnePart /\ Unclaimed /\ Finished /\ OnlySpans
  BY DEF Shares
<1>5. Threads' = Threads /\ All' = All
  BY DEF Threads, All
<1>6. Working(t)' /\ ~ Inside(t)' /\ Upto(t)' = PartBegin(q)
  BY DEF Working, Inside, Upto
<1>7. /\ PartBegin(q) \in Nat /\ PartEnd(q) \in Nat
      /\ PartBegin(q) <= PartEnd(q)
  BY SpanFacts DEF Types
<1>8. \A u \in Threads : Working(u) => part[u] # q
  BY <1>4 DEF OwnPart
<1>9. OwnPart'
  <2>1. SUFFICES ASSUME NEW u \in Threads, Working(u)'
                 PROVE  \E p \in Parts :
                          /\ part'[u] = p /\ Claimed(p)'
                          /\ at'[u] \in PartBegin(p) .. PartEnd(p)
                          /\ Inside(u)' => at'[u] < PartEnd(p)
    BY <1>1, <1>5 DEF OwnPart
  <2>2. CASE u = t
    BY <1>6, <1>7, <2>2
  <2>3. CASE u # t
    BY <1>2, <1>4, <2>1, <2>3 DEF OwnPart
  <2> QED BY <2>2, <2>3
<1>10. OwnItems'
  <2>1. SUFFICES ASSUME NEW u \in Threads, Working(u)', NEW n \in Span(part'[u])
                 PROVE  IsOn(n)' <=> n < Upto(u)'
    BY <1>1, <1>5 DEF OwnItems
  <2>2. CASE u = t
    <3>1. n \in Span(q)
      BY <2>1, <2>2
    <3>2. ~ IsOn(n)' /\ ~ (n < PartBegin(q))
      BY <1>3, <1>4, <1>7, <3>1 DEF Unclaimed, Span
    <3> QED BY <1>6, <2>2, <3>2
  <2>3. CASE u # t
    <3>1. Working(u) /\ part'[u] = part[u] /\ Upto(u)' = Upto(u) /\ part[u] \in Parts
      BY <1>2, <1>4, <2>1, <2>3 DEF OwnPart
    <3>2. n \in Span(part[u]) /\ n \in All
      BY <1>3, <2>1, <3>1
    <3> QED BY <1>4, <3>1, <3>2 DEF OwnItems
  <2> QED BY <2>2, <2>3
<1>11. OnePart'
  BY <1>2, <1>4, <1>5, <1>8 DEF OnePart
<1>12. Unclaimed'
  BY <1>1, <1>3, <1>4 DEF Unclaimed
<1>13. Finished'
  <2>1. SUFFICES ASSUME NEW p \in Parts, Claimed(p)',
                        \A u \in Threads : Working(u)' => part'[u] # p,
                        NEW n \in Span(p)
                 PROVE  IsOn(n)'
    BY <1>1, <1>5 DEF Finished
  <2>2. p # q
    BY <1>6, <2>1
  <2>3. Claimed(p) /\ \A u \in Threads : Working(u) => part[u] # p
    BY <1>2, <2>1, <2>2
  <2> QED BY <1>3, <1>4, <2>3 DEF Finished
<1>14. OnlySpans'
  BY <1>1, <1>4, <1>5 DEF OnlySpans
<1> QED
  BY <1>9, <1>10, <1>11, <1>12, <1>13, <1>14 DEF Shares

\* t links its element.
LEMMA SharesGrow ==
  ASSUME Types, Shares, build' = build, numParts' = numParts,
         NEW t \in Threads, Inside(t), pc[t] # "back",
         \A n \in All : IsOn(n)' <=> (IsOn(n) \/ n = at[t]),
         \A p \in Parts : Claimed(p)' <=> Claimed(p),
         pc'[t] = "back", part'[t] = part[t], at'[t] = at[t],
         \A u \in Threads : u # t => Keeps(u)
  PROVE  Shares'
<1>1. /\ Parts' = Parts /\ \A p : Span(p)' = Span(p)
      /\ \A p : PartBegin(p)' = PartBegin(p)
      /\ \A p : PartEnd(p)' = PartEnd(p)
  BY SpansSame
<1>2. \A u \in Threads : u # t =>
        /\ Working(u)' <=> Working(u)
        /\ Working(u) => /\ part'[u] = part[u] /\ Upto(u)' = Upto(u)
                         /\ at'[u] \in PartBegin(part[u]) .. PartEnd(part[u])
                         /\ Inside(u)' => at'[u] < PartEnd(part[u])
  BY DEF Keeps
<1>3. \A p \in Parts : Span(p) \subseteq All
  BY SpanFacts DEF Types
<1>4. OwnPart /\ OwnItems /\ OnePart /\ Unclaimed /\ Finished /\ OnlySpans
  BY DEF Shares
<1>5. Threads' = Threads /\ All' = All
  BY DEF Threads, All
<1>6. /\ Working(t) /\ Working(t)' /\ Inside(t)' /\ Upto(t) = at[t] /\ Upto(t)' = at[t] + 1
      /\ at[t] \in Nat
  BY DEF Working, Inside, Upto, Types
<1>7. at[t] \in Span(part[t]) /\ part[t] \in Parts
  BY <1>4, ItemFacts
<1>8. \A u \in Threads : Working(u)' <=> Working(u)
  BY <1>2, <1>6
<1>9. \A u \in Threads : Working(u) => part'[u] = part[u]
  BY <1>2
<1>10. OwnPart'
  <2>1. SUFFICES ASSUME NEW u \in Threads, Working(u)'
                 PROVE  \E p \in Parts :
                          /\ part'[u] = p /\ Claimed(p)'
                          /\ at'[u] \in PartBegin(p) .. PartEnd(p)
                          /\ Inside(u)' => at'[u] < PartEnd(p)
    BY <1>1, <1>5 DEF OwnPart
  <2>2. CASE u = t
    BY <1>4, <1>6, <2>2 DEF OwnPart
  <2>3. CASE u # t
    BY <1>2, <1>4, <2>1, <2>3 DEF OwnPart
  <2> QED BY <2>2, <2>3
<1>11. OwnItems'
  <2>1. SUFFICES ASSUME NEW u \in Threads, Working(u)', NEW n \in Span(part'[u])
                 PROVE  IsOn(n)' <=> n < Upto(u)'
    BY <1>1, <1>5 DEF OwnItems
  <2>2. Working(u) /\ part'[u] = part[u] /\ part[u] \in Parts
    BY <1>4, <1>8, <1>9, <2>1 DEF OwnPart
  <2>3. n \in Span(part[u]) /\ n \in All /\ (IsOn(n) <=> n < Upto(u))
    BY <1>3, <1>4, <2>1, <2>2 DEF OwnItems
  <2>4. CASE u = t
    <3>1. n \in Int
      BY <2>3 DEF Span
    <3> QED BY <1>6, <2>3, <2>4, <3>1
  <2>5. CASE u # t
    <3>1. n # at[t]
      <4>1. part[u] # part[t]
        BY <1>4, <1>6, <2>2, <2>5 DEF OnePart
      <4> QED BY <1>7, <2>2, <2>3, <4>1, SpanFacts DEF Types
    <3> QED BY <1>2, <2>2, <2>3, <2>5, <3>1
  <2> QED BY <2>4, <2>5
<1>12. OnePart'
  BY <1>4, <1>5, <1>8, <1>9 DEF OnePart
<1>13. Unclaimed'
  <2>1. SUFFICES ASSUME NEW p \in Parts, ~ Claimed(p), NEW n \in Span(p) PROVE ~ IsOn(n)'
    BY <1>1 DEF Unclaimed
  <2>2. n # at[t]
    <3>1. p # part[t]
      BY <1>4, <1>6, <2>1 DEF OwnPart
    <3> QED BY <1>7, <2>1, <3>1, SpanFacts DEF Types
  <2> QED BY <1>3, <1>4, <2>1, <2>2 DEF Unclaimed
<1>14. Finished'
  BY <1>1, <1>3, <1>4, <1>5, <1>8, <1>9 DEF Finished
<1>15. OnlySpans'
  BY <1>1, <1>4, <1>5, <1>7 DEF OnlySpans
<1> QED
  BY <1>10, <1>11, <1>12, <1>13, <1>14, <1>15 DEF Shares

\* t has reached the end of its part.
LEMMA SharesEnd ==
  ASSUME Types, Shares, build' = build, numParts' = numParts,
         NEW t \in Threads, pc[t] = "loop", at[t] >= PartEnd(part[t]),
         \A n \in All : IsOn(n)' <=> IsOn(n),
         \A p \in Parts : Claimed(p)' <=> Claimed(p),
         ~ Working(t)', \A u \in Threads : u # t => Keeps(u)
  PROVE  Shares'
<1>1. /\ Parts' = Parts /\ \A p : Span(p)' = Span(p)
      /\ \A p : PartBegin(p)' = PartBegin(p)
      /\ \A p : PartEnd(p)' = PartEnd(p)
  BY SpansSame
<1>2. \A u \in Threads : u # t =>
        /\ Working(u)' <=> Working(u)
        /\ Working(u) => /\ part'[u] = part[u] /\ Upto(u)' = Upto(u)
                         /\ at'[u] \in PartBegin(part[u]) .. PartEnd(part[u])
                         /\ Inside(u)' => at'[u] < PartEnd(part[u])
  BY DEF Keeps
<1>3. \A p \in Parts : Span(p) \subseteq All
  BY SpanFacts DEF Types
<1>4. OwnPart /\ OwnItems /\ OnePart /\ Unclaimed /\ Finished /\ OnlySpans
  BY DEF Shares
<1>5. Threads' = Threads /\ All' = All
  BY DEF Threads, All
<1>6. \A u \in Threads : Working(u)' => u # t /\ Working(u) /\ part'[u] = part[u]
  BY <1>2
<1>7. OwnPart'
  BY <1>1, <1>2, <1>4, <1>5, <1>6 DEF OwnPart
<1>8. OwnItems'
  <2>1. SUFFICES ASSUME NEW u \in Threads, Working(u)', NEW n \in Span(part'[u])
                 PROVE  IsOn(n)' <=> n < Upto(u)'
    BY <1>1, <1>5 DEF OwnItems
  <2>2. u # t /\ Working(u) /\ part'[u] = part[u] /\ part[u] \in Parts /\ Upto(u)' = Upto(u)
    BY <1>2, <1>4, <1>6, <2>1 DEF OwnPart
  <2>3. n \in Span(part[u]) /\ n \in All
    BY <1>3, <2>1, <2>2
  <2> QED BY <1>4, <2>2, <2>3 DEF OwnItems
<1>9. OnePart'
  BY <1>4, <1>5, <1>6 DEF OnePart
<1>10. Unclaimed'
  BY <1>1, <1>3, <1>4 DEF Unclaimed
<1>11. Finished'
  <2>1. SUFFICES ASSUME NEW p \in Parts, Claimed(p),
                        \A u \in Threads : Working(u)' => part'[u] # p,
                        NEW n \in Span(p)
                 PROVE  IsOn(n)
    BY <1>1, <1>3, <1>5 DEF Finished
  <2>2. CASE p = part[t]
    <3>1. Working(t) /\ Upto(t) = at[t] /\ at[t] \in Nat
      BY DEF Working, Upto, Types
    <3>2. p \in Nat /\ PartEnd(p) \in Nat /\ PartBegin(p) \in Nat
      BY SpanFacts DEF Types
    <3>3. n < at[t]
      BY <2>2, <3>1, <3>2 DEF Span
    <3> QED BY <1>4, <2>2, <3>1, <3>3 DEF OwnItems
  <2>3. CASE p # part[t]
    <3>1. \A u \in Threads : Working(u) => part[u] # p
      BY <1>2, <2>1, <2>3
    <3> QED BY <1>4, <2>1, <3>1 DEF Finished
  <2> QED BY <2>2, <2>3
<1>12. OnlySpans'
  BY <1>1, <1>4, <1>5 DEF OnlySpans
<1> QED
  BY <1>7, <1>8, <1>9, <1>10, <1>11, <1>12 DEF Shares


-----------------------------------------------------------------------------
(* What the steps do to the pointers that the threads hold.                 *)

\* Nothing is stored.
LEMMA SameHeap ==
  ASSUME Chains, pointers' = pointers,
         \A u \in Threads : /\ pc'[u] = "back" <=> pc[u] = "back"
                            /\ pc[u] = "back" => curr'[u] = curr[u]
  PROVE  Held' = Held /\ Chains'
<1>1. Held' = Held
  BY DEF Held, Heads, Threads
<1>2. Pending' = Pending
  BY PendingSame
<1> QED
  BY <1>1, <1>2 DEF Chains, Heads, Items, Threads

LEMMA MembersSame ==
  ASSUME Held' = Held
  PROVE  \A n \in All : IsOn(n)' <=> IsOn(n)
<1>1. Heads' = Heads
  BY DEF Heads, Threads
<1> HIDE DEF Held
<1> QED
  BY <1>1 DEF IsOn, OnNone, Elem

LEMMA NamesSame ==
  ASSUME build' = build
  PROVE  /\ \A u : Home(u)' = Home(u)
         /\ \A u : at'[u] = at[u] => Item(u)' = Item(u)
BY DEF Home, ListOf, Item, Elem

\* What u holds is not stored to.
LEMMA StoredStays ==
  ASSUME NEW u \in Threads, Stored(u), build' = build,
         pc'[u] = pc[u], curr'[u] = curr[u], at'[u] = at[u],
         pc[u] \in {"point", "link"} => pointers'.next[Home(u)] = pointers.next[Home(u)],
         pc[u] \in {"link", "back"} => pointers'.next[Item(u)] = pointers.next[Item(u)],
         pc[u] = "link" => pointers'.prev[Item(u)] = pointers.prev[Item(u)],
         pc[u] = "back" => Held'[Home(u)] = Held[Home(u)]
  PROVE  Stored(u)'
<1>1. Home(u)' = Home(u) /\ Item(u)' = Item(u)
  BY NamesSame
<1>2. (Held[Home(u)])' = Held'[Home(u)]
  BY <1>1
<1> HIDE DEF Held
<1> QED
  BY <1>1, <1>2 DEF Stored

LEMMA StoresStay ==
  ASSUME Stores, build' = build, pointers' = pointers, Held' = Held, NEW t \in Threads,
         \A u \in Threads : u # t => /\ pc'[u] = pc[u] /\ curr'[u] = curr[u]
                                     /\ at'[u] = at[u],
         Stored(t)'
  PROVE  Stores'
<1>1. ASSUME NEW u \in Threads, u # t PROVE Stored(u)'
  <2>1. Stored(u) /\ pc'[u] = pc[u] /\ curr'[u] = curr[u] /\ at'[u] = at[u]
    BY <1>1 DEF Stores
  <2> HIDE DEF Held
  <2> QED BY <2>1, StoredStays
<1> QED
  BY <1>1 DEF Stores, Threads

LEMMA PointStores ==
  ASSUME WInv, NEW t \in Threads, Point(t)
  PROVE  Stores'
<1>1. /\ Types /\ Stores /\ Exclusive /\ OwnPart /\ OnePart
      /\ Inside(t) /\ pc[t] = "point" /\ pc'[t] = "link" /\ curr' = curr /\ at' = at
      /\ build' = build /\ \A u \in Threads : u # t => pc'[u] = pc[u]
  BY Goes DEF WInv, Shares, Point, config, Inside
<1>2. /\ Held' = Held
      /\ \A n \in Heads \cup Items : n # Item(t) =>
           pointers'.next[n] = pointers.next[n] /\ pointers'.prev[n] = pointers.prev[n]
      /\ pointers'.next[Item(t)] = curr[t] /\ pointers'.prev[Item(t)] = Home(t)
  BY PointStep
<1>3. /\ Heads \cap Items = {} /\ \A u \in Threads : Home(u) \in Heads
      /\ Item(t) \in Items
  BY <1>1, NodeFacts, ItemFacts
<1>4. Stored(t)'
  <2>1. Home(t)' = Home(t) /\ Item(t)' = Item(t)
    BY <1>1, NamesSame
  <2>2. curr[t] = pointers.next[Home(t)]
    BY <1>1 DEF Stores, Stored
  <2> QED BY <1>1, <1>2, <1>3, <2>1, <2>2 DEF Stored
<1>5. ASSUME NEW u \in Threads, u # t PROVE Stored(u)'
  <2>1. /\ Stored(u) /\ build' = build /\ pc'[u] = pc[u] /\ curr'[u] = curr[u]
        /\ at'[u] = at[u]
    BY <1>1, <1>5 DEF Stores
  <2>2. pointers'.next[Home(u)] = pointers.next[Home(u)]
    BY <1>2, <1>3
  <2>3. ASSUME pc[u] \in {"link", "back"}
        PROVE  /\ pointers'.next[Item(u)] = pointers.next[Item(u)]
               /\ pointers'.prev[Item(u)] = pointers.prev[Item(u)]
    <3>1. Inside(u)
      BY <2>3 DEF Inside
    <3>2. Item(u) \in Items
      BY <1>1, <3>1, ItemFacts
    <3>3. at[u] # at[t]
      BY <1>1, <1>5, <3>1, Different
    <3>4. Item(u) # Item(t)
      BY <3>3, NodeFacts DEF Item
    <3> QED BY <1>2, <3>2, <3>4
  <2> HIDE DEF Held
  <2> QED BY <1>2, <2>1, <2>2, <2>3, StoredStays
<1> QED
  BY <1>4, <1>5 DEF Stores, Threads

LEMMA LinkStores ==
  ASSUME WInv, NEW t \in Threads, Link(t)
  PROVE  Stores'
<1>1. /\ Types /\ Chains /\ Stores /\ Exclusive /\ OwnPart
      /\ Inside(t) /\ pc[t] = "link" /\ pc'[t] = "back" /\ curr' = curr /\ at' = at
      /\ build' = build /\ \A u \in Threads : u # t => pc'[u] = pc[u]
  BY Goes DEF WInv, Shares, Link, config, Inside
<1>2. /\ Held' = Longer(Held, Home(t), Item(t))
      /\ pointers'.prev = pointers.prev
      /\ \A n \in Heads \cup Items : n # Home(t) => pointers'.next[n] = pointers.next[n]
  BY LinkStep
<1>3. /\ Heads \cap Items = {} /\ \A u \in Threads : Home(u) \in Heads
      /\ Item(t) \in Items /\ Held \in [Heads -> Seq(Items)]
      /\ Len(Held[Home(t)]) \in Nat
  BY <1>1, NodeFacts, ItemFacts, HeldType
<1>4. IsLonger(Held, Heads, Items, Home(t), Item(t))
  BY <1>3, LongerPlaces
<1>5. /\ \A m \in Heads : m # Home(t) => Held'[m] = Held[m]
      /\ Len(Held'[Home(t)]) = Len(Held[Home(t)]) + 1 /\ Held'[Home(t)][1] = Item(t)
  <2> HIDE DEF Held
  <2> QED BY <1>2, <1>3, <1>4, Zenon DEF IsLonger
<1>6. Stored(t)'
  <2>1. Home(t)' = Home(t) /\ Item(t)' = Item(t)
    BY <1>1, NamesSame
  <2>2. pointers.next[Item(t)] = curr[t]
    BY <1>1 DEF Stores, Stored
  <2>3. pointers'.next[Item(t)] = curr'[t]
    BY <1>1, <1>2, <1>3, <2>2
  <2>4. (Held[Home(t)])' = Held'[Home(t)]
    BY <2>1
  <2> HIDE DEF Held
  <2>5. Len(Held'[Home(t)]) >= 1
    BY <1>3, <1>5
  <2> QED BY <1>1, <1>5, <2>1, <2>3, <2>4, <2>5 DEF Stored
<1>7. ASSUME NEW u \in Threads, u # t PROVE Stored(u)'
  <2>1. /\ Stored(u) /\ build' = build /\ pc'[u] = pc[u] /\ curr'[u] = curr[u]
        /\ at'[u] = at[u]
    BY <1>1, <1>7 DEF Stores
  <2>2. ASSUME Inside(u)
        PROVE  /\ pointers'.next[Home(u)] = pointers.next[Home(u)]
               /\ pointers'.next[Item(u)] = pointers.next[Item(u)]
               /\ Held'[Home(u)] = Held[Home(u)]
    <3>1. Home(u) # Home(t)
      BY <1>1, <1>7, <2>2, Alone
    <3>2. Item(u) \in Items
      BY <1>1, <2>2, ItemFacts
    <3> HIDE DEF Held
    <3> QED BY <1>2, <1>3, <1>5, <3>1, <3>2
  <2>3. pc[u] \in {"point", "link", "back"} => Inside(u)
    BY DEF Inside
  <2> HIDE DEF Held
  <2> QED BY <1>2, <2>1, <2>2, <2>3, StoredStays
<1> QED
  BY <1>6, <1>7 DEF Stores, Threads

LEMMA BackStores ==
  ASSUME WInv, NEW t \in Threads, Back(t)
  PROVE  Stores'
<1>1. /\ Types /\ Stores /\ Exclusive /\ OwnPart /\ OwnItems
      /\ pc'[t] = "loop" /\ curr' = curr /\ build' = build
      /\ \A u \in Threads : u # t => pc'[u] = pc[u] /\ at'[u] = at[u]
  BY Goes DEF WInv, Shares, Back, config, Types
<1>2. /\ Held' = Held /\ pointers'.next = pointers.next
      /\ \A n \in Heads \cup Items : OnNone(Held, Heads, n) /\ n \notin Heads =>
           pointers'.prev[n] = pointers.prev[n]
  BY BackStep
<1>3. Stored(t)'
  BY <1>1 DEF Stored
<1>4. ASSUME NEW u \in Threads, u # t PROVE Stored(u)'
  <2>1. /\ Stored(u) /\ build' = build /\ pc'[u] = pc[u] /\ curr'[u] = curr[u]
        /\ at'[u] = at[u]
    BY <1>1, <1>4 DEF Stores
  <2>2. ASSUME pc[u] = "link" PROVE pointers'.prev[Item(u)] = pointers.prev[Item(u)]
    <3>1. Inside(u)
      BY <2>2 DEF Inside
    <3>2. Item(u) \in Items /\ Heads \cap Items = {} /\ OnNone(Held, Heads, Item(u))
      BY <1>1, <2>2, <3>1, ItemFacts, NodeFacts, ItemOff
    <3> HIDE DEF Held
    <3> QED BY <1>2, <3>2
  <2> HIDE DEF Held
  <2> QED BY <1>2, <2>1, <2>2, StoredStays
<1> QED
  BY <1>3, <1>4 DEF Stores, Threads


-----------------------------------------------------------------------------
(* The steps, one by one.                                                   *)

\* t alone goes on, without a store.
LEMMA Quiet ==
  ASSUME WInv, NEW t \in Threads, pointers' = pointers, build' = build,
         pc[t] # "back", pc'[t] # "back",
         \A u \in Threads : u # t => /\ pc'[u] = pc[u] /\ curr'[u] = curr[u]
                                     /\ at'[u] = at[u]
  PROVE  /\ Held' = Held /\ Chains' /\ \A n \in All : IsOn(n)' <=> IsOn(n)
         /\ Stored(t)' => Stores'
<1>1. Chains /\ Stores
  BY DEF WInv
<1>2. Held' = Held /\ Chains'
  BY <1>1, SameHeap
<1>3. \A n \in All : IsOn(n)' <=> IsOn(n)
  BY <1>2, MembersSame
<1>4. Stored(t)' => Stores'
  <2> HIDE DEF Held
  <2> QED BY <1>1, <1>2, StoresStay
<1> QED
  BY <1>2, <1>3, <1>4

LEMMA ClaimedSame ==
  ASSUME build' = build, build = "lb" => spinLocks' = spinLocks,
         build # "lb" => \A u \in Threads : pc'[u] = "start" <=> pc[u] = "start"
  PROVE  \A p \in Parts : Claimed(p)' <=> Claimed(p)
BY DEF Claimed, Threads

LEMMA TypesStay ==
  ASSUME Types, build' = build, numParts' = numParts,
         pointers' \in [next : [Heads \cup Items -> Heads \cup Items \cup {Uninit}],
                        prev : [Heads \cup Items -> Heads \cup Items \cup {Uninit}]],
         mutex' \in Threads \cup {None}, spinLocks' \in [Parts -> {0, 1}],
         pc' \in [Threads -> {"start", "claim", "loop", "find", "point", "link", "back", "done"}],
         part' \in [Threads -> Nat], at' \in [Threads -> Nat],
         curr' \in [Threads -> Heads \cup Items \cup {Uninit, None}]
  PROVE  Types'
<1>1. Threads' = Threads /\ Heads' = Heads /\ Items' = Items /\ Parts' = Parts
  BY DEF Threads, Heads, Items, Parts, Worked, Elem
<1>2. LegalParts(build, numParts)'
  BY DEF Types, LegalParts
<1> QED
  BY <1>1, <1>2 DEF Types

LEMMA GoesType ==
  ASSUME Types, NEW t \in Threads, NEW a,
         NEW b \in {"start", "claim", "loop", "find", "point", "link", "back", "done"},
         Goto(t, a, b)
  PROVE  pc' \in [Threads -> {"start", "claim", "loop", "find", "point", "link", "back", "done"}]
BY DEF Types, Goto

LEMMA ExclusiveStays ==
  ASSUME Exclusive, build' = build, mutex' = mutex, NEW t \in Threads,
         \A u \in Threads : u # t => pc'[u] = pc[u], Inside(t)' => Inside(t)
  PROVE  Exclusive'
BY DEF Exclusive, Inside, Threads

\* What Control says of one thread.
Turns(t) ==
  /\ build = "lb" => /\ part[t] <= numParts
                     /\ \A p \in 0 .. part[t] - 1 : Claimed(p)
                     /\ pc[t] = "done" => part[t] = numParts
  /\ build # "lb" => /\ pc[t] # "claim"
                     /\ pc[t] # "start" => part[t] = t

LEMMA ControlStays ==
  ASSUME Types, Control, build' = build, numParts' = numParts, joined' = joined,
         NEW t \in Threads, pc[t] # "done",
         \A u \in Threads : u # t => pc'[u] = pc[u] /\ part'[u] = part[u],
         \A p \in Parts : Claimed(p) => Claimed(p)', Turns(t)'
  PROVE  Control'
<1>1. \A u \in Threads : Turns(u)
  BY DEF Control, Turns
<1>2. ASSUME NEW u \in Threads, u # t PROVE Turns(u)'
  <2>1. Turns(u) /\ pc'[u] = pc[u] /\ part'[u] = part[u]
    BY <1>1, <1>2
  <2>2. build = "lb" => \A p \in 0 .. part[u] - 1 : p \in Parts
    BY <2>1 DEF Turns, Types, Parts, Worked
  <2> QED BY <2>1, <2>2 DEF Turns
<1>3. \A u \in Threads : Turns(u)'
  BY <1>2
<1>4. ~ joined'
  BY DEF Control
<1> QED
  BY <1>3, <1>4 DEF Control, Turns, Threads

LEMMA StartKeeps ==
  ASSUME WInv, NEW t \in Threads, Start(t)
  PROVE  WInv'
<1>1. /\ Types /\ Exclusive /\ Shares /\ Control /\ pc[t] = "start"
      /\ pc'[t] = IF build = "lb" THEN "claim" ELSE "loop"
      /\ \A u \in Threads : u # t => pc'[u] = pc[u]
      /\ pc' \in [Threads -> {"start", "claim", "loop", "find", "point", "link", "back", "done"}]
  BY Goes, GoesType DEF WInv, Start
<1>2. /\ build' = build /\ numParts' = numParts /\ joined' = joined /\ pointers' = pointers
      /\ mutex' = mutex /\ spinLocks' = spinLocks /\ curr' = curr
  BY DEF Start, config
<1>3. build = "lb" => part' = part /\ at' = at
  BY DEF Start
<1>4. build # "lb" => /\ part' = [part EXCEPT ![t] = t]
                      /\ at' = [at EXCEPT ![t] = PartBegin(t)]
  BY DEF Start
<1>5. /\ part \in [Threads -> Nat] /\ at \in [Threads -> Nat]
      /\ \A u \in Threads : u # t => part'[u] = part[u] /\ at'[u] = at[u]
      /\ build # "lb" => part'[t] = t /\ at'[t] = PartBegin(t)
  <2>1. part \in [Threads -> Nat] /\ at \in [Threads -> Nat]
    BY <1>1 DEF Types
  <2> QED BY <1>3, <1>4, <2>1
<1>6. ~ Working(t) /\ ~ Inside(t)' /\ ~ Inside(t)
  BY <1>1 DEF Working, Inside
<1>7. /\ Held' = Held /\ Chains' /\ \A n \in All : IsOn(n)' <=> IsOn(n)
      /\ Stored(t)' => Stores'
  <2>1. \A u \in Threads : u # t => /\ pc'[u] = pc[u] /\ curr'[u] = curr[u]
                                    /\ at'[u] = at[u]
    BY <1>1, <1>2, <1>5
  <2> QED BY <1>1, <1>2, <2>1, Quiet
<1>8. Stores'
  BY <1>1, <1>7 DEF Stored
<1>9. Exclusive'
  BY <1>1, <1>2, <1>6, ExclusiveStays
<1>10. \A u \in Threads : u # t => Keeps(u)
  BY <1>1, <1>5, Untouched DEF Shares
<1>11. t \in Nat /\ (build # "lb" => t \in Parts)
  <2>1. t \in Nat /\ t < NumThreads
    BY WorkersAssumption DEF Threads
  <2> QED BY <2>1, WorkersAssumption DEF Parts, Worked
<1>12. Shares'
  <2>1. CASE build = "lb"
    <3>1. \A p \in Parts : Claimed(p)' <=> Claimed(p)
      BY <1>2, <2>1, ClaimedSame
    <3>2. Keeps(t)
      BY <1>1, <1>6, <2>1 DEF Keeps, Working, Inside
    <3> HIDE DEF Held
    <3> QED BY <1>1, <1>2, <1>7, <1>10, <3>1, <3>2, SharesStay
  <2>2. CASE build # "lb"
    <3>1. ~ Claimed(t)
      BY <1>1, <2>2 DEF Claimed
    <3>2. \A p \in Parts : Claimed(p)' <=> (Claimed(p) \/ p = t)
      BY <1>1, <1>2, <2>2 DEF Claimed, Threads
    <3>3. pc'[t] = "loop"
      BY <1>1, <2>2
    <3> HIDE DEF Held
    <3> QED
      BY <1>1, <1>2, <1>5, <1>6, <1>7, <1>10, <1>11, <2>2, <3>1, <3>2, <3>3, SharesBegin
  <2> QED BY <2>1, <2>2
<1>13. Control'
  <2>1. \A p \in Parts : Claimed(p) => Claimed(p)'
    BY <1>1, <1>2 DEF Claimed, Threads
  <2>2. Turns(t)'
    <3>1. CASE build = "lb"
      <4>1. part[t] <= numParts /\ \A p \in 0 .. part[t] - 1 : Claimed(p)
        BY <1>1, <3>1 DEF Control
      <4>2. \A p : Claimed(p)' <=> Claimed(p)
        BY <1>2, <3>1 DEF Claimed
      <4> QED BY <1>1, <1>2, <1>3, <3>1, <4>1, <4>2 DEF Turns
    <3>2. CASE build # "lb"
      BY <1>1, <1>2, <1>5, <3>2 DEF Turns
    <3> QED BY <3>1, <3>2
  <2> QED BY <1>1, <1>2, <1>5, <2>1, <2>2, ControlStays
<1>14. Types'
  <2>1. part' \in [Threads -> Nat]
    BY <1>3, <1>4, <1>5, <1>11
  <2>2. at' \in [Threads -> Nat]
    <3>1. PartBegin(t) \in Nat
      BY <1>1, <1>11, SpanFacts DEF Types
    <3> QED BY <1>3, <1>4, <1>5, <3>1
  <2> QED BY <1>1, <1>2, <2>1, <2>2, TypesStay DEF Types
<1> QED
  BY <1>7, <1>8, <1>9, <1>12, <1>13, <1>14 DEF WInv


LEMMA ClaimKeeps ==
  ASSUME WInv, NEW t \in Threads, Claim(t)
  PROVE  WInv'
<1>1. /\ Types /\ Exclusive /\ Shares /\ Control /\ pc[t] = "claim"
      /\ pc'[t] = IF spinLocks[part[t]] = 0 THEN "loop" ELSE "claim"
      /\ \A u \in Threads : u # t => pc'[u] = pc[u]
      /\ pc' \in [Threads -> {"start", "claim", "loop", "find", "point", "link", "back", "done"}]
  <2>1. Types /\ Exclusive /\ Shares /\ Control
    BY DEF WInv
  <2>2. CASE spinLocks[part[t]] = 0
    <3>1. Goto(t, "claim", "loop")
      BY <2>2 DEF Claim
    <3> QED BY <2>1, <2>2, <3>1, Goes, GoesType
  <2>3. CASE spinLocks[part[t]] # 0
    BY <2>1, <2>3 DEF Claim, Types
  <2> QED BY <2>2, <2>3
<1>2. /\ build' = build /\ numParts' = numParts /\ joined' = joined /\ pointers' = pointers
      /\ mutex' = mutex /\ curr' = curr /\ part[t] \in Parts
      /\ spinLocks' = [spinLocks EXCEPT ![part[t]] = 1]
  BY DEF Claim, config, Parts
<1>3. build = "lb"
  BY <1>1 DEF Control
<1>4. spinLocks[part[t]] = 0 => /\ part' = part
                                /\ at' = [at EXCEPT ![t] = PartBegin(part[t])]
  BY DEF Claim
<1>5. spinLocks[part[t]] # 0 => at' = at /\ part' = [part EXCEPT ![t] = part[t] + 1]
  BY DEF Claim
<1>6. /\ part \in [Threads -> Nat] /\ at \in [Threads -> Nat] /\ spinLocks \in [Parts -> {0, 1}]
      /\ numParts \in Nat
  BY <1>1 DEF Types
<1>7. /\ \A u \in Threads : u # t => part'[u] = part[u] /\ at'[u] = at[u]
      /\ part'[t] = IF spinLocks[part[t]] = 0 THEN part[t] ELSE part[t] + 1
      /\ part' \in [Threads -> Nat]
  BY <1>4, <1>5, <1>6
<1>8. ~ Working(t) /\ ~ Inside(t)' /\ ~ Inside(t)
  BY <1>1 DEF Working, Inside
<1>9. /\ Held' = Held /\ Chains' /\ \A n \in All : IsOn(n)' <=> IsOn(n)
      /\ Stored(t)' => Stores'
  <2>1. \A u \in Threads : u # t => /\ pc'[u] = pc[u] /\ curr'[u] = curr[u]
                                    /\ at'[u] = at[u]
    BY <1>1, <1>2, <1>7
  <2> QED BY <1>1, <1>2, <2>1, Quiet
<1>10. Stores'
  BY <1>1, <1>9 DEF Stored
<1>11. Exclusive'
  BY <1>1, <1>2, <1>8, ExclusiveStays
<1>12. \A u \in Threads : u # t => Keeps(u)
  BY <1>1, <1>7, Untouched DEF Shares
<1>13. \A p \in Parts : Claimed(p)' <=> (Claimed(p) \/ p = part[t])
  BY <1>2, <1>3, <1>6 DEF Claimed
<1>14. Shares'
  <2>1. CASE spinLocks[part[t]] = 0
    <3>1. ~ Claimed(part[t])
      BY <1>3, <2>1 DEF Claimed
    <3>2. at'[t] = PartBegin(part[t]) /\ part'[t] = part[t] /\ pc'[t] = "loop"
      BY <1>1, <1>4, <1>6, <2>1
    <3> HIDE DEF Held
    <3> QED BY <1>1, <1>2, <1>8, <1>9, <1>12, <1>13, <3>1, <3>2, SharesBegin
  <2>2. CASE spinLocks[part[t]] # 0
    <3>1. Claimed(part[t])
      BY <1>2, <1>3, <1>6, <2>2 DEF Claimed
    <3>2. \A p \in Parts : Claimed(p)' <=> Claimed(p)
      BY <1>13, <3>1
    <3>3. Keeps(t)
      BY <1>1, <1>8, <2>2 DEF Keeps, Working, Inside
    <3> HIDE DEF Held
    <3> QED BY <1>1, <1>2, <1>9, <1>12, <3>2, <3>3, SharesStay
  <2> QED BY <2>1, <2>2
<1>15. Control'
  <2>1. part[t] \in Nat /\ part[t] < numParts /\ \A p \in 0 .. part[t] - 1 : Claimed(p)
    BY <1>1, <1>2, <1>3, <1>6 DEF Control, Parts, Worked
  <2>2. ASSUME NEW p \in 0 .. part'[t] - 1 PROVE Claimed(p)'
    <3>1. p \in Parts
      BY <1>3, <1>6, <1>7, <2>1 DEF Parts, Worked
    <3>2. CASE p = part[t]
      BY <1>13, <3>1, <3>2
    <3>3. CASE p # part[t]
      <4>1. p \in 0 .. part[t] - 1
        BY <1>7, <2>1, <3>3
      <4> QED BY <1>13, <2>1, <3>1, <4>1
    <3> QED BY <3>2, <3>3
  <2>3. part'[t] <= numParts
    BY <1>6, <1>7, <2>1
  <2>4. Turns(t)'
    BY <1>1, <1>2, <1>3, <2>2, <2>3 DEF Turns
  <2> QED BY <1>1, <1>2, <1>7, <1>13, <2>4, ControlStays
<1>16. Types'
  <2>1. at' \in [Threads -> Nat]
    <3>1. PartBegin(part[t]) \in Nat
      BY <1>1, <1>2, SpanFacts DEF Types
    <3> QED BY <1>4, <1>5, <1>6, <3>1
  <2>2. spinLocks' \in [Parts -> {0, 1}]
    BY <1>2, <1>6
  <2> QED BY <1>1, <1>2, <1>7, <2>1, <2>2, TypesStay DEF Types
<1> QED
  BY <1>9, <1>10, <1>11, <1>14, <1>15, <1>16 DEF WInv

LEMMA NoMorePartsKeeps ==
  ASSUME WInv, NEW t \in Threads, NoMoreParts(t)
  PROVE  WInv'
<1>1. /\ Types /\ Exclusive /\ Shares /\ Control /\ pc[t] = "claim" /\ pc'[t] = "done"
      /\ \A u \in Threads : u # t => pc'[u] = pc[u]
      /\ pc' \in [Threads -> {"start", "claim", "loop", "find", "point", "link", "back", "done"}]
  BY Goes, GoesType DEF WInv, NoMoreParts
<1>2. /\ build' = build /\ numParts' = numParts /\ joined' = joined /\ pointers' = pointers
      /\ mutex' = mutex /\ curr' = curr /\ part' = part /\ at' = at /\ spinLocks' = spinLocks
      /\ part[t] \notin Parts
  BY DEF NoMoreParts, config, Parts
<1>3. build = "lb"
  BY <1>1 DEF Control
<1>4. ~ Working(t) /\ ~ Working(t)' /\ ~ Inside(t)' /\ ~ Inside(t)
  BY <1>1 DEF Working, Inside
<1>5. /\ Held' = Held /\ Chains' /\ \A n \in All : IsOn(n)' <=> IsOn(n)
      /\ Stored(t)' => Stores'
  BY <1>1, <1>2, Quiet
<1>6. Stores'
  BY <1>1, <1>5 DEF Stored
<1>7. Exclusive'
  BY <1>1, <1>2, <1>4, ExclusiveStays
<1>8. \A p \in Parts : Claimed(p)' <=> Claimed(p)
  BY <1>2, <1>3, ClaimedSame
<1>9. Shares'
  <2>1. \A u \in Threads : u # t => Keeps(u)
    BY <1>1, <1>2, Untouched DEF Shares
  <2>2. Keeps(t)
    BY <1>4 DEF Keeps
  <2> HIDE DEF Held
  <2> QED BY <1>1, <1>2, <1>5, <1>8, <2>1, <2>2, SharesStay
<1>10. Control'
  <2>1. part[t] <= numParts /\ \A p \in 0 .. part[t] - 1 : Claimed(p)
    BY <1>1, <1>3 DEF Control
  <2>2. part[t] = numParts
    BY <1>1, <1>2, <1>3, <2>1 DEF Types, Parts, Worked
  <2>3. \A p : Claimed(p)' <=> Claimed(p)
    BY <1>2, <1>3 DEF Claimed
  <2>4. Turns(t)'
    BY <1>2, <1>3, <2>1, <2>2, <2>3 DEF Turns
  <2> QED BY <1>1, <1>2, <1>8, <2>4, ControlStays
<1>11. Types'
  BY <1>1, <1>2, TypesStay DEF Types
<1> QED
  BY <1>5, <1>6, <1>7, <1>9, <1>10, <1>11 DEF WInv

LEMMA TakeKeeps ==
  ASSUME WInv, NEW t \in Threads, Take(t)
  PROVE  WInv'
<1>1. /\ Types /\ Exclusive /\ Shares /\ Control /\ pc[t] = "loop" /\ pc'[t] = "find"
      /\ \A u \in Threads : u # t => pc'[u] = pc[u]
      /\ pc' \in [Threads -> {"start", "claim", "loop", "find", "point", "link", "back", "done"}]
  BY Goes, GoesType DEF WInv, Take
<1>2. /\ build' = build /\ numParts' = numParts /\ joined' = joined /\ pointers' = pointers
      /\ curr' = curr /\ part' = part /\ at' = at /\ spinLocks' = spinLocks
      /\ at[t] < PartEnd(part[t])
  BY DEF Take, config
<1>3. /\ build = "biglock" => mutex = None /\ mutex' = t
      /\ build # "biglock" => mutex' = mutex
  BY DEF Take
<1>4. Working(t) /\ Working(t)' /\ ~ Inside(t) /\ Upto(t) = at[t] /\ Upto(t)' = at[t]
  BY <1>1, <1>2 DEF Working, Inside, Upto
<1>5. /\ Held' = Held /\ Chains' /\ \A n \in All : IsOn(n)' <=> IsOn(n)
      /\ Stored(t)' => Stores'
  BY <1>1, <1>2, Quiet
<1>6. Stores'
  BY <1>1, <1>5 DEF Stored
<1>7. Exclusive'
  <2>1. SUFFICES ASSUME build = "biglock", NEW u \in Threads, Inside(u)' PROVE mutex' = u
    BY <1>2 DEF Exclusive, Threads
  <2>2. CASE u = t
    BY <1>3, <2>1, <2>2
  <2>3. CASE u # t
    <3>1. Inside(u)
      BY <1>1, <2>1, <2>3 DEF Inside
    <3>2. mutex = u
      BY <1>1, <2>1, <3>1 DEF Exclusive
    <3> QED BY <1>3, <2>1, <3>2, WorkersAssumption
  <2> QED BY <2>2, <2>3
<1>8. \A p \in Parts : Claimed(p)' <=> Claimed(p)
  <2>1. \A u \in Threads : pc'[u] = "start" <=> pc[u] = "start"
    BY <1>1
  <2> QED BY <1>2, <2>1, ClaimedSame
<1>9. Shares'
  <2>1. \A u \in Threads : u # t => Keeps(u)
    BY <1>1, <1>2, Untouched DEF Shares
  <2>2. Keeps(t)
    BY <1>1, <1>2, <1>4 DEF Keeps, Shares, OwnPart
  <2> HIDE DEF Held
  <2> QED BY <1>1, <1>2, <1>5, <1>8, <2>1, <2>2, SharesStay
<1>10. Control'
  <2>1. \A p : Claimed(p)' <=> Claimed(p)
    BY <1>1, <1>2 DEF Claimed
  <2>2. Turns(t)'
    BY <1>1, <1>2, <2>1 DEF Turns, Control
  <2> QED BY <1>1, <1>2, <1>8, <2>2, ControlStays
<1>11. Types'
  <2>1. mutex' \in Threads \cup {None}
    BY <1>1, <1>3 DEF Types
  <2> QED BY <1>1, <1>2, <2>1, TypesStay DEF Types
<1> QED
  BY <1>5, <1>6, <1>7, <1>9, <1>10, <1>11 DEF WInv

LEMMA FindKeeps ==
  ASSUME WInv, NEW t \in Threads, Find(t)
  PROVE  WInv'
<1>1. /\ Types /\ Chains /\ Stores /\ Exclusive /\ Shares /\ Control
      /\ pc[t] = "find" /\ pc'[t] = "point"
      /\ \A u \in Threads : u # t => pc'[u] = pc[u]
      /\ pc' \in [Threads -> {"start", "claim", "loop", "find", "point", "link", "back", "done"}]
  BY Goes, GoesType DEF WInv, Find
<1>2. /\ build' = build /\ numParts' = numParts /\ joined' = joined /\ pointers' = pointers
      /\ mutex' = mutex /\ part' = part /\ at' = at /\ spinLocks' = spinLocks
      /\ curr' = [curr EXCEPT ![t] = pointers.next[Home(t)]]
  BY DEF Find, config, Home
<1>3. /\ Working(t) /\ Working(t)' /\ Inside(t) /\ Inside(t)'
      /\ Upto(t) = at[t] /\ Upto(t)' = at[t]
  BY <1>1, <1>2 DEF Working, Inside, Upto
<1>4. /\ curr'[t] = pointers.next[Home(t)] /\ \A u \in Threads : u # t => curr'[u] = curr[u]
      /\ curr' \in [Threads -> Heads \cup Items \cup {Uninit, None}]
  <2>1. curr \in [Threads -> Heads \cup Items \cup {Uninit, None}]
    BY <1>1 DEF Types
  <2>2. pointers.next[Home(t)] \in Heads \cup Items \cup {Uninit}
    BY <1>1, PointersType, NodeFacts
  <2> QED BY <1>2, <2>1, <2>2
<1>5. /\ Held' = Held /\ Chains' /\ \A n \in All : IsOn(n)' <=> IsOn(n)
      /\ Stored(t)' => Stores'
  BY <1>1, <1>2, <1>4, Quiet
<1>6. Stores'
  <2>1. Home(t)' = Home(t)
    BY <1>2, NamesSame
  <2> QED BY <1>1, <1>2, <1>4, <1>5, <2>1 DEF Stored
<1>7. Exclusive'
  BY <1>1, <1>2, <1>3, ExclusiveStays
<1>8. \A p \in Parts : Claimed(p)' <=> Claimed(p)
  <2>1. \A u \in Threads : pc'[u] = "start" <=> pc[u] = "start"
    BY <1>1
  <2> QED BY <1>2, <2>1, ClaimedSame
<1>9. Shares'
  <2>1. \A u \in Threads : u # t => Keeps(u)
    BY <1>1, <1>2, Untouched DEF Shares
  <2>2. Keeps(t)
    BY <1>1, <1>2, <1>3 DEF Keeps, Shares, OwnPart
  <2> HIDE DEF Held
  <2> QED BY <1>1, <1>2, <1>5, <1>8, <2>1, <2>2, SharesStay
<1>10. Control'
  <2>1. \A p : Claimed(p)' <=> Claimed(p)
    BY <1>1, <1>2 DEF Claimed
  <2>2. Turns(t)'
    BY <1>1, <1>2, <2>1 DEF Turns, Control
  <2> QED BY <1>1, <1>2, <1>8, <2>2, ControlStays
<1>11. Types'
  BY <1>1, <1>2, <1>4, TypesStay DEF Types
<1> QED
  BY <1>5, <1>6, <1>7, <1>9, <1>10, <1>11 DEF WInv


\* A thread that works goes on with its part: what Control and the claims need.
LEMMA GoesOn ==
  ASSUME Types, Control, build' = build, numParts' = numParts, joined' = joined,
         spinLocks' = spinLocks, NEW t \in Threads, Working(t), Working(t)',
         \A u \in Threads : u # t => pc'[u] = pc[u], part' = part
  PROVE  Control' /\ \A p \in Parts : Claimed(p)' <=> Claimed(p)
<1>1. pc[t] \notin {"start", "claim", "done"} /\ pc'[t] \notin {"start", "claim", "done"}
  BY DEF Working, Inside
<1>2. \A p : Claimed(p)' <=> Claimed(p)
  BY <1>1 DEF Claimed
<1>3. Turns(t)'
  BY <1>1, <1>2 DEF Turns, Control
<1>4. Control'
  BY <1>1, <1>2, <1>3, ControlStays
<1> QED
  BY <1>2, <1>4

LEMMA PointKeeps ==
  ASSUME WInv, NEW t \in Threads, Point(t)
  PROVE  WInv'
<1>1. /\ Types /\ Exclusive /\ Shares /\ Control /\ pc[t] = "point" /\ pc'[t] = "link"
      /\ \A u \in Threads : u # t => pc'[u] = pc[u]
      /\ pc' \in [Threads -> {"start", "claim", "loop", "find", "point", "link", "back", "done"}]
  BY Goes, GoesType DEF WInv, Point
<1>2. /\ build' = build /\ numParts' = numParts /\ joined' = joined /\ mutex' = mutex
      /\ part' = part /\ at' = at /\ spinLocks' = spinLocks /\ curr' = curr
  BY DEF Point, config
<1>3. /\ Working(t) /\ Working(t)' /\ Inside(t) /\ Inside(t)'
      /\ Upto(t) = at[t] /\ Upto(t)' = at[t]
  BY <1>1, <1>2 DEF Working, Inside, Upto
<1>4. /\ Held' = Held /\ Chains'
      /\ pointers' \in [next : [Heads \cup Items -> Heads \cup Items \cup {Uninit}],
                        prev : [Heads \cup Items -> Heads \cup Items \cup {Uninit}]]
  BY PointStep
<1>5. \A n \in All : IsOn(n)' <=> IsOn(n)
  BY <1>4, MembersSame
<1>6. Exclusive'
  BY <1>1, <1>2, <1>3, ExclusiveStays
<1>7. Control' /\ \A p \in Parts : Claimed(p)' <=> Claimed(p)
  BY <1>1, <1>2, <1>3, GoesOn
<1>8. Shares'
  <2>1. \A u \in Threads : u # t => Keeps(u)
    BY <1>1, <1>2, Untouched DEF Shares
  <2>2. Keeps(t)
    BY <1>1, <1>2, <1>3 DEF Keeps, Shares, OwnPart
  <2> HIDE DEF Held
  <2> QED BY <1>1, <1>2, <1>5, <1>7, <2>1, <2>2, SharesStay
<1>9. Types'
  BY <1>1, <1>2, <1>4, TypesStay DEF Types
<1> QED
  BY <1>4, <1>6, <1>7, <1>8, <1>9, PointStores DEF WInv

LEMMA LinkKeeps ==
  ASSUME WInv, NEW t \in Threads, Link(t)
  PROVE  WInv'
<1>1. /\ Types /\ Chains /\ Exclusive /\ Shares /\ Control /\ pc[t] = "link" /\ pc'[t] = "back"
      /\ \A u \in Threads : u # t => pc'[u] = pc[u]
      /\ pc' \in [Threads -> {"start", "claim", "loop", "find", "point", "link", "back", "done"}]
  BY Goes, GoesType DEF WInv, Link
<1>2. /\ build' = build /\ numParts' = numParts /\ joined' = joined /\ mutex' = mutex
      /\ part' = part /\ at' = at /\ spinLocks' = spinLocks /\ curr' = curr
  BY DEF Link, config
<1>3. Working(t) /\ Working(t)' /\ Inside(t) /\ Inside(t)'
  BY <1>1 DEF Working, Inside
<1>4. /\ Held' = Longer(Held, Home(t), Item(t)) /\ Chains'
      /\ pointers' \in [next : [Heads \cup Items -> Heads \cup Items \cup {Uninit}],
                        prev : [Heads \cup Items -> Heads \cup Items \cup {Uninit}]]
  BY LinkStep
<1>5. \A n \in All : IsOn(n)' <=> (IsOn(n) \/ n = at[t])
  <2>1. /\ Item(t) \in Items /\ Home(t) \in Heads /\ Held \in [Heads -> Seq(Items)]
    BY <1>1, <1>3, ItemFacts, NodeFacts, HeldType DEF Shares
  <2>2. Heads' = Heads
    BY DEF Heads, Threads
  <2> HIDE DEF Held
  <2>3. \A n : IsOn(n)' <=> ~ OnNone(Longer(Held, Home(t), Item(t)), Heads, Elem(n))
    BY <1>4, <2>2 DEF IsOn, OnNone, Elem
  <2>4. ASSUME NEW n \in All, IsOn(n)', n # at[t] PROVE IsOn(n)
    <3>1. Elem(n) # Item(t)
      BY <2>4 DEF Item, Elem
    <3> QED BY <2>1, <2>3, <2>4, <3>1, OnLonger DEF IsOn
  <2>5. ASSUME NEW n \in All, IsOn(n) \/ n = at[t] PROVE IsOn(n)'
    <3>1. ~ OnNone(Held, Heads, Elem(n)) \/ Elem(n) = Item(t)
      BY <2>5 DEF IsOn, Item
    <3>2. ~ OnNone(Longer(Held, Home(t), Item(t)), Heads, Elem(n))
      BY <2>1, <3>1, OffLonger
    <3> QED BY <2>3, <3>2
  <2> QED BY <2>4, <2>5
<1>6. Exclusive'
  BY <1>1, <1>2, <1>3, ExclusiveStays
<1>7. Control' /\ \A p \in Parts : Claimed(p)' <=> Claimed(p)
  BY <1>1, <1>2, <1>3, GoesOn
<1>8. Shares'
  <2>1. \A u \in Threads : u # t => Keeps(u)
    BY <1>1, <1>2, Untouched DEF Shares
  <2> HIDE DEF Held
  <2> QED BY <1>1, <1>2, <1>3, <1>5, <1>7, <2>1, SharesGrow
<1>9. Types'
  BY <1>1, <1>2, <1>4, TypesStay DEF Types
<1> QED
  BY <1>4, <1>6, <1>7, <1>8, <1>9, LinkStores DEF WInv

LEMMA BackKeeps ==
  ASSUME WInv, NEW t \in Threads, Back(t)
  PROVE  WInv'
<1>1. /\ Types /\ Exclusive /\ Shares /\ Control /\ pc[t] = "back" /\ pc'[t] = "loop"
      /\ \A u \in Threads : u # t => pc'[u] = pc[u]
      /\ pc' \in [Threads -> {"start", "claim", "loop", "find", "point", "link", "back", "done"}]
  BY Goes, GoesType DEF WInv, Back
<1>2. /\ build' = build /\ numParts' = numParts /\ joined' = joined
      /\ mutex' = (IF build = "biglock" THEN None ELSE mutex)
      /\ part' = part /\ spinLocks' = spinLocks /\ curr' = curr
      /\ at' = [at EXCEPT ![t] = at[t] + 1]
  BY DEF Back, config
<1>3. /\ at \in [Threads -> Nat] /\ at'[t] = at[t] + 1 /\ at[t] \in Nat
      /\ \A u \in Threads : u # t => at'[u] = at[u]
      /\ at' \in [Threads -> Nat]
  <2>1. at \in [Threads -> Nat]
    BY <1>1 DEF Types
  <2> QED BY <1>2, <2>1
<1>4. /\ Working(t) /\ Working(t)' /\ Inside(t) /\ ~ Inside(t)'
      /\ Upto(t) = at[t] + 1 /\ Upto(t)' = at[t] + 1
  BY <1>1, <1>3 DEF Working, Inside, Upto
<1>5. /\ Held' = Held /\ Chains'
      /\ pointers' \in [next : [Heads \cup Items -> Heads \cup Items \cup {Uninit}],
                        prev : [Heads \cup Items -> Heads \cup Items \cup {Uninit}]]
  BY BackStep
<1>6. \A n \in All : IsOn(n)' <=> IsOn(n)
  BY <1>5, MembersSame
<1>7. Exclusive'
  <2>1. SUFFICES ASSUME build = "biglock", NEW u \in Threads, Inside(u)' PROVE FALSE
    BY <1>2 DEF Exclusive, Threads
  <2>2. u # t /\ Inside(u)
    BY <1>1, <1>4, <2>1 DEF Inside
  <2> QED BY <1>1, <1>4, <2>1, <2>2 DEF Exclusive
<1>8. Control' /\ \A p \in Parts : Claimed(p)' <=> Claimed(p)
  BY <1>1, <1>2, <1>4, GoesOn
<1>9. Shares'
  <2>1. \A u \in Threads : u # t => Keeps(u)
    BY <1>1, <1>2, <1>3, Untouched DEF Shares
  <2>2. Keeps(t)
    <3>1. /\ at[t] \in PartBegin(part[t]) .. PartEnd(part[t])
          /\ at[t] < PartEnd(part[t]) /\ part[t] \in Parts
      BY <1>1, <1>4 DEF Shares, OwnPart
    <3>2. PartBegin(part[t]) \in Nat /\ PartEnd(part[t]) \in Nat
      BY <1>1, <3>1, SpanFacts DEF Types
    <3>3. at'[t] \in PartBegin(part[t]) .. PartEnd(part[t])
      BY <1>3, <3>1, <3>2
    <3> QED BY <1>2, <1>4, <3>3 DEF Keeps
  <2> HIDE DEF Held
  <2> QED BY <1>1, <1>2, <1>6, <1>8, <2>1, <2>2, SharesStay
<1>10. Types'
  <2>1. mutex' \in Threads \cup {None}
    BY <1>1, <1>2 DEF Types
  <2> QED BY <1>1, <1>2, <1>3, <1>5, <2>1, TypesStay DEF Types
<1> QED
  BY <1>5, <1>7, <1>8, <1>9, <1>10, BackStores DEF WInv

LEMMA PartDoneKeeps ==
  ASSUME WInv, NEW t \in Threads, PartDone(t)
  PROVE  WInv'
<1>1. /\ Types /\ Exclusive /\ Shares /\ Control /\ pc[t] = "loop"
      /\ pc'[t] = IF build = "lb" THEN "claim" ELSE "done"
      /\ \A u \in Threads : u # t => pc'[u] = pc[u]
      /\ pc' \in [Threads -> {"start", "claim", "loop", "find", "point", "link", "back", "done"}]
  BY Goes, GoesType DEF WInv, PartDone
<1>2. /\ build' = build /\ numParts' = numParts /\ joined' = joined /\ pointers' = pointers
      /\ mutex' = mutex /\ curr' = curr /\ at' = at /\ spinLocks' = spinLocks
      /\ at[t] >= PartEnd(part[t])
      /\ part' = IF build = "lb" THEN [part EXCEPT ![t] = part[t] + 1] ELSE part
  BY DEF PartDone, config
<1>3. /\ part \in [Threads -> Nat] /\ \A u \in Threads : u # t => part'[u] = part[u]
      /\ part'[t] = IF build = "lb" THEN part[t] + 1 ELSE part[t]
      /\ part' \in [Threads -> Nat]
  <2>1. part \in [Threads -> Nat]
    BY <1>1 DEF Types
  <2> QED BY <1>2, <2>1
<1>4. Working(t) /\ ~ Working(t)' /\ ~ Inside(t)' /\ ~ Inside(t)
  BY <1>1 DEF Working, Inside
<1>5. /\ Held' = Held /\ Chains' /\ \A n \in All : IsOn(n)' <=> IsOn(n)
      /\ Stored(t)' => Stores'
  BY <1>1, <1>2, Quiet
<1>6. Stores'
  BY <1>1, <1>5 DEF Stored
<1>7. Exclusive'
  BY <1>1, <1>2, <1>4, ExclusiveStays
<1>8. \A p \in Parts : Claimed(p)' <=> Claimed(p)
  <2>1. \A u \in Threads : pc'[u] = "start" <=> pc[u] = "start"
    BY <1>1
  <2> QED BY <1>2, <2>1, ClaimedSame
<1>9. Shares'
  <2>1. \A u \in Threads : u # t => Keeps(u)
    BY <1>1, <1>2, <1>3, Untouched DEF Shares
  <2> HIDE DEF Held
  <2> QED BY <1>1, <1>2, <1>4, <1>5, <1>8, <2>1, SharesEnd
<1>10. Control'
  <2>1. part[t] \in Parts /\ Claimed(part[t])
    BY <1>1, <1>4 DEF Shares, OwnPart
  <2>2. part[t] \in Nat /\ numParts \in Nat /\ (build = "lb" => part[t] < numParts)
    BY <1>1, <2>1 DEF Types, Parts, Worked
  <2>3. Turns(t)'
    <3>1. CASE build = "lb"
      <4>1. ASSUME NEW p \in 0 .. part'[t] - 1 PROVE Claimed(p)'
        <5>1. p \in Parts
          BY <1>3, <2>2, <3>1 DEF Parts, Worked
        <5>2. CASE p = part[t]
          BY <1>8, <2>1, <5>2
        <5>3. CASE p # part[t]
          <6>1. p \in 0 .. part[t] - 1
            BY <1>3, <2>2, <3>1, <5>3
          <6> QED BY <1>1, <1>8, <3>1, <5>1, <6>1 DEF Control
        <5> QED BY <5>2, <5>3
      <4>2. part'[t] <= numParts
        BY <1>3, <2>2, <3>1
      <4> QED BY <1>1, <1>2, <3>1, <4>1, <4>2 DEF Turns
    <3>2. CASE build # "lb"
      BY <1>1, <1>2, <1>3, <3>2 DEF Turns, Control
    <3> QED BY <3>1, <3>2
  <2> QED BY <1>1, <1>2, <1>3, <1>8, <2>3, ControlStays
<1>11. Types'
  BY <1>1, <1>2, <1>3, TypesStay DEF Types
<1> QED
  BY <1>5, <1>6, <1>7, <1>9, <1>10, <1>11 DEF WInv


\* No thread moves: main joins, or nothing happens.
LEMMA RestKeeps ==
  ASSUME WInv,
         pointers' = pointers, build' = build, numParts' = numParts, mutex' = mutex,
         spinLocks' = spinLocks, pc' = pc, part' = part, at' = at, curr' = curr,
         joined' => \A t \in Threads : pc[t] = "done"
  PROVE  WInv' /\ Held' = Held
<1>1. Types /\ Chains /\ Stores /\ Exclusive /\ Shares /\ Control
  BY DEF WInv
<1>2. Held' = Held /\ Chains'
  BY <1>1, SameHeap
<1>3. \A n \in All : IsOn(n)' <=> IsOn(n)
  BY <1>2, MembersSame
<1>4. Stores'
  <2>1. ASSUME NEW u \in Threads PROVE Stored(u)'
    <3>1. Stored(u)
      BY <1>1 DEF Stores
    <3> HIDE DEF Held
    <3> QED BY <1>2, <3>1, StoredStays
  <2> QED BY <2>1 DEF Stores, Threads
<1>5. Exclusive'
  BY <1>1 DEF Exclusive, Inside, Threads
<1>6. \A p \in Parts : Claimed(p)' <=> Claimed(p)
  BY ClaimedSame
<1>7. Shares'
  <2>1. \A u \in Threads : Keeps(u)
    BY <1>1, Untouched DEF Shares
  <2> HIDE DEF Held
  <2> QED BY <1>1, <1>3, <1>6, <2>1, SharesStay
<1>8. Control'
  BY <1>1 DEF Control, Claimed, Threads
<1>9. Types'
  BY <1>1, TypesStay DEF Types
<1> QED
  BY <1>2, <1>4, <1>5, <1>7, <1>8, <1>9 DEF WInv

LEMMA WorkersStart ==
  ASSUME WorkersInit
  PROVE  WInv /\ Held = [l \in Heads |-> << >>]
<1> DEFINE L == [l \in Heads |-> << >>]
<1>1. /\ build \in Builds /\ numParts \in PartCounts /\ LegalParts(build, numParts)
      /\ pointers = Fresh(Heads, Items) /\ mutex = None
      /\ spinLocks = [p \in Parts |-> 0] /\ pc = [t \in Threads |-> "start"]
      /\ part = [t \in Threads |-> 0] /\ at = [t \in Threads |-> 0]
      /\ curr = [t \in Threads |-> None] /\ joined = FALSE
  BY DEF WorkersInit, Fresh, Heads, Items, Parts, Threads
<1>2. Holds(pointers, L, Heads, Items)
  BY <1>1, NodeFacts, FreshHolds
<1>3. /\ Leads(pointers, L, Heads, Items) /\ Backward(pointers.prev, L, Heads)
      /\ pointers.prev \in [Heads \cup Items -> Heads \cup Items \cup {Uninit}]
  <2> HIDE DEF L
  <2> QED BY <1>2 DEF Holds, Leads
<1>4. Held = L
  <2>1. [l \in Heads |-> Contents(pointers, l)] = L
    BY <1>3, HeldIs
  <2> QED BY <2>1 DEF Held
<1>5. \A n \in All : ~ IsOn(n)
  <2>1. \A n : OnNone(L, Heads, n)
    BY DEF OnNone
  <2> HIDE DEF Held, L
  <2> QED BY <1>4, <2>1 DEF IsOn
<1>6. Chains
  <2> HIDE DEF Held, L
  <2> QED BY <1>3, <1>4 DEF Chains, Backward, BackwardBut
<1>7. \A t \in Threads : ~ Working(t) /\ ~ Inside(t) /\ pc[t] = "start"
  BY <1>1 DEF Working, Inside
<1>8. Stores
  BY <1>7 DEF Stores, Stored
<1>9. Exclusive
  BY <1>7 DEF Exclusive
<1>10. build \in {"biglock", "multilists", "lb"} /\ numParts \in Nat \ {0}
  BY <1>1, WorkersAssumption
<1>11. \A p \in Parts : ~ Claimed(p) /\ Span(p) \subseteq All
  BY <1>1, <1>7, <1>10, SpanFacts DEF Claimed
<1>12. Shares
  BY <1>5, <1>7, <1>11
     DEF Shares, OwnPart, OwnItems, OnePart, Unclaimed, Finished, OnlySpans
<1>13. Control
  BY <1>1, <1>7, <1>10 DEF Control
<1>14. Types
  <2>1. /\ pointers = [next |-> pointers.next, prev |-> pointers.prev]
        /\ pointers.next \in [Heads \cup Items -> Heads \cup Items \cup {Uninit}]
    <3>1. pointers = [next |-> pointers.next, prev |-> pointers.prev]
      BY <1>1 DEF Fresh
    <3> QED BY <1>3, <3>1 DEF Leads
  <2>2. pointers \in [next : [Heads \cup Items -> Heads \cup Items \cup {Uninit}],
                      prev : [Heads \cup Items -> Heads \cup Items \cup {Uninit}]]
    BY <1>3, <2>1
  <2> QED BY <1>1, <1>10, <2>2 DEF Types
<1> QED
  BY <1>4, <1>6, <1>8, <1>9, <1>12, <1>13, <1>14 DEF WInv

LEMMA WorkersStep ==
  ASSUME WInv, [WorkersNext]_workersVars
  PROVE  WInv'
<1>1. CASE \E t \in Threads : Thread(t)
  <2>1. PICK t \in Threads : Thread(t)
    BY <1>1 DEF Threads
  <2>2. CASE Segfault(t)
    <3>1. joined => \A u \in Threads : pc[u] = "done"
      BY DEF WInv, Control
    <3> QED BY <2>2, <3>1, RestKeeps DEF Segfault
  <2> QED
    BY <2>1, <2>2, StartKeeps, ClaimKeeps, NoMorePartsKeeps, TakeKeeps, FindKeeps, PointKeeps,
       LinkKeeps, BackKeeps, PartDoneKeeps DEF Thread
<1>2. CASE Join
  BY <1>2, RestKeeps DEF Join, Threads
<1>3. CASE Exited \/ UNCHANGED workersVars
  <2>1. joined => \A t \in Threads : pc[t] = "done"
    BY DEF WInv, Control
  <2> QED BY <1>3, <2>1, RestKeeps DEF Exited, workersVars
<1> QED
  BY <1>1, <1>2, <1>3 DEF WorkersNext

\* The inductive invariant of the workers, for the values of the constants that
\* ListWorkers assumes.
THEOREM WorkersInvariant ==
  WorkersSpec => []WInv
<1>1. WorkersInit => WInv
  BY WorkersStart
<1>2. WInv /\ [WorkersNext]_workersVars => WInv'
  BY WorkersStep
<1> QED
  BY <1>1, <1>2, PTL DEF WorkersSpec


\* The elements that the lists hold are those of IsOn.
LEMMA OnHeads ==
  ASSUME Held \in [Heads -> Seq(Items)], NEW e
  PROVE  /\ e \in UNION {ToSet(Held[l]) : l \in Heads} <=> ~ OnNone(Held, Heads, e)
         /\ e \in UNION {ToSet(Held[l]) : l \in Heads} => e \in Items
<1> HIDE DEF Held
<1>1. \A l \in Heads : DOMAIN Held[l] = 1 .. Len(Held[l]) /\ Held[l] \in Seq(Items)
  OBVIOUS
<1> QED
  BY <1>1 DEF OnNone, ToSet

\* Threads that are done have inserted their parts, and there is no other
\* element on a list.
LEMMA WholeParts ==
  ASSUME WInv, \A t \in Threads : pc[t] = "done", NEW n \in All
  PROVE  IsOn(n) <=> n \in 0 .. per_part * Worked - 1
<1> DEFINE a == per_part
           w == Worked
<1>1. /\ Types /\ Unclaimed /\ Finished /\ OnlySpans /\ Control
      /\ numParts \in Nat \ {0} /\ numParts \in PartCounts /\ NumThreads \in Nat \ {0}
      /\ build \in {"biglock", "multilists", "lb"}
  BY WorkersAssumption DEF WInv, Shares, Types
<1>2. a \in Nat /\ \A p : Span(p) = a * p .. a * (p + 1) - 1
  BY <1>1, SpanFacts DEF Span, PartBegin, PartEnd
<1>3. w \in Nat /\ Parts = 0 .. w - 1
  BY <1>1, SpanFacts DEF Parts
<1>4. \A p \in Parts : Claimed(p) <=> p \in 0 .. w - 1
  <2>1. SUFFICES ASSUME NEW p \in Parts PROVE Claimed(p) <=> p \in 0 .. w - 1
    OBVIOUS
  <2>2. CASE build = "lb"
    <3>1. 0 \in Threads /\ w = numParts
      BY <2>2, NodeFacts DEF Worked
    <3>2. part[0] = numParts /\ \A q \in 0 .. part[0] - 1 : Claimed(q)
      BY <1>1, <2>2, <3>1 DEF Control
    <3> QED BY <3>1, <3>2 DEF Parts
  <2>3. CASE build # "lb"
    BY <2>3 DEF Claimed, Worked, Threads
  <2> QED BY <2>2, <2>3
<1>5. \A t \in Threads : ~ Working(t)
  BY DEF Working, Inside
<1>6. n \in Nat
  BY DEF All
<1> HIDE DEF a, w
<1>7. ASSUME IsOn(n) PROVE n \in 0 .. a * w - 1
  <2>1. PICK p \in Parts : n \in Span(p)
    BY <1>1, <1>7 DEF OnlySpans
  <2>2. p \in 0 .. w - 1
    BY <1>1, <1>4, <1>7, <2>1 DEF Unclaimed
  <2>3. p + 1 \in Nat /\ p + 1 <= w
    BY <1>3, <2>2
  <2>4. a * (p + 1) <= a * w /\ a * (p + 1) \in Nat /\ a * w \in Nat
    BY <1>2, <1>3, <2>3, Multiples
  <2>5. n <= a * (p + 1) - 1
    <3>1. n \in a * p .. a * (p + 1) - 1
      BY <1>2, <2>1
    <3> QED BY <3>1
  <2> QED BY <1>6, <2>4, <2>5
<1>8. ASSUME n \in 0 .. a * w - 1 PROVE IsOn(n)
  <2>1. PICK p \in 0 .. w - 1 : n \in a * p .. a * (p + 1) - 1
    BY <1>2, <1>3, <1>8, InSomeSpan
  <2>2. p \in Parts /\ n \in Span(p)
    BY <1>1, <1>2, <1>3, <2>1 DEF Parts
  <2>3. Claimed(p)
    BY <1>4, <2>1, <2>2
  <2> QED BY <1>1, <1>5, <2>2, <2>3 DEF Finished
<1> QED
  BY <1>7, <1>8 DEF a, w

\* No element gets onto the lists twice, and once the threads are joined the
\* lists are intact and hold the elements of the parts: list.c loses no
\* insertion in any of its builds.
THEOREM WorkersAllOnce ==
  WorkersSpec => []AllOnce
<1>1. WInv => AllOnce
  <2>1. SUFFICES ASSUME WInv PROVE AllOnce
    OBVIOUS
  <2>2. /\ Held \in [Heads -> Seq(Items)] /\ Once(Held, Heads)
        /\ \A l \in Heads : DOMAIN Held[l] = 1 .. Len(Held[l])
        /\ Leads(pointers, Held, Heads, Items)
        /\ BackwardBut(pointers.prev, Held, Heads, Pending)
    BY <2>1, HeldType DEF WInv, Chains
  <2>3. \A l \in Heads : Contents(pointers, l) = Held[l]
    BY DEF Held
  <2> HIDE DEF Held
  <2>4. \A l \in Heads : IsInjective(Held[l])
    BY <2>2 DEF Once, IsInjective
  <2>5. ASSUME NEW l \in Heads, NEW m \in Heads, l # m
        PROVE  ToSet(Held[l]) \cap ToSet(Held[m]) = {}
    BY <2>2, <2>5 DEF Once, ToSet
  <2>6. ASSUME joined
        PROVE  /\ \A l \in Heads : Length(pointers, l) = Len(Held[l])
               /\ UNION {ToSet(Held[l]) : l \in Heads} = Covered
    <3>1. \A t \in Threads : pc[t] = "done"
      BY <2>1, <2>6 DEF WInv, Control
    <3>2. Holds(pointers, Held, Heads, Items)
      <4>1. Pending = {}
        BY <3>1 DEF Pending
      <4>2. pointers.prev \in [Heads \cup Items -> Heads \cup Items \cup {Uninit}]
        BY <2>1, PointersType DEF WInv
      <4> QED BY <2>2, <4>1, <4>2 DEF Leads, BackwardBut, Holds, Backward
    <3>3. ASSUME NEW l \in Heads PROVE Length(pointers, l) = Len(Held[l])
      <4>1. Uninit \notin Heads \cup Items
        BY WorkersAssumption
      <4>2. \A k \in 1 .. Len(Held[l]) : Intact(pointers, Held[l][k])
        BY <3>2, <4>1, MemberIntact
      <4>3. \A k \in DOMAIN Held[l] : Intact(pointers, Held[l][k])
        BY <2>2, <4>2 DEF Intact
      <4>4. Contents(pointers, l) = Held[l]
        BY <2>3
      <4> QED BY <4>3, <4>4 DEF Length
    <3>4. UNION {ToSet(Held[l]) : l \in Heads} = Covered
      <4> DEFINE U == UNION {ToSet(Held[l]) : l \in Heads}
      <4>1. \A e : (e \in U <=> ~ OnNone(Held, Heads, e)) /\ (e \in U => e \in Items)
        BY <2>2, OnHeads
      <4>2. /\ \A e \in Items : \E n \in All : e = Elem(n)
            /\ \A n : Elem(n) \in U <=> IsOn(n)
        BY <4>1, NodeFacts DEF IsOn
      <4>3. \A n \in All : IsOn(n) <=> n \in 0 .. per_part * Worked - 1
        BY <2>1, <3>1, WholeParts
      <4>4. 0 .. per_part * Worked - 1 \subseteq All
        <5>1. /\ numParts \in Nat \ {0} /\ numParts \in PartCounts
          BY <2>1 DEF WInv, Types
        <5>2. /\ per_part * Worked \in Nat
              /\ \A m \in Nat : m < per_part * Worked => m \in All
          BY <5>1, SpanFacts, Multiples
        <5> QED BY <5>2
      <4> HIDE DEF U
      <4>5. ASSUME NEW e, e \in U PROVE e \in Covered
        <5>1. PICK n \in All : e = Elem(n)
          BY <4>1, <4>2, <4>5
        <5> QED BY <4>2, <4>3, <4>5, <5>1 DEF Covered
      <4>6. ASSUME NEW e, e \in Covered PROVE e \in U
        BY <4>2, <4>3, <4>4, <4>6 DEF Covered
      <4>7. U = Covered
        BY <4>5, <4>6
      <4> QED BY <4>7 DEF U
    <3> QED BY <3>3, <3>4
  <2>7. ASSUME build = "biglock" => numParts >= NumThreads
        PROVE  Covered \subseteq {Elem(n) : n \in 0 .. the_n_elements - 1}
    <3>1. /\ numParts \in Nat \ {0} /\ numParts \in PartCounts /\ LegalParts(build, numParts)
          /\ build \in {"biglock", "multilists", "lb"} /\ NumThreads \in Nat
      BY <2>1, WorkersAssumption DEF WInv, Types
    <3>2. Worked \in Nat /\ Worked <= numParts
      BY <2>7, <3>1 DEF LegalParts, Worked
    <3>3. /\ per_part \in Nat /\ per_part * numParts <= the_n_elements
          /\ the_n_elements \in Nat
      BY <3>1, SpanFacts, NodeFacts
    <3>4. /\ per_part * Worked <= per_part * numParts
          /\ per_part * Worked \in Nat /\ per_part * numParts \in Nat
      BY <3>1, <3>2, <3>3, Multiples
    <3>5. 0 .. per_part * Worked - 1 \subseteq 0 .. the_n_elements - 1
      BY <3>3, <3>4
    <3> QED BY <3>5 DEF Covered
  <2> QED
    BY <2>3, <2>4, <2>5, <2>6, <2>7, Zenon DEF AllOnce, Heads
<1> QED
  BY <1>1, WorkersInvariant, PTL


\* However the stores of the threads interleave, the lists change by one whole
\* insertion at a time: the store to curr->prev->next puts its element on them.
THEOREM WorkersImplement ==
  WorkersSpec => WholeInsertions
<1>1. WorkersInit => Store!Init
  BY WorkersStart DEF Store!Init, Held, Heads
<1>2. WInv /\ [WorkersNext]_workersVars =>
        [Store!Next]_[l \in Heads |-> Contents(pointers, l)]
  <2>1. SUFFICES ASSUME WInv, [WorkersNext]_workersVars
                 PROVE  Store!Next \/ UNCHANGED Held
    BY DEF Held, Heads
  <2>2. ASSUME NEW t \in Threads, Link(t) PROVE Store!Next
    <3>1. /\ Inside(t) /\ Types /\ OwnPart /\ OwnItems /\ pc[t] # "back"
      BY <2>1, <2>2, Goes DEF WInv, Shares, Link, Inside
    <3>2. /\ Item(t) \in Items /\ Home(t) \in Heads /\ OnNone(Held, Heads, Item(t))
          /\ Held \in [Heads -> Seq(Items)]
      BY <2>1, <3>1, ItemFacts, ItemOff, NodeFacts, HeldType DEF WInv
    <3>3. Held' = Longer(Held, Home(t), Item(t))
      BY <2>1, <2>2, LinkStep
    <3>4. Item(t) \notin UNION {ToSet(Held[l]) : l \in Heads}
      BY <3>2, OnHeads
    <3>5. Item(t) \in Items \ Store!OnSomeList
      BY <3>2, <3>4
         DEF Store!OnSomeList, Store!ToSet, ToSet, Held
    <3>6. Item(t) \in Store!ToSet(Held'[Home(t)])
      <4>1. Held'[Home(t)] = <<Item(t)>> \o Held[Home(t)] /\ Held[Home(t)] \in Seq(Items)
        BY <3>2, <3>3 DEF Longer
      <4>2. 1 \in DOMAIN (<<Item(t)>> \o Held[Home(t)])
            /\ (<<Item(t)>> \o Held[Home(t)])[1] = Item(t)
        BY <3>2, <4>1
      <4> QED BY <4>1, <4>2 DEF Store!ToSet
    <3>7. Held' = [Held EXCEPT ![Home(t)] = <<Item(t)>> \o @]
      BY <3>3 DEF Longer
    <3>8. Store!Insert(Home(t))
      BY <3>5, <3>6, <3>7 DEF Store!Insert, Held, Heads
    <3> QED BY <3>2, <3>8 DEF Store!Next
  <2>3. ASSUME NEW t \in Threads,
               Start(t) \/ Claim(t) \/ NoMoreParts(t) \/ Segfault(t)
                 \/ Take(t) \/ Find(t) \/ PartDone(t)
        PROVE  UNCHANGED Held
    <3>1. pointers' = pointers
      BY <2>3 DEF Start, Claim, NoMoreParts, Segfault, Take,
                  Find, PartDone
    <3> QED BY <3>1 DEF Held, Heads, Threads
  <2>4. CASE Join \/ Exited \/ UNCHANGED workersVars
    <3>1. pointers' = pointers
      BY <2>4 DEF Join, Exited, workersVars
    <3> QED BY <3>1 DEF Held, Heads, Threads
  <2>5. CASE \E t \in Threads : Thread(t)
    <3>1. PICK t \in Threads : Thread(t)
      BY <2>5 DEF Threads
    <3> HIDE DEF Held
    <3> QED
      BY <2>1, <2>2, <2>3, <3>1, PointStep, BackStep DEF Thread
  <2> QED
    BY <2>1, <2>4, <2>5 DEF WorkersNext
<1> QED
  BY WorkersInvariant, <1>1, <1>2, PTL
     DEF WorkersSpec, WholeInsertions, Store!Spec


-----------------------------------------------------------------------------
\* Main returns from its joins if the threads are scheduled fairly (Joins).
\* What follows is the part of that which needs no fairness: at any time
\* somebody can go on, and nobody goes on for ever.

\* The mutex of the biglock build is held by a thread inside an insertion.
HeldInside == build = "biglock" /\ mutex # None =>
                \E t \in Threads : mutex = t /\ Inside(t)

\* The next statement of t does not wait.
CanStep(t) ==
  /\ pc[t] # "done"
  /\ build = "biglock" /\ pc[t] = "loop" /\ at[t] < PartEnd(part[t]) => mutex = None

NeverStuck == (\A t \in Threads : pc[t] = "done") \/ (\E t \in Threads : CanStep(t))

\* What a step of t leaves alone
LEMMA OthersStay ==
  ASSUME Types, NEW t \in Threads, Thread(t)
  PROVE  /\ build' = build /\ numParts' = numParts /\ joined' = joined
         /\ \A u \in Threads : u # t => pc'[u] = pc[u] /\ part'[u] = part[u] /\ at'[u] = at[u]
BY DEF Types, Thread, Start, Claim, NoMoreParts, Segfault, Take, Find, Point, Link, Back,
       PartDone, Goto, config

LEMMA HeldInsideStep ==
  ASSUME WInv, HeldInside, [WorkersNext]_workersVars
  PROVE  HeldInside'
<1>1. ASSUME NEW t \in Threads, Thread(t)
      PROVE  HeldInside'
  <2>1. /\ build' = build /\ \A u \in Threads : u # t => pc'[u] = pc[u]
        /\ pc \in [Threads -> {"start", "claim", "loop", "find", "point", "link", "back", "done"}]
    BY <1>1, OthersStay DEF WInv, Types
  <2>2. CASE Take(t) \/ Find(t) \/ Point(t) \/ Link(t)
    <3>1. Inside(t)' /\ mutex' \in {mutex, t}
      BY <2>1, <2>2 DEF Take, Find, Point, Link, Goto, Inside
    <3> QED
      BY <2>1, <3>1 DEF HeldInside, Inside
  <2>3. CASE Back(t)
    BY <2>1, <2>3 DEF Back, HeldInside
  <2>4. CASE Start(t) \/ Claim(t) \/ NoMoreParts(t) \/ Segfault(t) \/ PartDone(t)
    <3>1. mutex' = mutex /\ ~ Inside(t)
      BY <2>4 DEF Start, Claim, NoMoreParts, Segfault, PartDone, Goto, Inside
    <3> QED
      BY <2>1, <3>1 DEF HeldInside, Inside
  <2> QED
    BY <1>1, <2>2, <2>3, <2>4 DEF Thread
<1>2. CASE Join \/ Exited \/ UNCHANGED workersVars
  BY <1>2 DEF Join, Exited, workersVars, HeldInside, Inside
<1> QED
  BY <1>1, <1>2 DEF WorkersNext

\* The threads of list.c never all wait: the holder of the big lock is inside
\* an insertion, and goes on to give it back.
THEOREM WorkersNoDeadlock == WorkersSpec => []NeverStuck
<1>1. WorkersInit => HeldInside
  BY DEF WorkersInit, HeldInside
<1>2. HeldInside => NeverStuck
  <2> SUFFICES ASSUME HeldInside, NEW t \in Threads, pc[t] # "done"
               PROVE  \E u \in Threads : CanStep(u)
    BY DEF NeverStuck
  <2>1. CASE build = "biglock" /\ mutex # None
    <3>1. PICK u \in Threads : Inside(u)
      BY <2>1 DEF HeldInside
    <3> QED
      BY <3>1 DEF CanStep, Inside
  <2>2. CASE ~(build = "biglock" /\ mutex # None)
    BY <2>2 DEF CanStep
  <2> QED
    BY <2>1, <2>2
<1> QED
  BY <1>1, <1>2, WorkersInvariant, HeldInsideStep, PTL DEF WorkersSpec

\* How far a thread has come: a part is a stride, and an element of it five
\* statements.
Stride    == 5 * per_part + 2
Within(t) == 5 * (at[t] - PartBegin(part[t])) +
             CASE pc[t] = "loop"  -> 0 [] pc[t] = "find" -> 1 [] pc[t] = "point" -> 2
               [] pc[t] = "link"  -> 3 [] pc[t] = "back" -> 4
Passed(t) == CASE pc[t] = "claim" -> 0
               [] pc[t] = "done"  -> IF build = "lb" THEN 1 ELSE Stride
               [] OTHER           -> 1 + Within(t)
Behind(t) == IF pc[t] = "start" THEN 0 ELSE Stride * part[t] + Passed(t) + 1

InReach == \A t \in Threads : Behind(t) \in 0 .. Stride * Worked + 2

\* one thread goes on, the others stay where they are
OneGoesOn ==
  \E t \in Threads : /\ Behind(t)' > Behind(t)
                     /\ \A u \in Threads : u # t => Behind(u)' = Behind(u)

LEMMA StrideFacts ==
  ASSUME Types
  PROVE  /\ Stride \in Nat /\ Stride > 1 /\ per_part \in Nat /\ Stride = 5 * per_part + 2
         /\ \A p \in Nat : /\ Stride * p \in Nat /\ Stride * (p + 1) = Stride * p + Stride
                           /\ PartBegin(p) \in Nat /\ PartEnd(p) = PartBegin(p) + per_part
         /\ \A p, q \in Nat : p <= q => Stride * p <= Stride * q
<1>1. per_part \in Nat
  BY SpanFacts DEF Types
<1>2. Stride \in Nat /\ Stride > 1
  BY <1>1 DEF Stride
<1>3. \A p \in Nat : per_part * p \in Nat /\ per_part * (p + 1) = per_part * p + per_part
  BY <1>1, Multiples
<1>4. \A p \in Nat : PartBegin(p) \in Nat /\ PartEnd(p) = PartBegin(p) + per_part
  BY <1>3 DEF PartBegin, PartEnd
<1>5. /\ \A p \in Nat : Stride * p \in Nat /\ Stride * (p + 1) = Stride * p + Stride
      /\ \A p, q \in Nat : p <= q => Stride * p <= Stride * q
  BY <1>2, Multiples
<1> QED
  BY <1>1, <1>2, <1>4, <1>5 DEF Stride

\* A thread in a part has passed no more of it than there is.
LEMMA WithinFacts ==
  ASSUME WInv, NEW t \in Threads, Working(t)
  PROVE  /\ part[t] \in Parts /\ part[t] \in Nat /\ part[t] + 1 <= Worked /\ Worked \in Nat
         /\ Within(t) \in 0 .. 5 * per_part
<1>1. /\ part[t] \in Parts /\ at[t] \in PartBegin(part[t]) .. PartEnd(part[t])
      /\ Inside(t) => at[t] < PartEnd(part[t])
  BY DEF WInv, Shares, OwnPart
<1>2. part[t] \in Nat /\ part[t] + 1 <= Worked /\ Worked \in Nat
  BY <1>1, SpanFacts DEF Parts, WInv, Types
<1>3. /\ PartBegin(part[t]) \in Nat /\ PartEnd(part[t]) = PartBegin(part[t]) + per_part
      /\ per_part \in Nat
  BY <1>2, StrideFacts DEF WInv
<1>4. PICK d \in Nat : d = at[t] - PartBegin(part[t])
  BY <1>1, <1>3
<1>5. d <= per_part /\ (Inside(t) => d < per_part)
  BY <1>1, <1>3, <1>4
<1>6. Within(t) \in 0 .. 5 * per_part
  BY <1>3, <1>4, <1>5 DEF Within, Working, Inside
<1> QED
  BY <1>1, <1>2, <1>6


LEMMA WithinReach ==
  ASSUME WInv, NEW t \in Threads
  PROVE  Behind(t) \in 0 .. Stride * Worked + 2
<1>1. /\ Worked \in Nat /\ part[t] \in Nat
      /\ pc[t] \in {"start", "claim", "loop", "find", "point", "link", "back", "done"}
      /\ build \in {"biglock", "multilists", "lb"} /\ Types /\ Control
  BY SpanFacts DEF WInv, Types
<1>2. /\ Stride \in Nat /\ Stride > 1 /\ per_part \in Nat /\ Stride = 5 * per_part + 2
      /\ Stride * part[t] \in Nat /\ Stride * Worked \in Nat
      /\ Stride * (part[t] + 1) = Stride * part[t] + Stride
  BY <1>1, StrideFacts
<1>3. CASE pc[t] = "start"
  BY <1>2, <1>3 DEF Behind
<1>4. CASE Working(t)
  <2>1. part[t] + 1 <= Worked /\ Within(t) \in 0 .. 5 * per_part
    BY <1>4, WithinFacts
  <2>2. Stride * (part[t] + 1) <= Stride * Worked
    <3>1. part[t] + 1 \in Nat /\ Worked \in Nat
      BY <1>1
    <3> QED
      BY <1>2, <2>1, <3>1, Multiples
  <2>3. Behind(t) = Stride * part[t] + (1 + Within(t)) + 1
    BY <1>4 DEF Behind, Passed, Working, Inside
  <2> QED
    BY <1>2, <2>1, <2>2, <2>3
<1>5. CASE pc[t] \in {"claim", "done"} /\ build = "lb"
  <2>1. part[t] <= Worked
    BY <1>1, <1>5 DEF Control, Worked
  <2>2. Stride * part[t] <= Stride * Worked
    BY <1>1, <2>1, StrideFacts
  <2>3. Behind(t) \in {Stride * part[t] + 0 + 1, Stride * part[t] + 1 + 1}
    BY <1>5 DEF Behind, Passed
  <2> QED
    BY <1>2, <2>2, <2>3
<1>6. CASE pc[t] \in {"claim", "done"} /\ build # "lb"
  <2>1. pc[t] = "done" /\ part[t] = t
    BY <1>1, <1>6 DEF Control
  <2>2. t + 1 <= Worked
    BY <1>6, WorkersAssumption DEF Threads, Worked
  <2>3. Stride * (part[t] + 1) <= Stride * Worked
    <3>1. part[t] + 1 \in Nat /\ Worked \in Nat
      BY <1>1
    <3> QED
      BY <1>2, <2>1, <2>2, <3>1, Multiples
  <2>4. Behind(t) = Stride * part[t] + Stride + 1
    BY <1>6, <2>1 DEF Behind, Passed
  <2> QED
    BY <1>2, <2>3, <2>4
<1> QED
  BY <1>1, <1>3, <1>4, <1>5, <1>6 DEF Working, Inside

LEMMA GoesFurther ==
  ASSUME WInv, NEW t \in Threads, Thread(t), ~ Segfault(t)
  PROVE  Behind(t)' > Behind(t)
<1>1. /\ build' = build /\ numParts' = numParts /\ per_part' = per_part /\ Stride' = Stride
      /\ \A p : PartBegin(p)' = PartBegin(p)
  BY OthersStay DEF WInv, per_part, Stride, PartBegin
<1>2. /\ pc \in [Threads -> {"start", "claim", "loop", "find", "point", "link", "back", "done"}]
      /\ part \in [Threads -> Nat] /\ at \in [Threads -> Nat] /\ Types /\ Control
  BY DEF WInv, Types
<1>3. /\ Stride \in Nat /\ per_part \in Nat /\ Stride = 5 * per_part + 2
      /\ \A p \in Nat : /\ Stride * p \in Nat /\ Stride * (p + 1) = Stride * p + Stride
                        /\ PartBegin(p) \in Nat
  BY <1>2, StrideFacts
<1>4. /\ pc'[t] = "claim" => Behind(t)' = Stride * part'[t] + 0 + 1
      /\ pc'[t] = "done"  => Behind(t)' = Stride * part'[t] + (IF build = "lb" THEN 1 ELSE Stride) + 1
      /\ pc'[t] \in {"loop", "find", "point", "link", "back"} =>
           Behind(t)' = Stride * part'[t] + (1 + Within(t)') + 1
  BY <1>1 DEF Behind, Passed
<1>5. CASE Start(t)
  <2>1. Behind(t) = 0
    BY <1>5 DEF Start, Goto, Behind
  <2>2. CASE build = "lb"
    <3>1. pc'[t] = "claim" /\ part'[t] \in Nat
      BY <1>2, <1>5, <2>2 DEF Start, Goto
    <3> QED
      BY <1>3, <1>4, <2>1, <3>1
  <2>3. CASE build # "lb"
    <3>1. pc'[t] = "loop" /\ part'[t] = t /\ at'[t] = PartBegin(t)
      BY <1>2, <1>5, <2>3 DEF Start, Goto
    <3>2. t \in Nat /\ PartBegin(t) \in Nat
      BY <1>3, WorkersAssumption DEF Threads
    <3>3. Within(t)' = 0
      BY <1>1, <3>1, <3>2 DEF Within
    <3> QED
      BY <1>3, <1>4, <2>1, <3>1, <3>2, <3>3
  <2> QED
    BY <2>2, <2>3
<1>6. CASE Claim(t)
  <2>1. pc[t] = "claim" /\ part[t] \in Nat /\ Behind(t) = Stride * part[t] + 0 + 1
    BY <1>2, <1>6 DEF Claim, Goto, Behind, Passed
  <2>2. CASE pc'[t] = "loop" /\ part'[t] = part[t] /\ at'[t] = PartBegin(part[t])
    <3>1. Within(t)' = 0
      BY <1>1, <1>3, <2>1, <2>2 DEF Within
    <3> QED
      BY <1>3, <1>4, <2>1, <2>2, <3>1
  <2>3. CASE pc'[t] = "claim" /\ part'[t] = part[t] + 1
    BY <1>3, <1>4, <2>1, <2>3
  <2> QED
    BY <1>2, <1>6, <2>2, <2>3 DEF Claim, Goto
<1>7. CASE NoMoreParts(t)
  <2>1. pc[t] = "claim" /\ part[t] \in Nat /\ Behind(t) = Stride * part[t] + 0 + 1
    BY <1>2, <1>7 DEF NoMoreParts, Goto, Behind, Passed
  <2>2. pc'[t] = "done" /\ part' = part
    BY <1>2, <1>7 DEF NoMoreParts, Goto
  <2> QED
    BY <1>3, <1>4, <2>1, <2>2
<1>8. ASSUME Working(t)
      PROVE  /\ Behind(t) = Stride * part[t] + (1 + Within(t)) + 1 /\ part[t] \in Nat
             /\ Within(t) \in 0 .. 5 * per_part
  BY <1>8, WithinFacts DEF Behind, Passed, Working, Inside
<1>9. CASE Take(t) \/ Find(t) \/ Point(t) \/ Link(t) \/ Back(t)
  <2>1. /\ Working(t) /\ part' = part /\ pc'[t] \in {"loop", "find", "point", "link", "back"}
    BY <1>2, <1>9 DEF Take, Find, Point, Link, Back, Goto, Working, Inside
  <2>2. part[t] \in Nat /\ PartBegin(part[t]) \in Nat /\ at[t] \in Nat
        /\ PartBegin(part[t])' = PartBegin(part[t])
    BY <1>1, <1>2, <1>3, <2>1
  <2>3. Within(t)' = Within(t) + 1
    <3>1. CASE Back(t)
      <4>1. pc[t] = "back" /\ pc'[t] = "loop" /\ at'[t] = at[t] + 1
        BY <1>2, <3>1 DEF Back, Goto
      <4> QED
        BY <2>2, <4>1 DEF Within
    <3>2. CASE ~ Back(t)
      <4>1. /\ at' = at
            /\ \/ pc[t] = "loop"  /\ pc'[t] = "find"
               \/ pc[t] = "find"  /\ pc'[t] = "point"
               \/ pc[t] = "point" /\ pc'[t] = "link"
               \/ pc[t] = "link"  /\ pc'[t] = "back"
        BY <1>2, <1>9, <3>2 DEF Take, Find, Point, Link, Goto
      <4> QED
        BY <2>2, <4>1 DEF Within
    <3> QED
      BY <3>1, <3>2
  <2> QED
    BY <1>3, <1>4, <1>8, <2>1, <2>2, <2>3
<1>10. CASE PartDone(t)
  <2>1. Working(t) /\ pc[t] = "loop"
    BY <1>10 DEF PartDone, Goto, Working
  <2>2. CASE build = "lb"
    <3>1. pc'[t] = "claim" /\ part'[t] = part[t] + 1
      BY <1>2, <1>10, <2>2 DEF PartDone, Goto
    <3> QED
      BY <1>3, <1>4, <1>8, <2>1, <3>1
  <2>3. CASE build # "lb"
    <3>1. pc'[t] = "done" /\ part' = part
      BY <1>2, <1>10, <2>3 DEF PartDone, Goto
    <3> QED
      BY <1>3, <1>4, <1>8, <2>1, <2>3, <3>1
  <2> QED
    BY <2>2, <2>3
<1> QED
  BY <1>5, <1>6, <1>7, <1>9, <1>10 DEF Thread

\* A thread of list.c, in any of the builds, returns after Stride * Worked + 2
\* statements at most, though it may find every part but the first it tries
\* claimed by others; or else SIGSEGV ends them all.
THEOREM WorkersGoOn ==
  WorkersSpec => []InReach /\ [][Join \/ OneGoesOn \/ killed']_workersVars
<1>1. WInv => InReach
  BY WithinReach DEF InReach
<1>2. WInv /\ [WorkersNext]_workersVars => [Join \/ OneGoesOn \/ killed']_workersVars
  <2> SUFFICES ASSUME WInv, NEW t \in Threads, Thread(t), ~ Segfault(t)
               PROVE  OneGoesOn
    BY DEF WorkersNext, Exited, Segfault
  <2>1. ASSUME NEW u \in Threads, u # t PROVE Behind(u)' = Behind(u)
    <3>1. /\ pc'[u] = pc[u] /\ part'[u] = part[u] /\ at'[u] = at[u]
          /\ build' = build /\ numParts' = numParts
      BY <2>1, OthersStay DEF WInv
    <3> QED
      BY <3>1 DEF Behind, Passed, Within, Stride, PartBegin, per_part
  <2> QED
    BY <2>1, GoesFurther DEF OneGoesOn
<1> QED
  BY <1>1, <1>2, WorkersInvariant, PTL DEF WorkersSpec

=============================================================================
