------------------------ MODULE ResultAssertionProofs ------------------------
(***************************************************************************)
(* What the Then steps decide, for every set of values, results and tables: *)
(* if the comparable forms of a value and a cell are equal only for what    *)
(* the author meant, a step passes only on what the table says; if they are *)
(* equal for all of it, such a result is accepted.  The heart is that       *)
(* comparing sorted rows is comparing up to a pairing of the rows.          *)
(***************************************************************************)
EXTENDS ResultAssertion, FiniteSetTheorems, FunctionTheorems, NaturalsInduction,
        WellFoundedInduction, TLAPS

(* The order of texts. *)

LEMMA LeastNumber ==
  ASSUME NEW T \in SUBSET Nat, T # {}
  PROVE  \E t \in T : \A u \in T : t <= u
<1> DEFINE Below == {p \in Nat \X Nat : p[1] < p[2]}
<1>1. IsWellFoundedOn(Below, Nat)
  BY NatLessThanWellFounded DEF OpToRel
<1>2. PICK t \in T : \A u \in T : ~(<<u, t>> \in Below)
  <2> HIDE DEF Below
  <2>. QED
    BY <1>1, WFMin
<1>3. \A u, v \in Nat : u < v => <<u, v>> \in Below
  BY DEF Below
<1> HIDE DEF Below
<1>4. \A u \in T : ~(u < t)
  BY <1>2, <1>3
<1>. QED
  BY <1>4

\* Texts of rows with the same keys are ordered strictly and totally.
LEMMA EarlierOrders ==
  ASSUME NEW D \in SUBSET Keys, NEW x \in [D -> Comparables],
         NEW y \in [D -> Comparables], NEW z \in [D -> Comparables]
  PROVE  /\ ~Earlier(x, x)
         /\ x = y \/ Earlier(x, y) \/ Earlier(y, x)
         /\ Earlier(x, y) /\ Earlier(y, z) => Earlier(x, z)
<1>1. /\ \A c \in Comparables : TextAt[c] \in Nat
      /\ \A c, d \in Comparables : TextAt[c] = TextAt[d] => c = d
      /\ \A k \in D : KeyAt[k] \in Nat
      /\ \A k, j \in D : KeyAt[k] = KeyAt[j] => k = j
  BY ResultAssumption DEF IsInjective
<1>2. \A k \in D : x[k] \in Comparables /\ y[k] \in Comparables /\ z[k] \in Comparables
  OBVIOUS
<1>3. DOMAIN x = D /\ DOMAIN y = D
  OBVIOUS
<1>4. ~Earlier(x, x)
  BY <1>1, <1>2, <1>3 DEF Earlier
<1>5. ASSUME x # y PROVE Earlier(x, y) \/ Earlier(y, x)
  <2> DEFINE T == {KeyAt[k] : k \in {k \in D : x[k] # y[k]}}
  <2>1. \E k \in D : x[k] # y[k]
    BY <1>5
  <2>2. T \in SUBSET Nat /\ T # {}
    BY <1>1, <2>1
  <2>3. PICK t \in T : \A u \in T : t <= u
    <3> HIDE DEF T
    <3>. QED
      BY <2>2, LeastNumber
  <2>4. PICK k \in D : x[k] # y[k] /\ KeyAt[k] = t
    BY <2>3
  <2>5. \A j \in D : KeyAt[j] < KeyAt[k] => x[j] = y[j]
    <3> SUFFICES ASSUME NEW j \in D, KeyAt[j] < KeyAt[k], x[j] # y[j] PROVE FALSE
      OBVIOUS
    <3>1. KeyAt[j] \in T
      OBVIOUS
    <3>. HIDE DEF T
    <3>. QED
      BY <1>1, <2>3, <2>4, <3>1
  <2>6. TextAt[x[k]] < TextAt[y[k]] \/ TextAt[y[k]] < TextAt[x[k]]
    BY <1>1, <1>2, <2>4
  <2>. QED
    BY <1>3, <2>5, <2>6 DEF Earlier
<1>6. ASSUME Earlier(x, y), Earlier(y, z) PROVE Earlier(x, z)
  <2>1. PICK k \in D : TextAt[x[k]] < TextAt[y[k]] /\ \A i \in D : KeyAt[i] < KeyAt[k] => x[i] = y[i]
    BY <1>3, <1>6 DEF Earlier
  <2>2. PICK j \in D : TextAt[y[j]] < TextAt[z[j]] /\ \A i \in D : KeyAt[i] < KeyAt[j] => y[i] = z[i]
    BY <1>3, <1>6 DEF Earlier
  <2>3. CASE KeyAt[k] < KeyAt[j]
    <3>1. TextAt[x[k]] < TextAt[z[k]]
      BY <2>1, <2>2, <2>3
    <3>2. \A i \in D : KeyAt[i] < KeyAt[k] => x[i] = z[i]
      BY <1>1, <2>1, <2>2, <2>3
    <3>. QED
      BY <1>3, <3>1, <3>2 DEF Earlier
  <2>4. CASE KeyAt[j] < KeyAt[k]
    <3>1. TextAt[x[j]] < TextAt[z[j]]
      BY <2>1, <2>2, <2>4
    <3>2. \A i \in D : KeyAt[i] < KeyAt[j] => x[i] = z[i]
      BY <1>1, <2>1, <2>2, <2>4
    <3>. QED
      BY <1>3, <3>1, <3>2 DEF Earlier
  <2>5. CASE k = j
    <3>1. TextAt[x[k]] < TextAt[z[k]]
      BY <1>1, <1>2, <2>1, <2>2, <2>5
    <3>2. \A i \in D : KeyAt[i] < KeyAt[k] => x[i] = z[i]
      BY <2>1, <2>2, <2>5
    <3>. QED
      BY <1>3, <3>1, <3>2 DEF Earlier
  <2>. QED
    BY <1>1, <2>3, <2>4, <2>5
<1>. QED
  BY <1>4, <1>5, <1>6

-----------------------------------------------------------------------------
(* Sorted rows and pairings. *)

LEMMA RowSequence ==
  ASSUME NEW C, NEW n \in Nat, NEW s \in [1..n -> C]
  PROVE  s \in Seq(C) /\ Len(s) = n
  OBVIOUS

LEMMA PairingCovers ==
  ASSUME NEW n \in Nat, NEW p \in Pairings(n)
  PROVE  /\ p \in [1..n -> 1..n] /\ IsInjective(p)
         /\ \A m \in 1..n : \E i \in 1..n : p[i] = m
<1>1. p \in [1..n -> 1..n] /\ IsInjective(p) /\ IsFiniteSet(1..n)
  <2>1. IsFiniteSet(1..n)
    BY FS_Interval
  <2>. QED
    BY <2>1 DEF Pairings
<1>2. p \in Surjection(1..n, 1..n)
  BY <1>1, FS_Injection DEF Injection
<1>. QED
  BY <1>1, <1>2 DEF Surjection

\* The places of a sequence where it has a row of X.
Places(s, X) == {i \in 1..Len(s) : s[i] \in X}

LEMMA PlacesFinite ==
  ASSUME NEW C, NEW s \in Seq(C), NEW S \in SUBSET (1..Len(s))
  PROVE  IsFiniteSet(S) /\ Cardinality(S) \in Nat /\ Cardinality(S) <= Len(s)
<1>1. Len(s) \in Nat /\ IsFiniteSet(1..Len(s)) /\ Cardinality(1..Len(s)) = Len(s)
  BY FS_Interval
<1>. QED
  BY <1>1, FS_Subset, FS_CardinalityType

\* A pairing takes the places of rows of X to their places.
LEMMA PairingKeepsPlaces ==
  ASSUME NEW C, NEW a \in Seq(C), NEW b \in Seq(C), Len(a) = Len(b),
         NEW p \in Pairings(Len(a)), \A i \in 1..Len(a) : a[i] = b[p[i]], NEW X
  PROVE  Cardinality(Places(a, X)) = Cardinality(Places(b, X))
<1> DEFINE S == Places(a, X)
           T == Places(b, X)
           f == [i \in S |-> p[i]]
<1>1. /\ p \in [1..Len(a) -> 1..Len(a)] /\ IsInjective(p)
      /\ \A m \in 1..Len(a) : \E i \in 1..Len(a) : p[i] = m
  BY PairingCovers
<1>2. f \in [S -> T]
  BY <1>1 DEF Places
<1>3. IsInjective(f)
  BY <1>1 DEF IsInjective, Places
<1>4. \A m \in T : \E i \in S : f[i] = m
  BY <1>1 DEF Places
<1>5. ExistsBijection(S, T)
  BY <1>2, <1>3, <1>4 DEF ExistsBijection, Bijection, Injection, Surjection
<1>6. S \in SUBSET (1..Len(a)) /\ T \in SUBSET (1..Len(b))
  BY DEF Places
<1>. HIDE DEF S, T
<1>7. IsFiniteSet(S)
  BY <1>6, PlacesFinite
<1>8. Cardinality(S) = Cardinality(T)
  BY <1>5, <1>7, FS_Bijection
<1>. QED
  BY <1>8 DEF S, T

\* The positions that sorting gives to the rows are a pairing of the places
\* before and after it.
LEMMA PositionsPair ==
  ASSUME NEW D \in SUBSET Keys, NEW s \in Seq([D -> Comparables])
  PROVE  /\ [i \in 1..Len(s) |-> Position(s, i)] \in Pairings(Len(s))
         /\ \A i \in 1..Len(s) :
              /\ Position(s, i) \in 1..Len(s) /\ SortedRows(s)[Position(s, i)] = s[i]
         /\ \A n \in 1..Len(s) : \E i \in 1..Len(s) : Position(s, i) = n
<1> DEFINE n == Len(s)
           Before(j, i) == Earlier(s[j], s[i]) \/ (s[j] = s[i] /\ j <= i)
           Ahead(i) == {j \in 1..n : Before(j, i)}
           q == [i \in 1..n |-> Position(s, i)]
<1>1. /\ n \in Nat
      /\ \A i, j, k \in 1..n :
           /\ ~Earlier(s[i], s[i])
           /\ s[i] = s[j] \/ Earlier(s[i], s[j]) \/ Earlier(s[j], s[i])
           /\ Earlier(s[i], s[j]) /\ Earlier(s[j], s[k]) => Earlier(s[i], s[k])
  <2>1. ASSUME NEW i \in 1..n, NEW j \in 1..n, NEW k \in 1..n
        PROVE  /\ ~Earlier(s[i], s[i])
               /\ s[i] = s[j] \/ Earlier(s[i], s[j]) \/ Earlier(s[j], s[i])
               /\ Earlier(s[i], s[j]) /\ Earlier(s[j], s[k]) => Earlier(s[i], s[k])
    <3>1. s[i] \in [D -> Comparables] /\ s[j] \in [D -> Comparables] /\ s[k] \in [D -> Comparables]
      OBVIOUS
    <3>. QED
      BY <3>1, EarlierOrders
  <2>. QED
    BY <2>1
<1>2. \A i \in 1..n : Position(s, i) = Cardinality(Ahead(i)) /\ Ahead(i) \in SUBSET (1..n)
  BY DEF Position
<1>3. \A i \in 1..n : IsFiniteSet(Ahead(i)) /\ Cardinality(Ahead(i)) \in Nat /\ Cardinality(Ahead(i)) <= n
  <2>. HIDE DEF Ahead
  <2>. QED
    BY <1>2, PlacesFinite
<1>4. \A i, j \in 1..n : Before(i, j) \/ Before(j, i)
  BY <1>1
<1>5. ASSUME NEW i \in 1..n, NEW j \in 1..n, i # j, Before(i, j)
      PROVE  Cardinality(Ahead(i)) < Cardinality(Ahead(j))
  <2>1. Ahead(i) \subseteq Ahead(j)
    <3> SUFFICES ASSUME NEW k \in 1..n, Before(k, i) PROVE Before(k, j)
      OBVIOUS
    <3>. QED
      BY <1>1, <1>5
  <2>2. j \in Ahead(j)
    OBVIOUS
  <2>3. j \notin Ahead(i)
    <3> SUFFICES ASSUME Before(j, i) PROVE FALSE
      OBVIOUS
    <3>1. CASE s[i] = s[j]
      BY <1>1, <1>5, <3>1
    <3>2. CASE s[i] # s[j]
      BY <1>1, <1>5, <3>2
    <3>. QED
      BY <3>1, <3>2
  <2>. HIDE DEF Ahead, Before
  <2>. QED
    BY <1>3, <2>1, <2>2, <2>3, FS_Subset
<1>6. \A i \in 1..n : Position(s, i) \in 1..n
  <2> SUFFICES ASSUME NEW i \in 1..n PROVE Cardinality(Ahead(i)) \in 1..n
    BY <1>2
  <2>1. i \in Ahead(i)
    OBVIOUS
  <2>2. Cardinality(Ahead(i)) # 0
    <3>. HIDE DEF Ahead
    <3>. QED
      BY <1>3, <2>1, FS_EmptySet
  <2>. HIDE DEF Ahead
  <2>. QED
    BY <1>1, <1>3, <2>2
<1>7. q \in Pairings(n)
  <2>1. ASSUME NEW i \in 1..n, NEW j \in 1..n, q[i] = q[j] PROVE i = j
    <3>1. Cardinality(Ahead(i)) = Cardinality(Ahead(j))
      BY <1>2, <2>1
    <3>. HIDE DEF Ahead, Before
    <3>. QED
      BY <1>3, <1>4, <1>5, <3>1
  <2>2. q \in [1..n -> 1..n]
    BY <1>6
  <2>3. IsInjective(q)
    BY <2>1 DEF IsInjective
  <2>. QED
    BY <2>2, <2>3 DEF Pairings
<1>8. \A m \in 1..n : \E i \in 1..n : Position(s, i) = m
  <2>1. \A m \in 1..n : \E i \in 1..n : q[i] = m
    <3>. HIDE DEF q
    <3>. QED
      BY <1>1, <1>7, PairingCovers
  <2>. QED
    BY <2>1
<1>9. ASSUME NEW i \in 1..n PROVE SortedRows(s)[Position(s, i)] = s[i]
  <2> DEFINE c == CHOOSE j \in 1..n : Position(s, j) = Position(s, i)
  <2>1. c \in 1..n /\ Position(s, c) = Position(s, i)
    OBVIOUS
  <2>. HIDE DEF c
  <2>2. q \in [1..n -> 1..n] /\ IsInjective(q) /\ q[c] = Position(s, c) /\ q[i] = Position(s, i)
    BY <1>7, <2>1 DEF Pairings
  <2>3. c = i
    BY <2>1, <2>2 DEF IsInjective
  <2>4. SortedRows(s)[Position(s, i)] = s[c]
    BY <1>6 DEF SortedRows, c
  <2>. QED
    BY <2>3, <2>4
<1>. QED
  BY <1>6, <1>7, <1>8, <1>9

\* Rows that are equal when sorted can be paired off: each with the one that
\* sorting puts at its own place.
LEMMA SortedGivePairing ==
  ASSUME NEW D \in SUBSET Keys, NEW a \in Seq([D -> Comparables]), NEW b \in Seq([D -> Comparables]),
         CompareAnyOrder(a, b)
  PROVE  \E p \in Pairings(Len(a)) : \A i \in 1..Len(a) : a[i] = b[p[i]]
<1> DEFINE n == Len(a)
           p == [i \in 1..n |-> CHOOSE m \in 1..n : Position(b, m) = Position(a, i)]
<1>1. Len(b) = n /\ n \in Nat /\ SortedRows(a) = SortedRows(b)
  BY DEF CompareAnyOrder
<1>2. \A i \in 1..n : Position(a, i) \in 1..n
  BY PositionsPair
<1>3. \A i \in 1..n : p[i] \in 1..n /\ Position(b, p[i]) = Position(a, i)
  <2>1. \A m \in 1..n : \E i \in 1..n : Position(b, i) = m
    BY <1>1, PositionsPair
  <2>. QED
    BY <1>2, <2>1
<1>. HIDE DEF p
<1>4. \A i \in 1..n : a[i] = b[p[i]]
  <2> SUFFICES ASSUME NEW i \in 1..n PROVE a[i] = b[p[i]]
    OBVIOUS
  <2>1. SortedRows(a)[Position(a, i)] = a[i]
    BY PositionsPair
  <2>2. SortedRows(b)[Position(b, p[i])] = b[p[i]]
    <3>1. p[i] \in 1..Len(b)
      BY <1>1, <1>3
    <3>. QED
      BY <3>1, PositionsPair
  <2>. QED
    BY <1>1, <1>3, <2>1, <2>2
<1>5. \A i, j \in 1..n : p[i] = p[j] => i = j
  <2> DEFINE q == [i \in 1..n |-> Position(a, i)]
  <2>1. q \in Pairings(n)
    BY PositionsPair
  <2>2. \A i, j \in 1..n : q[i] = q[j] => i = j
    <3>1. IsInjective(q) /\ DOMAIN q = 1..n
      BY <2>1 DEF Pairings
    <3>. QED
      BY <3>1 DEF IsInjective
  <2>3. \A i \in 1..n : q[i] = Position(a, i)
    OBVIOUS
  <2>. HIDE DEF q
  <2>. QED
    BY <1>3, <2>2, <2>3
<1>6. p \in Pairings(n)
  <2>1. p \in [1..n -> 1..n]
    BY <1>3 DEF p
  <2>. QED
    BY <1>5, <2>1 DEF Pairings, IsInjective
<1>. QED
  BY <1>4, <1>6

\* The place of a row after sorting lies behind all rows with earlier texts,
\* and within those whose text is no later.
LEMMA PositionBetween ==
  ASSUME NEW D \in SUBSET Keys, NEW s \in Seq([D -> Comparables]), NEW i \in 1..Len(s),
         NEW X, X = {c \in [D -> Comparables] : Earlier(c, s[i])}
  PROVE  /\ Cardinality(Places(s, X)) < Position(s, i)
         /\ Position(s, i) <= Cardinality(Places(s, X \cup {s[i]}))
         /\ Cardinality(Places(s, X)) \in Nat /\ Position(s, i) \in Nat
         /\ Cardinality(Places(s, X \cup {s[i]})) \in Nat
<1> DEFINE A == {j \in 1..Len(s) : Earlier(s[j], s[i]) \/ (s[j] = s[i] /\ j <= i)}
           B == Places(s, X)
           U == Places(s, X \cup {s[i]})
<1>1. Position(s, i) = Cardinality(A)
  BY DEF Position
<1>2. \A j \in 1..Len(s) : s[j] \in [D -> Comparables]
  OBVIOUS
<1>3. B \subseteq A /\ A \subseteq U /\ i \in A
  BY <1>2 DEF Places
<1>4. i \notin B
  BY <1>2, EarlierOrders DEF Places
<1>5. A \in SUBSET (1..Len(s)) /\ B \in SUBSET (1..Len(s)) /\ U \in SUBSET (1..Len(s))
  BY DEF Places
<1>. HIDE DEF A, B, U
<1>6. /\ IsFiniteSet(A) /\ IsFiniteSet(B) /\ IsFiniteSet(U)
      /\ Cardinality(A) \in Nat /\ Cardinality(B) \in Nat /\ Cardinality(U) \in Nat
  BY <1>5, PlacesFinite
<1>7. Cardinality(B) < Cardinality(A) /\ Cardinality(A) <= Cardinality(U)
  <2>1. Cardinality(B) <= Cardinality(A) /\ Cardinality(B) # Cardinality(A)
    BY <1>3, <1>4, <1>6, FS_Subset
  <2>2. Cardinality(A) <= Cardinality(U)
    BY <1>3, <1>6, FS_Subset
  <2>. QED
    BY <1>6, <2>1, <2>2
<1>. QED
  BY <1>1, <1>6, <1>7 DEF B, U

\* Of paired rows none is sorted to the place of a later one of the others.
LEMMA PairedNotLater ==
  ASSUME NEW D \in SUBSET Keys, NEW a \in Seq([D -> Comparables]), NEW b \in Seq([D -> Comparables]),
         \A X : Cardinality(Places(a, X)) = Cardinality(Places(b, X)),
         NEW i \in 1..Len(a), NEW m \in 1..Len(b), Position(a, i) = Position(b, m)
  PROVE  ~Earlier(a[i], b[m])
<1> SUFFICES ASSUME Earlier(a[i], b[m]) PROVE FALSE
  OBVIOUS
<1> DEFINE C == [D -> Comparables]
           X == {c \in C : Earlier(c, a[i])}
           Y == {c \in C : Earlier(c, b[m])}
<1>1. a[i] \in C /\ b[m] \in C
  OBVIOUS
<1>2. /\ Position(a, i) <= Cardinality(Places(a, X \cup {a[i]})) /\ Position(a, i) \in Nat
      /\ Cardinality(Places(a, X \cup {a[i]})) \in Nat
  BY PositionBetween
<1>3. Cardinality(Places(b, Y)) < Position(b, m) /\ Cardinality(Places(b, Y)) \in Nat
  BY PositionBetween
<1>4. X \cup {a[i]} \subseteq Y
  BY <1>1, EarlierOrders
<1>. HIDE DEF X, Y, C
<1>5. Places(b, X \cup {a[i]}) \subseteq Places(b, Y)
  BY <1>4 DEF Places
<1>6. Places(b, Y) \in SUBSET (1..Len(b))
  BY DEF Places
<1>7. Cardinality(Places(b, X \cup {a[i]})) <= Cardinality(Places(b, Y))
  BY <1>5, <1>6, PlacesFinite, FS_Subset
<1>8. Cardinality(Places(b, X \cup {a[i]})) = Cardinality(Places(a, X \cup {a[i]}))
  OBVIOUS
<1>. QED
  BY <1>2, <1>3, <1>7, <1>8

\* And the other way round: rows that can be paired off are equal when sorted.
LEMMA PairingGivesSorted ==
  ASSUME NEW D \in SUBSET Keys, NEW a \in Seq([D -> Comparables]), NEW b \in Seq([D -> Comparables]),
         Len(a) = Len(b), NEW p \in Pairings(Len(a)), \A i \in 1..Len(a) : a[i] = b[p[i]]
  PROVE  CompareAnyOrder(a, b)
<1> DEFINE n == Len(a)
           C == [D -> Comparables]
<1>1. \A X : Cardinality(Places(a, X)) = Cardinality(Places(b, X))
  <2>. HIDE DEF C
  <2>1. a \in Seq(C) /\ b \in Seq(C)
    BY DEF C
  <2>. QED
    BY <2>1, PairingKeepsPlaces
<1>2. ASSUME NEW k \in 1..n PROVE SortedRows(a)[k] = SortedRows(b)[k]
  <2>1. PICK i \in 1..n : Position(a, i) = k /\ SortedRows(a)[k] = a[i]
    <3>1. PICK i \in 1..n : Position(a, i) = k
      BY PositionsPair
    <3>2. SortedRows(a)[Position(a, i)] = a[i]
      BY PositionsPair
    <3>. QED
      BY <3>1, <3>2
  <2>2. PICK m \in 1..n : Position(b, m) = k /\ SortedRows(b)[k] = b[m]
    <3>1. PICK m \in 1..Len(b) : Position(b, m) = k
      BY PositionsPair
    <3>2. SortedRows(b)[Position(b, m)] = b[m]
      BY PositionsPair
    <3>. QED
      BY <3>1, <3>2
  <2>3. ~Earlier(a[i], b[m]) /\ ~Earlier(b[m], a[i])
    <3>1. ~Earlier(a[i], b[m])
      BY <1>1, <2>1, <2>2, PairedNotLater
    <3>2. ~Earlier(b[m], a[i])
      BY <1>1, <2>1, <2>2, PairedNotLater
    <3>. QED
      BY <3>1, <3>2
  <2>4. a[i] \in C /\ b[m] \in C
    OBVIOUS
  <2>. QED
    BY <2>1, <2>2, <2>3, <2>4, EarlierOrders
<1>3. SortedRows(a) = SortedRows(b)
  <2>1. DOMAIN SortedRows(a) = 1..n /\ DOMAIN SortedRows(b) = 1..n
    BY DEF SortedRows
  <2>2. SortedRows(a) = [k \in 1..n |-> SortedRows(a)[k]]
    BY DEF SortedRows
  <2>3. SortedRows(b) = [k \in 1..n |-> SortedRows(b)[k]]
    BY DEF SortedRows
  <2>. QED
    BY <1>2, <2>2, <2>3
<1>. QED
  BY <1>3 DEF CompareAnyOrder

\* So comparisons that do not look at the order come out the same on rows in
\* another order.
LEMMA OrderIgnored ==
  ASSUME NEW D \in SUBSET Keys, NEW s \in Seq([D -> Comparables]), NEW e \in Seq([D -> Comparables]),
         NEW p \in Pairings(Len(s))
  PROVE  /\ CompareAnyOrder(Reordered(s, p), e) <=> CompareAnyOrder(s, e)
         /\ CompareContains(Reordered(s, p), e) <=> CompareContains(s, e)
<1> DEFINE n == Len(s)
           r == Reordered(s, p)
<1>1. n \in Nat /\ p \in [1..n -> 1..n] /\ \A m \in 1..n : \E i \in 1..n : p[i] = m
  BY PairingCovers
<1>2. r \in [1..n -> [D -> Comparables]] /\ \A i \in 1..n : r[i] = s[p[i]]
  BY <1>1 DEF Reordered
<1>. HIDE DEF r
<1>3. r \in Seq([D -> Comparables]) /\ Len(r) = n
  BY <1>1, <1>2, RowSequence
<1>4. SortedRows(r) = SortedRows(s)
  BY <1>2, <1>3, PairingGivesSorted DEF CompareAnyOrder
<1>5. CompareAnyOrder(r, e) <=> CompareAnyOrder(s, e)
  BY <1>3, <1>4 DEF CompareAnyOrder
<1>6. \A x : (\E i \in 1..n : r[i] = x) <=> (\E i \in 1..n : s[i] = x)
  <2>1. ASSUME NEW i \in 1..n PROVE \E m \in 1..n : s[m] = r[i]
    <3>1. p[i] \in 1..n
      BY <1>1
    <3>. QED
      BY <1>2, <3>1
  <2>2. ASSUME NEW m \in 1..n PROVE \E i \in 1..n : r[i] = s[m]
    <3>1. PICK i \in 1..n : p[i] = m
      BY <1>1
    <3>. QED
      BY <1>2, <3>1
  <2>. QED
    BY <2>1, <2>2
<1>7. CompareContains(r, e) <=> CompareContains(s, e)
  BY <1>3, <1>6 DEF CompareContains
<1>. QED
  BY <1>5, <1>7 DEF r

-----------------------------------------------------------------------------
(* Rows of the result and of the table. *)

LEMMA SeqRange ==
  ASSUME NEW C, NEW s \in Seq(C)
  PROVE  /\ Len(s) \in Nat /\ \A i \in 1..Len(s) : s[i] \in Range(s) /\ s[i] \in C
         /\ \A x \in Range(s) : \E i \in 1..Len(s) : s[i] = x
<1>1. DOMAIN s = 1..Len(s) /\ Len(s) \in Nat
  OBVIOUS
<1>. QED
  BY <1>1 DEF Range

LEMMA TableTyped ==
  ASSUME NEW t \in Tables
  PROVE  /\ t.header \in Seq(Keys) /\ t.rows \in Seq(Seq(Cells))
         /\ t.written \in Seq([1..Len(t.header) -> Values])
         /\ Len(t.rows) \in Nat /\ Len(t.written) = Len(t.rows) /\ Len(t.header) \in Nat
<1>1. TableType(t)
  BY ResultAssumption
<1>. QED
  BY <1>1 DEF TableType

LEMMA ResultTyped ==
  ASSUME result \in Results
  PROVE  /\ result.keys \in Seq(Keys) /\ IsInjective(result.keys)
         /\ result.records \in Seq([Range(result.keys) -> Values])
         /\ Len(result.records) \in Nat
         /\ \A n \in 1..Len(result.records) : result.records[n] \in [Range(result.keys) -> Values]
<1>1. ResultType(result)
  BY ResultAssumption
<1>2. /\ result.keys \in Seq(Keys) /\ IsInjective(result.keys)
      /\ result.records \in Seq([Range(result.keys) -> Values])
  BY <1>1 DEF ResultType
<1>. QED
  BY <1>2

LEMMA RowsTyped ==
  ASSUME result \in Results, NEW t \in Tables
  PROVE  /\ NormalizeActual(t) \in Seq(RowsOf(t.header)) /\ Len(NormalizeActual(t)) = Len(result.records)
         /\ NormalizeExpected(t) \in Seq(RowsOf(t.header)) /\ Len(NormalizeExpected(t)) = Len(t.rows)
         /\ Len(result.records) \in Nat /\ Len(t.rows) \in Nat /\ Len(t.written) \in Nat
<1>1. /\ result.records \in Seq([Range(result.keys) -> Values])
      /\ t.header \in Seq(Keys) /\ t.rows \in Seq(Seq(Cells))
      /\ Len(result.records) \in Nat /\ Len(t.rows) \in Nat /\ Len(t.written) \in Nat
  BY ResultTyped, TableTyped
<1>2. \A c \in Cells : Expected[c] \in Comparables
  BY ResultAssumption
<1>3. ASSUME NEW n \in 1..Len(result.records)
      PROVE  NormalizeActual(t)[n] \in RowsOf(t.header)
  <2>1. result.records[n] \in [Range(result.keys) -> Values]
    BY ResultTyped
  <2>2. \A k \in Range(t.header) :
          (IF k \in DOMAIN result.records[n] THEN Actual[result.records[n][k]] ELSE Expected[Blank])
            \in Comparables
    BY <2>1, <1>2, ResultAssumption
  <2>. QED
    BY <2>2 DEF NormalizeActual, RowsOf
<1>4. ASSUME NEW n \in 1..Len(t.rows)
      PROVE  NormalizeExpected(t)[n] \in RowsOf(t.header)
  <2>1. t.rows[n] \in Seq(Cells)
    BY <1>1
  <2>2. \A i \in 1..Len(t.header) : Cell(t.rows[n], i) \in Cells
    BY <2>1, ResultAssumption DEF Cell
  <2>3. \A k \in Range(t.header) : (CHOOSE i \in 1..Len(t.header) : t.header[i] = k) \in 1..Len(t.header)
    BY <1>1, SeqRange
  <2>4. \A k \in Range(t.header) :
          Expected[Cell(t.rows[n], CHOOSE i \in 1..Len(t.header) : t.header[i] = k)] \in Comparables
    BY <2>2, <2>3, <1>2
  <2>. QED
    BY <2>4 DEF NormalizeExpected, RowsOf
<1>5. NormalizeActual(t) \in Seq(RowsOf(t.header)) /\ Len(NormalizeActual(t)) = Len(result.records)
  <2> DEFINE A == NormalizeActual(t)
  <2>1. DOMAIN A = 1..Len(result.records) /\ A = [n \in 1..Len(result.records) |-> A[n]]
    BY DEF NormalizeActual
  <2>2. \A n \in 1..Len(result.records) : A[n] \in RowsOf(t.header)
    BY <1>3
  <2>. HIDE DEF A
  <2>3. A \in Seq(RowsOf(t.header)) /\ Len(A) = Len(result.records)
    <3>1. A \in [1..Len(result.records) -> RowsOf(t.header)]
      BY <2>1, <2>2
    <3>. QED
      BY <1>1, <3>1, RowSequence
  <2>. QED
    BY <2>3 DEF A
<1>6. NormalizeExpected(t) \in Seq(RowsOf(t.header)) /\ Len(NormalizeExpected(t)) = Len(t.rows)
  <2> DEFINE E == NormalizeExpected(t)
  <2>1. DOMAIN E = 1..Len(t.rows) /\ E = [n \in 1..Len(t.rows) |-> E[n]]
    BY DEF NormalizeExpected
  <2>2. \A n \in 1..Len(t.rows) : E[n] \in RowsOf(t.header)
    BY <1>4
  <2>. HIDE DEF E
  <2>3. E \in Seq(RowsOf(t.header)) /\ Len(E) = Len(t.rows)
    <3>1. E \in [1..Len(t.rows) -> RowsOf(t.header)]
      BY <2>1, <2>2
    <3>. QED
      BY <1>1, <3>1, RowSequence
  <2>. QED
    BY <2>3 DEF E
<1>. QED
  BY <1>1, <1>5, <1>6

LEMMA RowKeys ==
  ASSUME NEW t \in Tables
  PROVE  Range(t.header) \in SUBSET Keys /\ RowsOf(t.header) = [Range(t.header) -> Comparables]
<1>1. t.header \in Seq(Keys)
  BY TableTyped
<1>. QED
  BY <1>1, SeqRange DEF RowsOf

LEMMA SortedRowsPair ==
  ASSUME NEW t \in Tables, NEW a \in Seq(RowsOf(t.header)), NEW b \in Seq(RowsOf(t.header)),
         CompareAnyOrder(a, b)
  PROVE  \E p \in Pairings(Len(a)) : \A i \in 1..Len(a) : a[i] = b[p[i]]
<1> DEFINE D == Range(t.header)
<1>1. D \in SUBSET Keys /\ RowsOf(t.header) = [D -> Comparables]
  BY RowKeys
<1>. HIDE DEF D
<1>2. a \in Seq([D -> Comparables]) /\ b \in Seq([D -> Comparables])
  BY <1>1
<1>. QED
  BY <1>1, <1>2, SortedGivePairing

LEMMA PairedRowsSort ==
  ASSUME NEW t \in Tables, NEW a \in Seq(RowsOf(t.header)), NEW b \in Seq(RowsOf(t.header)),
         Len(a) = Len(b), NEW p \in Pairings(Len(a)), \A i \in 1..Len(a) : a[i] = b[p[i]]
  PROVE  CompareAnyOrder(a, b)
<1> DEFINE D == Range(t.header)
<1>1. D \in SUBSET Keys /\ RowsOf(t.header) = [D -> Comparables]
  BY RowKeys
<1>. HIDE DEF D
<1>2. a \in Seq([D -> Comparables]) /\ b \in Seq([D -> Comparables])
  BY <1>1
<1>. QED
  BY <1>1, <1>2, PairingGivesSorted

\* Under matching headers, two rows are equal when their cells are.
LEMMA RowsEqual ==
  ASSUME result \in Results, NEW t \in Tables, HeadersMatch(t),
         NEW n \in 1..Len(result.records), NEW m \in 1..Len(t.rows)
  PROVE  NormalizeActual(t)[n] = NormalizeExpected(t)[m]
         <=> \A i \in 1..Len(t.header) :
               /\ result.records[n][t.header[i]] \in Values
               /\ Actual[result.records[n][t.header[i]]] = Expected[Cell(t.rows[m], i)]
<1> DEFINE r == result.records[n]
           At(k) == CHOOSE i \in 1..Len(t.header) : t.header[i] = k
<1>1. /\ result.keys \in Seq(Keys) /\ IsInjective(result.keys)
      /\ r \in [Range(result.keys) -> Values] /\ t.header \in Seq(Keys)
  BY ResultTyped, TableTyped
<1>2. IsInjective(t.header) /\ Range(t.header) \subseteq Range(result.keys)
  <2>1. CASE t.header = <<>>
    BY <2>1 DEF IsInjective, Range
  <2>2. CASE result.keys = t.header
    BY <1>1, <2>2
  <2>. QED
    BY <2>1, <2>2 DEF HeadersMatch
<1>3. \A i \in 1..Len(t.header) :
        t.header[i] \in Range(t.header) /\ At(t.header[i]) = i /\ r[t.header[i]] \in Values
  <2>1. ASSUME NEW i \in 1..Len(t.header)
        PROVE  t.header[i] \in Range(t.header) /\ At(t.header[i]) = i /\ r[t.header[i]] \in Values
    <3>1. t.header[i] \in Range(t.header) /\ DOMAIN t.header = 1..Len(t.header)
      BY <1>1, SeqRange
    <3>2. At(t.header[i]) \in 1..Len(t.header) /\ t.header[At(t.header[i])] = t.header[i]
      OBVIOUS
    <3>3. At(t.header[i]) = i
      BY <1>2, <3>1, <3>2 DEF IsInjective
    <3>. QED
      BY <1>1, <1>2, <3>1, <3>3
  <2>. QED
    BY <2>1
<1>4. \A k \in Range(t.header) : \E i \in 1..Len(t.header) : k = t.header[i]
  BY <1>1, SeqRange
<1>5. /\ NormalizeActual(t)[n] = [k \in Range(t.header) |-> Actual[r[k]]]
      /\ NormalizeExpected(t)[m] = [k \in Range(t.header) |-> Expected[Cell(t.rows[m], At(k))]]
  BY <1>1, <1>2 DEF NormalizeActual, NormalizeExpected
<1>. HIDE DEF At
<1>6. NormalizeActual(t)[n] = NormalizeExpected(t)[m]
      <=> \A k \in Range(t.header) : Actual[r[k]] = Expected[Cell(t.rows[m], At(k))]
  BY <1>5
<1>7. (\A k \in Range(t.header) : Actual[r[k]] = Expected[Cell(t.rows[m], At(k))])
      <=> \A i \in 1..Len(t.header) : Actual[r[t.header[i]]] = Expected[Cell(t.rows[m], i)]
  <2>1. ASSUME \A k \in Range(t.header) : Actual[r[k]] = Expected[Cell(t.rows[m], At(k))],
               NEW i \in 1..Len(t.header)
        PROVE  Actual[r[t.header[i]]] = Expected[Cell(t.rows[m], i)]
    <3>1. t.header[i] \in Range(t.header) /\ At(t.header[i]) = i
      BY <1>3
    <3>2. Actual[r[t.header[i]]] = Expected[Cell(t.rows[m], At(t.header[i]))]
      BY <2>1, <3>1
    <3>. QED
      BY <3>1, <3>2
  <2>2. ASSUME \A i \in 1..Len(t.header) : Actual[r[t.header[i]]] = Expected[Cell(t.rows[m], i)],
               NEW k \in Range(t.header)
        PROVE  Actual[r[k]] = Expected[Cell(t.rows[m], At(k))]
    <3>1. PICK i \in 1..Len(t.header) : k = t.header[i]
      BY <1>4
    <3>2. At(k) = i
      BY <1>3, <3>1
    <3>. QED
      BY <2>2, <3>1, <3>2
  <2>. QED
    BY <2>1, <2>2
<1>. QED
  BY <1>3, <1>6, <1>7

LEMMA EqualRowsMean ==
  ASSUME ComparableSound, result \in Results, NEW t \in Tables, HeadersMatch(t),
         NEW n \in 1..Len(result.records), NEW m \in 1..Len(t.rows),
         NormalizeActual(t)[n] = NormalizeExpected(t)[m]
  PROVE  RowSame(Alike, t, result.records[n], t.written[m])
<1> DEFINE r == result.records[n]
<1> SUFFICES ASSUME NEW i \in 1..Len(t.header)
             PROVE  <<r[t.header[i]], t.written[m][i]>> \in Alike
  BY DEF RowSame
<1>1. r[t.header[i]] \in Values /\ Actual[r[t.header[i]]] = Expected[Cell(t.rows[m], i)]
  BY RowsEqual
<1>2. \A v \in Values : Actual[v] = Expected[Cell(t.rows[m], i)] => <<v, t.written[m][i]>> \in Alike
  BY DEF ComparableSound
<1>. QED
  BY <1>1, <1>2

\* Under matching headers the columns of a table are columns of the records.
LEMMA ColumnValues ==
  ASSUME result \in Results, NEW t \in Tables, t.header = <<>> \/ t.header = result.keys,
         NEW n \in 1..Len(result.records), NEW i \in 1..Len(t.header)
  PROVE  result.records[n][t.header[i]] \in Values
<1>1. /\ result.records[n] \in [Range(result.keys) -> Values]
      /\ t.header \in Seq(Keys) /\ result.keys \in Seq(Keys)
  BY ResultTyped, TableTyped
<1>2. t.header = result.keys
  OBVIOUS
<1>3. t.header[i] \in Range(result.keys)
  BY <1>1, <1>2, SeqRange
<1>. QED
  BY <1>1, <1>3

LEMMA CellTyped ==
  ASSUME NEW row \in Seq(Cells), NEW h \in Seq(Keys), NEW i \in 1..Len(h)
  PROVE  Cell(row, i) \in Cells
<1>1. i <= Len(row) => row[i] \in Cells
  OBVIOUS
<1>. QED
  BY <1>1, ResultAssumption DEF Cell

LEMMA MeantRowsEqual ==
  ASSUME ComparableComplete, result \in Results, NEW t \in Tables, NEW kind, HeadersMatch(t),
         ReadableTable(kind, t),
         NEW n \in 1..Len(result.records), NEW m \in 1..Len(t.rows),
         RowSame(IF kind = "ignoring list order" THEN Alike ELSE Same, t,
                 result.records[n], t.written[m])
  PROVE  NormalizeActual(t)[n] = NormalizeExpected(t)[m]
<1> DEFINE r == result.records[n]
<1>1. /\ t.rows \in Seq(Seq(Cells)) /\ t.written \in Seq([1..Len(t.header) -> Values])
      /\ Len(t.written) = Len(t.rows)
  BY TableTyped
<1>2. SUFFICES ASSUME NEW i \in 1..Len(t.header)
               PROVE  r[t.header[i]] \in Values /\ Actual[r[t.header[i]]] = Expected[Cell(t.rows[m], i)]
  BY RowsEqual
<1>3. r[t.header[i]] \in Values
  BY ColumnValues DEF HeadersMatch
<1>4. t.written[m] \in [1..Len(t.header) -> Values] /\ t.rows[m] \in Seq(Cells)
  <2>1. t.rows[m] \in Seq(Cells)
    BY <1>1, SeqRange
  <2>2. m \in 1..Len(t.written)
    BY <1>1
  <2>3. t.written[m] \in [1..Len(t.header) -> Values]
    BY <1>1, <2>2, SeqRange
  <2>. QED
    BY <2>1, <2>3
<1>5. t.written[m][i] \in Values /\ Cell(t.rows[m], i) \in Cells
  <2>1. Cell(t.rows[m], i) \in Cells
    BY <1>4, TableTyped, CellTyped
  <2>. QED
    BY <1>4, <2>1
<1>6. /\ <<Cell(t.rows[m], i), t.written[m][i]>> \in Readable
      /\ kind = "ignoring list order" => t.written[m][i] \in Sortable
  BY <1>1 DEF ReadableTable
<1>7. IF kind = "ignoring list order" THEN <<r[t.header[i]], t.written[m][i]>> \in Alike
      ELSE <<r[t.header[i]], t.written[m][i]>> \in Same
  BY DEF RowSame
<1>8. Actual[r[t.header[i]]] = Expected[Cell(t.rows[m], i)]
  BY <1>3, <1>5, <1>6, <1>7 DEF ComparableComplete
<1>. QED
  BY <1>3, <1>8

-----------------------------------------------------------------------------
(* What a verdict says. *)

\* With an empty header there is nothing to compare but the number of rows,
\* and HeadersMatch is the first condition of MeansIn.
LEMMA PassMeans ==
  ASSUME ComparableSound, result \in Results, NEW t \in Tables, NEW kind \in TableKinds,
         Passes(kind, t)
  PROVE  MeansIn(Alike, kind, t)
<1> DEFINE A == NormalizeActual(t)
           E == NormalizeExpected(t)
           n == Len(result.records)
           RowIs(i, j) == RowSame(Alike, t, result.records[i], t.written[j])
<1>1. /\ A \in Seq(RowsOf(t.header)) /\ E \in Seq(RowsOf(t.header))
      /\ Len(A) = n /\ Len(E) = Len(t.rows) /\ n \in Nat /\ Len(t.rows) \in Nat
      /\ Len(t.rows) = Len(t.written)
  BY RowsTyped, TableTyped
<1>2. HeadersMatch(t)
  BY DEF Passes, TableKinds, Kinds
<1>3. ASSUME NEW i \in 1..n, NEW j \in 1..Len(t.rows), A[i] = E[j] PROVE RowIs(i, j)
  BY <1>2, <1>3, EqualRowsMean
<1>4. t.header = <<>> \/ t.header = result.keys
  BY <1>2 DEF HeadersMatch
<1>5. CASE kind = "in order"
  <2>1. Len(A) = Len(E) /\ \A i \in 1..Len(A) : A[i] = E[i]
    BY <1>5 DEF Passes, CompareInOrder
  <2>2. n = Len(t.written) /\ \A i \in 1..n : RowIs(i, i)
    BY <1>1, <1>3, <2>1
  <2>. QED
    BY <1>4, <1>5, <2>2 DEF MeansIn
<1>6. CASE kind \in {"any order", "ignoring list order"}
  <2>1. CompareAnyOrder(A, E)
    BY <1>6 DEF Passes
  <2>2. PICK p \in Pairings(n) : \A i \in 1..n : A[i] = E[p[i]]
    BY <1>1, <2>1, SortedRowsPair
  <2>3. n = Len(t.rows) /\ p \in [1..n -> 1..n]
    BY <1>1, <2>1 DEF CompareAnyOrder, Pairings
  <2>4. \A i \in 1..n : RowIs(i, p[i])
    BY <1>3, <2>2, <2>3
  <2>. QED
    BY <1>1, <1>4, <1>6, <2>3, <2>4 DEF MeansIn
<1>7. CASE kind = "contains"
  <2>1. \A j \in 1..Len(E) : \E i \in 1..Len(A) : A[i] = E[j]
    BY <1>7 DEF Passes, CompareContains
  <2>2. \A j \in 1..Len(t.written) : \E i \in 1..n : RowIs(i, j)
    BY <1>1, <1>3, <2>1
  <2>. QED
    BY <1>4, <1>7, <2>2 DEF MeansIn
<1>. QED
  BY <1>5, <1>6, <1>7 DEF TableKinds, Kinds

\* Without lists to reorder, the two senses of a table are one.
LEMMA OrderFreeMeans ==
  ASSUME result \in Results, NEW t \in Tables, NEW kind \in TableKinds, OrderFree(t),
         MeansIn(Alike, kind, t)
  PROVE  Means(kind, t)
<1> DEFINE n == Len(result.records)
           Lax(i, j) == RowSame(Alike, t, result.records[i], t.written[j])
           Strict(i, j) == RowSame(Same, t, result.records[i], t.written[j])
<1>1. t.header = <<>> \/ t.header = result.keys
  BY DEF MeansIn
<1>2. ASSUME NEW i \in 1..n, NEW j \in 1..Len(t.written), Lax(i, j) PROVE Strict(i, j)
  <2> SUFFICES ASSUME NEW k \in 1..Len(t.header)
               PROVE  <<result.records[i][t.header[k]], t.written[j][k]>> \in Same
    BY DEF RowSame
  <2>1. result.records[i][t.header[k]] \in Values
    BY <1>1, ColumnValues
  <2>2. <<result.records[i][t.header[k]], t.written[j][k]>> \in Alike
    BY <1>2 DEF RowSame
  <2>. QED
    BY <2>1, <2>2 DEF OrderFree
<1>3. MeansIn(Same, kind, t)
  <2>1. CASE kind = "in order"
    <3>1. n = Len(t.written) /\ \A i \in 1..n : Lax(i, i)
      BY <2>1 DEF MeansIn
    <3>2. \A i \in 1..n : Strict(i, i)
      BY <1>2, <3>1
    <3>. QED
      BY <1>1, <2>1, <3>1, <3>2 DEF MeansIn
  <2>2. CASE kind \in {"any order", "ignoring list order"}
    <3>1. n = Len(t.written)
      BY <2>2 DEF MeansIn
    <3>2. PICK p \in Pairings(n) : \A i \in 1..n : Lax(i, p[i])
      BY <2>2 DEF MeansIn
    <3>3. \A i \in 1..n : p[i] \in 1..n
      BY DEF Pairings
    <3>4. \A i \in 1..n : Strict(i, p[i])
      BY <1>2, <3>1, <3>2, <3>3
    <3>. QED
      BY <1>1, <2>2, <3>1, <3>4 DEF MeansIn
  <2>3. CASE kind = "contains"
    <3>1. \A j \in 1..Len(t.written) : \E i \in 1..n : Lax(i, j)
      BY <2>3 DEF MeansIn
    <3>2. \A j \in 1..Len(t.written) : \E i \in 1..n : Strict(i, j)
      BY <1>2, <3>1
    <3>. QED
      BY <1>1, <2>3, <3>2 DEF MeansIn
  <2>. QED
    BY <2>1, <2>2, <2>3 DEF TableKinds, Kinds
<1>. QED
  BY <1>3 DEF Means

LEMMA MeantPasses ==
  ASSUME ComparableComplete, result \in Results, NEW t \in Tables, NEW kind \in TableKinds,
         ReadableTable(kind, t), Means(kind, t)
  PROVE  Passes(kind, t)
<1> DEFINE A == NormalizeActual(t)
           E == NormalizeExpected(t)
           n == Len(result.records)
           sense == IF kind = "ignoring list order" THEN Alike ELSE Same
           RowIs(i, j) == RowSame(sense, t, result.records[i], t.written[j])
<1>1. /\ A \in Seq(RowsOf(t.header)) /\ E \in Seq(RowsOf(t.header))
      /\ Len(A) = n /\ Len(E) = Len(t.rows) /\ n \in Nat /\ Len(t.rows) \in Nat
      /\ Len(t.rows) = Len(t.written)
  BY RowsTyped, TableTyped
<1>2. MeansIn(sense, kind, t)
  BY DEF Means
<1>3. HeadersMatch(t)
  BY <1>2 DEF MeansIn, HeadersMatch
<1>4. ASSUME NEW i \in 1..n, NEW j \in 1..Len(t.rows), RowIs(i, j) PROVE A[i] = E[j]
  BY <1>3, <1>4, MeantRowsEqual
<1>. HIDE DEF sense
<1>5. CASE kind = "in order"
  <2>1. n = Len(t.written) /\ \A i \in 1..n : RowIs(i, i)
    BY <1>2, <1>5 DEF MeansIn
  <2>2. CompareInOrder(A, E)
    BY <1>1, <1>4, <2>1 DEF CompareInOrder
  <2>. QED
    BY <1>3, <1>5, <2>2 DEF Passes
<1>6. CASE kind \in {"any order", "ignoring list order"}
  <2>1. n = Len(t.written) /\ \E p \in Pairings(n) : \A i \in 1..n : RowIs(i, p[i])
    BY <1>2, <1>6 DEF MeansIn
  <2>2. PICK p \in Pairings(n) : \A i \in 1..n : RowIs(i, p[i])
    BY <2>1
  <2>3. p \in [1..n -> 1..n]
    BY DEF Pairings
  <2>4. \A i \in 1..n : A[i] = E[p[i]]
    BY <1>1, <1>4, <2>1, <2>2, <2>3
  <2>5. CompareAnyOrder(A, E)
    BY <1>1, <2>1, <2>4, PairedRowsSort
  <2>. QED
    BY <1>3, <1>6, <2>5 DEF Passes
<1>7. CASE kind = "contains"
  <2>1. \A j \in 1..Len(t.written) : \E i \in 1..n : RowIs(i, j)
    BY <1>2, <1>7 DEF MeansIn
  <2>2. CompareContains(A, E)
    BY <1>1, <1>4, <2>1 DEF CompareContains
  <2>. QED
    BY <1>3, <1>7, <2>2 DEF Passes
<1>. QED
  BY <1>5, <1>6, <1>7 DEF TableKinds, Kinds

LEMMA WeakerPasses ==
  ASSUME result \in Results, NEW t \in Tables, NEW kind \in TableKinds, Passes(kind, t),
         NEW k \in Weaker[kind]
  PROVE  Passes(k, t)
<1> DEFINE A == NormalizeActual(t)
           E == NormalizeExpected(t)
<1>1. /\ A \in Seq(RowsOf(t.header)) /\ E \in Seq(RowsOf(t.header))
      /\ Len(A) \in Nat /\ Len(E) \in Nat
  BY RowsTyped
<1>2. HeadersMatch(t)
  BY DEF Passes, TableKinds, Kinds
<1>3. CASE kind = "in order"
  <2>1. Len(A) = Len(E) /\ \A i \in 1..Len(A) : A[i] = E[i]
    BY <1>3 DEF Passes, CompareInOrder
  <2>2. A = E
    BY <1>1, <2>1
  <2>3. CompareAnyOrder(A, E)
    BY <2>1, <2>2 DEF CompareAnyOrder
  <2>4. CompareContains(A, E)
    BY <2>1 DEF CompareContains
  <2>5. k \in {"any order", "ignoring list order", "contains"}
    BY <1>3 DEF Weaker, TableKinds, Kinds
  <2>. QED
    BY <1>2, <2>3, <2>4, <2>5 DEF Passes
<1>4. CASE kind = "any order"
  <2>1. CompareAnyOrder(A, E)
    BY <1>4 DEF Passes
  <2>2. PICK p \in Pairings(Len(A)) : \A i \in 1..Len(A) : A[i] = E[p[i]]
    BY <1>1, <2>1, SortedRowsPair
  <2>3. ASSUME NEW j \in 1..Len(E) PROVE \E i \in 1..Len(A) : A[i] = E[j]
    <3>1. j \in 1..Len(A)
      BY <2>1 DEF CompareAnyOrder
    <3>2. PICK i \in 1..Len(A) : p[i] = j
      BY <1>1, <3>1, PairingCovers
    <3>. QED
      BY <2>2, <3>2
  <2>4. k \in {"ignoring list order", "contains"}
    BY <1>4 DEF Weaker, TableKinds, Kinds
  <2>. QED
    BY <1>2, <2>1, <2>3, <2>4 DEF Passes, CompareContains
<1>5. kind \in {"in order", "any order"}
  BY DEF Weaker, TableKinds, Kinds
<1>. QED
  BY <1>3, <1>4, <1>5

-----------------------------------------------------------------------------
VerdictInv ==
  /\ TypeOK
  /\ last # None => /\ last.table \in Tables
                    /\ last.passed = Passes(last.kind, last.table)

LEMMA VerdictInvariant == Spec => []VerdictInv
<1>1. Init => VerdictInv
  BY DEF Init, VerdictInv, TypeOK
<1>2. ASSUME VerdictInv, NEW kind \in Kinds, NEW t \in Tables, Then(kind, t) PROVE VerdictInv'
  <2>1. /\ last' = [kind |-> kind, table |-> t, passed |-> Passes(kind, t)]
        /\ status' = (IF Passes(kind, t) THEN "running" ELSE "failed") /\ result' = result
    BY <1>2 DEF Then
  <2>2. Passes(kind, t)' = Passes(kind, t)
    BY <2>1 DEF Passes, HeadersMatch, NormalizeActual, NormalizeExpected
  <2>3. Passes(kind, t) \in BOOLEAN
    BY DEF Kinds, Passes
  <2>4. TableType(t)
    BY ResultAssumption
  <2>5. last'.kind = kind /\ last'.table = t /\ last'.passed = Passes(kind, t)
    BY <2>1
  <2>6. TypeOK'
    BY <1>2, <2>1, <2>3, <2>4, <2>5 DEF VerdictInv, TypeOK
  <2>. QED
    BY <2>2, <2>5, <2>6 DEF VerdictInv
<1>3. ASSUME VerdictInv, UNCHANGED vars PROVE VerdictInv'
  <2>1. result' = result /\ status' = status /\ last' = last
    BY <1>3 DEF vars
  <2>2. Passes(last.kind, last.table)' = Passes(last.kind, last.table)
    BY <2>1 DEF Passes, HeadersMatch, NormalizeActual, NormalizeExpected
  <2>3. TypeOK'
    BY <1>3, <2>1 DEF VerdictInv, TypeOK
  <2>. QED
    BY <1>3, <2>1, <2>2, <2>3 DEF VerdictInv
<1>4. VerdictInv /\ [Next]_vars => VerdictInv'
  BY <1>2, <1>3 DEF Next
<1>. QED
  BY <1>1, <1>4, PTL DEF Spec

\* The verdict and the scenario's status agree, and what is compared is typed.
THEOREM AssertionTypeOK == Spec => []TypeOK
<1>1. VerdictInv => TypeOK
  BY DEF VerdictInv
<1>. QED
  BY <1>1, VerdictInvariant, PTL

\* If equal comparable forms mean what was written, a Then step passes only
\* on a result that is what its table says.
THEOREM PassMeansWhatIsWritten == ComparableSound => (Spec => []PassedRowsMatch)
<1>. SUFFICES ASSUME ComparableSound PROVE Spec => []PassedRowsMatch
  OBVIOUS
<1>1. VerdictInv => PassedRowsMatch
  BY PassMeans, OrderFreeMeans DEF VerdictInv, TypeOK, PassedRowsMatch
<1>. QED
  BY <1>1, VerdictInvariant, PTL

\* If the comparable forms are equal whenever they should be, a result that
\* is what the table says is accepted.
THEOREM WrittenIsAccepted == ComparableComplete => (Spec => []MatchingTableAccepted)
<1>. SUFFICES ASSUME ComparableComplete PROVE Spec => []MatchingTableAccepted
  OBVIOUS
<1>1. VerdictInv => MatchingTableAccepted
  BY MeantPasses DEF VerdictInv, TypeOK, MatchingTableAccepted
<1>. QED
  BY <1>1, VerdictInvariant, PTL

\* In order is stronger than any order, and any order than contains, whatever
\* the values are.
THEOREM StrongerIsStronger == Spec => []StrongerImpliesWeaker
<1>1. VerdictInv => StrongerImpliesWeaker
  BY WeakerPasses DEF VerdictInv, TypeOK, StrongerImpliesWeaker
<1>. QED
  BY <1>1, VerdictInvariant, PTL

\* In whatever order the server returns the rows, the verdict of a step that
\* does not say "in order" is the same: sorting rows by their texts brings any
\* two orders of the same rows to one, equal rows included.
THEOREM RowOrderDoesNotMatter == Spec => []RowOrderIgnored
<1>1. ASSUME VerdictInv, last # None, last.kind \in TableKinds \ {"in order"},
             HeadersMatch(last.table), NEW p \in Pairings(Len(result.records))
      PROVE  LET actual == Reordered(NormalizeActual(last.table), p)
                 expected == NormalizeExpected(last.table)
             IN last.passed <=> IF last.kind = "contains" THEN CompareContains(actual, expected)
                                ELSE CompareAnyOrder(actual, expected)
  <2> DEFINE A == NormalizeActual(last.table)
             E == NormalizeExpected(last.table)
             D == Range(last.table.header)
  <2>1. last.table \in Tables /\ result \in Results /\ last.passed = Passes(last.kind, last.table)
    BY <1>1 DEF VerdictInv, TypeOK
  <2>2. /\ A \in Seq([D -> Comparables]) /\ E \in Seq([D -> Comparables])
        /\ D \in SUBSET Keys /\ Len(A) = Len(result.records)
    BY <2>1, RowsTyped, RowKeys
  <2>3. /\ CompareAnyOrder(Reordered(A, p), E) <=> CompareAnyOrder(A, E)
        /\ CompareContains(Reordered(A, p), E) <=> CompareContains(A, E)
    <3>. HIDE DEF A, E, D
    <3>. QED
      BY <2>2, OrderIgnored
  <2>4. CASE last.kind \in {"any order", "ignoring list order"}
    BY <1>1, <2>1, <2>3, <2>4 DEF Passes
  <2>5. CASE last.kind = "contains"
    BY <1>1, <2>1, <2>3, <2>5 DEF Passes
  <2>. QED
    BY <1>1, <2>4, <2>5 DEF TableKinds, Kinds
<1>2. VerdictInv => RowOrderIgnored
  BY <1>1 DEF RowOrderIgnored
<1>. QED
  BY <1>2, VerdictInvariant, PTL
=============================================================================
