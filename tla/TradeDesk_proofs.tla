------------------------- MODULE TradeDesk_proofs -------------------------
EXTENDS TradeDesk, FiniteSetTheorems, TLAPS

WF == INSTANCE WellFoundedInduction

-----------------------------------------------------------------------------
(* Counting. *)

\* The order of the naturals as a well-founded relation.
LEMMA NaturalOrder ==
  \E R : WF!IsWellFoundedOn(R, Nat) /\ \A x, y \in Nat : y < x => <<y, x>> \in R
<1>1. WF!IsWellFoundedOn(WF!OpToRel(<, Nat), Nat)
  BY WF!NatLessThanWellFounded
<1>2. \A x, y \in Nat : y < x => <<y, x>> \in WF!OpToRel(<, Nat)
  BY DEF WF!OpToRel
<1> QED
  BY <1>1, <1>2

\* A set of naturals that is not empty has a least element.
LEMMA LeastExists ==
  ASSUME NEW T, T \subseteq Nat, T # {}
  PROVE  \E x \in T : \A y \in T : x <= y
<1>1. PICK R : WF!IsWellFoundedOn(R, Nat) /\ \A x, y \in Nat : y < x => <<y, x>> \in R
  BY NaturalOrder
<1>2. PICK x \in T : \A y \in T : ~ (<<y, x>> \in R)
  BY <1>1, WF!WFMin
<1>3. ASSUME NEW y \in T PROVE x <= y
  <2>1. x \in Nat /\ y \in Nat /\ ~(y < x)
    BY <1>1, <1>2
  <2> QED
    BY <2>1
<1> QED
  BY <1>3

\* What holds at 0, and after each number at which it holds, holds up to n.
LEMMA CountingUp ==
  ASSUME NEW n \in Nat, NEW T, 0 \in T, \A k \in Nat : k < n /\ k \in T => k + 1 \in T
  PROVE  n \in T
<1> SUFFICES ASSUME n \notin T PROVE FALSE
  OBVIOUS
<1> DEFINE U == {k \in 0 .. n : k \notin T}
<1>1. U \subseteq Nat /\ U # {}
  OBVIOUS
<1>2. PICK k \in U : \A m \in U : k <= m
  <2> HIDE DEF U
  <2> QED
    BY <1>1, LeastExists
<1>3. k # 0 /\ k - 1 \in Nat /\ k - 1 < n /\ k - 1 \in T
  BY <1>2
<1> QED
  BY <1>2, <1>3

-----------------------------------------------------------------------------
(* The n-th of a set of places. *)

Below(S, k) == {m \in S : m < k}

LEMMA PlacesFinite ==
  ASSUME NEW l \in Nat, NEW S, S \subseteq 1 .. l
  PROVE  IsFiniteSet(S) /\ Cardinality(S) \in Nat
<1>1. 1 \in Int /\ l \in Int
  OBVIOUS
<1>2. IsFiniteSet(1 .. l)
  BY <1>1, FS_Interval
<1>3. IsFiniteSet(S)
  BY <1>2, FS_Subset
<1> QED
  BY <1>3, FS_CardinalityType

\* One place further, one more below or none.
LEMMA BelowNext ==
  ASSUME NEW l \in Nat, NEW S, S \subseteq 1 .. l, NEW j \in Nat
  PROVE  /\ IsFiniteSet(Below(S, j)) /\ Cardinality(Below(S, j)) \in Nat
         /\ j \notin Below(S, j)
         /\ j \in S => Below(S, j + 1) = Below(S, j) \cup {j}
         /\ j \notin S => Below(S, j + 1) = Below(S, j)
         /\ Below(S, l + 1) = S /\ Below(S, 1) = {}
<1>1. S \subseteq Int /\ \A m \in S : 1 <= m /\ m <= l
  OBVIOUS
<1>2. /\ Below(S, j) \subseteq S /\ Below(S, j + 1) \subseteq S
      /\ Below(S, l + 1) \subseteq S /\ Below(S, 1) \subseteq S
  BY DEF Below
<1>3. j \notin Below(S, j)
  BY DEF Below
<1>4. ASSUME NEW m \in Int
      PROVE  m \in Below(S, j + 1) <=> m \in Below(S, j) \/ (m = j /\ j \in S)
  BY <1>1 DEF Below
<1>5. ASSUME NEW m \in S PROVE m \in Below(S, l + 1) /\ m \notin Below(S, 1)
  <2>1. m \in Int /\ m < l + 1 /\ ~ (m < 1)
    BY <1>1
  <2> QED
    BY <2>1 DEF Below
<1>6. IsFiniteSet(Below(S, j)) /\ Cardinality(Below(S, j)) \in Nat
  BY <1>2, PlacesFinite, FS_Subset, FS_CardinalityType, Zenon
<1>7. /\ j \in S => Below(S, j + 1) = Below(S, j) \cup {j}
      /\ j \notin S => Below(S, j + 1) = Below(S, j)
  <2> DEFINE X == Below(S, j + 1)
             Y == Below(S, j)
  <2>1. X \subseteq Int /\ Y \subseteq Int /\ j \in Int
    <3>1. j \in Int
      OBVIOUS
    <3> QED
      BY <1>1, <1>2, <3>1, Zenon
  <2>2. \A m \in Int : m \in X <=> m \in Y \/ (m = j /\ j \in S)
    BY <1>4
  <2> HIDE DEF X, Y
  <2>3. (j \in S => X = Y \cup {j}) /\ (j \notin S => X = Y)
    BY <2>1, <2>2, Zenon
  <2> QED
    BY <2>3 DEF X, Y
<1>8. Below(S, l + 1) = S /\ Below(S, 1) = {}
  BY <1>2, <1>5, Zenon
<1> QED
  BY <1>3, <1>6, <1>7, <1>8

\* Every number up to the size of a set of places has its place in the set.
LEMMA NthExists ==
  ASSUME NEW l \in Nat, NEW S, S \subseteq 1 .. l, NEW n \in 1 .. Cardinality(S)
  PROVE  \E k \in S : Cardinality(Below(S, k)) = n - 1
<1>1. IsFiniteSet(S) /\ Cardinality(S) \in Nat
  BY PlacesFinite
<1> DEFINE C(j) == Cardinality(Below(S, j + 1))
           T == {j \in 0 .. l : C(j) >= n}
<1>2. \A j \in Nat : IsFiniteSet(Below(S, j)) /\ Cardinality(Below(S, j)) \in Nat
  BY BelowNext
<1>3. l \in T
  <2>1. Below(S, l + 1) = S
    BY BelowNext, Zenon
  <2> QED
    BY <1>1, <2>1
<1>4. PICK j \in T : \A i \in T : j <= i
  <2>1. T \subseteq Nat /\ T # {}
    BY <1>3
  <2> HIDE DEF T
  <2> QED
    BY <2>1, LeastExists
<1>5. C(0) = 0
  <2>1. Below(S, 1) = {}
    BY BelowNext, Zenon
  <2> QED
    BY <2>1, FS_EmptySet
<1>6. j \in Nat /\ j # 0 /\ j - 1 \in Nat /\ j - 1 \in 0 .. l /\ (j - 1) + 1 = j /\ j - 1 < j
  BY <1>4, <1>5
<1>7. C(j - 1) = Cardinality(Below(S, j)) /\ C(j - 1) \in Nat /\ C(j) \in Nat
  BY <1>2, <1>6
<1>8. C(j - 1) < n /\ C(j) >= n
  <2>1. j - 1 \notin T
    BY <1>4, <1>6
  <2> QED
    BY <1>4, <1>6, <1>7, <2>1
<1>9. j \in S /\ C(j) = C(j - 1) + 1
  <2> HIDE DEF T
  <2>0. /\ IsFiniteSet(Below(S, j)) /\ j \notin Below(S, j)
        /\ j \in S => Below(S, j + 1) = Below(S, j) \cup {j}
        /\ j \notin S => Below(S, j + 1) = Below(S, j)
    <3>1. ASSUME NEW i \in Nat
          PROVE  /\ IsFiniteSet(Below(S, i)) /\ Cardinality(Below(S, i)) \in Nat
                 /\ i \notin Below(S, i)
                 /\ i \in S => Below(S, i + 1) = Below(S, i) \cup {i}
                 /\ i \notin S => Below(S, i + 1) = Below(S, i)
                 /\ Below(S, l + 1) = S /\ Below(S, 1) = {}
      BY BelowNext
    <3> QED
      BY <1>6, <3>1
  <2>1. CASE j \in S
    <3>1. Below(S, j + 1) = Below(S, j) \cup {j} /\ j \notin Below(S, j) /\ IsFiniteSet(Below(S, j))
      BY <2>0, <2>1, Zenon
    <3> QED
      BY <1>7, <2>1, <3>1, FS_AddElement
  <2>2. CASE j \notin S
    <3>1. Below(S, j + 1) = Below(S, j)
      BY <2>0, <2>2, Zenon
    <3> QED
      BY <1>7, <1>8, <3>1
  <2> QED
    BY <2>1, <2>2
<1>10. Cardinality(Below(S, j)) = n - 1
  BY <1>1, <1>7, <1>8, <1>9
<1> QED
  BY <1>9, <1>10

\* A greater place has more below it.
LEMMA PlacesCount ==
  ASSUME NEW l \in Nat, NEW S, S \subseteq 1 .. l, NEW j \in S, NEW k \in S, j < k
  PROVE  /\ Cardinality(Below(S, j)) \in Nat /\ Cardinality(Below(S, k)) \in Nat
         /\ Cardinality(Below(S, j)) < Cardinality(Below(S, k))
<1>1. IsFiniteSet(S)
  BY PlacesFinite
<1>2. j \in Nat /\ k \in Nat
  OBVIOUS
<1>3. /\ IsFiniteSet(Below(S, j)) /\ Cardinality(Below(S, j)) \in Nat /\ j \notin Below(S, j)
      /\ IsFiniteSet(Below(S, k)) /\ Cardinality(Below(S, k)) \in Nat
  BY <1>2, BelowNext
<1>4. Below(S, j) \cup {j} \subseteq Below(S, k)
  <2>1. ASSUME NEW m \in S, m < j PROVE m < k
    BY <1>2, <2>1
  <2>2. \A m \in Below(S, j) : m \in S /\ m < k
    BY <2>1 DEF Below
  <2>3. \A m \in Below(S, j) \cup {j} : m \in Below(S, k)
    BY <2>2, Zenon DEF Below
  <2> QED
    BY <2>3, Zenon
<1>5. Cardinality(Below(S, j) \cup {j}) = Cardinality(Below(S, j)) + 1
  BY <1>3, FS_AddElement
<1>6. Cardinality(Below(S, j) \cup {j}) <= Cardinality(Below(S, k))
  BY <1>3, <1>4, FS_Subset
<1> QED
  BY <1>3, <1>5, <1>6

\* Nth finds it, and numbers the places one to one, in order.
LEMMA NthIsPlace ==
  ASSUME NEW l \in Nat, NEW S, S \subseteq 1 .. l
  PROVE  /\ Cardinality(S) \in Nat
         /\ \A n \in 1 .. Cardinality(S) : Nth(S, n) \in S
         /\ \A m, n \in 1 .. Cardinality(S) : Nth(S, m) = Nth(S, n) => m = n
         /\ \A k \in S : \E n \in 1 .. Cardinality(S) : Nth(S, n) = k
<1>1. IsFiniteSet(S) /\ Cardinality(S) \in Nat
  BY PlacesFinite
<1>2. \A n \in 1 .. Cardinality(S) : Nth(S, n) \in S /\ Cardinality(Below(S, Nth(S, n))) = n - 1
  BY NthExists DEF Nth, Below
<1>3. ASSUME NEW k \in S PROVE \E n \in 1 .. Cardinality(S) : Nth(S, n) = k
  <2> DEFINE c == Cardinality(Below(S, k))
  <2>1. IsFiniteSet(Below(S, k)) /\ c \in Nat /\ k \notin Below(S, k)
    <3>1. k \in Nat
      OBVIOUS
    <3> QED
      BY <3>1, BelowNext
  <2>2. Below(S, k) \cup {k} \subseteq S
    BY DEF Below
  <2>3. Cardinality(Below(S, k) \cup {k}) = c + 1
    BY <2>1, FS_AddElement
  <2>4. c + 1 <= Cardinality(S)
    BY <1>1, <2>2, <2>3, FS_Subset
  <2> HIDE DEF c
  <2>5. c + 1 \in 1 .. Cardinality(S) /\ (c + 1) - 1 = c
    BY <1>1, <2>1, <2>4
  <2>6. Nth(S, c + 1) \in S /\ Cardinality(Below(S, Nth(S, c + 1))) = c
    BY <1>2, <2>5
  <2>7. Nth(S, c + 1) = k
    <3>1. ASSUME NEW j \in S, Cardinality(Below(S, j)) = c PROVE j = k
      <4>1. j \in Int /\ k \in Int
        OBVIOUS
      <4>2. ASSUME NEW x \in S, NEW y \in S, x < y
            PROVE  Cardinality(Below(S, x)) # Cardinality(Below(S, y))
        <5> DEFINE a == Cardinality(Below(S, x))
                   b == Cardinality(Below(S, y))
        <5>1. a \in Nat /\ b \in Nat /\ a < b
          BY <4>2, PlacesCount, Zenon
        <5> HIDE DEF a, b
        <5>2. a # b
          BY <5>1
        <5> QED
          BY <5>2 DEF a, b
      <4>3. ~ (j < k) /\ ~ (k < j)
        BY <3>1, <4>2 DEF c
      <4> QED
        BY <4>1, <4>3
    <3> QED
      BY <2>6, <3>1
  <2> QED
    BY <2>5, <2>7
<1>4. \A m, n \in 1 .. Cardinality(S) : Nth(S, m) = Nth(S, n) => m = n
  BY <1>1, <1>2
<1> QED
  BY <1>1, <1>2, <1>3, <1>4

-----------------------------------------------------------------------------
(* Folds.  A fold is the value at the whole set of a function on its subsets, which takes *)
(* one element after the other off a set; pick and op are that choice and that step.      *)

\* What holds for the empty set, and for a set when it holds without any one element, holds.
LEMMA OneByOne ==
  ASSUME NEW D, IsFiniteSet(D), NEW T, {} \in T,
         \A s \in SUBSET D : s # {} /\ (\A x \in s : s \ {x} \in T) => s \in T
  PROVE  SUBSET D \subseteq T
<1> DEFINE Sized(k) == {s \in SUBSET D : Cardinality(s) = k}
           U == {k \in Nat : Sized(k) \subseteq T}
<1>1. \A s \in SUBSET D : IsFiniteSet(s) /\ Cardinality(s) \in Nat
  BY FS_Subset, FS_CardinalityType
<1>2. 0 \in U
  <2>1. \A s \in Sized(0) : s = {}
    BY <1>1, FS_EmptySet
  <2> QED
    BY <2>1
<1>3. ASSUME NEW k \in U PROVE k + 1 \in U
  <2>1. ASSUME NEW s \in Sized(k + 1) PROVE s \in T
    <3>1. s # {}
      BY <1>1, <2>1, FS_EmptySet
    <3>2. ASSUME NEW x \in s PROVE s \ {x} \in T
      <4>1. Cardinality(s \ {x}) = k
        BY <1>1, <2>1, FS_RemoveElement
      <4> QED
        BY <2>1, <4>1
    <3> QED
      BY <2>1, <3>1, <3>2
  <2> QED
    BY <2>1
<1>4. ASSUME NEW n \in Nat PROVE n \in U
  <2>1. \A k \in Nat : k < n /\ k \in U => k + 1 \in U
    BY <1>3
  <2> HIDE DEF U
  <2> QED
    BY <1>2, <2>1, CountingUp
<1> QED
  BY <1>1, <1>4

IsChoice(D, pick) == \A s \in SUBSET D : s # {} => pick[s] \in s
IsStep(D, V, op) == \A x \in D, v \in V : op[<<x, v>>] \in V
FoldFunctions(D, V, base, pick, op) ==
  {g \in [SUBSET D -> V] : g = [s \in SUBSET D |-> IF s = {} THEN base
                                                 ELSE op[<<pick[s], g[s \ {pick[s]}]>>]]}

\* There is such a function, with its values in V when the base and each step are.
LEMMA FoldExists ==
  ASSUME NEW D, IsFiniteSet(D), NEW V, NEW base, base \in V,
         NEW pick, IsChoice(D, pick), NEW op, IsStep(D, V, op)
  PROVE  FoldFunctions(D, V, base, pick, op) # {}
<1> DEFINE Small(k) == {s \in SUBSET D : Cardinality(s) <= k}
           Next1(g, s) == IF s = {} THEN base ELSE op[<<pick[s], g[s \ {pick[s]}]>>]
           U == {k \in Nat : \E g \in [Small(k) -> V] : \A s \in Small(k) : g[s] = Next1(g, s)}
<1>1. \A s \in SUBSET D : IsFiniteSet(s) /\ Cardinality(s) \in Nat
  BY FS_Subset, FS_CardinalityType
<1>0. /\ \A s \in SUBSET D : s # {} => pick[s] \in s
      /\ \A x \in D, v \in V : op[<<x, v>>] \in V
  BY DEF IsChoice, IsStep
<1>2. 0 \in U
  <2> DEFINE g == [s \in Small(0) |-> base]
  <2>1. \A s \in Small(0) : s = {}
    BY <1>1, FS_EmptySet
  <2>2. g \in [Small(0) -> V]
    OBVIOUS
  <2>3. \A s \in Small(0) : g[s] = Next1(g, s)
    BY <2>1
  <2> HIDE DEF g, Small, Next1
  <2> QED
    BY <2>2, <2>3
<1>3. ASSUME NEW k \in U PROVE k + 1 \in U
  <2>1. PICK g \in [Small(k) -> V] : \A s \in Small(k) : g[s] = Next1(g, s)
    BY <1>3
  <2> DEFINE h == [s \in Small(k + 1) |-> Next1(g, s)]
  <2>2. k \in Nat /\ Small(k) \subseteq Small(k + 1)
    BY <1>1, <1>3
  <2>3. ASSUME NEW s \in Small(k + 1), s # {}
        PROVE  pick[s] \in s /\ pick[s] \in D /\ s \ {pick[s]} \in Small(k)
    <3>1. s \in SUBSET D /\ Cardinality(s) <= k + 1 /\ pick[s] \in s
      BY <1>0, <2>3
    <3>2. Cardinality(s \ {pick[s]}) = Cardinality(s) - 1
      BY <1>1, <3>1, FS_RemoveElement
    <3>3. Cardinality(s) \in Nat
      BY <1>1, <3>1
    <3> QED
      BY <2>2, <3>1, <3>2, <3>3
  <2>4. \A s \in Small(k) : h[s] = g[s]
    BY <2>1, <2>2
  <2>5. ASSUME NEW s \in Small(k + 1) PROVE h[s] \in V /\ h[s] = Next1(h, s)
    <3>1. CASE s = {}
      BY <3>1
    <3>2. CASE s # {}
      <4> DEFINE t == s \ {pick[s]}
      <4>1. pick[s] \in D /\ t \in Small(k)
        BY <2>3, <3>2
      <4>2. g[t] \in V /\ h[t] = g[t]
        BY <2>1, <2>4, <4>1
      <4>3. h[s] = op[<<pick[s], g[t]>>]
        BY <3>2
      <4> HIDE DEF h, t
      <4>4. h[s] \in V /\ h[s] = op[<<pick[s], h[t]>>]
        BY <1>0, <4>1, <4>2, <4>3
      <4> QED
        BY <3>2, <4>4 DEF t
    <3> QED
      BY <3>1, <3>2
  <2>6. h \in [Small(k + 1) -> V]
    BY <2>5
  <2> HIDE DEF h, Small, Next1
  <2> QED
    BY <2>2, <2>5, <2>6
<1>4. ASSUME NEW n \in Nat PROVE n \in U
  <2>1. \A k \in Nat : k < n /\ k \in U => k + 1 \in U
    BY <1>3
  <2> HIDE DEF U
  <2> QED
    BY <1>2, <2>1, CountingUp
<1>5. Cardinality(D) \in Nat /\ Small(Cardinality(D)) = SUBSET D
  <2>1. Cardinality(D) \in Nat
    BY FS_CardinalityType
  <2>2. \A s \in SUBSET D : Cardinality(s) <= Cardinality(D)
    BY FS_Subset
  <2> QED
    BY <2>1, <2>2
<1>6. PICK g \in [Small(Cardinality(D)) -> V] : \A s \in Small(Cardinality(D)) : g[s] = Next1(g, s)
  BY <1>4, <1>5
<1>7. g \in [SUBSET D -> V] /\ \A s \in SUBSET D : g[s] = Next1(g, s)
  BY <1>5, <1>6
<1>8. g = [s \in SUBSET D |-> Next1(g, s)]
  BY <1>7
<1>9. g \in FoldFunctions(D, V, base, pick, op)
  BY <1>7, <1>8 DEF FoldFunctions
<1> QED
  BY <1>9

\* The greatest of a set of places is one of them.
LEMMA MaxIsPlace ==
  ASSUME NEW l \in Nat, NEW S, S \subseteq 1 .. l, S # {}
  PROVE  Max(S) \in S
<1> DEFINE U == {k \in 0 .. l : \A y \in S : y <= k}
<1>1. PICK k \in U : \A m \in U : k <= m
  <2>1. l \in U /\ U \subseteq Nat
    OBVIOUS
  <2> HIDE DEF U
  <2> QED
    BY <2>1, LeastExists
<1>2. k \in S
  <2> SUFFICES ASSUME k \notin S PROVE FALSE
    OBVIOUS
  <2>1. k \in Nat /\ k <= l /\ \A y \in S : y \in Nat /\ y <= k /\ y # k
    BY <1>1
  <2>2. ASSUME NEW y \in S PROVE y <= k - 1 /\ k # 0
    <3>1. y \in Nat /\ k \in Nat /\ y <= k /\ y # k
      BY <2>1
    <3> QED
      BY <3>1
  <2>3. k # 0
    BY <2>2
  <2>4. k - 1 \in U /\ k - 1 < k
    BY <2>1, <2>2, <2>3
  <2> QED
    BY <1>1, <2>1, <2>4
<1>3. \A y \in S : k >= y
  BY <1>1, <1>2
<1> QED
  BY <1>2, <1>3 DEF Max

Collected == Seq([at : Nat, instrument : Instruments])

\* What every single fill keeps, settling keeps.
LEMMA SettledStays ==
  ASSUME NEW b, NEW collected \in Collected, NEW marks, NEW V, b \in V,
         \A x \in DOMAIN collected, c \in V :
           FilledAt(c, collected[x], marks[collected[x].instrument]) \in V
  PROVE  Settled(b, collected, marks) \in V
<1> DEFINE D == DOMAIN collected
           pick == [s \in SUBSET D |-> Max(s)]
           One(x, c) == FilledAt(c, collected[x], marks[collected[x].instrument])
           op == [y \in D \X V |-> One(y[1], y[2])]
           Solves(iter) == iter = [s \in SUBSET D |->
                                     IF s = {} THEN b ELSE One(Max(s), iter[s \ {Max(s)}])]
<1>1. PICK l \in Nat : D = 1 .. l
  BY DEF Collected
<1>2. IsFiniteSet(D)
  <2>1. 1 \in Int /\ l \in Int
    OBVIOUS
  <2> QED
    BY <1>1, <2>1, FS_Interval
<1>3. \A s \in SUBSET D : s # {} => pick[s] = Max(s) /\ pick[s] \in s
  BY <1>1, MaxIsPlace
<1>4. \A x \in D, c \in V : op[<<x, c>>] = One(x, c) /\ op[<<x, c>>] \in V
  OBVIOUS
<1>5. Settled(b, collected, marks) = (CHOOSE iter : Solves(iter))[D]
  BY DEF Settled, FoldLeft, MapThenFoldSet
<1> HIDE DEF D, pick, op, One
<1>6. \E iter : Solves(iter)
  <2>1. PICK g \in [SUBSET D -> V] :
          g = [s \in SUBSET D |-> IF s = {} THEN b ELSE op[<<pick[s], g[s \ {pick[s]}]>>]]
    <3>1. IsChoice(D, pick)
      BY <1>3 DEF IsChoice
    <3>2. IsStep(D, V, op)
      BY <1>4 DEF IsStep
    <3>3. FoldFunctions(D, V, b, pick, op) # {}
      BY <1>2, <3>1, <3>2, FoldExists
    <3> QED
      BY <3>3 DEF FoldFunctions
  <2>2. ASSUME NEW s \in SUBSET D
        PROVE  g[s] = IF s = {} THEN b ELSE One(Max(s), g[s \ {Max(s)}])
    <3>1. CASE s # {}
      <4>1. Max(s) \in D /\ g[s \ {Max(s)}] \in V /\ pick[s] = Max(s)
        BY <1>3, <2>1, <3>1
      <4>2. g[s] = op[<<pick[s], g[s \ {pick[s]}]>>]
        BY <2>1, <3>1
      <4> QED
        BY <1>4, <3>1, <4>1, <4>2
    <3>2. CASE s = {}
      BY <2>1, <3>2
    <3> QED
      BY <3>1, <3>2
  <2>3. g = [s \in SUBSET D |-> g[s]]
    BY <2>1
  <2>4. [s \in SUBSET D |-> g[s]]
          = [s \in SUBSET D |-> IF s = {} THEN b ELSE One(Max(s), g[s \ {Max(s)}])]
    BY <2>2
  <2>5. Solves(g)
    BY <2>3, <2>4
  <2> QED
    BY <2>5
<1>7. ASSUME NEW g, Solves(g) PROVE g[D] \in V
  <2> DEFINE T == {s \in SUBSET D : g[s] \in V}
  <2>1. \A s \in SUBSET D : g[s] = IF s = {} THEN b ELSE One(Max(s), g[s \ {Max(s)}])
    BY <1>7
  <2>2. {} \in T
    BY <2>1
  <2>3. ASSUME NEW s \in SUBSET D, s # {}, \A x \in s : s \ {x} \in T PROVE s \in T
    <3>1. Max(s) \in s /\ Max(s) \in D
      BY <1>3, <2>3
    <3>2. g[s \ {Max(s)}] \in V
      BY <2>3, <3>1
    <3> QED
      BY <1>4, <2>1, <2>3, <3>1, <3>2
  <2>4. SUBSET D \subseteq T
    <3> HIDE DEF T
    <3> QED
      BY <1>2, <2>2, <2>3, OneByOne
  <2> QED
    BY <2>4
<1> DEFINE chosen == CHOOSE iter : Solves(iter)
<1>8. Solves(chosen)
  <2> HIDE DEF Solves
  <2> QED
    BY <1>6
<1> HIDE DEF chosen, Solves
<1> QED
  BY <1>5, <1>7, <1>8 DEF chosen

-----------------------------------------------------------------------------
(* What the positions are worth together. *)

Holdings == [Instruments -> Positions \cup {Flat}]

Worths(position) == FoldSet(LAMBDA i, sum : Worth(position[i]) + sum, 0, Instruments)

LEMMA WorthType ==
  ASSUME NEW p \in Positions \cup {Flat}
  PROVE  Worth(p) \in Int /\ Signed(p) \in Int
<1>1. CASE p = Flat
  BY <1>1 DEF Worth, Signed
<1>2. CASE p # Flat
  <2>1. p.side \in Int /\ p.qty \in Int /\ p.entry \in Int
    BY <1>2 DEF Positions, Sides, Long, Short
  <2> QED
    BY <1>2, <2>1 DEF Worth, Signed
<1> QED
  BY <1>1, <1>2

\* The sum is the value of a function on the sets of instruments.
LEMMA SumUnfolds ==
  ASSUME NEW position \in Holdings
  PROVE  \E g \in [SUBSET Instruments -> Int] :
           /\ \A s \in SUBSET Instruments :
                g[s] = IF s = {} THEN 0
                       ELSE Worth(position[CHOOSE x \in s : TRUE]) + g[s \ {CHOOSE x \in s : TRUE}]
           /\ Worths(position) = g[Instruments]
<1> DEFINE D == Instruments
           Pick(s) == CHOOSE x \in s : TRUE
           pick == [s \in SUBSET D |-> Pick(s)]
           One(x, c) == Worth(position[x]) + c
           op == [y \in D \X Int |-> One(y[1], y[2])]
           Solves(iter) == iter = [s \in SUBSET D |->
                                     IF s = {} THEN 0 ELSE One(Pick(s), iter[s \ {Pick(s)}])]
<1>1. IsFiniteSet(D)
  BY TradeAssumption
<1>2. \A s \in SUBSET D : s # {} => pick[s] = Pick(s) /\ pick[s] \in s
  OBVIOUS
<1>3. \A x \in D, c \in Int : op[<<x, c>>] = One(x, c) /\ op[<<x, c>>] \in Int
  BY WorthType DEF Holdings
<1>4. Worths(position) = (CHOOSE iter : Solves(iter))[D]
  BY DEF Worths, FoldSet, MapThenFoldSet
<1> HIDE DEF D, pick, Pick, op, One
<1>5. \E iter : Solves(iter)
  <2>1. PICK g \in [SUBSET D -> Int] :
          g = [s \in SUBSET D |-> IF s = {} THEN 0 ELSE op[<<pick[s], g[s \ {pick[s]}]>>]]
    <3>1. IsChoice(D, pick)
      BY <1>2 DEF IsChoice
    <3>2. IsStep(D, Int, op)
      BY <1>3 DEF IsStep
    <3>3. 0 \in Int
      OBVIOUS
    <3>4. FoldFunctions(D, Int, 0, pick, op) # {}
      BY <1>1, <3>1, <3>2, <3>3, FoldExists
    <3> QED
      BY <3>4 DEF FoldFunctions
  <2>2. ASSUME NEW s \in SUBSET D
        PROVE  g[s] = IF s = {} THEN 0 ELSE One(Pick(s), g[s \ {Pick(s)}])
    <3>1. CASE s # {}
      <4>1. Pick(s) \in D /\ g[s \ {Pick(s)}] \in Int /\ pick[s] = Pick(s)
        BY <1>2, <2>1, <3>1
      <4>2. g[s] = op[<<pick[s], g[s \ {pick[s]}]>>]
        BY <2>1, <3>1
      <4> QED
        BY <1>3, <3>1, <4>1, <4>2
    <3>2. CASE s = {}
      BY <2>1, <3>2
    <3> QED
      BY <3>1, <3>2
  <2>3. g = [s \in SUBSET D |-> g[s]]
    BY <2>1
  <2>4. [s \in SUBSET D |-> g[s]]
          = [s \in SUBSET D |-> IF s = {} THEN 0 ELSE One(Pick(s), g[s \ {Pick(s)}])]
    BY <2>2
  <2>5. Solves(g)
    BY <2>3, <2>4
  <2> QED
    BY <2>5
<1> DEFINE g == CHOOSE iter : Solves(iter)
<1>6. Solves(g)
  <2> HIDE DEF Solves
  <2> QED
    BY <1>5
<1> HIDE DEF g
<1>7. \A s \in SUBSET D : g[s] = IF s = {} THEN 0 ELSE One(Pick(s), g[s \ {Pick(s)}])
  BY <1>6
<1>8. \A s \in SUBSET D : g[s] \in Int
  <2> DEFINE T == {s \in SUBSET D : g[s] \in Int}
  <2>1. {} \in T
    BY <1>7
  <2>2. ASSUME NEW s \in SUBSET D, s # {}, \A x \in s : s \ {x} \in T PROVE s \in T
    <3>1. Pick(s) \in s /\ Pick(s) \in D
      BY <1>2, <2>2
    <3>2. g[s \ {Pick(s)}] \in Int
      BY <2>2, <3>1
    <3> QED
      BY <1>3, <1>7, <2>2, <3>1, <3>2
  <2>3. SUBSET D \subseteq T
    <3> HIDE DEF T
    <3> QED
      BY <1>1, <2>1, <2>2, OneByOne
  <2> QED
    BY <2>3
<1>9. g \in [SUBSET D -> Int]
  <2>1. g = [s \in SUBSET D |-> IF s = {} THEN 0 ELSE One(Pick(s), g[s \ {Pick(s)}])]
    BY <1>6
  <2>2. DOMAIN g = SUBSET D /\ g = [s \in SUBSET D |-> g[s]]
    BY <2>1
  <2> QED
    BY <1>8, <2>2
<1> HIDE DEF Solves
<1> QED
  BY <1>4, <1>7, <1>9 DEF D, One, Pick, g

\* A change at one instrument changes the sum by the difference it makes there.
LEMMA SumChanges ==
  ASSUME NEW p \in Holdings, NEW q \in Holdings, NEW j \in Instruments,
         \A i \in Instruments : i # j => q[i] = p[i]
  PROVE  /\ Worths(p) \in Int /\ Worths(q) \in Int
         /\ Worths(q) = Worths(p) + (Worth(q[j]) - Worth(p[j]))
<1>1. PICK g \in [SUBSET Instruments -> Int] :
        /\ \A s \in SUBSET Instruments :
             g[s] = IF s = {} THEN 0
                    ELSE Worth(p[CHOOSE x \in s : TRUE]) + g[s \ {CHOOSE x \in s : TRUE}]
        /\ Worths(p) = g[Instruments]
  BY SumUnfolds
<1>2. PICK h \in [SUBSET Instruments -> Int] :
        /\ \A s \in SUBSET Instruments :
             h[s] = IF s = {} THEN 0
                    ELSE Worth(q[CHOOSE x \in s : TRUE]) + h[s \ {CHOOSE x \in s : TRUE}]
        /\ Worths(q) = h[Instruments]
  BY SumUnfolds
<1> DEFINE d == Worth(q[j]) - Worth(p[j])
           T == {s \in SUBSET Instruments : h[s] = g[s] + (IF j \in s THEN d ELSE 0)}
<1>3. \A i \in Instruments : Worth(p[i]) \in Int /\ Worth(q[i]) \in Int
  BY WorthType DEF Holdings
<1>4. {} \in T
  BY <1>1, <1>2
<1>5. ASSUME NEW s \in SUBSET Instruments, s # {}, \A x \in s : s \ {x} \in T PROVE s \in T
  <2> DEFINE x == CHOOSE y \in s : TRUE
             r == s \ {x}
  <2>1. x \in s /\ x \in Instruments
    BY <1>5
  <2>2. g[s] = Worth(p[x]) + g[r] /\ h[s] = Worth(q[x]) + h[r]
    BY <1>1, <1>2, <1>5
  <2>3. r \in SUBSET Instruments /\ h[r] = g[r] + (IF j \in r THEN d ELSE 0)
    BY <1>5, <2>1
  <2>4. g[r] \in Int /\ h[r] \in Int
    BY <1>1, <1>2, <2>3
  <2>5. CASE x = j
    <3>1. j \in s /\ j \notin r
      BY <2>1, <2>5
    <3> HIDE DEF x, r
    <3>2. h[s] = g[s] + d
      BY <1>3, <2>1, <2>2, <2>3, <2>4, <2>5, <3>1
    <3> QED
      BY <3>1, <3>2
  <2>6. CASE x # j
    <3>1. j \in s <=> j \in r
      BY <2>1, <2>6
    <3>2. Worth(q[x]) = Worth(p[x])
      BY <2>1, <2>6
    <3> HIDE DEF x, r
    <3>3. h[s] = g[s] + (IF j \in r THEN d ELSE 0)
      BY <1>3, <2>1, <2>2, <2>3, <2>4, <3>2
    <3> QED
      BY <3>1, <3>3
  <2> QED
    BY <2>5, <2>6
<1>6. SUBSET Instruments \subseteq T
  <2> HIDE DEF T
  <2> QED
    BY <1>4, <1>5, TradeAssumption, OneByOne
<1>7. h[Instruments] = g[Instruments] + d
  BY <1>6
<1>8. g[Instruments] \in Int /\ h[Instruments] \in Int
  BY <1>1, <1>2
<1> QED
  BY <1>1, <1>2, <1>7, <1>8

\* Nothing held is worth nothing.
LEMMA SumOfNothing ==
  Worths([i \in Instruments |-> Flat]) = 0
<1> DEFINE none == [i \in Instruments |-> Flat]
<1>1. none \in Holdings
  BY DEF Holdings
<1>2. PICK g \in [SUBSET Instruments -> Int] :
        /\ \A s \in SUBSET Instruments :
             g[s] = IF s = {} THEN 0
                    ELSE Worth(none[CHOOSE x \in s : TRUE]) + g[s \ {CHOOSE x \in s : TRUE}]
        /\ Worths(none) = g[Instruments]
  BY <1>1, SumUnfolds
<1> DEFINE T == {s \in SUBSET Instruments : g[s] = 0}
<1>3. \A i \in Instruments : Worth(none[i]) = 0
  BY DEF Worth
<1> HIDE DEF none
<1>4. {} \in T
  BY <1>2
<1>5. ASSUME NEW s \in SUBSET Instruments, s # {}, \A x \in s : s \ {x} \in T PROVE s \in T
  <2> DEFINE x == CHOOSE y \in s : TRUE
             r == s \ {x}
  <2>1. x \in s /\ x \in Instruments
    BY <1>5
  <2>2. g[s] = Worth(none[x]) + g[r]
    BY <1>2, <1>5
  <2>3. g[r] = 0 /\ Worth(none[x]) = 0
    BY <1>3, <1>5, <2>1
  <2> QED
    BY <2>2, <2>3
<1>6. SUBSET Instruments \subseteq T
  <2> HIDE DEF T
  <2> QED
    BY <1>4, <1>5, TradeAssumption, OneByOne
<1> QED
  BY <1>2, <1>6 DEF none

LEMMA BalancedUnfolds ==
  ASSUME NEW b
  PROVE  Balanced(b) <=>
           /\ \A i \in Instruments : Signed(b.position[i]) = b.net[i]
           /\ \/ b.wiped
              \/ b.cash = InitialCash + b.paid + b.flow + b.dust + Worths(b.position)
  BY DEF Balanced, SizesAddUp, MoneyAddsUp, Worths

-----------------------------------------------------------------------------
(* One fill. *)

LEMMA QuotientType ==
  ASSUME NEW n \in Nat, NEW d \in Nat \ {0}
  PROVE  /\ n \div d \in Nat /\ n % d \in Nat /\ n % d <= n
         /\ n = d * (n \div d) + (n % d)
<1>1. n \div d \in Int /\ n % d \in Int /\ 0 <= n % d /\ n % d < d /\ n = d * (n \div d) + (n % d)
  OBVIOUS
<1> DEFINE q == n \div d
           r == n % d
<1>2. n = d * q + r /\ q \in Int /\ r \in Int /\ 0 <= r /\ r < d
  BY <1>1
<1> HIDE DEF q, r
<1>3. q >= 0
  <2> SUFFICES ASSUME q <= -1 PROVE FALSE
    BY <1>2
  <2>1. d * (q + 1) <= 0
    BY <1>2
  <2>2. d * (q + 1) = d * q + d
    BY <1>2
  <2> QED
    BY <1>2, <2>1, <2>2
<1>4. d * q >= 0 /\ d * q \in Int
  BY <1>2, <1>3
<1>5. r <= n
  BY <1>2, <1>4
<1> QED
  BY <1>2, <1>3, <1>5 DEF q, r

LEMMA RoundDownType ==
  ASSUME NEW v \in Int
  PROVE  RoundDown(v) \in Int
<1>1. Step \in Nat \ {0}
  BY TradeAssumption
<1> QED
  BY <1>1 DEF RoundDown

LEMMA SlippedType ==
  ASSUME NEW mark \in Prices, NEW side \in Sides
  PROVE  Slipped(mark, side) \in Int
<1>1. mark \in Nat /\ Slippage \in Nat /\ side \in {1, -1}
  BY TradeAssumption DEF Sides, Long, Short
<1>2. mark + side * Slippage \in Int
  BY <1>1
<1> QED
  BY <1>2 DEF Slipped, Larger

\* Division towards zero, whatever the signs.
LEMMA RestType ==
  ASSUME NEW a \in Int, NEW b \in Int, b # 0
  PROVE  /\ Quotient(a, b) \in Int /\ Rest(a, b) \in Int
         /\ a = b * Quotient(a, b) + Rest(a, b)
<1> DEFINE m == Magnitude(a)
           d == Magnitude(b)
           q == m \div d
           r == m % d
<1>1. /\ m \in Nat /\ d \in Nat \ {0}
      /\ a = IF a < 0 THEN - m ELSE m
      /\ b = IF b < 0 THEN - d ELSE d
  BY DEF Magnitude
<1>2. /\ Quotient(a, b) = IF (a < 0) = (b < 0) THEN q ELSE - q
      /\ Rest(a, b) = IF a < 0 THEN - r ELSE r
  BY DEF Quotient, Rest
<1> HIDE DEF m, d
<1>3. q \in Int /\ r \in Int /\ m = d * q + r
  BY <1>1, QuotientType
<1> HIDE DEF q, r
<1> DEFINE dq == d * q
<1>4. dq \in Int /\ m = dq + r /\ d * (- q) = - dq /\ (- d) * q = - dq /\ (- d) * (- q) = dq
  BY <1>1, <1>3
<1> HIDE DEF dq
<1>5. CASE a < 0 /\ b < 0
  <2>1. a = - m /\ b = - d /\ Quotient(a, b) = q /\ Rest(a, b) = - r
    BY <1>1, <1>2, <1>5
  <2>2. b * Quotient(a, b) = - dq
    BY <1>4, <2>1
  <2> QED
    BY <1>3, <1>4, <2>1, <2>2
<1>6. CASE a < 0 /\ ~ (b < 0)
  <2>1. a = - m /\ b = d /\ Quotient(a, b) = - q /\ Rest(a, b) = - r
    BY <1>1, <1>2, <1>6
  <2>2. b * Quotient(a, b) = - dq
    BY <1>4, <2>1
  <2> QED
    BY <1>3, <1>4, <2>1, <2>2
<1>7. CASE ~ (a < 0) /\ b < 0
  <2>1. a = m /\ b = - d /\ Quotient(a, b) = - q /\ Rest(a, b) = r
    BY <1>1, <1>2, <1>7
  <2>2. b * Quotient(a, b) = dq
    BY <1>4, <2>1
  <2> QED
    BY <1>3, <1>4, <2>1, <2>2
<1>8. CASE ~ (a < 0) /\ ~ (b < 0)
  <2>1. a = m /\ b = d /\ Quotient(a, b) = q /\ Rest(a, b) = r
    BY <1>1, <1>2, <1>8
  <2>2. b * Quotient(a, b) = dq
    BY <2>1 DEF dq
  <2> QED
    BY <1>3, <1>4, <2>1, <2>2
<1> QED
  BY <1>5, <1>6, <1>7, <1>8

\* money::weighted_average loses exactly the rest of its division.
LEMMA AverageType ==
  ASSUME NEW entry \in Int, NEW held \in Int, NEW price \in Int, NEW qty \in Int
  PROVE  /\ WeightedAverage(entry, held, price, qty) \in Int
         /\ held + qty # 0 =>
              /\ entry * held + price * qty
                   = (held + qty) * WeightedAverage(entry, held, price, qty)
                       + Rest(entry * held + price * qty, held + qty)
              /\ Rest(entry * held + price * qty, held + qty) \in Int
<1>1. CASE held + qty = 0
  BY <1>1 DEF WeightedAverage
<1>2. CASE held + qty # 0
  <2> DEFINE n == entry * held + price * qty
             d == held + qty
  <2>1. n \in Int /\ d \in Int /\ d # 0
    BY <1>2
  <2>2. WeightedAverage(entry, held, price, qty) = Quotient(n, d)
    BY <1>2 DEF WeightedAverage
  <2> HIDE DEF n, d
  <2>3. /\ WeightedAverage(entry, held, price, qty) \in Int /\ Rest(n, d) \in Int
        /\ n = d * WeightedAverage(entry, held, price, qty) + Rest(n, d)
    BY <2>1, <2>2, RestType
  <2> QED
    BY <1>2, <2>3, Zenon DEF n, d
<1> QED
  BY <1>1, <1>2

LEMMA PositionFields ==
  ASSUME NEW p \in Positions
  PROVE  /\ p # Flat /\ p.side \in {1, -1} /\ p.side \in Sides /\ p.qty \in Int /\ p.entry \in Int
         /\ Signed(p) = p.side * p.qty /\ Worth(p) = (p.side * p.qty) * p.entry
BY TradeAssumption DEF Positions, Sides, Long, Short, Signed, Worth

LEMMA PositionMade ==
  ASSUME NEW s \in Sides, NEW q \in Int, NEW e \in Int
  PROVE  /\ [side |-> s, qty |-> q, entry |-> e] \in Positions
         /\ Signed([side |-> s, qty |-> q, entry |-> e]) = s * q
         /\ Worth([side |-> s, qty |-> q, entry |-> e]) = (s * q) * e
<1>1. [side |-> s, qty |-> q, entry |-> e] \in Positions
  BY DEF Positions
<1> QED
  BY <1>1, PositionFields

\* Adding to a position changes its worth by what was paid, less the remainder.
LEMMA AveragedWorth ==
  ASSUME NEW s \in {1, -1}, NEW h \in Int, NEW e \in Int, NEW q \in Int, NEW m \in Int,
         NEW a \in Int, NEW r \in Int, e * h + m * q = (h + q) * a + r
  PROVE  s * r \in Int /\ (s * q) * m = s * r + ((s * (h + q)) * a - (s * h) * e)
<1> DEFINE eh == e * h
           mq == m * q
           na == (h + q) * a
<1>1. eh \in Int /\ mq \in Int /\ na \in Int /\ eh + mq = na + r
  OBVIOUS
<1>2. CASE s = 1
  <2>1. (s * q) * m = mq /\ (s * (h + q)) * a = na /\ (s * h) * e = eh /\ s * r = r
    BY <1>2
  <2> HIDE DEF eh, mq, na
  <2> QED
    BY <1>1, <2>1
<1>3. CASE s = -1
  <2>1. (s * q) * m = - mq /\ (s * (h + q)) * a = - na /\ (s * h) * e = - eh /\ s * r = - r
    BY <1>3
  <2> HIDE DEF eh, mq, na
  <2> QED
    BY <1>1, <2>1
<1> QED
  BY <1>2, <1>3

\* What a fill does to a position, and to its books in size and in money.
LEMMA FillBalances ==
  ASSUME NEW p \in Positions \cup {Flat}, NEW side \in Sides, NEW qty \in Int, NEW price \in Int
  PROVE  /\ PositionAfter(p, side, qty, price) \in Positions \cup {Flat}
         /\ Realized(p, side, qty, price) \in Int
         /\ Remainder(p, side, qty, price) \in Int
         /\ Signed(PositionAfter(p, side, qty, price)) = Signed(p) + side * qty
         /\ ~ Wipes(p, side, qty) =>
              Realized(p, side, qty, price) + (side * qty) * price
                = Remainder(p, side, qty, price)
                  + (Worth(PositionAfter(p, side, qty, price)) - Worth(p))
<1> DEFINE after == PositionAfter(p, side, qty, price)
<1>1. side \in {1, -1}
  BY DEF Sides, Long, Short
<1>2. CASE p = Flat
  <2>1. after = [side |-> side, qty |-> qty, entry |-> price]
    BY <1>2 DEF PositionAfter
  <2>2. Realized(p, side, qty, price) = 0 /\ Remainder(p, side, qty, price) = 0
    BY <1>2 DEF Realized, Remainder
  <2>3. Signed(p) = 0 /\ Worth(p) = 0
    BY <1>2 DEF Signed, Worth
  <2>4. after \in Positions /\ Signed(after) = side * qty /\ Worth(after) = (side * qty) * price
    BY <2>1, PositionMade
  <2>5. side * qty \in Int /\ (side * qty) * price \in Int
    BY <1>1
  <2> QED
    BY <2>2, <2>3, <2>4, <2>5
<1>3. CASE p # Flat /\ p.side = side
  <2> DEFINE e == WeightedAverage(p.entry, p.qty, price, qty)
             r == Rest(p.entry * p.qty + price * qty, p.qty + qty)
  <2>1. /\ p \in Positions /\ p.qty \in Int /\ p.entry \in Int
        /\ Signed(p) = side * p.qty /\ Worth(p) = (side * p.qty) * p.entry
    BY <1>3, PositionFields
  <2>2. after = [side |-> side, qty |-> p.qty + qty, entry |-> e]
    BY <1>3, <2>1 DEF PositionAfter, Positions
  <2>3. /\ e \in Int
        /\ p.qty + qty # 0 => p.entry * p.qty + price * qty = (p.qty + qty) * e + r /\ r \in Int
    <3>1. p.entry \in Int /\ p.qty \in Int
      BY <2>1
    <3>2. /\ WeightedAverage(p.entry, p.qty, price, qty) \in Int
          /\ p.qty + qty # 0 =>
               /\ p.entry * p.qty + price * qty
                    = (p.qty + qty) * WeightedAverage(p.entry, p.qty, price, qty)
                        + Rest(p.entry * p.qty + price * qty, p.qty + qty)
               /\ Rest(p.entry * p.qty + price * qty, p.qty + qty) \in Int
      BY <3>1, AverageType, Zenon
    <3> QED
      BY <3>2, Zenon
  <2>4. Realized(p, side, qty, price) = 0
    BY <1>3 DEF Realized
  <2>5. Remainder(p, side, qty, price) = IF p.qty + qty = 0 THEN 0 ELSE side * r
    BY <1>3 DEF Remainder
  <2> HIDE DEF e, r, after
  <2>6. p.qty + qty \in Int
    BY <2>1
  <2>7. /\ after \in Positions /\ Signed(after) = side * (p.qty + qty)
        /\ Worth(after) = (side * (p.qty + qty)) * e
    BY <2>2, <2>3, <2>6, PositionMade
  <2>8. Signed(after) = Signed(p) + side * qty
    BY <1>1, <2>1, <2>7
  <2>9. CASE p.qty + qty = 0
    <3>1. ASSUME ~ Wipes(p, side, qty) PROVE p.qty = 0 /\ qty = 0
      BY <1>3, <2>1, <2>9, <3>1 DEF Wipes
    <3>2. ASSUME p.qty = 0 /\ qty = 0
          PROVE  Worth(after) = 0 /\ Worth(p) = 0 /\ (side * qty) * price = 0
      BY <1>1, <2>1, <2>3, <2>7, <3>2
    <3> QED
      BY <2>4, <2>5, <2>7, <2>8, <2>9, <3>1, <3>2 DEF after
  <2>10. CASE p.qty + qty # 0
    <3>1. r \in Int /\ p.entry * p.qty + price * qty = (p.qty + qty) * e + r
      BY <2>3, <2>10
    <3>2. side * r \in Int /\ (side * qty) * price = side * r + (Worth(after) - Worth(p))
      <4> DEFINE h == p.qty
                 f == p.entry
      <4>1. h \in Int /\ f \in Int /\ e \in Int /\ f * h + price * qty = (h + qty) * e + r
        BY <2>1, <2>3, <3>1
      <4>2. Worth(after) = (side * (h + qty)) * e /\ Worth(p) = (side * h) * f
        BY <2>1, <2>7
      <4> HIDE DEF h, f
      <4>3. /\ side * r \in Int
            /\ (side * qty) * price = side * r + ((side * (h + qty)) * e - (side * h) * f)
        BY <1>1, <3>1, <4>1, AveragedWorth
      <4> QED
        BY <4>2, <4>3
    <3>3. (side * qty) * price \in Int
      BY <1>1
    <3> QED
      BY <2>4, <2>5, <2>7, <2>8, <2>10, <3>2, <3>3 DEF after
  <2> QED
    BY <2>9, <2>10
<1>4. CASE p # Flat /\ p.side # side
  <2> DEFINE h == p.qty
             e == p.entry
             closed == Smaller(qty, h)
  <2>1. /\ p \in Positions /\ p.side \in {1, -1} /\ h \in Int /\ e \in Int
        /\ Signed(p) = p.side * h /\ Worth(p) = (p.side * h) * e
    BY <1>4, PositionFields
  <2>2. p.side = - side
    BY <1>1, <1>4, <2>1
  <2>3. /\ Realized(p, side, qty, price) = ((price - e) * closed) * p.side
        /\ Remainder(p, side, qty, price) = 0
    BY <1>4 DEF Realized, Remainder
  <2>4. closed = IF qty < h THEN qty ELSE h
    BY DEF Smaller
  <2>5. CASE qty > h
    <3>1. closed = h /\ qty - h \in Int
      BY <2>1, <2>4, <2>5
    <3>2. after = [side |-> side, qty |-> qty - h, entry |-> price]
      BY <1>4, <2>5, <3>1 DEF PositionAfter
    <3>3. /\ after \in Positions /\ Signed(after) = side * (qty - h)
          /\ Worth(after) = (side * (qty - h)) * price
      <4> HIDE DEF h, after
      <4> QED
        BY <3>1, <3>2, PositionMade
    <3> HIDE DEF h, e, closed, after
    <3>4. /\ Signed(after) = Signed(p) + side * qty
          /\ ((price - e) * closed) * p.side \in Int
          /\ ((price - e) * closed) * p.side + (side * qty) * price = Worth(after) - Worth(p)
      <4>1. CASE side = 1
        BY <2>1, <2>2, <3>1, <3>3, <4>1
      <4>2. CASE side = -1
        BY <2>1, <2>2, <3>1, <3>3, <4>2
      <4> QED
        BY <1>1, <4>1, <4>2
    <3>5. Worth(after) \in Int /\ Worth(p) \in Int
      BY <2>1, <3>3, WorthType
    <3> QED
      BY <2>3, <3>3, <3>4, <3>5 DEF after
  <2>6. CASE qty = h
    <3>1. closed = h
      BY <2>1, <2>4, <2>6
    <3>2. after = Flat
      BY <1>4, <2>1, <2>6, <3>1 DEF PositionAfter
    <3>3. Signed(after) = 0 /\ Worth(after) = 0
      BY <3>2 DEF Signed, Worth
    <3> HIDE DEF h, e, closed, after
    <3>4. /\ Signed(after) = Signed(p) + side * qty
          /\ ((price - e) * closed) * p.side \in Int
          /\ ((price - e) * closed) * p.side + (side * qty) * price = Worth(after) - Worth(p)
      <4>1. CASE side = 1
        BY <2>1, <2>2, <2>6, <3>1, <3>3, <4>1
      <4>2. CASE side = -1
        BY <2>1, <2>2, <2>6, <3>1, <3>3, <4>2
      <4> QED
        BY <1>1, <4>1, <4>2
    <3>5. Worth(p) \in Int
      BY <2>1, WorthType
    <3> QED
      BY <2>3, <3>2, <3>3, <3>4, <3>5 DEF after
  <2>7. CASE qty < h
    <3>1. closed = qty /\ h - qty \in Int
      BY <2>1, <2>4, <2>7
    <3>2. after = [p EXCEPT !.qty = h - qty]
      BY <1>4, <2>1, <2>7, <3>1 DEF PositionAfter
    <3>3. after = [side |-> p.side, qty |-> h - qty, entry |-> e]
      BY <2>1, <3>2 DEF Positions
    <3>4. /\ after \in Positions /\ Signed(after) = p.side * (h - qty)
          /\ Worth(after) = (p.side * (h - qty)) * e
      <4>1. p.side \in Sides
        BY <2>1, PositionFields
      <4> HIDE DEF h, e, after
      <4> QED
        BY <2>1, <3>1, <3>3, <4>1, PositionMade
    <3> HIDE DEF h, e, closed, after
    <3>5. /\ Signed(after) = Signed(p) + side * qty
          /\ ((price - e) * closed) * p.side \in Int
          /\ ((price - e) * closed) * p.side + (side * qty) * price = Worth(after) - Worth(p)
      <4>1. CASE side = 1
        BY <2>1, <2>2, <3>1, <3>4, <4>1
      <4>2. CASE side = -1
        BY <2>1, <2>2, <3>1, <3>4, <4>2
      <4> QED
        BY <1>1, <4>1, <4>2
    <3>6. Worth(after) \in Int /\ Worth(p) \in Int
      BY <2>1, <3>4, WorthType
    <3> QED
      BY <2>3, <3>4, <3>5, <3>6 DEF after
  <2> QED
    BY <2>1, <2>5, <2>6, <2>7
<1> QED
  BY <1>2, <1>3, <1>4

-----------------------------------------------------------------------------
(* The inductive invariant. *)

UniqueIds(b) == \A j, k \in DOMAIN b.orders : b.orders[j].id = b.orders[k].id => j = k

FillsOnce(b) == \A j, k \in DOMAIN b.fills : b.fills[j].order = b.fills[k].order => j = k

OpenUnfilled(b) ==
  \A k \in DOMAIN b.orders, j \in DOMAIN b.fills :
    IsOpen(b.orders[k]) => b.fills[j].order # b.orders[k].id

IdsBelow(b, n) ==
  /\ \A k \in DOMAIN b.orders : b.orders[k].id < n
  /\ \A j \in DOMAIN b.fills : b.fills[j].order < n

\* Books in order, when the next id is n.
GoodBooks(n) ==
  {b \in Books : UniqueIds(b) /\ FillsOnce(b) /\ OpenUnfilled(b) /\ IdsBelow(b, n) /\ Balanced(b)}

\* A request measures once, and only when it closes a position.
MeasuresOnce(w) ==
  /\ \A k \in DOMAIN todo[w] : todo[w][k] = "measure" => arg[w].op = "close"
  /\ \A j, k \in DOMAIN todo[w] : todo[w][j] = "measure" /\ todo[w][k] = "measure" => j = k

RowInv ==
  /\ account \in {"none", "enabled", "disabled", "gone"} /\ trading \in BOOLEAN
  /\ nextId \in Nat \ {0} /\ events \in Nat

RequestInv ==
  /\ todo \in [Workers -> Seq(StepNames)] /\ arg \in [Workers -> Asked]
  /\ \A w \in Workers : MeasuresOnce(w)

PendingInv == pending \in [Workers -> Seq([at : Nat, instrument : Instruments])]

BooksInv ==
  /\ {book, disk} \subseteq GoodBooks(nextId) \cup {NoBook}
  /\ write \in [Workers -> SUBSET (GoodBooks(nextId) \cup {NoBook})]
  /\ \A w \in Workers : Cardinality(write[w]) <= 1

IInv == RowInv /\ RequestInv /\ PendingInv /\ BooksInv

-----------------------------------------------------------------------------
(* What the steps on the books do to their fields. *)

LEMMA BookFields ==
  ASSUME NEW b \in Books
  PROVE  /\ b.cash \in Int /\ b.orders \in Seq(BookOrders) /\ b.fills \in Seq(BookFills)
         /\ b.position \in Holdings /\ b.net \in [Instruments -> Int]
         /\ b.flow \in Int /\ b.paid \in Nat /\ b.dust \in Int /\ b.wiped \in BOOLEAN
BY DEF Books, Holdings

LEMMA OrderFields ==
  ASSUME NEW o \in BookOrders
  PROVE  /\ o.id \in 1 .. MaxOrders /\ o.instrument \in Instruments /\ o.side \in Sides
         /\ o.level \in Int /\ o.qty \in Int /\ o.status \in Statuses /\ o.kind \in Kinds
         /\ o.side \in {1, -1}
BY DEF BookOrders, Sides, Long, Short

\* New orders, and the rest as it was.
LEMMA OrdersReplaced ==
  ASSUME NEW b \in Books, NEW s \in Seq(BookOrders)
  PROVE  /\ [b EXCEPT !.orders = s] \in Books
         /\ [b EXCEPT !.orders = s].orders = s
         /\ [b EXCEPT !.orders = s].fills = b.fills
         /\ [b EXCEPT !.orders = s].position = b.position
         /\ Balanced(b) => Balanced([b EXCEPT !.orders = s])
<1> DEFINE c == [b EXCEPT !.orders = s]
<1>1. c \in Books
  BY DEF Books
<1>2. /\ c.orders = s /\ c.fills = b.fills /\ c.position = b.position /\ c.cash = b.cash
      /\ c.net = b.net /\ c.flow = b.flow /\ c.paid = b.paid /\ c.dust = b.dust
      /\ c.wiped = b.wiped
  BY DEF Books
<1> HIDE DEF c
<1>3. Balanced(b) => Balanced(c)
  BY <1>2, BalancedUnfolds
<1> QED
  BY <1>1, <1>2, <1>3 DEF c

\* The books after a fill, money aside.
LEMMA ExecutedFields ==
  ASSUME NEW b \in Books, NEW o \in BookOrders, NEW price \in Int, NEW of \in Instruments
  PROVE  /\ Executed(b, o, price, of).orders = b.orders
         /\ Executed(b, o, price, of).fills
              = Append(b.fills, [order |-> o.id, instrument |-> o.instrument, markOf |-> of])
         /\ Executed(b, o, price, of).position
              = [b.position EXCEPT ![o.instrument] =
                   PositionAfter(b.position[o.instrument], o.side, o.qty, price)]
<1>1. Executed(b, o, price, of).orders = b.orders
  BY DEF Executed, Books
<1>2. Executed(b, o, price, of).fills
        = Append(b.fills, [order |-> o.id, instrument |-> o.instrument, markOf |-> of])
  BY DEF Executed, Books
<1>3. Executed(b, o, price, of).position
        = [b.position EXCEPT ![o.instrument] =
             PositionAfter(b.position[o.instrument], o.side, o.qty, price)]
  BY DEF Executed, Books
<1> QED
  BY <1>1, <1>2, <1>3

\* What a fill takes from the cash it gives to the positions.
LEMMA FillIsPaid ==
  ASSUME NEW cash \in Int, NEW start \in Int, NEW paid \in Int, NEW flow \in Int, NEW dust \in Int,
         NEW worth \in Int, NEW gain \in Int, NEW cost \in Int, NEW fee \in Int, NEW rest \in Int,
         NEW more \in Int, gain + cost = rest + more,
         cash = start + paid + flow + dust + worth
  PROVE  cash + gain - fee = start + paid + (flow - cost - fee) + (dust + rest) + (worth + more)
OBVIOUS

\* A fill keeps the types of the books and their balance.
LEMMA ExecutedGood ==
  ASSUME NEW b \in Books, NEW o \in BookOrders, NEW price \in Int, NEW of \in Instruments
  PROVE  /\ Executed(b, o, price, of) \in Books
         /\ Balanced(b) => Balanced(Executed(b, o, price, of))
<1> DEFINE i == o.instrument
           p == b.position[i]
           q == PositionAfter(p, o.side, o.qty, price)
           fee == FeeRate * Magnitude(price * o.qty)
           wipes == Wipes(p, o.side, o.qty)
           gain == Realized(p, o.side, o.qty, price)
           rest == Remainder(p, o.side, o.qty, price)
           cost == (o.side * o.qty) * price
           e == Executed(b, o, price, of)
<1>1. /\ i \in Instruments /\ o.side \in Sides /\ o.side \in {1, -1} /\ o.qty \in Int
      /\ o.id \in 1 .. MaxOrders
  BY OrderFields
<1>2. /\ b.cash \in Int /\ b.orders \in Seq(BookOrders) /\ b.fills \in Seq(BookFills)
      /\ b.position \in Holdings /\ b.net \in [Instruments -> Int]
      /\ b.flow \in Int /\ b.paid \in Nat /\ b.dust \in Int /\ b.wiped \in BOOLEAN
  BY BookFields
<1>3. p \in Positions \cup {Flat}
  BY <1>1, <1>2 DEF Holdings
<1>4. /\ q \in Positions \cup {Flat} /\ gain \in Int /\ rest \in Int
      /\ Signed(q) = Signed(p) + o.side * o.qty
      /\ ~ wipes => gain + cost = rest + (Worth(q) - Worth(p))
  <2> HIDE DEF p
  <2> QED
    BY <1>1, <1>3, FillBalances
<1>5. fee \in Int /\ cost \in Int /\ o.side * o.qty \in Int
  <2>1. FeeRate \in Nat
    BY TradeAssumption
  <2>2. price * o.qty \in Int
    BY <1>1
  <2>3. Magnitude(price * o.qty) \in Int
    BY <2>2 DEF Magnitude
  <2> QED
    BY <1>1, <2>1, <2>3
<1>6. /\ e.cash = b.cash + gain - fee
      /\ e.orders = b.orders
      /\ e.fills = Append(b.fills, [order |-> o.id, instrument |-> i, markOf |-> of])
      /\ e.position = [b.position EXCEPT ![i] = q]
      /\ e.net = [b.net EXCEPT ![i] = @ + o.side * o.qty]
      /\ e.flow = b.flow - cost - fee
      /\ e.paid = b.paid
      /\ e.dust = b.dust + rest
      /\ e.wiped = (b.wiped \/ wipes)
  <2>1. e.orders = b.orders /\ e.paid = b.paid
    BY DEF Executed, Books
  <2>2. e.cash = b.cash + gain - fee
    BY DEF Executed, Books
  <2>3. e.fills = Append(b.fills, [order |-> o.id, instrument |-> i, markOf |-> of])
    BY DEF Executed, Books
  <2>4. e.position = [b.position EXCEPT ![i] = q]
    BY DEF Executed, Books
  <2>5. e.net = [b.net EXCEPT ![i] = @ + o.side * o.qty]
    BY DEF Executed, Books
  <2>6. e.flow = b.flow - cost - fee
    BY DEF Executed, Books
  <2>7. e.dust = b.dust + rest
    BY DEF Executed, Books
  <2>8. e.wiped = (b.wiped \/ wipes)
    BY DEF Executed, Books
  <2> HIDE DEF i, p, q, fee, gain, rest, cost, wipes, e
  <2> QED
    BY <2>1, <2>2, <2>3, <2>4, <2>5, <2>6, <2>7, <2>8
<1>7. e \in Books
  <2>1. DOMAIN e = {"cash", "orders", "fills", "position", "net", "flow", "paid", "dust", "wiped"}
    BY DEF Executed, Books
  <2>2. e = [x \in DOMAIN e |-> e[x]]
    BY DEF Executed, Books
  <2>6. wipes \in BOOLEAN
    BY DEF Wipes
  <2> HIDE DEF i, p, q, fee, gain, rest, cost, wipes, e
  <2>7. e.wiped \in BOOLEAN
    BY <1>2, <1>6, <2>6
  <2>3. e.cash \in Int /\ e.flow \in Int /\ e.dust \in Int /\ e.paid \in Nat
    <3>1. b.cash \in Int /\ b.flow \in Int /\ b.dust \in Int /\ b.paid \in Nat
      BY <1>2
    <3>2. gain \in Int /\ rest \in Int /\ fee \in Int /\ cost \in Int
      BY <1>4, <1>5
    <3>3. e.cash = b.cash + gain - fee /\ e.flow = b.flow - cost - fee /\ e.dust = b.dust + rest
          /\ e.paid = b.paid
      BY <1>6
    <3> QED
      BY <3>1, <3>2, <3>3
  <2>4. e.fills \in Seq(BookFills)
    <3>1. [order |-> o.id, instrument |-> i, markOf |-> of] \in BookFills
      BY <1>1 DEF BookFills
    <3> QED
      BY <1>2, <1>6, <3>1
  <2>5. e.position \in [Instruments -> Positions \cup {Flat}] /\ e.net \in [Instruments -> Int]
    <3>1. i \in Instruments /\ q \in Positions \cup {Flat} /\ o.side * o.qty \in Int
      BY <1>1, <1>4, <1>5
    <3>2. /\ b.position \in [Instruments -> Positions \cup {Flat}]
          /\ e.position = [b.position EXCEPT ![i] = q]
      BY <1>2, <1>6 DEF Holdings
    <3>3. b.net \in [Instruments -> Int] /\ e.net = [b.net EXCEPT ![i] = @ + o.side * o.qty]
      BY <1>2, <1>6
    <3>4. e.position \in [Instruments -> Positions \cup {Flat}]
      BY <3>1, <3>2
    <3> DEFINE n == o.side * o.qty
    <3> HIDE DEF n
    <3>5. e.net \in [Instruments -> Int]
      <4>1. n \in Int /\ e.net = [b.net EXCEPT ![i] = @ + n]
        BY <3>1, <3>3 DEF n
      <4> QED
        BY <3>1, <3>3, <4>1
    <3> QED
      BY <3>4, <3>5
  <2> QED
    BY <1>2, <1>6, <2>1, <2>2, <2>3, <2>4, <2>5, <2>7 DEF Books
<1>8. ASSUME Balanced(b) PROVE Balanced(e)
  <2>1. /\ \A j \in Instruments : Signed(b.position[j]) = b.net[j]
        /\ \/ b.wiped
           \/ b.cash = InitialCash + b.paid + b.flow + b.dust + Worths(b.position)
    BY <1>8, BalancedUnfolds
  <2>2. Signed(p) = b.net[i]
    BY <1>1, <2>1
  <2> HIDE DEF q, fee, gain, rest, cost, wipes, e
  <2>3. e.position \in Holdings
    BY <1>1, <1>2, <1>4, <1>6 DEF Holdings
  <2>4. e.position[i] = q /\ \A j \in Instruments : j # i => e.position[j] = b.position[j]
    BY <1>1, <1>2, <1>6 DEF Holdings
  <2>5. e.net[i] = b.net[i] + o.side * o.qty /\ \A j \in Instruments : j # i => e.net[j] = b.net[j]
    BY <1>1, <1>2, <1>6
  <2> HIDE DEF i
  <2>6. /\ Worths(b.position) \in Int /\ Worths(e.position) \in Int
        /\ Worths(e.position) = Worths(b.position) + (Worth(e.position[i]) - Worth(b.position[i]))
    BY <1>1, <1>2, <2>3, <2>4, SumChanges
  <2>7. \A j \in Instruments : Signed(e.position[j]) = e.net[j]
    BY <1>4, <2>1, <2>2, <2>4, <2>5
  <2>8. ASSUME ~ e.wiped
        PROVE  e.cash = InitialCash + e.paid + e.flow + e.dust + Worths(e.position)
    <3>6. ~ b.wiped /\ ~ wipes
      BY <1>6, <2>8
    <3>1. InitialCash \in Int
      BY TradeAssumption
    <3>2. Worth(p) \in Int /\ Worth(q) \in Int
      BY <1>3, <1>4, WorthType
    <3>3. Worths(e.position) = Worths(b.position) + (Worth(q) - Worth(p))
      BY <2>4, <2>6
    <3> DEFINE wb == Worths(b.position)
               we == Worths(e.position)
               wp == Worth(p)
               wq == Worth(q)
    <3>4. /\ wb \in Int /\ we \in Int /\ we = wb + (wq - wp) /\ wp \in Int /\ wq \in Int
          /\ b.cash = InitialCash + b.paid + b.flow + b.dust + wb
          /\ gain + cost = rest + (wq - wp)
      BY <1>4, <2>1, <2>6, <3>2, <3>3, <3>6
    <3> HIDE DEF wb, we, wp, wq, p
    <3>5. e.cash = InitialCash + e.paid + e.flow + e.dust + we
      <4>1. /\ b.cash \in Int /\ b.flow \in Int /\ b.dust \in Int /\ b.paid \in Int
            /\ gain \in Int /\ rest \in Int /\ fee \in Int /\ cost \in Int
        BY <1>2, <1>4, <1>5
      <4>2. e.cash = b.cash + gain - fee /\ e.flow = b.flow - cost - fee /\ e.dust = b.dust + rest
            /\ e.paid = b.paid
        BY <1>6
      <4> QED
        <5> DEFINE more == wq - wp
        <5>1. more \in Int /\ gain + cost = rest + more /\ we = wb + more
          BY <3>4
        <5> HIDE DEF more
        <5>2. b.cash + gain - fee
                = InitialCash + b.paid + (b.flow - cost - fee) + (b.dust + rest) + (wb + more)
          BY <3>1, <3>4, <4>1, <5>1, FillIsPaid
        <5> QED
          BY <4>2, <5>1, <5>2
    <3> QED
      BY <3>5 DEF we
  <2> QED
    BY <2>7, <2>8, BalancedUnfolds
<1> QED
  BY <1>7, <1>8

-----------------------------------------------------------------------------
(* Books in order stay in order. *)

LEMMA GoodFields ==
  ASSUME NEW n, NEW b
  PROVE  b \in GoodBooks(n) <=>
           /\ b \in Books /\ UniqueIds(b) /\ FillsOnce(b) /\ OpenUnfilled(b)
           /\ IdsBelow(b, n) /\ Balanced(b)
BY DEF GoodBooks

LEMMA OrderAt ==
  ASSUME NEW b \in Books, NEW k \in DOMAIN b.orders
  PROVE  b.orders[k] \in BookOrders /\ k \in Nat
<1>1. b.orders \in Seq(BookOrders)
  BY BookFields
<1> QED
  BY <1>1

LEMMA FillAt ==
  ASSUME NEW b \in Books, NEW k \in DOMAIN b.fills
  PROVE  b.fills[k] \in BookFills /\ b.fills[k].order \in Nat
<1>1. b.fills \in Seq(BookFills)
  BY BookFields
<1>2. b.fills[k] \in BookFills
  BY <1>1
<1> QED
  BY <1>2 DEF BookFills

\* Orders that all come from different orders of the books, with their ids, and open only if those were.
LEMMA GoodReplaced ==
  ASSUME NEW n \in Nat, NEW b \in GoodBooks(n), NEW s \in Seq(BookOrders),
         NEW m \in [DOMAIN s -> DOMAIN b.orders],
         \A j, k \in DOMAIN s : m[j] = m[k] => j = k,
         \A k \in DOMAIN s : s[k].id = b.orders[m[k]].id /\ (IsOpen(s[k]) => IsOpen(b.orders[m[k]]))
  PROVE  [b EXCEPT !.orders = s] \in GoodBooks(n)
<1> DEFINE c == [b EXCEPT !.orders = s]
<1>1. /\ b \in Books /\ UniqueIds(b) /\ FillsOnce(b) /\ OpenUnfilled(b)
      /\ IdsBelow(b, n) /\ Balanced(b)
  BY GoodFields
<1>2. c \in Books /\ c.orders = s /\ c.fills = b.fills /\ Balanced(c)
  BY <1>1, OrdersReplaced
<1> HIDE DEF c
<1>3. UniqueIds(c)
  BY <1>1, <1>2 DEF UniqueIds
<1>4. FillsOnce(c)
  BY <1>1, <1>2 DEF FillsOnce
<1>5. OpenUnfilled(c)
  BY <1>1, <1>2 DEF OpenUnfilled
<1>6. IdsBelow(c, n)
  BY <1>1, <1>2 DEF IdsBelow
<1>7. c \in GoodBooks(n)
  BY <1>2, <1>3, <1>4, <1>5, <1>6, GoodFields
<1> QED
  BY <1>7 DEF c

\* A greater next id does no harm.
LEMMA GoodLater ==
  ASSUME NEW n \in Nat, NEW b \in GoodBooks(n)
  PROVE  b \in GoodBooks(n + 1)
<1>1. /\ b \in Books /\ UniqueIds(b) /\ FillsOnce(b) /\ OpenUnfilled(b)
      /\ IdsBelow(b, n) /\ Balanced(b)
  BY GoodFields
<1>2. \A k \in DOMAIN b.orders : b.orders[k].id \in Nat
  BY <1>1, OrderAt, OrderFields
<1>3. \A k \in DOMAIN b.fills : b.fills[k].order \in Nat
  BY <1>1, FillAt
<1>4. IdsBelow(b, n + 1)
  BY <1>1, <1>2, <1>3 DEF IdsBelow
<1> QED
  BY <1>1, <1>4, GoodFields

\* Another status, and nothing else.
LEMMA StatusSet ==
  ASSUME NEW o \in BookOrders, NEW x \in Statuses
  PROVE  /\ [o EXCEPT !.status = x] \in BookOrders
         /\ [o EXCEPT !.status = x].id = o.id
         /\ [o EXCEPT !.status = x].status = x
BY DEF BookOrders

\* What trim_history leaves: different orders of the books, the open ones among them.
LEMMA TrimmedOrders ==
  ASSUME NEW b \in Books
  PROVE  \E s \in Seq(BookOrders) : \E m \in [DOMAIN s -> DOMAIN b.orders] :
           /\ Trimmed(b) = [b EXCEPT !.orders = s]
           /\ \A j, k \in DOMAIN s : m[j] = m[k] => j = k
           /\ \A k \in DOMAIN s : s[k] = b.orders[m[k]]
           /\ \A k \in DOMAIN b.orders : IsOpen(b.orders[k]) => \E j \in DOMAIN s : m[j] = k
<1> DEFINE K == Kept(b)
           N == Cardinality(K)
           s == [k \in 1 .. N |-> b.orders[Nth(K, k)]]
           m == [k \in 1 .. N |-> Nth(K, k)]
<1>1. b.orders \in Seq(BookOrders)
  BY BookFields
<1>2. PICK l \in Nat : DOMAIN b.orders = 1 .. l
  BY <1>1
<1>3. K \subseteq 1 .. l /\ K \subseteq DOMAIN b.orders
  BY <1>2 DEF Kept
<1>4. \A k \in DOMAIN b.orders : IsOpen(b.orders[k]) => k \in K
  BY DEF Kept
<1> HIDE DEF K
<1>5. /\ N \in Nat
      /\ \A k \in 1 .. N : Nth(K, k) \in K
      /\ \A j, k \in 1 .. N : Nth(K, j) = Nth(K, k) => j = k
      /\ \A k \in K : \E j \in 1 .. N : Nth(K, j) = k
  BY <1>2, <1>3, NthIsPlace
<1> HIDE DEF N
<1>6. \A k \in 1 .. N : b.orders[Nth(K, k)] \in BookOrders /\ Nth(K, k) \in DOMAIN b.orders
  BY <1>3, <1>5, OrderAt
<1>7. s \in Seq(BookOrders) /\ DOMAIN s = 1 .. N
  BY <1>5, <1>6
<1>8. m \in [DOMAIN s -> DOMAIN b.orders]
  BY <1>6
<1>9. \A j, k \in DOMAIN s : m[j] = m[k] => j = k
  BY <1>5
<1>10. \A k \in DOMAIN s : s[k] = b.orders[m[k]]
  OBVIOUS
<1>11. \A k \in DOMAIN b.orders : IsOpen(b.orders[k]) => \E j \in DOMAIN s : m[j] = k
  BY <1>4, <1>5
<1>12. Trimmed(b) = [b EXCEPT !.orders = s]
  BY DEF Trimmed, K, N
<1> HIDE DEF s, m
<1> QED
  BY <1>7, <1>8, <1>9, <1>10, <1>11, <1>12

LEMMA TrimmedGood ==
  ASSUME NEW n \in Nat, NEW b \in GoodBooks(n)
  PROVE  Trimmed(b) \in GoodBooks(n)
<1>1. b \in Books
  BY GoodFields
<1>2. PICK s \in Seq(BookOrders) : \E m \in [DOMAIN s -> DOMAIN b.orders] :
           /\ Trimmed(b) = [b EXCEPT !.orders = s]
           /\ \A j, k \in DOMAIN s : m[j] = m[k] => j = k
           /\ \A k \in DOMAIN s : s[k] = b.orders[m[k]]
           /\ \A k \in DOMAIN b.orders : IsOpen(b.orders[k]) => \E j \in DOMAIN s : m[j] = k
  BY <1>1, TrimmedOrders
<1>3. PICK m \in [DOMAIN s -> DOMAIN b.orders] :
           /\ Trimmed(b) = [b EXCEPT !.orders = s]
           /\ \A j, k \in DOMAIN s : m[j] = m[k] => j = k
           /\ \A k \in DOMAIN s : s[k] = b.orders[m[k]]
  BY <1>2
<1> QED
  BY <1>3, GoodReplaced

\* One order with the same id, open only if it was, in the place of another.
LEMMA GoodRewritten ==
  ASSUME NEW n \in Nat, NEW b \in GoodBooks(n), NEW k \in DOMAIN b.orders, NEW o \in BookOrders,
         o.id = b.orders[k].id, IsOpen(o) => IsOpen(b.orders[k])
  PROVE  [b EXCEPT !.orders = [b.orders EXCEPT ![k] = o]] \in GoodBooks(n)
<1> DEFINE s == [b.orders EXCEPT ![k] = o]
           m == [j \in DOMAIN b.orders |-> j]
<1>1. b.orders \in Seq(BookOrders)
  BY GoodFields, BookFields
<1>2. s \in Seq(BookOrders) /\ DOMAIN s = DOMAIN b.orders
  BY <1>1
<1>3. \A j \in DOMAIN s : s[j] = IF j = k THEN o ELSE b.orders[j]
  BY <1>1
<1>4. m \in [DOMAIN s -> DOMAIN b.orders] /\ \A j \in DOMAIN s : m[j] = j
  BY <1>2
<1> HIDE DEF s, m
<1>5. \A j \in DOMAIN s : s[j].id = b.orders[m[j]].id /\ (IsOpen(s[j]) => IsOpen(b.orders[m[j]]))
  BY <1>3, <1>4
<1>6. [b EXCEPT !.orders = s] \in GoodBooks(n)
  BY <1>2, <1>4, <1>5, GoodReplaced
<1> QED
  BY <1>6 DEF s

LEMMA EmptyBookGood ==
  ASSUME NEW n \in Nat
  PROVE  EmptyBook \in GoodBooks(n)
<1>1. EmptyBook \in Books
  <2>1. InitialCash \in Int
    BY TradeAssumption
  <2>2. [i \in Instruments |-> Flat] \in [Instruments -> Positions \cup {Flat}]
    OBVIOUS
  <2>3. [i \in Instruments |-> 0] \in [Instruments -> Int]
    OBVIOUS
  <2>4. <<>> \in Seq(BookOrders) /\ <<>> \in Seq(BookFills)
    OBVIOUS
  <2> QED
    BY <2>1, <2>2, <2>3, <2>4 DEF EmptyBook, Books
<1>2. /\ EmptyBook.orders = <<>> /\ EmptyBook.fills = <<>> /\ EmptyBook.cash = InitialCash
      /\ EmptyBook.position = [i \in Instruments |-> Flat]
      /\ EmptyBook.net = [i \in Instruments |-> 0]
      /\ EmptyBook.flow = 0 /\ EmptyBook.paid = 0 /\ EmptyBook.dust = 0
      /\ ~ EmptyBook.wiped
  BY DEF EmptyBook
<1>3. /\ UniqueIds(EmptyBook) /\ FillsOnce(EmptyBook) /\ OpenUnfilled(EmptyBook)
      /\ IdsBelow(EmptyBook, n)
  BY <1>2 DEF UniqueIds, FillsOnce, OpenUnfilled, IdsBelow
<1>4. Balanced(EmptyBook)
  <2>1. Worths(EmptyBook.position) = 0
    BY <1>2, SumOfNothing
  <2>2. \A i \in Instruments : Signed(EmptyBook.position[i]) = EmptyBook.net[i]
    BY <1>2 DEF Signed
  <2>3. InitialCash \in Int
    BY TradeAssumption
  <2>4. EmptyBook.cash = InitialCash + EmptyBook.paid + EmptyBook.flow + EmptyBook.dust
                          + Worths(EmptyBook.position)
    BY <1>2, <2>1, <2>3
  <2> QED
    BY <2>2, <2>4, BalancedUnfolds
<1> QED
  BY <1>1, <1>3, <1>4, GoodFields

LEMMA DepositedGood ==
  ASSUME NEW n \in Nat, NEW b \in GoodBooks(n)
  PROVE  Deposited(b) \in GoodBooks(n)
<1> DEFINE c == Deposited(b)
<1>1. /\ b \in Books /\ UniqueIds(b) /\ FillsOnce(b) /\ OpenUnfilled(b)
      /\ IdsBelow(b, n) /\ Balanced(b)
  BY GoodFields
<1>2. Deposit \in Nat
  BY TradeAssumption
<1>3. /\ c.cash = b.cash + Deposit /\ c.paid = b.paid + Deposit
      /\ c.orders = b.orders /\ c.fills = b.fills /\ c.position = b.position
      /\ c.net = b.net /\ c.flow = b.flow /\ c.dust = b.dust /\ c.wiped = b.wiped
  BY <1>1 DEF Deposited, Books
<1>4. c \in Books
  <2>1. DOMAIN c = {"cash", "orders", "fills", "position", "net", "flow", "paid", "dust", "wiped"}
    BY <1>1 DEF Deposited, Books
  <2>2. c = [x \in DOMAIN c |-> c[x]]
    BY <1>1 DEF Deposited, Books
  <2>3. /\ b.cash \in Int /\ b.orders \in Seq(BookOrders) /\ b.fills \in Seq(BookFills)
        /\ b.position \in [Instruments -> Positions \cup {Flat}] /\ b.net \in [Instruments -> Int]
        /\ b.flow \in Int /\ b.paid \in Nat /\ b.dust \in Int /\ b.wiped \in BOOLEAN
    BY <1>1, BookFields DEF Holdings
  <2> HIDE DEF c
  <2>4. c.cash \in Int /\ c.paid \in Nat
    BY <1>2, <1>3, <2>3
  <2> QED
    BY <1>3, <2>1, <2>2, <2>3, <2>4 DEF Books
<1> HIDE DEF c
<1>5. UniqueIds(c) /\ FillsOnce(c) /\ OpenUnfilled(c) /\ IdsBelow(c, n)
  BY <1>1, <1>3 DEF UniqueIds, FillsOnce, OpenUnfilled, IdsBelow
<1>6. Balanced(c)
  <2>1. /\ \A i \in Instruments : Signed(b.position[i]) = b.net[i]
        /\ \/ b.wiped
           \/ b.cash = InitialCash + b.paid + b.flow + b.dust + Worths(b.position)
    BY <1>1, BalancedUnfolds
  <2>2. /\ b.cash \in Int /\ b.paid \in Int /\ b.flow \in Int /\ b.dust \in Int
        /\ b.position \in Holdings
    BY <1>1, BookFields
  <2>3. InitialCash \in Int /\ Worths(b.position) \in Int
    <3>1. PICK g \in [SUBSET Instruments -> Int] : Worths(b.position) = g[Instruments]
      BY <2>2, SumUnfolds
    <3> QED
      BY <3>1, TradeAssumption
  <2> DEFINE w == Worths(b.position)
  <2>4. w \in Int /\ (~ b.wiped => b.cash = InitialCash + b.paid + b.flow + b.dust + w)
    BY <2>1, <2>3
  <2> HIDE DEF w
  <2>5. ~ b.wiped => b.cash + Deposit = InitialCash + (b.paid + Deposit) + b.flow + b.dust + w
    BY <1>2, <2>2, <2>3, <2>4
  <2>6. ~ c.wiped => c.cash = InitialCash + c.paid + c.flow + c.dust + Worths(c.position)
    BY <1>3, <2>5 DEF w
  <2> QED
    BY <1>3, <2>1, <2>6, BalancedUnfolds
<1> QED
  BY <1>4, <1>5, <1>6, GoodFields DEF c

LEMMA ElementType ==
  ASSUME NEW S, NEW s \in Seq(S), NEW x \in DOMAIN s
  PROVE  s[x] \in S
OBVIOUS

\* t is s and then x.
OneMore(s, t, x) ==
  \E l \in Nat : /\ DOMAIN s = 1 .. l /\ DOMAIN t = 1 .. (l + 1)
                 /\ t[l + 1] = x
                 /\ \A k \in 1 .. l : t[k] = s[k]

FillOf(o, of) == [order |-> o.id, instrument |-> o.instrument, markOf |-> of]

LEMMA AppendFields ==
  ASSUME NEW S, NEW s \in Seq(S), NEW x \in S
  PROVE  Append(s, x) \in Seq(S) /\ OneMore(s, Append(s, x), x)
<1>1. /\ Append(s, x) \in Seq(S) /\ Len(s) \in Nat /\ DOMAIN s = 1 .. Len(s)
      /\ DOMAIN Append(s, x) = 1 .. (Len(s) + 1) /\ Append(s, x)[Len(s) + 1] = x
      /\ \A k \in 1 .. Len(s) : Append(s, x)[k] = s[k]
  OBVIOUS
<1> QED
  BY <1>1, Zenon DEF OneMore

FilledInPlace(b, k, price, of) ==
  [Executed(b, b.orders[k], price, of) EXCEPT !.orders[k].status = "filled"]

\* A fill of an order that is in the books, which becomes filled.
LEMMA FilledGood ==
  ASSUME NEW n \in Nat, NEW b \in GoodBooks(n), NEW k \in DOMAIN b.orders, IsOpen(b.orders[k]),
         NEW price \in Int, NEW of \in Instruments, NEW f,
         f = FilledInPlace(b, k, price, of)
  PROVE  /\ f \in GoodBooks(n)
         /\ f.orders = [b.orders EXCEPT ![k] = [b.orders[k] EXCEPT !.status = "filled"]]
         /\ OneMore(b.fills, f.fills, FillOf(b.orders[k], of))
<1> DEFINE o == b.orders[k]
           g == [o EXCEPT !.status = "filled"]
           e == Executed(b, o, price, of)
           s == [b.orders EXCEPT ![k] = g]
           r == FillOf(o, of)
<1>1. /\ b \in Books /\ UniqueIds(b) /\ FillsOnce(b) /\ OpenUnfilled(b)
      /\ IdsBelow(b, n) /\ Balanced(b)
  BY GoodFields
<1>2. /\ b.orders \in Seq(BookOrders) /\ b.fills \in Seq(BookFills)
      /\ o \in BookOrders /\ o.id \in 1 .. MaxOrders /\ o.instrument \in Instruments
  BY <1>1, BookFields, OrderAt, OrderFields
<1>3. g \in BookOrders /\ g.id = o.id /\ ~ IsOpen(g)
  BY <1>2, StatusSet DEF Statuses, IsOpen
<1>4. e \in Books /\ Balanced(e)
  BY <1>1, <1>2, ExecutedGood
<1>5. e.orders = b.orders /\ e.fills = Append(b.fills, r)
  BY <1>1, <1>2 DEF Executed, Books, FillOf
<1>6. f = [e EXCEPT !.orders = s]
  BY <1>5 DEF FilledInPlace
<1>7. r \in BookFills /\ r.order = o.id
  BY <1>2 DEF BookFills, FillOf
<1>8. s \in Seq(BookOrders) /\ DOMAIN s = DOMAIN b.orders
      /\ \A j \in DOMAIN s : s[j] = IF j = k THEN g ELSE b.orders[j]
  <2> HIDE DEF g
  <2> QED
    BY <1>2, <1>3
<1> HIDE DEF e, s, g, r, o
<1>9. f \in Books /\ f.orders = s /\ f.fills = Append(b.fills, r) /\ Balanced(f)
  <2>1. /\ [e EXCEPT !.orders = s] \in Books
        /\ [e EXCEPT !.orders = s].orders = s
        /\ [e EXCEPT !.orders = s].fills = e.fills
        /\ Balanced([e EXCEPT !.orders = s])
    BY <1>4, <1>8, OrdersReplaced
  <2> QED
    BY <1>5, <1>6, <2>1
<1>10. PICK l \in Nat : /\ DOMAIN b.fills = 1 .. l /\ DOMAIN f.fills = 1 .. (l + 1)
                        /\ f.fills[l + 1] = r
                        /\ \A j \in 1 .. l : f.fills[j] = b.fills[j]
  <2>1. OneMore(b.fills, Append(b.fills, r), r)
    BY <1>2, <1>7, AppendFields
  <2> QED
    BY <1>9, <2>1 DEF OneMore
<1>11. \A j \in DOMAIN f.fills : (j = l + 1 /\ f.fills[j] = r) \/ (j \in DOMAIN b.fills /\ f.fills[j] = b.fills[j])
  BY <1>10
<1>12. \A j \in DOMAIN b.fills : b.fills[j].order # o.id
  BY <1>1 DEF OpenUnfilled, o
<1>13. \A j \in DOMAIN f.orders : /\ j \in DOMAIN b.orders /\ f.orders[j].id = b.orders[j].id
                                  /\ IsOpen(f.orders[j]) => j # k /\ IsOpen(b.orders[j])
  BY <1>3, <1>8, <1>9 DEF o
<1>14. UniqueIds(f)
  BY <1>1, <1>13 DEF UniqueIds
<1>15. FillsOnce(f)
  BY <1>1, <1>7, <1>11, <1>12 DEF FillsOnce
<1>16. OpenUnfilled(f)
  <2> SUFFICES ASSUME NEW j \in DOMAIN f.orders, NEW i \in DOMAIN f.fills, IsOpen(f.orders[j])
               PROVE  f.fills[i].order # f.orders[j].id
    BY DEF OpenUnfilled
  <2>1. j \in DOMAIN b.orders /\ f.orders[j].id = b.orders[j].id /\ j # k /\ IsOpen(b.orders[j])
    BY <1>13
  <2>2. CASE i \in DOMAIN b.fills /\ f.fills[i] = b.fills[i]
    BY <1>1, <2>1, <2>2 DEF OpenUnfilled
  <2>3. CASE f.fills[i] = r
    <3>1. b.orders[j].id # b.orders[k].id
      BY <1>1, <2>1 DEF UniqueIds
    <3> QED
      BY <1>7, <2>1, <2>3, <3>1 DEF o
  <2> QED
    BY <1>11, <2>2, <2>3
<1>17. IdsBelow(f, n)
  <2>1. o.id < n
    BY <1>1 DEF IdsBelow, o
  <2> QED
    BY <1>1, <1>7, <1>11, <1>13, <2>1 DEF IdsBelow
<1>18. f \in GoodBooks(n)
  BY <1>9, <1>14, <1>15, <1>16, <1>17, GoodFields
<1>19. OneMore(b.fills, f.fills, r)
  BY <1>10, Zenon DEF OneMore
<1> QED
  BY <1>9, <1>18, <1>19 DEF s, g, o, r

\* What settling does to the orders of books b, on the way to c.
Settles(b, c) ==
  /\ DOMAIN c.orders = DOMAIN b.orders
  /\ \A k \in DOMAIN b.orders :
       /\ c.orders[k].id = b.orders[k].id
       /\ ~ IsOpen(b.orders[k]) => c.orders[k] = b.orders[k]
       /\ \/ c.orders[k] = b.orders[k]
          \/ \E j \in DOMAIN c.fills : c.fills[j].order = b.orders[k].id

LEMMA RestingPriceType ==
  ASSUME NEW o \in BookOrders, NEW mark \in Prices
  PROVE  RestingPrice(o, mark) \in Int
BY OrderFields, TradeAssumption DEF RestingPrice

LEMMA FilledAtSettles ==
  ASSUME NEW n \in Nat, NEW b \in GoodBooks(n), NEW c \in GoodBooks(n), Settles(b, c),
         NEW p \in [at : Nat, instrument : Instruments], NEW mark \in Prices \cup {NoMark}
  PROVE  FilledAt(c, p, mark) \in GoodBooks(n) /\ Settles(b, FilledAt(c, p, mark))
<1>1. CASE ~ Fillable(c, p, mark)
  BY <1>1 DEF FilledAt
<1>2. CASE Fillable(c, p, mark)
  <2> DEFINE k == p.at
             o == c.orders[k]
             f == FilledAt(c, p, mark)
  <2>1. k \in DOMAIN c.orders /\ IsOpen(c.orders[k]) /\ mark \in Prices /\ p.instrument \in Instruments
    BY <1>2 DEF Fillable
  <2>2. f = [Executed(c, o, RestingPrice(o, mark), p.instrument) EXCEPT !.orders[k].status = "filled"]
    BY <1>2 DEF FilledAt
  <2>3. c \in Books
    BY GoodFields
  <2>4. RestingPrice(o, mark) \in Int
    BY <2>1, <2>3, OrderAt, RestingPriceType
  <2> HIDE DEF f, k
  <2>5. /\ f \in GoodBooks(n)
        /\ f.orders = [c.orders EXCEPT ![k] = [c.orders[k] EXCEPT !.status = "filled"]]
        /\ OneMore(c.fills, f.fills, FillOf(c.orders[k], p.instrument))
    <3>1. c.orders[k] = o /\ IsOpen(c.orders[k])
      BY <2>1
    <3> DEFINE price == RestingPrice(o, mark)
               of == p.instrument
    <3>2. price \in Int /\ of \in Instruments
      BY <2>1, <2>4
    <3>3. f = FilledInPlace(c, k, price, of)
      BY <2>2 DEF FilledInPlace
    <3> HIDE DEF price, of
    <3> QED
      BY <2>1, <3>2, <3>3, FilledGood DEF of
  <2>6. [c.orders[k] EXCEPT !.status = "filled"].id = c.orders[k].id
    BY <2>1, <2>3, OrderAt, StatusSet DEF Statuses
  <2>7. DOMAIN f.orders = DOMAIN c.orders /\ \A j \in DOMAIN c.orders :
          f.orders[j].id = c.orders[j].id /\ (j # k => f.orders[j] = c.orders[j])
    BY <2>5, <2>6
  <2>8. \A j \in DOMAIN c.fills : j \in DOMAIN f.fills /\ f.fills[j] = c.fills[j]
    BY <2>5 DEF OneMore
  <2>9. \E j \in DOMAIN f.fills : f.fills[j].order = c.orders[k].id
    BY <2>5 DEF OneMore, FillOf
  <2>10. ASSUME NEW i \in DOMAIN b.orders
         PROVE  /\ f.orders[i].id = b.orders[i].id
                /\ ~ IsOpen(b.orders[i]) => f.orders[i] = b.orders[i]
                /\ \/ f.orders[i] = b.orders[i]
                   \/ \E j \in DOMAIN f.fills : f.fills[j].order = b.orders[i].id
    <3>1. /\ i \in DOMAIN c.orders /\ c.orders[i].id = b.orders[i].id
          /\ ~ IsOpen(b.orders[i]) => c.orders[i] = b.orders[i]
          /\ \/ c.orders[i] = b.orders[i]
             \/ \E j \in DOMAIN c.fills : c.fills[j].order = b.orders[i].id
      BY DEF Settles
    <3>2. CASE i = k
      BY <2>1, <2>7, <2>9, <3>1, <3>2
    <3>3. CASE i # k
      BY <2>7, <2>8, <3>1, <3>3
    <3> QED
      BY <3>2, <3>3
  <2>11. Settles(b, f)
    BY <2>7, <2>10 DEF Settles
  <2> QED
    BY <2>5, <2>11 DEF f
<1> QED
  BY <1>1, <1>2

LEMMA SettledGood ==
  ASSUME NEW n \in Nat, NEW b \in GoodBooks(n), NEW collected \in Collected,
         NEW marks \in [Instruments -> Prices \cup {NoMark}]
  PROVE  Settled(b, collected, marks) \in GoodBooks(n) /\ Settles(b, Settled(b, collected, marks))
<1> DEFINE V == {c \in GoodBooks(n) : Settles(b, c)}
<1>1. b \in V
  BY DEF Settles
<1>2. ASSUME NEW x \in DOMAIN collected, NEW c \in V
      PROVE  FilledAt(c, collected[x], marks[collected[x].instrument]) \in V
  <2>1. collected[x] \in [at : Nat, instrument : Instruments]
    <3>1. collected \in Seq([at : Nat, instrument : Instruments])
      BY DEF Collected
    <3> QED
      BY <3>1, ElementType
  <2>2. marks[collected[x].instrument] \in Prices \cup {NoMark}
    BY <2>1
  <2> QED
    BY <2>1, <2>2, FilledAtSettles
<1>3. Settled(b, collected, marks) \in V
  <2> HIDE DEF V
  <2> QED
    BY <1>1, <1>2, SettledStays
<1> QED
  BY <1>3

\* One order more, with the next id, and perhaps its fill.
LEMMA GoodPlaced ==
  ASSUME NEW n \in Nat, NEW b \in GoodBooks(n), NEW c \in Books, Balanced(c),
         NEW o \in BookOrders, o.id = n, OneMore(b.orders, c.orders, o),
         NEW r \in BookFills, r.order = n,
         c.fills = b.fills \/ (~ IsOpen(o) /\ OneMore(b.fills, c.fills, r))
  PROVE  c \in GoodBooks(n + 1)
<1>1. /\ b \in Books /\ UniqueIds(b) /\ FillsOnce(b) /\ OpenUnfilled(b) /\ IdsBelow(b, n)
  BY GoodFields
<1>2. \A k \in DOMAIN c.orders : \/ c.orders[k] = o /\ ~ (k \in DOMAIN b.orders)
                                 \/ k \in DOMAIN b.orders /\ c.orders[k] = b.orders[k]
  BY DEF OneMore
<1>3. \A j, k \in DOMAIN c.orders : j \notin DOMAIN b.orders /\ k \notin DOMAIN b.orders => j = k
  BY DEF OneMore
<1>4. \A k \in DOMAIN b.orders : b.orders[k].id < n /\ b.orders[k].id \in Nat
  BY <1>1, OrderAt, OrderFields DEF IdsBelow
<1>5. \A k \in DOMAIN b.fills : b.fills[k].order < n /\ b.fills[k].order \in Nat
  BY <1>1, FillAt DEF IdsBelow
<1>6. \A k \in DOMAIN c.fills :
        \/ c.fills[k] = r /\ ~ (k \in DOMAIN b.fills) /\ ~ IsOpen(o)
        \/ k \in DOMAIN b.fills /\ c.fills[k] = b.fills[k]
  BY DEF OneMore
<1>7. \A j, k \in DOMAIN c.fills : j \notin DOMAIN b.fills /\ k \notin DOMAIN b.fills => j = k
  BY DEF OneMore
<1>8. UniqueIds(c)
  BY <1>1, <1>2, <1>3, <1>4 DEF UniqueIds
<1>9. FillsOnce(c)
  BY <1>1, <1>5, <1>6, <1>7 DEF FillsOnce
<1>10. OpenUnfilled(c)
  <2> SUFFICES ASSUME NEW k \in DOMAIN c.orders, NEW j \in DOMAIN c.fills, IsOpen(c.orders[k])
               PROVE  c.fills[j].order # c.orders[k].id
    BY DEF OpenUnfilled
  <2>1. CASE c.orders[k] = o
    BY <1>5, <1>6, <2>1
  <2>2. CASE k \in DOMAIN b.orders /\ c.orders[k] = b.orders[k]
    BY <1>1, <1>4, <1>6, <2>2 DEF OpenUnfilled
  <2> QED
    BY <1>2, <2>1, <2>2
<1>11. IdsBelow(c, n + 1)
  <2>1. \A k \in DOMAIN c.orders : c.orders[k].id < n + 1
    BY <1>2, <1>4
  <2>2. \A k \in DOMAIN c.fills : c.fills[k].order < n + 1
    BY <1>5, <1>6
  <2> QED
    BY <2>1, <2>2 DEF IdsBelow
<1> QED
  BY <1>8, <1>9, <1>10, <1>11, GoodFields

-----------------------------------------------------------------------------
(* Requests move on. *)

LEMMA TailFields ==
  ASSUME NEW S, NEW s \in Seq(S), s # <<>>
  PROVE  /\ Tail(s) \in Seq(S)
         /\ \A k \in DOMAIN Tail(s) : k + 1 \in DOMAIN s /\ k \in Nat /\ Tail(s)[k] = s[k + 1]
         /\ Len(s) = 1 => Tail(s) = <<>>
<1>1. /\ Tail(s) \in Seq(S) /\ Len(s) \in Nat /\ Len(s) > 0 /\ DOMAIN s = 1 .. Len(s)
      /\ Len(Tail(s)) = Len(s) - 1 /\ DOMAIN Tail(s) = 1 .. Len(s) - 1
      /\ \A k \in 1 .. Len(s) - 1 : Tail(s)[k] = s[k + 1]
  OBVIOUS
<1>2. Len(s) = 1 => Tail(s) = <<>>
  BY <1>1
<1> QED
  BY <1>1, <1>2

LEMMA NothingAsked == Nothing \in Asked
BY DEF Nothing, Asked

LEMMA Moved ==
  ASSUME RequestInv, NEW w \in Workers, todo[w] # <<>>, NEW a \in Asked,
         todo' = [todo EXCEPT ![w] = Tail(@)], arg' = [arg EXCEPT ![w] = a],
         \A k \in DOMAIN Tail(todo[w]) : Tail(todo[w])[k] = "measure" => a.op = "close"
  PROVE  RequestInv'
<1>1. todo \in [Workers -> Seq(StepNames)] /\ arg \in [Workers -> Asked] /\ \A v \in Workers : MeasuresOnce(v)
  BY DEF RequestInv
<1>2. todo[w] \in Seq(StepNames)
  BY <1>1
<1>3. /\ Tail(todo[w]) \in Seq(StepNames)
      /\ \A k \in DOMAIN Tail(todo[w]) :
           k + 1 \in DOMAIN todo[w] /\ k \in Nat /\ Tail(todo[w])[k] = todo[w][k + 1]
  BY <1>2, TailFields
<1>4. todo' \in [Workers -> Seq(StepNames)] /\ arg' \in [Workers -> Asked]
  BY <1>1, <1>3
<1>5. todo'[w] = Tail(todo[w]) /\ arg'[w] = a
  BY <1>1
<1>6. MeasuresOnce(w)'
  <2>1. \A k \in DOMAIN todo'[w] : todo'[w][k] = "measure" => arg'[w].op = "close"
    BY <1>5
  <2>2. ASSUME NEW j \in DOMAIN todo'[w], NEW k \in DOMAIN todo'[w],
               todo'[w][j] = "measure", todo'[w][k] = "measure"
        PROVE  j = k
    <3>1. /\ j + 1 \in DOMAIN todo[w] /\ k + 1 \in DOMAIN todo[w] /\ j \in Nat /\ k \in Nat
          /\ todo[w][j + 1] = "measure" /\ todo[w][k + 1] = "measure"
      BY <1>3, <1>5, <2>2
    <3>2. j + 1 = k + 1
      BY <1>1, <3>1 DEF MeasuresOnce
    <3> QED
      BY <3>1, <3>2
  <2> QED
    BY <2>1, <2>2 DEF MeasuresOnce
<1>7. ASSUME NEW v \in Workers, v # w PROVE MeasuresOnce(v)'
  <2>1. todo'[v] = todo[v] /\ arg'[v] = arg[v]
    BY <1>1, <1>7
  <2>2. MeasuresOnce(v)
    BY <1>1
  <2> QED
    BY <2>1, <2>2 DEF MeasuresOnce
<1> QED
  BY <1>4, <1>6, <1>7 DEF RequestInv

LEMMA OnwardKeeps ==
  ASSUME RequestInv, NEW w \in Workers, todo[w] # <<>>, Onward(w)
  PROVE  RequestInv'
<1>1. todo \in [Workers -> Seq(StepNames)] /\ arg \in [Workers -> Asked] /\ MeasuresOnce(w)
  BY DEF RequestInv
<1>2. todo[w] \in Seq(StepNames)
  BY <1>1
<1>3. /\ \A k \in DOMAIN Tail(todo[w]) :
           k + 1 \in DOMAIN todo[w] /\ Tail(todo[w])[k] = todo[w][k + 1]
      /\ Len(todo[w]) = 1 => Tail(todo[w]) = <<>>
  BY <1>2, TailFields
<1> DEFINE a == IF Len(todo[w]) = 1 THEN Nothing ELSE arg[w]
<1>4. a \in Asked
  BY <1>1, NothingAsked
<1>5. \A k \in DOMAIN Tail(todo[w]) : Tail(todo[w])[k] = "measure" => a.op = "close"
  <2>1. CASE Len(todo[w]) = 1
    BY <1>3, <2>1
  <2>2. CASE Len(todo[w]) # 1
    <3>1. a = arg[w]
      BY <2>2
    <3> QED
      BY <1>1, <1>3, <3>1 DEF MeasuresOnce
  <2> QED
    BY <2>1, <2>2
<1>6. todo' = [todo EXCEPT ![w] = Tail(@)] /\ arg' = [arg EXCEPT ![w] = a]
  BY <1>1 DEF Onward
<1> HIDE DEF a
<1> QED
  BY <1>4, <1>5, <1>6, Moved

\* A request whose program is replaced: a new one, or none.
LEMMA Reprogrammed ==
  ASSUME RequestInv, NEW w \in Workers, NEW p \in Seq(StepNames), NEW a \in Asked,
         todo' = [todo EXCEPT ![w] = p], arg' = [arg EXCEPT ![w] = a],
         \A k \in DOMAIN p : p[k] = "measure" => a.op = "close",
         \A j, k \in DOMAIN p : p[j] = "measure" /\ p[k] = "measure" => j = k
  PROVE  RequestInv'
<1>1. todo \in [Workers -> Seq(StepNames)] /\ arg \in [Workers -> Asked] /\ \A v \in Workers : MeasuresOnce(v)
  BY DEF RequestInv
<1>2. todo' \in [Workers -> Seq(StepNames)] /\ arg' \in [Workers -> Asked]
  BY <1>1
<1>3. todo'[w] = p /\ arg'[w] = a
  BY <1>1
<1>4. MeasuresOnce(w)'
  BY <1>3 DEF MeasuresOnce
<1>5. ASSUME NEW v \in Workers, v # w PROVE MeasuresOnce(v)'
  <2>1. todo'[v] = todo[v] /\ arg'[v] = arg[v]
    BY <1>1, <1>5
  <2>2. MeasuresOnce(v)
    BY <1>1
  <2> QED
    BY <2>1, <2>2 DEF MeasuresOnce
<1> QED
  BY <1>2, <1>4, <1>5 DEF RequestInv

LEMMA EndKeeps ==
  ASSUME RequestInv, NEW w \in Workers, End(w)
  PROVE  RequestInv'
<1>1. <<>> \in Seq(StepNames) /\ DOMAIN <<>> = {}
  OBVIOUS
<1>2. todo' = [todo EXCEPT ![w] = <<>>] /\ arg' = [arg EXCEPT ![w] = Nothing]
  BY DEF End
<1> QED
  BY <1>1, <1>2, NothingAsked, Reprogrammed

-----------------------------------------------------------------------------
(* The clients' requests. *)

LEMMA RequestAsked ==
  ASSUME RequestInv, NEW w \in Workers, NEW what \in Asked, NEW program \in Seq(StepNames),
         Ask(w, what, program),
         \A k \in DOMAIN program : program[k] = "measure" => what.op = "close",
         \A j, k \in DOMAIN program : program[j] = "measure" /\ program[k] = "measure" => j = k
  PROVE  RequestInv'
<1>1. arg' = [arg EXCEPT ![w] = what] /\ todo' = [todo EXCEPT ![w] = program]
  BY DEF Ask
<1> QED
  BY <1>1, Reprogrammed

LEMMA TupleFields ==
  ASSUME NEW S, NEW a \in S, NEW b \in S, NEW c \in S, NEW d \in S, NEW e \in S
  PROVE  /\ <<a>> \in Seq(S) /\ \A k \in DOMAIN <<a>> : <<a>>[k] = a
         /\ <<a, b>> \in Seq(S) /\ \A k \in DOMAIN <<a, b>> : <<a, b>>[k] \in {a, b}
         /\ <<a, b, c, d, e>> \in Seq(S)
         /\ \A k \in DOMAIN <<a, b, c, d, e>> : <<a, b, c, d, e>>[k] \in {a, b, c, d, e}
<1>1. <<a>> \in Seq(S) /\ \A k \in DOMAIN <<a>> : <<a>>[k] = a
  OBVIOUS
<1>2. <<a, b>> \in Seq(S) /\ \A k \in DOMAIN <<a, b>> : <<a, b>>[k] \in {a, b}
  OBVIOUS
<1>3. /\ <<a, b, c, d, e>> \in Seq(S)
      /\ \A k \in DOMAIN <<a, b, c, d, e>> : <<a, b, c, d, e>>[k] \in {a, b, c, d, e}
  OBVIOUS
<1> QED
  BY <1>1, <1>2, <1>3

Plain(p) == p \in Seq(StepNames) /\ \A k \in DOMAIN p : p[k] # "measure"

\* Programs that never measure.
LEMMA PlainPrograms ==
  /\ Plain(<<"open">>) /\ Plain(<<"drop">>) /\ Plain(<<"collect">>) /\ Plain(<<"commit">>)
  /\ Plain(<<"configure", "open">>) /\ Plain(<<"release", "drop">>) /\ Plain(<<"collect", "commit">>)
  /\ Plain(<<"collect", "find", "collect", "commit", "collect">>)
<1> DEFINE S == StepNames \ {"measure"}
<1>1. "open" \in S /\ "drop" \in S /\ "collect" \in S /\ "commit" \in S
  BY DEF StepNames
<1>2. "configure" \in S /\ "release" \in S /\ "find" \in S
  BY DEF StepNames
<1>3. \A x \in S : x \in StepNames /\ x # "measure"
  OBVIOUS
<1> HIDE DEF S
<1>4. ASSUME NEW x \in S, NEW y \in S PROVE Plain(<<x>>) /\ Plain(<<x, y>>)
  <2>1. x \in StepNames /\ x # "measure" /\ y \in StepNames /\ y # "measure"
    BY <1>3
  <2>2. <<x>> \in Seq(StepNames) /\ \A k \in DOMAIN <<x>> : <<x>>[k] = x
    BY <2>1, TupleFields
  <2>3. <<x, y>> \in Seq(StepNames) /\ \A k \in DOMAIN <<x, y>> : <<x, y>>[k] \in {x, y}
    BY <2>1, TupleFields
  <2> QED
    BY <2>1, <2>2, <2>3 DEF Plain
<1>5. ASSUME NEW x \in S, NEW y \in S, NEW z \in S PROVE Plain(<<x, y, x, z, x>>)
  <2>1. /\ x \in StepNames /\ x # "measure" /\ y \in StepNames /\ y # "measure"
        /\ z \in StepNames /\ z # "measure"
    BY <1>3
  <2>2. /\ <<x, y, x, z, x>> \in Seq(StepNames)
        /\ \A k \in DOMAIN <<x, y, x, z, x>> : <<x, y, x, z, x>>[k] \in {x, y, x, z, x}
    BY <2>1, TupleFields
  <2> QED
    BY <2>1, <2>2 DEF Plain
<1> QED
  BY <1>1, <1>2, <1>4, <1>5

LEMMA ClosingProgram ==
  LET p == <<"collect", "measure", "collect", "commit">>
  IN  p \in Seq(StepNames) /\ \A k \in DOMAIN p : p[k] = "measure" => k = 2
<1>1. ASSUME NEW a \in StepNames, NEW b \in StepNames, NEW c \in StepNames
      PROVE  /\ <<a, b, a, c>> \in Seq(StepNames)
             /\ \A k \in DOMAIN <<a, b, a, c>> : k # 2 => <<a, b, a, c>>[k] \in {a, c}
  OBVIOUS
<1>2. "collect" \in StepNames /\ "measure" \in StepNames /\ "commit" \in StepNames
  BY DEF StepNames
<1> DEFINE p == <<"collect", "measure", "collect", "commit">>
<1>3. p \in Seq(StepNames) /\ \A k \in DOMAIN p : k # 2 => p[k] \in {"collect", "commit"}
  BY <1>1, <1>2
<1> HIDE DEF p
<1>4. \A k \in DOMAIN p : p[k] = "measure" => k = 2
  BY <1>3
<1> QED
  BY <1>3, <1>4 DEF p

LEMMA PlainAsked ==
  ASSUME NEW x \in {"none", "attach", "settings", "detach", "read", "deposit", "reset"}
  PROVE  [op |-> x] \in Asked
BY DEF Asked

LEMMA PlainAsks ==
  ASSUME RequestInv, NEW w \in Workers, NEW what \in Asked, NEW program, Plain(program),
         Ask(w, what, program)
  PROVE  RequestInv'
BY RequestAsked DEF Plain

LEMMA AsksKeepRequests ==
  ASSUME RowInv, RequestInv, NEW w \in Workers, Asks(w)
  PROVE  RequestInv'
<1>1. CASE AskAttach(w)
  <2>1. Ask(w, [op |-> "attach"], <<"open">>)
    BY <1>1 DEF AskAttach
  <2> QED
    BY <2>1, PlainAsked, PlainPrograms, PlainAsks
<1>2. CASE AskSettings(w)
  <2>1. Ask(w, [op |-> "settings"], <<"configure", "open">>)
    BY <1>2 DEF AskSettings
  <2> QED
    BY <2>1, PlainAsked, PlainPrograms, PlainAsks
<1>3. CASE AskDetach(w)
  <2>1. PICK program \in {<<"release", "drop">>, <<"drop">>} : Ask(w, [op |-> "detach"], program)
    BY <1>3 DEF AskDetach
  <2> QED
    BY <2>1, PlainAsked, PlainPrograms, PlainAsks
<1>4. CASE AskRead(w)
  <2>1. Ask(w, [op |-> "read"], <<"collect">>)
    BY <1>4 DEF AskRead
  <2> QED
    BY <2>1, PlainAsked, PlainPrograms, PlainAsks
<1>5. CASE AskPlace(w)
  <2>1. PICK o \in Menu :
          /\ RoundDown(o.qty) > 0
          /\ Ask(w, [op |-> "place", order |-> [o EXCEPT !.qty = RoundDown(@), !.level = RoundDown(@)]],
                 <<"collect", "commit">>)
    BY <1>5 DEF AskPlace
  <2> DEFINE r == [o EXCEPT !.qty = RoundDown(@), !.level = RoundDown(@)]
             a == [op |-> "place", order |-> r]
  <2>2. o \in Requests /\ o.qty \in Int /\ o.level \in Int
    BY TradeAssumption DEF Requests
  <2>3. RoundDown(o.qty) \in Int /\ RoundDown(o.level) \in Int
    BY <2>2, RoundDownType
  <2>4. r \in Requests /\ r.qty = RoundDown(o.qty)
    BY <2>2, <2>3 DEF Requests
  <2> HIDE DEF r
  <2>5. a \in Asked
    BY <2>1, <2>4 DEF Asked, Prepared
  <2>6. Ask(w, a, <<"collect", "commit">>)
    BY <2>1 DEF r
  <2> HIDE DEF a
  <2> QED
    BY <2>5, <2>6, PlainPrograms, PlainAsks
<1>6. CASE AskClose(w)
  <2>1. PICK i \in Instruments :
          Ask(w, [op |-> "close", instrument |-> i], <<"collect", "measure", "collect", "commit">>)
    BY <1>6 DEF AskClose
  <2> DEFINE a == [op |-> "close", instrument |-> i]
             p == <<"collect", "measure", "collect", "commit">>
  <2>2. a \in Asked /\ a.op = "close"
    BY DEF Asked
  <2>3. p \in Seq(StepNames) /\ \A k \in DOMAIN p : p[k] = "measure" => k = 2
    BY ClosingProgram
  <2>4. Ask(w, a, p)
    BY <2>1
  <2> HIDE DEF a, p
  <2> QED
    BY <2>2, <2>3, <2>4, RequestAsked
<1>7. CASE AskCancel(w)
  <2>1. PICK n \in OpenIds : Ask(w, [op |-> "cancel", id |-> n], <<"collect", "commit">>)
    BY <1>7 DEF AskCancel
  <2> DEFINE a == [op |-> "cancel", id |-> n]
  <2>2. n \in Nat
    BY DEF OpenIds, RowInv
  <2>3. a \in Asked
    BY <2>2 DEF Asked
  <2>4. Ask(w, a, <<"collect", "commit">>)
    BY <2>1
  <2> HIDE DEF a
  <2> QED
    BY <2>3, <2>4, PlainPrograms, PlainAsks
<1>8. CASE AskAmend(w)
  <2>1. PICK n \in OpenIds, m \in Amendments :
          Ask(w, [op |-> "amend", id |-> n, qty |-> m.qty, level |-> m.level],
              <<"collect", "find", "collect", "commit", "collect">>)
    BY <1>8 DEF AskAmend
  <2> DEFINE a == [op |-> "amend", id |-> n, qty |-> m.qty, level |-> m.level]
  <2>2. n \in Nat
    BY DEF OpenIds, RowInv
  <2>3. m.qty \in Int \cup {Keep} /\ m.level \in Int \cup {Keep}
    BY TradeAssumption
  <2>4. a \in Asked
    BY <2>2, <2>3 DEF Asked
  <2>5. Ask(w, a, <<"collect", "find", "collect", "commit", "collect">>)
    BY <2>1
  <2> HIDE DEF a
  <2> QED
    BY <2>4, <2>5, PlainPrograms, PlainAsks
<1>9. CASE AskAction(w)
  <2>1. PICK x \in {"deposit", "reset"} : Ask(w, [op |-> x], <<"commit">>)
    BY <1>9 DEF AskAction
  <2> QED
    BY <2>1, PlainAsked, PlainPrograms, PlainAsks
<1> QED
  BY <1>1, <1>2, <1>3, <1>4, <1>5, <1>6, <1>7, <1>8, <1>9 DEF Asks

LEMMA EventKeeps ==
  ASSUME events \in Nat, Event
  PROVE  events' \in Nat
BY DEF Event

LEMMA AsksKeepTheRest ==
  ASSUME RowInv, PendingInv, BooksInv, NEW w \in Workers, Asks(w)
  PROVE  RowInv' /\ PendingInv' /\ BooksInv'
<1>1. UNCHANGED <<book, disk, pending, write, nextId>>
  BY DEF Asks, Ask, AskAttach, AskSettings, AskDetach, AskRead, AskPlace, AskClose, AskCancel,
         AskAmend, AskAction
<1>2. account' \in {account, "enabled"} /\ trading' = trading
  BY DEF Asks, AskAttach, AskSettings, AskDetach, AskRead, AskPlace, AskClose, AskCancel,
         AskAmend, AskAction
<1>3. events' = events \/ Event
  BY DEF Asks, AskAttach, AskSettings, AskDetach, AskRead, AskPlace, AskClose, AskCancel,
         AskAmend, AskAction
<1>4. RowInv'
  BY <1>1, <1>2, <1>3, EventKeeps DEF RowInv
<1> QED
  BY <1>1, <1>4 DEF PendingInv, BooksInv

-----------------------------------------------------------------------------
(* The steps. *)

LEMMA AtFields ==
  ASSUME RequestInv, NEW w \in Workers, NEW step, At(w, step)
  PROVE  /\ todo[w] # <<>> /\ todo[w] \in Seq(StepNames) /\ 1 \in DOMAIN todo[w]
         /\ todo[w][1] = step /\ write[w] = {}
<1>1. todo[w] # <<>> /\ Head(todo[w]) = step /\ write[w] = {}
  BY DEF At
<1>2. todo[w] \in Seq(StepNames)
  BY DEF RequestInv
<1> QED
  BY <1>1, <1>2

LEMMA BooksKeep ==
  ASSUME RowInv, BooksInv, NEW w \in Workers, nextId' \in {nextId, nextId + 1},
         UNCHANGED disk,
         \/ UNCHANGED <<book, write>>
         \/ \E b \in GoodBooks(nextId') \cup {NoBook} :
              book' = b /\ write' = [write EXCEPT ![w] = {b}]
  PROVE  BooksInv'
<1>1. nextId \in Nat
  BY DEF RowInv
<1> DEFINE old == GoodBooks(nextId) \cup {NoBook}
           new == GoodBooks(nextId') \cup {NoBook}
<1>2. old \subseteq new
  BY <1>1, GoodLater
<1>3. /\ book \in old /\ disk \in old /\ write \in [Workers -> SUBSET old]
      /\ \A v \in Workers : Cardinality(write[v]) <= 1
  BY DEF BooksInv
<1> HIDE DEF old, new
<1>4. CASE UNCHANGED <<book, write>>
  <2>1. /\ book' \in new /\ disk' \in new /\ write' \in [Workers -> SUBSET new]
        /\ \A v \in Workers : Cardinality(write'[v]) <= 1
    BY <1>2, <1>3, <1>4
  <2> QED
    BY <2>1 DEF BooksInv, new
<1>5. CASE \E b \in new : book' = b /\ write' = [write EXCEPT ![w] = {b}]
  <2>1. PICK b \in new : book' = b /\ write' = [write EXCEPT ![w] = {b}]
    BY <1>5
  <2>2. Cardinality({b}) <= 1
    <3>1. Cardinality({b}) = 1
      BY FS_Singleton
    <3> QED
      BY <3>1
  <2>3. \A v \in Workers : write'[v] = IF v = w THEN {b} ELSE write[v]
    BY <1>3, <2>1
  <2>4. book' \in new /\ disk' \in new
    BY <1>2, <1>3, <2>1
  <2>5. write' \in [Workers -> SUBSET new]
    BY <1>2, <1>3, <2>1
  <2>6. \A v \in Workers : Cardinality(write'[v]) <= 1
    BY <1>3, <2>2, <2>3
  <2> QED
    BY <2>4, <2>5, <2>6 DEF BooksInv, new
<1> QED
  BY <1>4, <1>5 DEF new

LEMMA SaveKeeps ==
  ASSUME RowInv, BooksInv, RequestInv, NEW w \in Workers, nextId' \in {nextId, nextId + 1},
         UNCHANGED disk, todo[w] # <<>>,
         NEW b \in GoodBooks(nextId') \cup {NoBook}, Save(w, b)
  PROVE  BooksInv' /\ RequestInv'
<1>1. book' = b /\ write' = [write EXCEPT ![w] = {b}] /\ Onward(w)
  BY DEF Save
<1>2. BooksInv'
  BY <1>1, BooksKeep
<1> QED
  BY <1>1, <1>2, OnwardKeeps

LEMMA RefuseKeeps ==
  ASSUME RowInv, BooksInv, RequestInv, NEW w \in Workers, nextId' \in {nextId, nextId + 1},
         UNCHANGED disk, Refuse(w)
  PROVE  BooksInv' /\ RequestInv'
<1>1. End(w) /\ UNCHANGED <<book, write>>
  BY DEF Refuse
<1>2. BooksInv'
  BY <1>1, BooksKeep
<1> QED
  BY <1>1, <1>2, EndKeeps

LEMMA OnwardOnly ==
  ASSUME RowInv, BooksInv, RequestInv, NEW w \in Workers, nextId' = nextId,
         UNCHANGED <<disk, book, write>>, todo[w] # <<>>, Onward(w)
  PROVE  BooksInv' /\ RequestInv'
BY BooksKeep, OnwardKeeps

LEMMA RowKept ==
  ASSUME RowInv, UNCHANGED <<account, trading, events>>, nextId' \in {nextId, nextId + 1}
  PROVE  RowInv'
BY DEF RowInv

LEMMA BookGood ==
  ASSUME BooksInv, book # NoBook
  PROVE  book \in GoodBooks(nextId) /\ book \in Books
BY GoodFields DEF BooksInv

LEMMA OpenPlaces ==
  ASSUME NEW b \in Books
  PROVE  \E l \in Nat : DOMAIN b.orders = 1 .. l
<1>1. b.orders \in Seq(BookOrders)
  BY BookFields
<1> QED
  BY <1>1

\* What is collected are places and instruments.
LEMMA PendingNowType ==
  ASSUME BooksInv, book # NoBook
  PROVE  PendingNow \in Seq([at : Nat, instrument : Instruments])
<1>1. book \in Books
  BY BookGood
<1>2. PICK l \in Nat : DOMAIN book.orders = 1 .. l
  BY <1>1, OpenPlaces
<1>3. OpenAt \subseteq 1 .. l
  BY <1>2 DEF OpenAt
<1> DEFINE N == Cardinality(OpenAt)
<1>4. N \in Nat /\ \A n \in 1 .. N : Nth(OpenAt, n) \in OpenAt
  BY <1>3, NthIsPlace
<1> HIDE DEF N
<1> DEFINE E(n) == [at |-> Nth(OpenAt, n), instrument |-> book.orders[Nth(OpenAt, n)].instrument]
<1>5. ASSUME NEW n \in 1 .. N PROVE E(n) \in [at : Nat, instrument : Instruments]
  <2>1. Nth(OpenAt, n) \in Nat /\ Nth(OpenAt, n) \in DOMAIN book.orders
    <3>1. Nth(OpenAt, n) \in OpenAt
      BY <1>4
    <3>2. Nth(OpenAt, n) \in 1 .. l
      BY <1>3, <3>1
    <3> QED
      BY <1>2, <3>2
  <2>2. book.orders[Nth(OpenAt, n)].instrument \in Instruments
    BY <1>1, <2>1, OrderAt, OrderFields
  <2> QED
    BY <2>1, <2>2
<1>6. PendingNow = [n \in 1 .. N |-> E(n)]
  BY DEF PendingNow, N
<1> HIDE DEF E
<1>7. [n \in 1 .. N |-> E(n)] \in Seq([at : Nat, instrument : Instruments])
  <2> DEFINE S == [at : Nat, instrument : Instruments]
  <2>1. \A n \in 1 .. N : E(n) \in S
    BY <1>5
  <2> HIDE DEF S
  <2>2. [n \in 1 .. N |-> E(n)] \in Seq(S)
    BY <1>4, <2>1
  <2> QED
    BY <2>2 DEF S
<1> QED
  BY <1>6, <1>7

LEMMA CollectKeeps ==
  ASSUME IInv, NEW w \in Workers, Collect(w)
  PROVE  IInv'
<1>1. RowInv /\ RequestInv /\ PendingInv /\ BooksInv /\ At(w, "collect")
  BY DEF IInv, Collect
<1>2. todo[w] # <<>> /\ todo[w] \in Seq(StepNames) /\ todo[w][1] = "collect" /\ MeasuresOnce(w)
  BY <1>1, AtFields DEF RequestInv
<1>3. UNCHANGED <<account, trading, book, disk, write, nextId, events>>
  BY DEF Collect
<1>4. RowInv' /\ BooksInv'
  BY <1>1, <1>3, RowKept, BooksKeep
<1>5. CASE book = NoBook \/ OpenAt = {}
  <2>1. Onward(w) /\ UNCHANGED pending
    BY <1>5 DEF Collect
  <2> QED
    BY <1>1, <1>2, <1>4, <2>1, OnwardKeeps DEF IInv, PendingInv
<1>6. CASE ~ (book = NoBook \/ OpenAt = {})
  <2> DEFINE p == <<"settle">> \o Tail(todo[w])
  <2>1. /\ pending' = [pending EXCEPT ![w] = PendingNow]
        /\ todo' = [todo EXCEPT ![w] = p] /\ UNCHANGED arg
    BY <1>1, <1>6 DEF Collect, RequestInv
  <2>2. PendingInv'
    BY <1>1, <1>6, <2>1, PendingNowType DEF PendingInv
  <2>3. /\ p \in Seq(StepNames)
        /\ \A k \in DOMAIN p : k \in DOMAIN todo[w] /\ (k = 1 \/ p[k] = todo[w][k])
        /\ p[1] = "settle"
    <3>1. "settle" \in StepNames
      BY DEF StepNames
    <3> DEFINE x == "settle"
               s == todo[w]
    <3>2. x \in StepNames /\ s \in Seq(StepNames) /\ s # <<>>
      BY <1>2, <3>1
    <3> HIDE DEF x, s
    <3>3. /\ <<x>> \o Tail(s) \in Seq(StepNames)
          /\ \A k \in DOMAIN (<<x>> \o Tail(s)) : k \in DOMAIN s /\ (k = 1 \/ (<<x>> \o Tail(s))[k] = s[k])
          /\ (<<x>> \o Tail(s))[1] = x
      BY <3>2
    <3> QED
      BY <3>3 DEF x, s
  <2> HIDE DEF p
  <2>4. \A k \in DOMAIN p : p[k] = "measure" => k \in DOMAIN todo[w] /\ todo[w][k] = "measure"
    BY <2>3
  <2>5. arg' = [arg EXCEPT ![w] = arg[w]] /\ arg[w] \in Asked
    BY <1>1, <2>1 DEF RequestInv
  <2>6. /\ \A k \in DOMAIN p : p[k] = "measure" => arg[w].op = "close"
        /\ \A j, k \in DOMAIN p : p[j] = "measure" /\ p[k] = "measure" => j = k
    BY <1>2, <2>4 DEF MeasuresOnce
  <2>7. RequestInv'
    BY <1>1, <2>1, <2>3, <2>5, <2>6, Reprogrammed
  <2> QED
    BY <1>4, <2>2, <2>7 DEF IInv
<1> QED
  BY <1>5, <1>6

LEMMA EmptySequence ==
  ASSUME NEW S
  PROVE  <<>> \in Seq(S)
OBVIOUS

LEMMA SettleKeeps ==
  ASSUME IInv, NEW w \in Workers, Settle(w)
  PROVE  IInv'
<1>1. RowInv /\ RequestInv /\ PendingInv /\ BooksInv /\ At(w, "settle") /\ nextId \in Nat
  BY DEF IInv, Settle, RowInv
<1>2. todo[w] # <<>>
  BY <1>1, AtFields
<1>3. UNCHANGED <<account, trading, disk, nextId, events>>
  BY DEF Settle
<1>4. RowInv'
  BY <1>1, <1>3, RowKept
<1>5. PendingInv'
  <2>1. pending' = [pending EXCEPT ![w] = <<>>]
    BY DEF Settle
  <2> QED
    <3> DEFINE S == Seq([at : Nat, instrument : Instruments])
    <3>1. <<>> \in S /\ pending \in [Workers -> S]
      BY <1>1, EmptySequence DEF PendingInv
    <3> HIDE DEF S
    <3>2. pending' \in [Workers -> S]
      BY <2>1, <3>1
    <3> QED
      BY <3>2 DEF PendingInv, S
<1>6. CASE Onward(w) /\ UNCHANGED <<book, write>>
  BY <1>1, <1>2, <1>3, <1>4, <1>5, <1>6, OnwardOnly DEF IInv
<1>7. CASE ~ (Onward(w) /\ UNCHANGED <<book, write>>)
  <2>1. book # NoBook
    BY <1>7 DEF Settle
  <2>2. PICK marks \in [Instruments -> Prices \cup {NoMark}] :
          Save(w, Trimmed(Settled(book, pending[w], marks)))
    BY <1>7, <2>1 DEF Settle
  <2>3. pending[w] \in Collected
    BY <1>1 DEF PendingInv, Collected
  <2>4. Trimmed(Settled(book, pending[w], marks)) \in GoodBooks(nextId)
    BY <1>1, <2>1, <2>3, BookGood, SettledGood, TrimmedGood
  <2>5. BooksInv' /\ RequestInv'
    <3> DEFINE b == Trimmed(Settled(book, pending[w], marks))
    <3>1. b \in GoodBooks(nextId') \cup {NoBook} /\ Save(w, b)
      BY <1>3, <2>2, <2>4
    <3> HIDE DEF b
    <3> QED
      BY <1>1, <1>2, <1>3, <3>1, SaveKeeps
  <2> QED
    BY <1>4, <1>5, <2>5 DEF IInv
<1> QED
  BY <1>6, <1>7

LEMMA MeasureKeeps ==
  ASSUME IInv, NEW w \in Workers, Measure(w)
  PROVE  IInv'
<1>1. RowInv /\ RequestInv /\ PendingInv /\ BooksInv /\ At(w, "measure")
  BY DEF IInv, Measure
<1>2. /\ todo[w] # <<>> /\ todo[w] \in Seq(StepNames) /\ 1 \in DOMAIN todo[w]
      /\ todo[w][1] = "measure" /\ MeasuresOnce(w) /\ arg[w] \in Asked
  BY <1>1, AtFields DEF RequestInv
<1>3. UNCHANGED <<account, trading, disk, pending, nextId, events>>
  BY DEF Measure
<1>4. RowInv' /\ PendingInv'
  BY <1>1, <1>3, RowKept DEF PendingInv
<1>5. CASE Refuse(w)
  BY <1>1, <1>3, <1>4, <1>5, RefuseKeeps DEF IInv
<1>6. CASE ~ Refuse(w)
  <2> DEFINE i == arg[w].instrument
             p == book.position[i]
             o == [instrument |-> i, side |-> - p.side, kind |-> "market",
                   level |-> 0, qty |-> RoundDown(p.qty), reduce |-> TRUE]
             a == [op |-> "place", order |-> o]
  <2>1. /\ book # NoBook /\ p # Flat /\ ~ (RoundDown(p.qty) <= 0)
        /\ arg' = [arg EXCEPT ![w] = a]
        /\ todo' = [todo EXCEPT ![w] = Tail(@)]
        /\ UNCHANGED <<book, write>>
    BY <1>1, <1>6 DEF Measure, RequestInv
  <2>2. i \in Instruments
    <3>1. arg[w].op = "close"
      BY <1>2 DEF MeasuresOnce
    <3> QED
      BY <1>2, <3>1 DEF Asked
  <2>3. p \in Positions
    <3>1. book.position \in Holdings
      BY <1>1, <2>1, BookGood, BookFields
    <3> QED
      BY <2>1, <2>2, <3>1 DEF Holdings
  <2>4. p.side \in {1, -1} /\ p.qty \in Int
    <3> HIDE DEF p
    <3> QED
      BY <2>3, PositionFields
  <2>5. - p.side \in Sides /\ RoundDown(p.qty) \in Int
    BY <2>4, RoundDownType DEF Sides, Long, Short
  <2>6. o \in Prepared
    BY <2>1, <2>2, <2>5 DEF Requests, Kinds, Prepared
  <2> HIDE DEF o
  <2>7. a \in Asked
    BY <2>6 DEF Asked
  <2>8. \A k \in DOMAIN Tail(todo[w]) : Tail(todo[w])[k] # "measure"
    <3>1. \A k \in DOMAIN Tail(todo[w]) : k + 1 \in DOMAIN todo[w] /\ k \in Nat
                                          /\ Tail(todo[w])[k] = todo[w][k + 1]
      BY <1>2, TailFields
    <3>2. \A k \in DOMAIN todo[w] : todo[w][k] = "measure" => k = 1
      BY <1>2 DEF MeasuresOnce
    <3>3. \A k \in DOMAIN Tail(todo[w]) : k \in DOMAIN Tail(todo[w]) /\ k >= 1
      <4>1. Tail(todo[w]) \in Seq(StepNames)
        BY <1>2, TailFields
      <4> QED
        BY <4>1
    <3>4. ASSUME NEW k \in DOMAIN Tail(todo[w]), Tail(todo[w])[k] = "measure" PROVE FALSE
      <4>1. k + 1 = 1 /\ k \in Nat /\ k >= 1
        BY <3>1, <3>2, <3>3, <3>4
      <4> QED
        BY <4>1
    <3> QED
      BY <3>4
  <2> HIDE DEF a
  <2>9. RequestInv'
    BY <1>1, <1>2, <2>1, <2>7, <2>8, Moved
  <2>10. BooksInv'
    BY <1>1, <1>3, <2>1, BooksKeep
  <2> QED
    BY <1>4, <2>9, <2>10 DEF IInv
<1> QED
  BY <1>5, <1>6

\* An order that rests in the books.
LEMMA RestingGood ==
  ASSUME NEW n \in Nat, NEW b \in GoodBooks(n), NEW o \in BookOrders, o.id = n
  PROVE  [b EXCEPT !.orders = Append(@, o)] \in GoodBooks(n + 1)
<1> DEFINE s == Append(b.orders, o)
           c == [b EXCEPT !.orders = s]
           r == FillOf(o, o.instrument)
<1>1. b \in Books /\ Balanced(b) /\ b.orders \in Seq(BookOrders)
  BY GoodFields, BookFields
<1>2. s \in Seq(BookOrders) /\ OneMore(b.orders, s, o)
  BY <1>1, AppendFields
<1>3. r \in BookFills /\ r.order = n
  BY OrderFields DEF FillOf, BookFills
<1> HIDE DEF s, r
<1>4. c \in Books /\ c.orders = s /\ c.fills = b.fills /\ Balanced(c)
  BY <1>1, <1>2, OrdersReplaced
<1> HIDE DEF c
<1>5. c \in GoodBooks(n + 1)
  BY <1>2, <1>3, <1>4, GoodPlaced
<1> QED
  BY <1>5 DEF c, s

\* An order that is filled as it is placed.
LEMMA MarketGood ==
  ASSUME NEW n \in Nat, NEW b \in GoodBooks(n), NEW o \in BookOrders, o.id = n, NEW price \in Int
  PROVE  [Executed(b, o, price, o.instrument) EXCEPT
            !.orders = Append(@, [o EXCEPT !.status = "filled"])] \in GoodBooks(n + 1)
<1> DEFINE e == Executed(b, o, price, o.instrument)
           g == [o EXCEPT !.status = "filled"]
           s == Append(e.orders, g)
           c == [e EXCEPT !.orders = s]
           r == FillOf(o, o.instrument)
<1>1. /\ b \in Books /\ Balanced(b) /\ b.orders \in Seq(BookOrders) /\ b.fills \in Seq(BookFills)
      /\ o.instrument \in Instruments
  BY GoodFields, BookFields, OrderFields
<1>2. e \in Books /\ Balanced(e)
  BY <1>1, ExecutedGood
<1>3. e.orders = b.orders /\ e.fills = Append(b.fills, r)
  BY <1>1 DEF Executed, Books, FillOf
<1>4. g \in BookOrders /\ g.id = n /\ ~ IsOpen(g)
  BY StatusSet DEF Statuses, IsOpen
<1>5. r \in BookFills /\ r.order = n
  BY OrderFields DEF FillOf, BookFills
<1> HIDE DEF e, g, r
<1>6. s \in Seq(BookOrders) /\ OneMore(b.orders, s, g)
  BY <1>1, <1>3, <1>4, AppendFields
<1>7. OneMore(b.fills, Append(b.fills, r), r)
  BY <1>1, <1>5, AppendFields
<1> HIDE DEF s
<1>8. c \in Books /\ c.orders = s /\ c.fills = e.fills /\ Balanced(c)
  BY <1>2, <1>6, OrdersReplaced
<1> HIDE DEF c
<1>9. c \in GoodBooks(n + 1)
  BY <1>3, <1>4, <1>5, <1>6, <1>7, <1>8, GoodPlaced
<1> QED
  BY <1>9 DEF c, s, e, g

LEMMA StoredType ==
  ASSUME NEW o \in Requests, nextId \in Nat \ {0}, nextId <= MaxOrders
  PROVE  /\ Stored(o) \in BookOrders /\ Stored(o).id = nextId
         /\ Stored(o).side = o.side /\ Stored(o).qty = o.qty
         /\ Stored(o).kind = o.kind /\ Stored(o).instrument = o.instrument
<1>1. nextId \in 1 .. MaxOrders
  BY TradeAssumption
<1>2. /\ o.instrument \in Instruments /\ o.side \in Sides /\ o.kind \in Kinds /\ o.level \in Int
      /\ o.qty \in Int
  BY DEF Requests
<1> QED
  BY <1>1, <1>2 DEF Stored, BookOrders, Statuses

\* What placing an order may do to the books.
LEMMA PlaceCases ==
  ASSUME RequestInv, RowInv, NEW w \in Workers, CommitPlace(w)
  PROVE  /\ Stored(arg[w].order) \in BookOrders /\ Stored(arg[w].order).id = nextId
         /\ arg[w].order \in Prepared
         /\ \/ Refuse(w)
            \/ /\ book # NoBook /\ Reduces(arg[w].order)
               /\ arg[w].order.kind # "market"
               /\ Save(w, Trimmed([book EXCEPT !.orders = Append(@, Stored(arg[w].order))]))
            \/ /\ book # NoBook /\ Reduces(arg[w].order)
               /\ \E price \in Int :
                    Save(w, Trimmed([Executed(book, Stored(arg[w].order), price,
                                              Stored(arg[w].order).instrument) EXCEPT
                              !.orders = Append(@, [Stored(arg[w].order) EXCEPT !.status = "filled"])]))
<1>1. arg[w].order \in Prepared
  <2>1. arg[w] \in Asked /\ arg[w].op = "place"
    BY DEF RequestInv, CommitPlace
  <2> QED
    BY <2>1 DEF Asked
<1>2. /\ Stored(arg[w].order) \in BookOrders /\ Stored(arg[w].order).id = nextId
      /\ Stored(arg[w].order).kind = arg[w].order.kind
  <2>1. nextId <= MaxOrders /\ nextId \in Nat \ {0}
    BY DEF CommitPlace, RowInv
  <2> DEFINE o == arg[w].order
  <2>2. o \in Requests
    BY <1>1 DEF Prepared
  <2> HIDE DEF o
  <2>3. Stored(o) \in BookOrders /\ Stored(o).id = nextId /\ Stored(o).kind = o.kind
    BY <2>1, <2>2, StoredType
  <2> QED
    BY <2>3 DEF o
<1> DEFINE o == Stored(arg[w].order)
<1>3. CASE book = NoBook \/ ~ Reduces(arg[w].order)
  BY <1>1, <1>2, <1>3 DEF CommitPlace
<1>4. CASE ~ (book = NoBook \/ ~ Reduces(arg[w].order))
  <2>1. \/ /\ o.kind # "market"
           /\ Save(w, Trimmed([book EXCEPT !.orders = Append(@, o)]))
        \/ /\ o.kind = "market"
           /\ \E mark \in Prices :
                IF Covered(Slipped(mark, o.side), o.qty)
                THEN Save(w, Trimmed([Executed(book, o, Slipped(mark, o.side), o.instrument) EXCEPT
                                !.orders = Append(@, [o EXCEPT !.status = "filled"])]))
                ELSE Refuse(w)
    BY <1>4 DEF CommitPlace
  <2>2. o.side \in Sides
    <3> HIDE DEF o
    <3>1. o \in BookOrders
      BY <1>2 DEF o
    <3> QED
      BY <3>1, OrderFields
  <2> HIDE DEF o
  <2>3. \A mark \in Prices : Slipped(mark, o.side) \in Int
    BY <2>2, SlippedType
  <2>4. \/ Refuse(w)
        \/ /\ o.kind # "market"
           /\ Save(w, Trimmed([book EXCEPT !.orders = Append(@, o)]))
        \/ \E price \in Int :
             Save(w, Trimmed([Executed(book, o, price, o.instrument) EXCEPT
                       !.orders = Append(@, [o EXCEPT !.status = "filled"])]))
    BY <2>1, <2>3, Zenon
  <2> QED
    BY <1>1, <1>2, <1>4, <2>4, Zenon DEF o
<1> QED
  BY <1>3, <1>4

LEMMA CommitPlaceKeeps ==
  ASSUME IInv, NEW w \in Workers, CommitPlace(w)
  PROVE  IInv'
<1> DEFINE asked == arg[w].order
           o == Stored(asked)
<1>1. /\ RowInv /\ RequestInv /\ PendingInv /\ BooksInv /\ At(w, "commit")
      /\ nextId' = nextId + 1 /\ nextId \in Nat /\ UNCHANGED <<account, trading, disk, pending, events>>
  BY DEF IInv, CommitPlace, RowInv
<1>2. todo[w] # <<>>
  BY <1>1, AtFields
<1>3. RowInv' /\ PendingInv'
  BY <1>1, RowKept DEF PendingInv
<1>4. o \in BookOrders /\ o.id = nextId
  BY <1>1, PlaceCases
<1>5. \/ Refuse(w)
      \/ book # NoBook /\ Save(w, Trimmed([book EXCEPT !.orders = Append(@, o)]))
      \/ book # NoBook /\ \E price \in Int :
           Save(w, Trimmed([Executed(book, o, price, o.instrument) EXCEPT
                             !.orders = Append(@, [o EXCEPT !.status = "filled"])]))
  BY <1>1, PlaceCases, Zenon
<1> HIDE DEF o
<1>6. ASSUME NEW b \in GoodBooks(nextId + 1), Save(w, Trimmed(b)) PROVE BooksInv' /\ RequestInv'
  <2> DEFINE c == Trimmed(b)
  <2>1. c \in GoodBooks(nextId') \cup {NoBook} /\ Save(w, c)
    BY <1>1, <1>6, TrimmedGood
  <2> HIDE DEF c
  <2> QED
    BY <1>1, <1>2, <2>1, SaveKeeps
<1>7. CASE Refuse(w)
  BY <1>1, <1>3, <1>7, RefuseKeeps DEF IInv
<1>8. CASE book # NoBook /\ Save(w, Trimmed([book EXCEPT !.orders = Append(@, o)]))
  <2>1. [book EXCEPT !.orders = Append(@, o)] \in GoodBooks(nextId + 1)
    BY <1>1, <1>4, <1>8, BookGood, RestingGood
  <2>2. BooksInv' /\ RequestInv'
    BY <1>6, <1>8, <2>1
  <2> QED
    BY <1>3, <2>2 DEF IInv
<1>9. CASE book # NoBook /\ \E price \in Int :
           Save(w, Trimmed([Executed(book, o, price, o.instrument) EXCEPT
                             !.orders = Append(@, [o EXCEPT !.status = "filled"])]))
  <2>1. PICK price \in Int :
           Save(w, Trimmed([Executed(book, o, price, o.instrument) EXCEPT
                             !.orders = Append(@, [o EXCEPT !.status = "filled"])]))
    BY <1>9
  <2>2. [Executed(book, o, price, o.instrument) EXCEPT
           !.orders = Append(@, [o EXCEPT !.status = "filled"])] \in GoodBooks(nextId + 1)
    BY <1>1, <1>4, <1>9, BookGood, MarketGood
  <2>3. BooksInv' /\ RequestInv'
    BY <1>6, <2>1, <2>2
  <2> QED
    BY <1>3, <2>3 DEF IInv
<1> QED
  BY <1>5, <1>7, <1>8, <1>9

LEMMA FindKeeps ==
  ASSUME IInv, NEW w \in Workers, Find(w)
  PROVE  IInv'
<1>1. RowInv /\ RequestInv /\ PendingInv /\ BooksInv /\ At(w, "find")
  BY DEF IInv, Find
<1>2. todo[w] # <<>>
  BY <1>1, AtFields
<1>3. UNCHANGED <<account, trading, disk, pending, nextId, events>>
  BY DEF Find
<1>4. RowInv' /\ PendingInv'
  BY <1>1, <1>3, RowKept DEF PendingInv
<1>5. (Onward(w) /\ UNCHANGED <<book, write>>) \/ Refuse(w)
  BY DEF Find
<1>6. BooksInv' /\ RequestInv'
  BY <1>1, <1>2, <1>3, <1>5, OnwardOnly, RefuseKeeps
<1> QED
  BY <1>4, <1>6 DEF IInv

\* The order with an id that is open.
LEMMA OpenIndex ==
  ASSUME NEW id, StillOpen(id), book \in Books
  PROVE  /\ book # NoBook /\ IndexOf(id) \in DOMAIN book.orders
         /\ book.orders[IndexOf(id)].id = id /\ IsOpen(book.orders[IndexOf(id)])
<1>1. book # NoBook /\ IndexOf(id) # 0 /\ IsOpen(book.orders[IndexOf(id)])
  BY DEF StillOpen
<1>2. \E k \in DOMAIN book.orders : book.orders[k].id = id
  BY <1>1 DEF IndexOf
<1>3. IndexOf(id) = CHOOSE k \in DOMAIN book.orders : book.orders[k].id = id
  BY <1>2 DEF IndexOf
<1>4. IndexOf(id) \in DOMAIN book.orders /\ book.orders[IndexOf(id)].id = id
  BY <1>2, <1>3
<1> QED
  BY <1>1, <1>4

\* The steps that put an order of the same id in the place of an open one.
LEMMA RewriteKeeps ==
  ASSUME IInv, NEW w \in Workers, todo[w] # <<>>,
         UNCHANGED <<account, trading, disk, pending, nextId, events>>,
         book # NoBook, NEW k \in DOMAIN book.orders, IsOpen(book.orders[k]),
         NEW o \in BookOrders, o.id = book.orders[k].id,
         Save(w, [book EXCEPT !.orders = [book.orders EXCEPT ![k] = o]])
  PROVE  IInv'
<1>1. RowInv /\ RequestInv /\ PendingInv /\ BooksInv /\ nextId \in Nat
  BY DEF IInv, RowInv
<1>2. RowInv' /\ PendingInv'
  BY <1>1, RowKept DEF PendingInv
<1> DEFINE b == [book EXCEPT !.orders = [book.orders EXCEPT ![k] = o]]
<1>3. b \in GoodBooks(nextId)
  BY <1>1, BookGood, GoodRewritten
<1>4. b \in GoodBooks(nextId') \cup {NoBook} /\ Save(w, b)
  BY <1>3
<1> HIDE DEF b
<1>5. BooksInv' /\ RequestInv'
  BY <1>1, <1>4, SaveKeeps
<1> QED
  BY <1>2, <1>5 DEF IInv

\* A cancelled order keeps its id.
LEMMA CancelCases ==
  ASSUME BooksInv, NEW w \in Workers, CommitCancel(w)
  PROVE  \/ Refuse(w)
         \/ /\ book # NoBook
            /\ \E k \in DOMAIN book.orders, o \in BookOrders :
                 /\ IsOpen(book.orders[k]) /\ o.id = book.orders[k].id
                 /\ Save(w, [book EXCEPT !.orders = [book.orders EXCEPT ![k] = o]])
<1>1. CASE ~ StillOpen(arg[w].id)
  BY <1>1 DEF CommitCancel
<1>2. CASE StillOpen(arg[w].id)
  <2> DEFINE k == IndexOf(arg[w].id)
             o == [book.orders[k] EXCEPT !.status = "cancelled"]
  <2>1. book # NoBook /\ book \in Books
    BY <1>2, BookGood DEF StillOpen
  <2>2. k \in DOMAIN book.orders /\ IsOpen(book.orders[k])
    BY <1>2, <2>1, OpenIndex
  <2>3. Save(w, [book EXCEPT !.orders[k].status = "cancelled"])
    BY <1>2 DEF CommitCancel
  <2> HIDE DEF k
  <2>4. o \in BookOrders /\ o.id = book.orders[k].id
    BY <2>1, <2>2, OrderAt, StatusSet DEF Statuses
  <2>5. Save(w, [book EXCEPT !.orders = [book.orders EXCEPT ![k] = o]])
    BY <2>3
  <2> HIDE DEF o
  <2> QED
    BY <2>1, <2>2, <2>4, <2>5
<1> QED
  BY <1>1, <1>2

LEMMA AmendedType ==
  ASSUME NEW o \in BookOrders, NEW a, a.qty \in Int \cup {Keep}, a.level \in Int \cup {Keep}
  PROVE  Amended(o, a) \in BookOrders /\ Amended(o, a).id = o.id /\ Amended(o, a).status = o.status
<1> DEFINE q == IF a.qty = Keep THEN o.qty ELSE RoundDown(a.qty)
           l == IF a.level = Keep THEN o.level ELSE RoundDown(a.level)
<1>1. Amended(o, a) = [o EXCEPT !.qty = q, !.level = l]
  BY DEF Amended
<1>2. o.qty \in Int /\ o.level \in Int
  BY OrderFields
<1>3. q \in Int /\ l \in Int
  BY <1>2, RoundDownType
<1> HIDE DEF q, l
<1> QED
  BY <1>1, <1>3 DEF BookOrders

LEMMA AmendCases ==
  ASSUME BooksInv, RequestInv, NEW w \in Workers, CommitAmend(w)
  PROVE  \/ Refuse(w)
         \/ /\ book # NoBook
            /\ \E k \in DOMAIN book.orders, o \in BookOrders :
                 /\ IsOpen(book.orders[k]) /\ o.id = book.orders[k].id
                 /\ Save(w, [book EXCEPT !.orders = [book.orders EXCEPT ![k] = o]])
<1>1. CASE ~ StillOpen(arg[w].id)
  BY <1>1 DEF CommitAmend
<1>2. CASE StillOpen(arg[w].id)
  <2> DEFINE k == IndexOf(arg[w].id)
             o == Amended(book.orders[k], arg[w])
  <2>1. book # NoBook /\ book \in Books
    BY <1>2, BookGood DEF StillOpen
  <2>2. k \in DOMAIN book.orders /\ IsOpen(book.orders[k])
    BY <1>2, <2>1, OpenIndex
  <2>3. Save(w, [book EXCEPT !.orders[k] = Amended(@, arg[w])])
    BY <1>2 DEF CommitAmend
  <2>4. arg[w].qty \in Int \cup {Keep} /\ arg[w].level \in Int \cup {Keep}
    <3>1. arg[w] \in Asked /\ arg[w].op = "amend"
      BY DEF RequestInv, CommitAmend
    <3> QED
      BY <3>1 DEF Asked
  <2> HIDE DEF k
  <2>5. o \in BookOrders /\ o.id = book.orders[k].id
    BY <2>1, <2>2, <2>4, OrderAt, AmendedType
  <2>6. Save(w, [book EXCEPT !.orders = [book.orders EXCEPT ![k] = o]])
    BY <2>3
  <2> HIDE DEF o
  <2> QED
    BY <2>1, <2>2, <2>5, <2>6
<1> QED
  BY <1>1, <1>2

LEMMA CommitChangeKeeps ==
  ASSUME IInv, NEW w \in Workers, CommitCancel(w) \/ CommitAmend(w)
  PROVE  IInv'
<1>1. RowInv /\ RequestInv /\ PendingInv /\ BooksInv /\ At(w, "commit")
  BY DEF IInv, CommitCancel, CommitAmend
<1>2. todo[w] # <<>>
  BY <1>1, AtFields
<1>3. UNCHANGED <<account, trading, disk, pending, nextId, events>>
  BY DEF CommitCancel, CommitAmend
<1>4. CASE Refuse(w)
  <2>1. RowInv' /\ PendingInv'
    BY <1>1, <1>3, RowKept DEF PendingInv
  <2> QED
    BY <1>1, <1>3, <1>4, <2>1, RefuseKeeps DEF IInv
<1>5. CASE ~ Refuse(w)
  <2>1. book # NoBook
    BY <1>1, <1>5, CancelCases, AmendCases
  <2>2. PICK k \in DOMAIN book.orders : \E o \in BookOrders :
          /\ IsOpen(book.orders[k]) /\ o.id = book.orders[k].id
          /\ Save(w, [book EXCEPT !.orders = [book.orders EXCEPT ![k] = o]])
    BY <1>1, <1>5, CancelCases, AmendCases
  <2>3. PICK o \in BookOrders :
          /\ IsOpen(book.orders[k]) /\ o.id = book.orders[k].id
          /\ Save(w, [book EXCEPT !.orders = [book.orders EXCEPT ![k] = o]])
    BY <2>2
  <2> QED
    BY <1>2, <1>3, <2>1, <2>3, RewriteKeeps
<1> QED
  BY <1>4, <1>5

\* The steps that save books of their own making: deposits and resets, open_account, close_account.
LEMMA OtherSavesKeep ==
  ASSUME IInv, NEW w \in Workers, CommitAction(w) \/ OpenBooks(w) \/ ReleaseBooks(w)
  PROVE  IInv'
<1>1. RowInv /\ RequestInv /\ PendingInv /\ BooksInv /\ nextId \in Nat
  BY DEF IInv, RowInv
<1>2. todo[w] # <<>>
  BY <1>1, AtFields DEF CommitAction, OpenBooks, ReleaseBooks
<1>3. UNCHANGED <<account, trading, disk, pending, nextId, events>>
  BY DEF CommitAction, OpenBooks, ReleaseBooks
<1>4. RowInv' /\ PendingInv'
  BY <1>1, <1>3, RowKept DEF PendingInv
<1>5. Refuse(w) \/ \E b \in GoodBooks(nextId) \cup {NoBook} : Save(w, b)
  <2>1. CASE CommitAction(w)
    <3>1. CASE book = NoBook
      BY <2>1, <3>1 DEF CommitAction
    <3>2. CASE book # NoBook
      <4>1. book \in GoodBooks(nextId)
        BY <1>1, <3>2, BookGood
      <4>2. Deposited(book) \in GoodBooks(nextId) /\ Reset(book) \in GoodBooks(nextId)
        BY <1>1, <4>1, DepositedGood, EmptyBookGood DEF Reset
      <4>3. Save(w, Reset(book)) \/ Save(w, Deposited(book))
        BY <2>1, <3>2 DEF CommitAction
      <4> QED
        BY <4>2, <4>3
    <3> QED
      BY <3>1, <3>2
  <2>2. CASE OpenBooks(w)
    <3>1. EmptyBook \in GoodBooks(nextId) /\ book \in GoodBooks(nextId) \cup {NoBook}
      BY <1>1, EmptyBookGood DEF BooksInv
    <3>2. Save(w, IF book = NoBook THEN EmptyBook ELSE book)
      BY <2>2 DEF OpenBooks
    <3> QED
      BY <3>1, <3>2
  <2>3. CASE ReleaseBooks(w)
    <3>1. Save(w, NoBook)
      BY <2>3 DEF ReleaseBooks
    <3> QED
      BY <3>1
  <2> QED
    BY <2>1, <2>2, <2>3
<1>6. BooksInv' /\ RequestInv'
  BY <1>1, <1>2, <1>3, <1>5, SaveKeeps, RefuseKeeps
<1> QED
  BY <1>4, <1>6 DEF IInv

LEMMA WriteRowKeeps ==
  ASSUME IInv, NEW w \in Workers, WriteRow(w)
  PROVE  IInv'
<1>1. RowInv /\ RequestInv /\ PendingInv /\ BooksInv
  BY DEF IInv
<1>2. todo[w] # <<>>
  BY DEF WriteRow, At
<1>3. UNCHANGED <<book, disk, pending, write, nextId, events>> /\ Onward(w)
  BY DEF WriteRow
<1>4. RowInv' /\ PendingInv'
  BY <1>1, <1>3 DEF RowInv, PendingInv, WriteRow
<1>5. BooksInv' /\ RequestInv'
  BY <1>1, <1>2, <1>3, OnwardOnly
<1> QED
  BY <1>4, <1>5 DEF IInv

\* No snapshot is on its way.
LEMMA NothingToWrite == Cardinality({}) <= 1
<1>1. Cardinality({}) = 0
  BY FS_EmptySet
<1> QED
  BY <1>1

LEMMA PersistKeeps ==
  ASSUME IInv, NEW w \in Workers, Persist(w)
  PROVE  IInv'
<1>1. RowInv /\ RequestInv /\ PendingInv /\ BooksInv
  BY DEF IInv
<1>2. /\ UNCHANGED <<account, trading, book, todo, arg, pending, nextId>>
      /\ write' = [write EXCEPT ![w] = {}]
      /\ (disk' \in write[w] /\ UNCHANGED events) \/ (Event /\ UNCHANGED disk)
  BY DEF Persist
<1>3. events' \in Nat
  BY <1>1, <1>2, EventKeeps DEF RowInv
<1>4. RowInv' /\ PendingInv' /\ RequestInv'
  BY <1>1, <1>2, <1>3 DEF RowInv, PendingInv, RequestInv, MeasuresOnce
<1>5. BooksInv'
  <2> DEFINE G == GoodBooks(nextId) \cup {NoBook}
  <2>1. /\ book \in G /\ disk \in G /\ write \in [Workers -> SUBSET G]
        /\ \A v \in Workers : Cardinality(write[v]) <= 1
    BY <1>1 DEF BooksInv
  <2>2. nextId' = nextId
    BY <1>2
  <2> HIDE DEF G
  <2>3. book' \in G /\ disk' \in G /\ write' \in [Workers -> SUBSET G]
    BY <1>2, <2>1
  <2>4. \A v \in Workers : write'[v] = write[v] \/ write'[v] = {}
    BY <1>2, <2>1
  <2>5. \A v \in Workers : Cardinality(write'[v]) <= 1
    BY <2>1, <2>4, NothingToWrite
  <2> QED
    BY <2>2, <2>3, <2>5 DEF BooksInv, G
<1> QED
  BY <1>4, <1>5 DEF IInv

LEMMA AbandonKeeps ==
  ASSUME IInv, NEW w \in Workers, Abandon(w)
  PROVE  IInv'
<1>1. RowInv /\ RequestInv /\ PendingInv /\ BooksInv
  BY DEF IInv
<1>2. /\ UNCHANGED <<account, trading, book, disk, write, nextId, events>> /\ End(w)
      /\ pending' = [pending EXCEPT ![w] = <<>>]
  BY DEF Abandon
<1>3. RowInv' /\ BooksInv' /\ RequestInv'
  BY <1>1, <1>2, RowKept, BooksKeep, EndKeeps
<1>4. PendingInv'
  <2> DEFINE S == Seq([at : Nat, instrument : Instruments])
  <2>1. <<>> \in S /\ pending \in [Workers -> S]
    BY <1>1, EmptySequence DEF PendingInv
  <2> HIDE DEF S
  <2>2. pending' \in [Workers -> S]
    BY <1>2, <2>1
  <2> QED
    BY <2>2 DEF PendingInv, S
<1> QED
  BY <1>3, <1>4 DEF IInv

\* What requests there are when there are none.
LEMMA NoRequests ==
  ASSUME todo' = [w \in Workers |-> <<>>], arg' = [w \in Workers |-> Nothing],
         pending' = [w \in Workers |-> <<>>], write' = [w \in Workers |-> {}],
         {book', disk'} \subseteq GoodBooks(nextId') \cup {NoBook}
  PROVE  RequestInv' /\ PendingInv' /\ BooksInv'
<1>1. RequestInv'
  <2>1. <<>> \in Seq(StepNames)
    BY EmptySequence
  <2>2. todo' \in [Workers -> Seq(StepNames)] /\ arg' \in [Workers -> Asked]
    BY <2>1, NothingAsked
  <2>3. \A w \in Workers : todo'[w] = <<>>
    OBVIOUS
  <2>4. \A w \in Workers : MeasuresOnce(w)'
    BY <2>3 DEF MeasuresOnce
  <2> QED
    BY <2>2, <2>4 DEF RequestInv
<1>2. PendingInv'
  <2> DEFINE S == Seq([at : Nat, instrument : Instruments])
  <2>1. <<>> \in S
    BY EmptySequence
  <2> HIDE DEF S
  <2>2. pending' \in [Workers -> S]
    BY <2>1
  <2> QED
    BY <2>2 DEF PendingInv, S
<1>3. BooksInv'
  BY NothingToWrite DEF BooksInv
<1> QED
  BY <1>1, <1>2, <1>3

LEMMA CrashKeeps ==
  ASSUME IInv, Crash
  PROVE  IInv'
<1>1. RowInv /\ BooksInv
  BY DEF IInv
<1>2. UNCHANGED <<account, trading, disk, nextId>> /\ Event /\ book' = disk
  BY DEF Crash
<1>3. RowInv'
  BY <1>1, <1>2, EventKeeps DEF RowInv
<1>4. {book', disk'} \subseteq GoodBooks(nextId') \cup {NoBook}
  BY <1>1, <1>2 DEF BooksInv
<1>5. RequestInv' /\ PendingInv' /\ BooksInv'
  BY <1>4, NoRequests DEF Crash
<1> QED
  BY <1>3, <1>5 DEF IInv

LEMMA NextKeeps ==
  ASSUME IInv, [Next]_vars
  PROVE  IInv'
<1>1. CASE UNCHANGED vars
  BY <1>1 DEF vars, IInv, RowInv, RequestInv, PendingInv, BooksInv, MeasuresOnce
<1>2. CASE ToggleEnabled
  <2>1. UNCHANGED <<trading, book, disk, todo, arg, pending, write, nextId>>
        /\ account' \in {"enabled", "disabled"} /\ Event
    BY <1>2 DEF ToggleEnabled, requests
  <2>2. RowInv'
    BY <2>1, EventKeeps DEF IInv, RowInv
  <2> QED
    BY <2>1, <2>2 DEF IInv, RequestInv, PendingInv, BooksInv, MeasuresOnce
<1>3. CASE Crash
  BY <1>3, CrashKeeps
<1>4. ASSUME NEW w \in Workers, Asks(w) PROVE IInv'
  BY <1>4, AsksKeepRequests, AsksKeepTheRest DEF IInv
<1>5. ASSUME NEW w \in Workers, Steps(w) PROVE IInv'
  BY <1>5, CollectKeeps, SettleKeeps, MeasureKeeps, CommitPlaceKeeps, FindKeeps, CommitChangeKeeps,
     OtherSavesKeep, WriteRowKeeps, PersistKeeps, AbandonKeeps DEF Steps
<1> QED
  BY <1>1, <1>2, <1>3, <1>4, <1>5 DEF Next

LEMMA InitHolds ==
  ASSUME Init
  PROVE  IInv
<1>1. RowInv
  BY DEF Init, RowInv
<1>2. RequestInv
  <2>1. <<>> \in Seq(StepNames)
    BY EmptySequence
  <2>2. todo \in [Workers -> Seq(StepNames)] /\ arg \in [Workers -> Asked]
    BY <2>1, NothingAsked DEF Init
  <2>3. \A w \in Workers : todo[w] = <<>>
    BY DEF Init
  <2>4. \A w \in Workers : MeasuresOnce(w)
    BY <2>3 DEF MeasuresOnce
  <2> QED
    BY <2>2, <2>4 DEF RequestInv
<1>3. PendingInv
  <2> DEFINE S == Seq([at : Nat, instrument : Instruments])
  <2>1. <<>> \in S
    BY EmptySequence
  <2> HIDE DEF S
  <2>2. pending \in [Workers -> S]
    BY <2>1 DEF Init
  <2> QED
    BY <2>2 DEF PendingInv, S
<1>4. BooksInv
  BY NothingToWrite DEF BooksInv, Init
<1> QED
  BY <1>1, <1>2, <1>3, <1>4 DEF IInv

-----------------------------------------------------------------------------
(* The invariants. *)

LEMMA Inductive == Spec => []IInv
<1>1. Init => IInv
  BY InitHolds
<1>2. IInv /\ [Next]_vars => IInv'
  BY NextKeeps
<1> QED
  BY <1>1, <1>2, PTL DEF Spec

(***************************************************************************)
(* The types hold, of the books in memory, of the file a restart reads and *)
(* of the snapshots on their way to it, and of what requests carry across  *)
(* their awaits, for amounts and levels of any sign; what settle collected *)
(* are places and instruments, and only orders above zero are placed.      *)
(***************************************************************************)
THEOREM DeskTypesHold == Spec => []TypeOK
<1>1. IInv => TypeOK
  <2> SUFFICES ASSUME IInv PROVE TypeOK
    OBVIOUS
  <2> DEFINE good == GoodBooks(nextId) \cup {NoBook}
             typed == Books \cup {NoBook}
  <2>1. good \subseteq typed
    BY GoodFields
  <2>2. book \in good /\ disk \in good /\ write \in [Workers -> SUBSET good]
    BY DEF IInv, BooksInv
  <2> HIDE DEF good, typed
  <2>3. book \in typed /\ disk \in typed /\ write \in [Workers -> SUBSET typed]
    BY <2>1, <2>2
  <2> QED
    BY <2>3 DEF TypeOK, typed, IInv, RowInv, RequestInv, PendingInv, BooksInv
<1> QED
  BY <1>1, Inductive, PTL

(***************************************************************************)
(* No order fills twice: settle re-reads what stands at an index it        *)
(* collected before the wait, and fills it only while it is open.          *)
(***************************************************************************)
THEOREM FilledOnceHolds == Spec => []FilledOnce
<1>1. IInv => FilledOnce
  <2> SUFFICES ASSUME IInv, book # NoBook PROVE FilledOnce
    BY DEF FilledOnce
  <2>1. FillsOnce(book)
    BY BookGood, GoodFields DEF IInv
  <2> QED
    BY <2>1 DEF FilledOnce, FillsOnce
<1> QED
  BY <1>1, Inductive, PTL

(***************************************************************************)
(* The books balance in memory and in the file: in size through fills that *)
(* open, add to, reduce and flip a position, those of orders amended below *)
(* zero included, and through everything trim_history forgets; in money as *)
(* long as apply_to_position had something left to average over (~wiped).  *)
(***************************************************************************)
THEOREM BooksBalanceHolds == Spec => []BooksBalance
<1>1. IInv => BooksBalance
  <2> SUFFICES ASSUME IInv, NEW b \in {book, disk}, b # NoBook PROVE Balanced(b)
    BY DEF BooksBalance
  <2>1. b \in GoodBooks(nextId)
    BY DEF IInv, BooksInv
  <2> QED
    BY <2>1, GoodFields
<1> QED
  BY <1>1, Inductive, PTL

-----------------------------------------------------------------------------
(* What a step may do to the orders. *)

\* Finished orders of b that are in c are as they were.
FinishedStay(b, c) ==
  \A k \in DOMAIN b.orders : ~ IsOpen(b.orders[k]) =>
    \A n \in DOMAIN c.orders : c.orders[n].id = b.orders[k].id => c.orders[n] = b.orders[k]

HasOrder(c, id) == \E n \in DOMAIN c.orders : c.orders[n].id = id
HasOpen(c, id) == \E n \in DOMAIN c.orders : c.orders[n].id = id /\ IsOpen(c.orders[n])
HasFill(c, id) == \E n \in DOMAIN c.fills : c.fills[n].order = id

\* Open orders of b are in c, or filled there; are open in c, or filled there.
OpenKept(b, c) ==
  \A k \in DOMAIN b.orders : IsOpen(b.orders[k]) =>
    HasOrder(c, b.orders[k].id) \/ HasFill(c, b.orders[k].id)
OpenStay(b, c) ==
  \A k \in DOMAIN b.orders : IsOpen(b.orders[k]) =>
    HasOpen(c, b.orders[k].id) \/ HasFill(c, b.orders[k].id)

LEMMA SameStay ==
  ASSUME NEW b, UniqueIds(b), NEW c, c.orders = b.orders
  PROVE  FinishedStay(b, c) /\ OpenStay(b, c)
BY DEF UniqueIds, FinishedStay, OpenStay, HasOpen

LEMMA OpenStayIsKept ==
  ASSUME NEW b, NEW c, OpenStay(b, c)
  PROVE  OpenKept(b, c)
BY DEF OpenStay, OpenKept, HasOpen, HasOrder

\* A settle leaves finished orders alone, and open ones open or filled.
LEMMA SettlesStay ==
  ASSUME NEW b, UniqueIds(b), NEW c, Settles(b, c)
  PROVE  FinishedStay(b, c) /\ OpenStay(b, c)
<1>1. FinishedStay(b, c)
  BY DEF UniqueIds, FinishedStay, Settles
<1>2. OpenStay(b, c)
  BY DEF OpenStay, Settles, HasOpen, HasFill
<1> QED
  BY <1>1, <1>2

\* An order more, with an id of its own.
LEMMA PlacedStay ==
  ASSUME NEW n \in Nat, NEW b \in GoodBooks(n), NEW c, NEW o, o.id = n,
         OneMore(b.orders, c.orders, o)
  PROVE  FinishedStay(b, c) /\ OpenStay(b, c)
<1>1. b \in Books /\ UniqueIds(b) /\ IdsBelow(b, n)
  BY GoodFields
<1>2. \A k \in DOMAIN b.orders : b.orders[k].id # n
  <2>1. \A k \in DOMAIN b.orders : b.orders[k].id < n /\ b.orders[k].id \in Nat
    BY <1>1, OrderAt, OrderFields DEF IdsBelow
  <2> QED
    BY <2>1
<1>3. \A k \in DOMAIN c.orders : c.orders[k] = o \/ (k \in DOMAIN b.orders /\ c.orders[k] = b.orders[k])
  BY DEF OneMore
<1>4. \A k \in DOMAIN b.orders : k \in DOMAIN c.orders /\ c.orders[k] = b.orders[k]
  BY DEF OneMore
<1>5. FinishedStay(b, c)
  BY <1>1, <1>2, <1>3 DEF FinishedStay, UniqueIds
<1>6. OpenStay(b, c)
  BY <1>4 DEF OpenStay, HasOpen
<1> QED
  BY <1>5, <1>6

\* trim_history forgets finished orders only.
LEMMA TrimmedStay ==
  ASSUME NEW b, NEW c \in Books, FinishedStay(b, c), OpenStay(b, c)
  PROVE  FinishedStay(b, Trimmed(c)) /\ OpenStay(b, Trimmed(c)) /\ Trimmed(c).position = c.position
<1>1. PICK s \in Seq(BookOrders) : \E m \in [DOMAIN s -> DOMAIN c.orders] :
           /\ Trimmed(c) = [c EXCEPT !.orders = s]
           /\ \A j, k \in DOMAIN s : m[j] = m[k] => j = k
           /\ \A k \in DOMAIN s : s[k] = c.orders[m[k]]
           /\ \A k \in DOMAIN c.orders : IsOpen(c.orders[k]) => \E j \in DOMAIN s : m[j] = k
  BY TrimmedOrders
<1>2. PICK m \in [DOMAIN s -> DOMAIN c.orders] :
           /\ Trimmed(c) = [c EXCEPT !.orders = s]
           /\ \A k \in DOMAIN s : s[k] = c.orders[m[k]]
           /\ \A k \in DOMAIN c.orders : IsOpen(c.orders[k]) => \E j \in DOMAIN s : m[j] = k
  BY <1>1
<1> DEFINE t == Trimmed(c)
<1>3. t.orders = s /\ t.fills = c.fills /\ t.position = c.position
  BY <1>2, OrdersReplaced
<1> HIDE DEF t
<1>4. \A k \in DOMAIN t.orders : \E j \in DOMAIN c.orders : t.orders[k] = c.orders[j]
  BY <1>2, <1>3
<1>5. \A k \in DOMAIN c.orders : IsOpen(c.orders[k]) =>
        \E j \in DOMAIN t.orders : t.orders[j] = c.orders[k]
  BY <1>2, <1>3
<1>6. FinishedStay(b, t)
  BY <1>4 DEF FinishedStay
<1>7. OpenStay(b, t)
  <2> SUFFICES ASSUME NEW k \in DOMAIN b.orders, IsOpen(b.orders[k])
               PROVE  HasOpen(t, b.orders[k].id) \/ HasFill(t, b.orders[k].id)
    BY DEF OpenStay
  <2>1. CASE HasOpen(c, b.orders[k].id)
    <3>1. PICK n \in DOMAIN c.orders : c.orders[n].id = b.orders[k].id /\ IsOpen(c.orders[n])
      BY <2>1 DEF HasOpen
    <3>2. HasOpen(t, b.orders[k].id)
      BY <1>5, <3>1 DEF HasOpen
    <3> QED
      BY <3>2
  <2>2. CASE HasFill(c, b.orders[k].id)
    BY <1>3, <2>2 DEF HasFill
  <2> QED
    BY <2>1, <2>2 DEF OpenStay
<1> QED
  BY <1>3, <1>6, <1>7 DEF t

\* A cancelled or amended order was open, and keeps its place.
LEMMA RewrittenStay ==
  ASSUME NEW b \in Books, UniqueIds(b), NEW k \in DOMAIN b.orders, IsOpen(b.orders[k]),
         NEW o \in BookOrders, o.id = b.orders[k].id,
         NEW c, c = [b EXCEPT !.orders = [b.orders EXCEPT ![k] = o]]
  PROVE  FinishedStay(b, c) /\ OpenKept(b, c)
<1>1. b.orders \in Seq(BookOrders)
  BY BookFields
<1>2. c.orders = [b.orders EXCEPT ![k] = o]
  BY DEF Books
<1>3. /\ DOMAIN c.orders = DOMAIN b.orders
      /\ \A j \in DOMAIN b.orders : c.orders[j] = IF j = k THEN o ELSE b.orders[j]
  BY <1>1, <1>2
<1>4. FinishedStay(b, c)
  BY <1>3 DEF FinishedStay, UniqueIds
<1>5. OpenKept(b, c)
  BY <1>3 DEF OpenKept, HasOrder
<1> QED
  BY <1>4, <1>5

\* What placing an order leaves of the others; whose position it changes.
LEMMA PlaceStays ==
  ASSUME IInv, NEW w \in Workers, CommitPlace(w), ~ Refuse(w)
  PROVE  /\ book # NoBook /\ book \in Books
         /\ FinishedStay(book, book') /\ OpenStay(book, book')
         /\ arg[w].order \in Prepared /\ Reduces(arg[w].order)
         /\ \/ book'.position = book.position
            \/ \E price \in Int :
                 LET o == arg[w].order
                 IN  book'.position = [book.position EXCEPT ![o.instrument] =
                       PositionAfter(book.position[o.instrument], o.side, o.qty, price)]
<1> DEFINE asked == arg[w].order
           o == Stored(asked)
<1>1. RowInv /\ RequestInv /\ BooksInv /\ nextId \in Nat
  BY DEF IInv, RowInv
<1>2. o \in BookOrders /\ o.id = nextId /\ asked \in Prepared
  BY <1>1, PlaceCases
<1>3. /\ book # NoBook /\ Reduces(asked)
      /\ \/ Save(w, Trimmed([book EXCEPT !.orders = Append(@, o)]))
         \/ \E price \in Int :
              Save(w, Trimmed([Executed(book, o, price, o.instrument) EXCEPT
                                !.orders = Append(@, [o EXCEPT !.status = "filled"])]))
  BY <1>1, PlaceCases, Zenon
<1>4. book \in GoodBooks(nextId) /\ book \in Books /\ book.orders \in Seq(BookOrders)
  BY <1>1, <1>3, BookGood, BookFields
<1>5. o.instrument = asked.instrument /\ o.side = asked.side /\ o.qty = asked.qty
  BY DEF Stored
<1> HIDE DEF o, asked
<1>6. CASE Save(w, Trimmed([book EXCEPT !.orders = Append(@, o)]))
  <2> DEFINE s == Append(book.orders, o)
             c == [book EXCEPT !.orders = s]
  <2>1. s \in Seq(BookOrders) /\ OneMore(book.orders, s, o)
    BY <1>2, <1>4, AppendFields
  <2> HIDE DEF s
  <2>2. c \in Books /\ c.orders = s /\ c.position = book.position
    BY <1>4, <2>1, OrdersReplaced
  <2>3. book' = Trimmed(c)
    BY <1>6 DEF Save, s
  <2> HIDE DEF c
  <2>4. FinishedStay(book, c) /\ OpenStay(book, c)
    BY <1>1, <1>2, <1>4, <2>1, <2>2, PlacedStay
  <2>5. FinishedStay(book, book') /\ OpenStay(book, book') /\ book'.position = book.position
    BY <2>2, <2>3, <2>4, TrimmedStay
  <2> QED
    BY <1>2, <1>3, <1>4, <2>5 DEF asked
<1>7. CASE \E price \in Int :
              Save(w, Trimmed([Executed(book, o, price, o.instrument) EXCEPT
                                !.orders = Append(@, [o EXCEPT !.status = "filled"])]))
  <2>1. PICK price \in Int :
              Save(w, Trimmed([Executed(book, o, price, o.instrument) EXCEPT
                                !.orders = Append(@, [o EXCEPT !.status = "filled"])]))
    BY <1>7
  <2> DEFINE e == Executed(book, o, price, o.instrument)
             g == [o EXCEPT !.status = "filled"]
             s == Append(e.orders, g)
             c == [e EXCEPT !.orders = s]
  <2>2. o.instrument \in Instruments
    BY <1>2, OrderFields
  <2>3. e \in Books
    BY <1>2, <1>4, <2>2, ExecutedGood
  <2>4. /\ e.orders = book.orders
        /\ e.position = [book.position EXCEPT ![o.instrument] =
                           PositionAfter(book.position[o.instrument], o.side, o.qty, price)]
    <3>1. e.orders = book.orders
      BY <1>4 DEF Executed, Books
    <3>2. e.position = [book.position EXCEPT ![o.instrument] =
                          PositionAfter(book.position[o.instrument], o.side, o.qty, price)]
      BY <1>4 DEF Executed, Books
    <3> QED
      BY <3>1, <3>2
  <2>5. g \in BookOrders /\ g.id = nextId
    BY <1>2, StatusSet DEF Statuses
  <2>6. book' = Trimmed(c)
    BY <2>1 DEF Save
  <2> HIDE DEF e, g
  <2>7. s \in Seq(BookOrders) /\ OneMore(book.orders, s, g)
    BY <1>4, <2>4, <2>5, AppendFields
  <2> HIDE DEF s
  <2>8. c \in Books /\ c.orders = s /\ c.position = e.position
    BY <2>3, <2>7, OrdersReplaced
  <2> HIDE DEF c
  <2>9. FinishedStay(book, c) /\ OpenStay(book, c)
    BY <1>1, <1>4, <2>5, <2>7, <2>8, PlacedStay
  <2>10. FinishedStay(book, book') /\ OpenStay(book, book') /\ book'.position = e.position
    BY <2>6, <2>8, <2>9, TrimmedStay
  <2>11. book'.position = [book.position EXCEPT ![asked.instrument] =
                       PositionAfter(book.position[asked.instrument], asked.side, asked.qty, price)]
    BY <1>5, <2>4, <2>10
  <2> QED
    BY <1>2, <1>3, <1>4, <2>10, <2>11 DEF asked
<1> QED
  BY <1>3, <1>6, <1>7

\* A settle's effect on the orders.
LEMMA SettleStays ==
  ASSUME IInv, NEW w \in Workers, Settle(w), book # NoBook
  PROVE  FinishedStay(book, book') /\ OpenStay(book, book')
<1>1. RowInv /\ RequestInv /\ PendingInv /\ BooksInv /\ nextId \in Nat
  BY DEF IInv, RowInv
<1>2. book \in GoodBooks(nextId) /\ UniqueIds(book)
  BY <1>1, BookGood, GoodFields
<1>3. CASE book' = book
  BY <1>2, <1>3, SameStay
<1>4. CASE book' # book
  <2>1. PICK marks \in [Instruments -> Prices \cup {NoMark}] :
          book' = Trimmed(Settled(book, pending[w], marks))
    BY <1>4 DEF Settle, Save
  <2>2. pending[w] \in Collected
    BY <1>1 DEF PendingInv, Collected
  <2> DEFINE c == Settled(book, pending[w], marks)
  <2>3. c \in GoodBooks(nextId) /\ Settles(book, c)
    BY <1>1, <1>2, <2>2, SettledGood
  <2> HIDE DEF c
  <2>4. c \in Books /\ FinishedStay(book, c) /\ OpenStay(book, c)
    BY <1>2, <2>3, GoodFields, SettlesStay
  <2>5. book' = Trimmed(c)
    BY <2>1 DEF c
  <2> QED
    BY <2>4, <2>5, TrimmedStay
<1> QED
  BY <1>3, <1>4

\* Every step but a restart.
LEMMA OrdersStay ==
  ASSUME IInv, [Next]_vars, ~ Crash, book # NoBook, book' # NoBook
  PROVE  FinishedStay(book, book') /\ (book' # EmptyBook => OpenKept(book, book'))
<1>1. BooksInv /\ RequestInv /\ RowInv
  BY DEF IInv
<1>2. book \in Books /\ UniqueIds(book)
  BY <1>1, BookGood, GoodFields
<1>3. CASE book'.orders = book.orders
  BY <1>2, <1>3, SameStay, OpenStayIsKept
<1>4. CASE book' = EmptyBook
  <2>1. EmptyBook.orders = <<>>
    BY DEF EmptyBook
  <2> QED
    BY <1>4, <2>1 DEF FinishedStay
<1>5. ASSUME NEW w \in Workers, CommitCancel(w) \/ CommitAmend(w)
      PROVE  FinishedStay(book, book') /\ OpenKept(book, book')
  <2>1. CASE Refuse(w)
    BY <1>3, <1>2, <2>1, SameStay, OpenStayIsKept DEF Refuse
  <2>2. CASE ~ Refuse(w)
    <3>1. PICK k \in DOMAIN book.orders : \E o \in BookOrders :
            /\ IsOpen(book.orders[k]) /\ o.id = book.orders[k].id
            /\ Save(w, [book EXCEPT !.orders = [book.orders EXCEPT ![k] = o]])
      BY <1>1, <1>5, <2>2, CancelCases, AmendCases
    <3>2. PICK o \in BookOrders :
            /\ IsOpen(book.orders[k]) /\ o.id = book.orders[k].id
            /\ Save(w, [book EXCEPT !.orders = [book.orders EXCEPT ![k] = o]])
      BY <3>1
    <3>3. book' = [book EXCEPT !.orders = [book.orders EXCEPT ![k] = o]]
      BY <3>2 DEF Save
    <3> QED
      BY <1>2, <3>2, <3>3, RewrittenStay
  <2> QED
    BY <2>1, <2>2
<1>6. ASSUME NEW w \in Workers, CommitPlace(w)
      PROVE  FinishedStay(book, book') /\ OpenKept(book, book')
  <2>1. CASE Refuse(w)
    BY <1>2, <2>1, SameStay, OpenStayIsKept DEF Refuse
  <2>2. CASE ~ Refuse(w)
    BY <1>6, <2>2, PlaceStays, OpenStayIsKept
  <2> QED
    BY <2>1, <2>2
<1>7. ASSUME NEW w \in Workers, Settle(w)
      PROVE  FinishedStay(book, book') /\ OpenKept(book, book')
  BY <1>7, SettleStays, OpenStayIsKept
<1>8. ASSUME NEW w \in Workers, CommitAction(w)
      PROVE  book'.orders = book.orders \/ book' = EmptyBook
  <2>1. Deposited(book).orders = book.orders
    BY <1>2 DEF Deposited, Books
  <2> QED
    BY <1>8, <2>1 DEF CommitAction, Refuse, Save, Reset
<1>9. ASSUME NEW w \in Workers, OpenBooks(w) \/ ReleaseBooks(w)
      PROVE  book' = book
  BY <1>9 DEF OpenBooks, ReleaseBooks, Save
<1>10. ASSUME NEW w \in Workers,
              \/ Asks(w) \/ Collect(w) \/ Measure(w) \/ Find(w) \/ WriteRow(w) \/ Persist(w)
              \/ Abandon(w)
       PROVE  book' = book
  BY <1>10 DEF Asks, Ask, AskAttach, AskSettings, AskDetach, AskRead, AskPlace, AskClose, AskCancel,
               AskAmend, AskAction, Collect, Measure, Find, WriteRow, Persist, Abandon, Refuse
<1>11. CASE UNCHANGED vars \/ ToggleEnabled
  <2>1. book' = book
    BY <1>11 DEF vars, ToggleEnabled
  <2> QED
    BY <1>3, <2>1
<1>12. ASSUME NEW w \in Workers, Asks(w) \/ Steps(w)
       PROVE  FinishedStay(book, book') /\ (book' # EmptyBook => OpenKept(book, book'))
  BY <1>3, <1>4, <1>5, <1>6, <1>7, <1>8, <1>9, <1>10, <1>12 DEF Steps
<1> QED
  BY <1>11, <1>12 DEF Next

(***************************************************************************)
(* A finished order never changes again, whatever settles, cancellations   *)
(* and amendments were under way when it finished: each looks at its       *)
(* status under the mutex that it writes under.                            *)
(***************************************************************************)
THEOREM TerminalOrdersStayHolds == Spec => TerminalOrdersStay
<1>1. IInv /\ [Next]_vars =>
        (~ Crash /\ book # NoBook /\ book' # NoBook =>
          \A k \in DOMAIN book.orders : ~ IsOpen(book.orders[k]) =>
            \A n \in DOMAIN book'.orders :
              book'.orders[n].id = book.orders[k].id => book'.orders[n] = book.orders[k])
  BY OrdersStay DEF FinishedStay
<1> QED
  BY <1>1, Inductive, PTL DEF TerminalOrdersStay, Spec

(***************************************************************************)
(* trim_history never drops an open order, for every HISTORY_LIMIT, and no *)
(* other step loses one: it stays in the books or has its fill.            *)
(***************************************************************************)
THEOREM OpenOrdersAreKeptHolds == Spec => OpenOrdersAreKept
<1>1. IInv /\ [Next]_vars =>
        (~ Crash /\ book # NoBook /\ book' # NoBook /\ book' # EmptyBook =>
          \A k \in DOMAIN book.orders : IsOpen(book.orders[k]) =>
            \/ \E n \in DOMAIN book'.orders : book'.orders[n].id = book.orders[k].id
            \/ \E n \in DOMAIN book'.fills : book'.fills[n].order = book.orders[k].id)
  BY OrdersStay DEF OpenKept, HasOrder, HasFill
<1> QED
  BY <1>1, Inductive, PTL DEF OpenOrdersAreKept, Spec

-----------------------------------------------------------------------------
(* Orders that only reduce. *)

LEMMA BetweenBounds ==
  ASSUME NEW a \in Int
  PROVE  a \in Between(0, a)
BY DEF Between

LEMMA ReducedSize ==
  ASSUME NEW p \in Positions \cup {Flat}, NEW side \in Sides, NEW qty \in Int, NEW price \in Int,
         qty > 0,
         qty <= IF p = Flat \/ p.side = side THEN 0 ELSE p.qty
  PROVE  Signed(PositionAfter(p, side, qty, price)) \in Between(0, Signed(p))
<1> DEFINE after == PositionAfter(p, side, qty, price)
<1>1. Signed(after) = Signed(p) + side * qty
  BY FillBalances
<1>2. side \in {1, -1}
  BY DEF Sides, Long, Short
<1> HIDE DEF after
<1>3. CASE p = Flat \/ p.side = side
  BY <1>3
<1>4. CASE ~ (p = Flat \/ p.side = side)
  <2>1. /\ p \in Positions /\ p.side \in {1, -1} /\ p.qty \in Int /\ Signed(p) = p.side * p.qty
        /\ p.side # side
    BY <1>4, PositionFields
  <2>2. qty <= p.qty
    BY <1>4
  <2> DEFINE h == p.qty
  <2>3. h \in Int /\ qty > 0 /\ qty <= h
    BY <2>1, <2>2
  <2> HIDE DEF h
  <2>4. CASE side = 1
    <3>1. Signed(p) = - h /\ Signed(after) = qty - h
      BY <1>1, <2>1, <2>3, <2>4 DEF h
    <3> QED
      BY <2>3, <3>1 DEF Between, after
  <2>5. CASE side = -1
    <3>1. Signed(p) = h /\ Signed(after) = h - qty
      BY <1>1, <2>1, <2>3, <2>5 DEF h
    <3> QED
      BY <2>3, <3>1 DEF Between, after
  <2> QED
    BY <1>2, <2>4, <2>5
<1> QED
  BY <1>3, <1>4

\* Only the commit of a place writes books on behalf of a request that is at one.
LEMMA PlaceWrites ==
  ASSUME IInv, [Next]_vars, NEW w \in Workers, At(w, "commit"), arg[w].op = "place", write'[w] # {}
  PROVE  CommitPlace(w) /\ ~ Refuse(w)
<1>1. write \in [Workers -> SUBSET (GoodBooks(nextId) \cup {NoBook})]
  BY DEF IInv, BooksInv
<1>2. write[w] = {} /\ Head(todo[w]) = "commit"
  BY DEF At
<1>3. CASE UNCHANGED vars \/ ToggleEnabled
  BY <1>2, <1>3 DEF vars, ToggleEnabled, requests
<1>4. CASE Crash
  BY <1>4 DEF Crash
<1>5. ASSUME NEW v \in Workers,
             \/ Asks(v) \/ Collect(v) \/ Measure(v) \/ Find(v) \/ WriteRow(v) \/ Abandon(v)
      PROVE  FALSE
  <2>1. write' = write
    BY <1>5 DEF Asks, Ask, AskAttach, AskSettings, AskDetach, AskRead, AskPlace, AskClose, AskCancel,
               AskAmend, AskAction, Collect, Measure, Find, WriteRow, Abandon, Refuse
  <2> QED
    BY <1>2, <2>1
<1>6. ASSUME NEW v \in Workers, Persist(v) PROVE FALSE
  BY <1>1, <1>2, <1>6 DEF Persist
<1>7. ASSUME NEW v \in Workers, NEW b, Save(v, b) PROVE v = w
  BY <1>1, <1>2, <1>7 DEF Save
<1>8. ASSUME NEW v \in Workers, Settle(v) \/ OpenBooks(v) \/ ReleaseBooks(v) PROVE FALSE
  <2>1. At(v, "settle") \/ At(v, "open") \/ At(v, "release")
    BY <1>8 DEF Settle, OpenBooks, ReleaseBooks
  <2>2. v # w
    BY <1>2, <2>1 DEF At
  <2>3. write' = write \/ \E b : Save(v, b)
    BY <1>8 DEF Settle, OpenBooks, ReleaseBooks
  <2> QED
    BY <1>2, <1>7, <2>2, <2>3
<1>9. ASSUME NEW v \in Workers, CommitCancel(v) \/ CommitAmend(v) \/ CommitAction(v) PROVE FALSE
  <2>1. v # w
    BY <1>9 DEF CommitCancel, CommitAmend, CommitAction
  <2>2. write' = write \/ \E b : Save(v, b)
    BY <1>9 DEF CommitCancel, CommitAmend, CommitAction, Refuse
  <2> QED
    BY <1>2, <1>7, <2>1, <2>2
<1>10. ASSUME NEW v \in Workers, CommitPlace(v) PROVE v = w
  <2>1. Refuse(v) \/ \E b : Save(v, b)
    BY <1>10, PlaceCases, Zenon DEF IInv
  <2>2. CASE Refuse(v)
    BY <1>2, <2>2 DEF Refuse
  <2> QED
    BY <1>7, <2>1, <2>2
<1>11. ~ Refuse(w)
  BY <1>2 DEF Refuse
<1> QED
  BY <1>3, <1>4, <1>5, <1>6, <1>8, <1>9, <1>10, <1>11 DEF Next, Steps

LEMMA ReducingStep ==
  ASSUME IInv, [Next]_vars, NEW w \in Workers, At(w, "commit"), arg[w].op = "place",
         arg[w].order.reduce, write'[w] # {}, NEW i \in Instruments
  PROVE  Signed(book'.position[i]) \in Between(0, Signed(book.position[i]))
<1> DEFINE o == arg[w].order
           p == book.position[i]
<1>1. /\ book \in Books /\ o \in Prepared /\ Reduces(o)
      /\ \/ book'.position = book.position
         \/ \E price \in Int :
              book'.position = [book.position EXCEPT ![o.instrument] =
                       PositionAfter(book.position[o.instrument], o.side, o.qty, price)]
  BY PlaceWrites, PlaceStays
<1>2. book.position \in Holdings /\ p \in Positions \cup {Flat}
  <2>1. book.position \in Holdings
    BY <1>1, BookFields
  <2> QED
    BY <2>1 DEF Holdings
<1>3. o.side \in Sides /\ o.qty \in Int /\ o.qty > 0 /\ o.instrument \in Instruments
  BY <1>1 DEF Prepared, Requests
<1>4. o.reduce
  OBVIOUS
<1> HIDE DEF o
<1>5. CASE book'.position[i] = p
  <2>1. Signed(p) \in Int
    <3> HIDE DEF p
    <3>1. CASE p = Flat
      BY <3>1 DEF Signed
    <3>2. CASE p # Flat
      BY <1>2, <3>2, PositionFields
    <3> QED
      BY <3>1, <3>2
  <2> QED
    BY <1>5, <2>1, BetweenBounds
<1>6. CASE book'.position[i] # p
  <2>1. PICK price \in Int :
              book'.position = [book.position EXCEPT ![o.instrument] =
                       PositionAfter(book.position[o.instrument], o.side, o.qty, price)]
    BY <1>1, <1>6
  <2>2. o.instrument = i /\ book'.position[i] = PositionAfter(p, o.side, o.qty, price)
    BY <1>2, <1>3, <1>6, <2>1 DEF Holdings
  <2>3. o.qty <= IF p = Flat \/ p.side = o.side THEN 0 ELSE p.qty
    BY <1>1, <1>4, <2>2 DEF Reduces
  <2> QED
    BY <1>2, <1>3, <2>2, <2>3, ReducedSize
<1> QED
  BY <1>5, <1>6

(***************************************************************************)
(* A reduce-only order that is filled as it is placed never leaves more    *)
(* than it finds nor a position on the other side, whatever filled since   *)
(* close_position sized it: place_order looks again under the mutex.       *)
(***************************************************************************)
THEOREM ClosingOnlyReducesHolds == Spec => ClosingOnlyReduces
<1>1. IInv /\ [Next]_vars =>
        \A w \in Workers :
          At(w, "commit") /\ arg[w].op = "place" /\ arg[w].order.reduce /\ write'[w] # {} =>
            \A i \in Instruments :
              Signed(book'.position[i]) \in Between(0, Signed(book.position[i]))
  BY ReducingStep
<1> QED
  BY <1>1, Inductive, PTL DEF ClosingOnlyReduces, Spec
====
