--------------------------- MODULE SettlementProofs ---------------------------
(***************************************************************************)
(* What holds of the settlement ledger for any orders, reports and number  *)
(* of imports at once: that it holds what the reports say, no row twice    *)
(* and none lost, and that the figures of a compared group are exact.      *)
(***************************************************************************)
EXTENDS Settlement, FiniteSetTheorems, WellFoundedInduction, TLAPS

(* Among sets of parts of a finite set there is a smallest.  It stands in  *)
(* for an induction over the parts.                                        *)
LEMMA Smallest ==
  ASSUME NEW S, IsFiniteSet(S), NEW C \in SUBSET (SUBSET S), C # {}
  PROVE  \E T \in C : \A U \in SUBSET T : U # T => U \notin C
<1>1. IsWellFoundedOn(StrictSubsetOrdering(S), FiniteSubsetsOf(S))
  BY FS_StrictSubsetOrderingWellFounded
<1>2. \A T \in SUBSET S : IsFiniteSet(T)
  BY FS_Subset
<1>3. C \in SUBSET FiniteSubsetsOf(S)
  BY <1>2 DEF FiniteSubsetsOf
<1>4. PICK T \in C : \A U \in C : ~(<<U, T>> \in StrictSubsetOrdering(S))
  BY <1>1, <1>3, WFMin
<1>5. ASSUME NEW U \in SUBSET T, U # T, U \in C PROVE FALSE
  BY <1>4, <1>5 DEF StrictSubsetOrdering
<1>6. QED
  BY <1>5

(* What holds of the empty set and stays when an element is added holds of *)
(* a finite set; good is the set of parts of which it holds.               *)
LEMMA GrowsToAll ==
  ASSUME NEW S, IsFiniteSet(S), NEW good \in SUBSET (SUBSET S), {} \in good,
         \A T \in good : \A x \in S \ T : T \cup {x} \in good
  PROVE  S \in good
<1> DEFINE bad == (SUBSET S) \ good
<1> SUFFICES ASSUME S \notin good PROVE FALSE
  OBVIOUS
<1>1. PICK T \in bad : \A U \in SUBSET T : U # T => U \notin bad
  <2>1. bad \in SUBSET (SUBSET S) /\ bad # {}
    OBVIOUS
  <2> HIDE DEF bad
  <2>2. QED
    BY <2>1, Smallest
<1>2. PICK x \in T : TRUE
  BY <1>1
<1>3. T \ {x} \in good /\ x \in S \ (T \ {x}) /\ (T \ {x}) \cup {x} = T
  BY <1>1, <1>2
<1>4. QED
  BY <1>1, <1>3

-----------------------------------------------------------------------------
(* Sums.  The library takes the elements in some order; the sum does not   *)
(* depend on it.                                                           *)
Pick(s) == CHOOSE x \in s : TRUE

Adds(f, g, S) ==
  g = [s \in SUBSET S |-> IF s = {} THEN 0 ELSE f[Pick(s)] + g[s \ {Pick(s)}]]

LEMMA OneFold ==
  ASSUME NEW S, IsFiniteSet(S), NEW f, NEW g, NEW h, NEW T, S \subseteq T,
         Adds(f, g, S), Adds(f, h, T)
  PROVE  \A s \in SUBSET S : g[s] = h[s]
<1> DEFINE C == {s \in SUBSET S : g[s] # h[s]}
<1> SUFFICES ASSUME C # {} PROVE FALSE
  OBVIOUS
<1>1. PICK s \in C : \A U \in SUBSET s : U # s => U \notin C
  <2>1. C \in SUBSET (SUBSET S)
    OBVIOUS
  <2> HIDE DEF C
  <2>2. QED
    BY <2>1, Smallest
<1>2. /\ g[s] = IF s = {} THEN 0 ELSE f[Pick(s)] + g[s \ {Pick(s)}]
      /\ h[s] = IF s = {} THEN 0 ELSE f[Pick(s)] + h[s \ {Pick(s)}]
  BY DEF Adds
<1>3. s # {} => Pick(s) \in s
  BY DEF Pick
<1>4. s # {} => g[s \ {Pick(s)}] = h[s \ {Pick(s)}]
  BY <1>1, <1>3
<1>5. QED
  BY <1>1, <1>2, <1>4

LEMMA FoldExists ==
  ASSUME NEW S, IsFiniteSet(S), NEW f
  PROVE  \E g : Adds(f, g, S)
<1> DEFINE C == {T \in SUBSET S : ~ \E g : Adds(f, g, T)}
<1> SUFFICES ASSUME C # {} PROVE FALSE
  OBVIOUS
<1>1. PICK T \in C : \A U \in SUBSET T : U # T => U \notin C
  <2>1. C \in SUBSET (SUBSET S)
    OBVIOUS
  <2> HIDE DEF C
  <2>2. QED
    BY <2>1, Smallest
<1> DEFINE G(U) == CHOOSE g : Adds(f, g, U)
           last == T \ {Pick(T)}
           h == [s \in SUBSET T |-> IF s # T THEN G(s)[s]
                                    ELSE IF s = {} THEN 0 ELSE f[Pick(s)] + G(last)[last]]
<1>2. ASSUME NEW U \in SUBSET T, U # T PROVE Adds(f, G(U), U)
  <2>1. \E g : Adds(f, g, U)
    BY <1>1, <1>2
  <2>2. QED
    BY <2>1
<1>3. ASSUME NEW U \in SUBSET T, U # T, NEW s \in SUBSET U PROVE G(U)[s] = G(s)[s]
  <2>1. IsFiniteSet(s) /\ s \in SUBSET T /\ s # T
    BY <1>3, FS_Subset
  <2>2. Adds(f, G(s), s) /\ Adds(f, G(U), U)
    BY <1>2, <1>3, <2>1
  <2> HIDE DEF G
  <2>3. QED
    BY <2>1, <2>2, OneFold
<1> HIDE DEF G
<1>4. ASSUME NEW s \in SUBSET T
      PROVE  h[s] = IF s = {} THEN 0 ELSE f[Pick(s)] + h[s \ {Pick(s)}]
  <2>1. s # {} => Pick(s) \in s
    BY DEF Pick
  <2>2. CASE s = T
    BY <2>1, <2>2
  <2>3. CASE s # T /\ s = {}
    BY <1>2, <2>3 DEF Adds
  <2>4. CASE s # T /\ s # {}
    <3>1. G(s)[s] = f[Pick(s)] + G(s)[s \ {Pick(s)}]
      BY <1>2, <2>4 DEF Adds
    <3>2. G(s)[s \ {Pick(s)}] = G(s \ {Pick(s)})[s \ {Pick(s)}]
      BY <1>3, <2>4
    <3>3. s \ {Pick(s)} \in SUBSET T /\ s \ {Pick(s)} # T
      BY <2>1, <2>4
    <3>4. QED
      BY <2>4, <3>1, <3>2, <3>3
  <2>5. QED
    BY <2>2, <2>3, <2>4
<1>5. h = [s \in SUBSET T |-> IF s = {} THEN 0 ELSE f[Pick(s)] + h[s \ {Pick(s)}]]
  BY <1>4
<1> HIDE DEF h
<1>6. Adds(f, h, T)
  BY <1>5 DEF Adds
<1>7. QED
  BY <1>1, <1>6

LEMMA SumIsFold ==
  ASSUME NEW S, IsFiniteSet(S), NEW f, NEW T, IsFiniteSet(T), T \subseteq S, NEW g, Adds(f, g, S)
  PROVE  SumFunctionOnSet(f, T) = g[T]
<1> DEFINE i == CHOOSE iter : iter = [s \in SUBSET T |-> IF s = {} THEN 0
                                       ELSE f[CHOOSE x \in s : TRUE] + iter[s \ {CHOOSE x \in s : TRUE}]]
           j == CHOOSE h : Adds(f, h, T)
<1>1. SumFunctionOnSet(f, T) = i[T]
  BY DEF SumFunctionOnSet, FoldFunctionOnSet, MapThenFoldSet
<1>2. i = j
  BY DEF Adds, Pick
<1>3. Adds(f, j, T)
  BY FoldExists
<1> HIDE DEF i, j
<1>4. QED
  BY <1>1, <1>2, <1>3, OneFold

(* So a sum is a number, and any element may be taken first. *)
LEMMA SumFacts ==
  ASSUME NEW S, IsFiniteSet(S), NEW f, \A x \in S : f[x] \in Int
  PROVE  /\ SumFunctionOnSet(f, {}) = 0
         /\ \A T \in SUBSET S : SumFunctionOnSet(f, T) \in Int
         /\ \A T \in SUBSET S : \A x \in T :
              SumFunctionOnSet(f, T) = f[x] + SumFunctionOnSet(f, T \ {x})
<1>1. PICK g : Adds(f, g, S)
  BY FoldExists
<1>2. /\ g[{}] = 0
      /\ \A s \in SUBSET S : s # {} => Pick(s) \in s /\ g[s] = f[Pick(s)] + g[s \ {Pick(s)}]
  BY <1>1 DEF Adds, Pick
<1>3. \A T \in SUBSET S : SumFunctionOnSet(f, T) = g[T]
  BY <1>1, SumIsFold, FS_Subset
<1>4. \A T \in SUBSET S : g[T] \in Int
  <2> DEFINE C == {T \in SUBSET S : g[T] \notin Int}
  <2> SUFFICES ASSUME C # {} PROVE FALSE
    OBVIOUS
  <2>1. PICK T \in C : \A U \in SUBSET T : U # T => U \notin C
    <3>1. C \in SUBSET (SUBSET S)
      OBVIOUS
    <3> HIDE DEF C
    <3>2. QED
      BY <3>1, Smallest
  <2>2. T \in SUBSET S /\ g[T] \notin Int
    BY <2>1
  <2>3. T # {}
    BY <1>2, <2>2
  <2>4. PICK x \in T : g[T] = f[x] + g[T \ {x}]
    BY <1>2, <2>2, <2>3
  <2>5. T \ {x} \in SUBSET T /\ T \ {x} # T /\ T \ {x} \in SUBSET S /\ x \in S
    BY <2>2, <2>4
  <2>6. g[T \ {x}] \in Int
    BY <2>1, <2>5
  <2>7. QED
    BY <2>2, <2>4, <2>5, <2>6
<1>5. \A T \in SUBSET S : \A x \in T : g[T] = f[x] + g[T \ {x}]
  <2> DEFINE C == {T \in SUBSET S : \E x \in T : g[T] # f[x] + g[T \ {x}]}
  <2> SUFFICES ASSUME C # {} PROVE FALSE
    OBVIOUS
  <2>1. PICK T \in C : \A U \in SUBSET T : U # T => U \notin C
    <3>1. C \in SUBSET (SUBSET S)
      OBVIOUS
    <3> HIDE DEF C
    <3>2. QED
      BY <3>1, Smallest
  <2>2. PICK x \in T : g[T] # f[x] + g[T \ {x}]
    BY <2>1
  <2> DEFINE y == Pick(T)
  <2>3. y \in T /\ g[T] = f[y] + g[T \ {y}] /\ x # y
    BY <1>2, <2>1, <2>2
  <2> HIDE DEF y
  <2>4. g[T \ {y}] = f[x] + g[(T \ {y}) \ {x}]
    <3>1. T \ {y} \in SUBSET T /\ T \ {y} # T /\ x \in T \ {y} /\ T \ {y} \in SUBSET S
      BY <2>1, <2>2, <2>3
    <3>2. T \ {y} \notin C
      BY <2>1, <3>1
    <3>3. QED
      BY <3>1, <3>2
  <2>5. g[T \ {x}] = f[y] + g[(T \ {x}) \ {y}]
    <3>1. T \ {x} \in SUBSET T /\ T \ {x} # T /\ y \in T \ {x} /\ T \ {x} \in SUBSET S
      BY <2>1, <2>2, <2>3
    <3>2. T \ {x} \notin C
      BY <2>1, <3>1
    <3>3. QED
      BY <3>1, <3>2
  <2>6. (T \ {x}) \ {y} = (T \ {y}) \ {x} /\ (T \ {x}) \ {y} \in SUBSET S /\ x \in S /\ y \in S
    BY <2>1, <2>2, <2>3
  <2>7. f[x] \in Int /\ f[y] \in Int /\ g[(T \ {x}) \ {y}] \in Int
    BY <1>4, <2>6
  <2>8. g[(T \ {x}) \ {y}] = g[(T \ {y}) \ {x}]
    BY ONLY <2>6, Zenon
  <2>9. QED
    BY ONLY <2>2, <2>3, <2>4, <2>5, <2>7, <2>8
<1>6. QED
  BY <1>2, <1>3, <1>4, <1>5

LEMMA SumGrows ==
  ASSUME NEW S, IsFiniteSet(S), NEW f, NEW x, x \notin S, f[x] \in Int, \A y \in S : f[y] \in Int
  PROVE  SumFunctionOnSet(f, S \cup {x}) = SumFunctionOnSet(f, S) + f[x]
<1>1. IsFiniteSet(S \cup {x}) /\ (S \cup {x}) \ {x} = S /\ \A y \in S \cup {x} : f[y] \in Int
  BY FS_AddElement
<1>2. SumFunctionOnSet(f, S \cup {x}) = f[x] + SumFunctionOnSet(f, (S \cup {x}) \ {x})
  BY <1>1, SumFacts
<1>3. SumFunctionOnSet(f, S) \in Int
  BY SumFacts
<1>4. SumFunctionOnSet(f, (S \cup {x}) \ {x}) = SumFunctionOnSet(f, S)
  BY ONLY <1>1, Zenon
<1>5. QED
  BY <1>2, <1>3, <1>4

(* The sum of sums.  Where f and g are the same, h may be constantly 0.    *)
LEMMA SumOfSums ==
  ASSUME NEW S, IsFiniteSet(S), NEW f, NEW g, NEW h,
         \A x \in S : f[x] \in Int /\ g[x] \in Int /\ h[x] \in Int /\ f[x] = g[x] + h[x]
  PROVE  SumFunctionOnSet(f, S) = SumFunctionOnSet(g, S) + SumFunctionOnSet(h, S)
<1> DEFINE good == {T \in SUBSET S :
              SumFunctionOnSet(f, T) = SumFunctionOnSet(g, T) + SumFunctionOnSet(h, T)}
<1>1. {} \in good
  BY SumFacts
<1>2. ASSUME NEW T \in good, NEW x \in S \ T PROVE T \cup {x} \in good
  <2>1. IsFiniteSet(T) /\ T \cup {x} \in SUBSET S /\ x \notin T
    BY FS_Subset
  <2>2. /\ f[x] = g[x] + h[x]
        /\ SumFunctionOnSet(f, T) = SumFunctionOnSet(g, T) + SumFunctionOnSet(h, T)
    OBVIOUS
  <2>a. f[x] \in Int /\ \A y \in T : f[y] \in Int
    OBVIOUS
  <2>b. g[x] \in Int /\ \A y \in T : g[y] \in Int
    OBVIOUS
  <2>c. h[x] \in Int /\ \A y \in T : h[y] \in Int
    OBVIOUS
  <2> HIDE DEF good
  <2>d. SumFunctionOnSet(f, T \cup {x}) = SumFunctionOnSet(f, T) + f[x]
    BY ONLY <2>1, <2>a, SumGrows
  <2>e. SumFunctionOnSet(g, T \cup {x}) = SumFunctionOnSet(g, T) + g[x]
    BY ONLY <2>1, <2>b, SumGrows
  <2>f. SumFunctionOnSet(h, T \cup {x}) = SumFunctionOnSet(h, T) + h[x]
    BY ONLY <2>1, <2>c, SumGrows
  <2>3. /\ SumFunctionOnSet(f, T) \in Int /\ SumFunctionOnSet(g, T) \in Int
        /\ SumFunctionOnSet(h, T) \in Int
    BY ONLY <2>1, <2>a, <2>b, <2>c, SumFacts
  <2>4. SumFunctionOnSet(f, T \cup {x}) = SumFunctionOnSet(g, T \cup {x}) + SumFunctionOnSet(h, T \cup {x})
    BY ONLY <2>a, <2>b, <2>c, <2>d, <2>e, <2>f, <2>2, <2>3
  <2>5. QED
    BY <2>1, <2>4 DEF good
<1>3. S \in good
  <2> HIDE DEF good
  <2>1. good \in SUBSET (SUBSET S)
    BY DEF good
  <2>2. QED
    BY <1>1, <1>2, <2>1, GrowsToAll
<1>4. QED
  BY <1>3

(* An element that counts for nothing may be left out. *)
LEMMA SumSkips ==
  ASSUME NEW S, IsFiniteSet(S), NEW T \in SUBSET S, NEW f, NEW g,
         \A x \in S : f[x] \in Int, \A x \in T : g[x] = f[x], \A x \in S \ T : f[x] = 0
  PROVE  SumFunctionOnSet(g, T) = SumFunctionOnSet(f, S)
<1> DEFINE good == {U \in SUBSET S : SumFunctionOnSet(g, U \cap T) = SumFunctionOnSet(f, U)}
<1>0. IsFiniteSet(T) /\ \A x \in T : g[x] \in Int
  BY FS_Subset
<1>1. {} \in good
  <2>1. {} \cap T = {}
    OBVIOUS
  <2>2. SumFunctionOnSet(g, {}) = 0 /\ SumFunctionOnSet(f, {}) = 0
    BY <1>0, SumFacts
  <2>3. QED
    BY <2>1, <2>2
<1>2. ASSUME NEW U \in good, NEW x \in S \ U PROVE U \cup {x} \in good
  <2>1. /\ IsFiniteSet(U) /\ U \cup {x} \in SUBSET S /\ x \notin U
        /\ IsFiniteSet(U \cap T) /\ x \notin U \cap T
    BY <1>0, FS_Subset, FS_Intersection
  <2>2. /\ f[x] \in Int /\ \A y \in U : f[y] \in Int
        /\ \A y \in U \cap T : g[y] \in Int
    BY <1>0
  <2>3. SumFunctionOnSet(g, U \cap T) = SumFunctionOnSet(f, U)
    OBVIOUS
  <2>4. SumFunctionOnSet(f, U \cup {x}) = SumFunctionOnSet(f, U) + f[x]
    BY ONLY <2>1, <2>2, SumGrows
  <2>5. SumFunctionOnSet(f, U) \in Int
    BY ONLY <2>1, <2>2, SumFacts
  <2> HIDE DEF good
  <2>6. SumFunctionOnSet(g, (U \cup {x}) \cap T) = SumFunctionOnSet(f, U \cup {x})
    <3>1. CASE x \in T
      <4>1. (U \cup {x}) \cap T = (U \cap T) \cup {x}
        BY <3>1
      <4>2. g[x] \in Int /\ g[x] = f[x]
        BY <1>0, <3>1
      <4>3. SumFunctionOnSet(g, (U \cap T) \cup {x}) = SumFunctionOnSet(g, U \cap T) + g[x]
        BY ONLY <2>1, <2>2, <4>2, SumGrows
      <4>4. QED
        BY <2>3, <2>4, <4>1, <4>2, <4>3
    <3>2. CASE x \notin T
      <4>1. (U \cup {x}) \cap T = U \cap T /\ f[x] = 0
        BY <3>2
      <4>2. SumFunctionOnSet(g, (U \cup {x}) \cap T) = SumFunctionOnSet(f, U)
        BY ONLY <2>3, <4>1, Zenon
      <4>3. SumFunctionOnSet(f, U \cup {x}) = SumFunctionOnSet(f, U)
        BY ONLY <2>4, <2>5, <4>1
      <4>4. QED
        BY ONLY <4>2, <4>3
    <3>3. QED
      BY <3>1, <3>2
  <2>7. QED
    BY <2>1, <2>6 DEF good
<1>3. good \in SUBSET (SUBSET S)
  OBVIOUS
<1> HIDE DEF good
<1>4. S \in good
  BY <1>1, <1>2, <1>3, GrowsToAll
<1>5. SumFunctionOnSet(g, S \cap T) = SumFunctionOnSet(f, S) /\ S \cap T = T
  BY <1>4 DEF good
<1>6. QED
  BY ONLY <1>5

LEMMA SumSame ==
  ASSUME NEW S, IsFiniteSet(S), NEW f, NEW g, \A x \in S : f[x] \in Int /\ g[x] = f[x]
  PROVE  SumFunctionOnSet(g, S) = SumFunctionOnSet(f, S)
BY SumSkips

-----------------------------------------------------------------------------
(* Numbers. *)
Below == {p \in Nat \X Nat : p[1] < p[2]}

LEMMA MinIsLeast ==
  ASSUME NEW T \in SUBSET Nat, T # {}
  PROVE  Min(T) \in T /\ \A y \in T : Min(T) <= y
<1>1. IsWellFoundedOn(Below, Nat)
  BY NatLessThanWellFounded DEF OpToRel, Below
<1>2. PICK x \in T : \A y \in T : ~(<<y, x>> \in Below)
  BY <1>1, WFMin
<1>3. ASSUME NEW y \in T PROVE x <= y
  <2>1. x \in Nat /\ y \in Nat /\ <<y, x>> \in Nat \X Nat
    OBVIOUS
  <2>2. ~(y < x)
    BY <1>2, <2>1 DEF Below
  <2>3. QED
    BY <2>1, <2>2
<1>4. QED
  BY <1>3 DEF Min

(* Of numbers below a bound there is a greatest. *)
LEMMA GreatestExists ==
  ASSUME NEW T \in SUBSET Nat, T # {}, NEW b \in Nat, \A x \in T : x <= b
  PROVE  \E x \in T : \A y \in T : y <= x
<1> DEFINE Above == {m \in Nat : \A x \in T : x <= m}
           m == Min(Above)
<1>1. m \in Above /\ \A n \in Above : m <= n
  <2>1. Above \in SUBSET Nat /\ b \in Above
    OBVIOUS
  <2> HIDE DEF Above
  <2>2. QED
    BY <2>1, MinIsLeast
<1> HIDE DEF m
<1>2. m \in Nat /\ \A x \in T : x \in Nat /\ x <= m
  BY <1>1
<1>3. m \in T
  <2> SUFFICES ASSUME m \notin T PROVE FALSE
    OBVIOUS
  <2>1. PICK x \in T : TRUE
    OBVIOUS
  <2>2. \A y \in T : y \in Nat /\ y < m
    BY <1>2
  <2>3. m - 1 \in Nat
    BY <1>2, <2>1, <2>2
  <2>4. m - 1 \in Above
    BY <1>2, <2>2, <2>3
  <2>5. QED
    BY <1>1, <1>2, <2>4
<1>4. QED
  BY <1>2, <1>3

(* The first n numbers are n. *)
LEMMA FirstNumbers ==
  ASSUME NEW n \in Nat
  PROVE  IsFiniteSet(0 .. n - 1) /\ Cardinality(0 .. n - 1) = n
<1>1. 0 \in Int /\ n - 1 \in Int
  OBVIOUS
<1>2. IsFiniteSet(0 .. n - 1) /\ Cardinality(0 .. n - 1) = IF 0 > n - 1 THEN 0 ELSE (n - 1) - 0 + 1
  BY ONLY <1>1, FS_Interval
<1>3. QED
  BY <1>2

LEMMA FirstPositions ==
  ASSUME NEW n \in Nat
  PROVE  IsFiniteSet(1 .. n) /\ Cardinality(1 .. n) = n
<1>1. 1 \in Int /\ n \in Int
  OBVIOUS
<1>2. IsFiniteSet(1 .. n) /\ Cardinality(1 .. n) = IF 1 > n THEN 0 ELSE n - 1 + 1
  BY ONLY <1>1, FS_Interval
<1>3. QED
  BY <1>2

-----------------------------------------------------------------------------
(* Keys.  The rows of one identity are numbered from 0 in the order of the *)
(* report, without gaps, so that no two rows of a report share a key.      *)
Keys(rep) == {LedgerKey(rep, k) : k \in DOMAIN rep.rows}

LEMMA LikeRows ==
  ASSUME NEW rep \in Reports, NEW base
  PROVE  /\ Like(rep, base) \in SUBSET Nat /\ Like(rep, base) \in SUBSET DOMAIN rep.rows
         /\ IsFiniteSet(Like(rep, base)) /\ Cardinality(Like(rep, base)) \in Nat
         /\ \A k \in Like(rep, base) :
              Uses(rep, k) = Cardinality({j \in Like(rep, base) : j < k})
<1>1. DOMAIN rep.rows = 1..Len(rep.rows) /\ Len(rep.rows) \in Nat
  BY SettlementAssumption
<1>2. IsFiniteSet(1..Len(rep.rows))
  BY <1>1, FirstPositions
<1>3. Like(rep, base) \in SUBSET (1..Len(rep.rows))
  BY <1>1 DEF Like
<1>4. IsFiniteSet(Like(rep, base)) /\ Cardinality(Like(rep, base)) \in Nat
  BY <1>2, <1>3, FS_Subset, FS_CardinalityType
<1>5. ASSUME NEW k \in Like(rep, base)
      PROVE  Uses(rep, k) = Cardinality({j \in Like(rep, base) : j < k})
  <2>1. k \in 1..Len(rep.rows) /\ BaseKey(rep.rows[k], rep.day) = base
    BY <1>1 DEF Like
  <2>2. {j \in 1..(k - 1) : BaseKey(rep.rows[j], rep.day) = BaseKey(rep.rows[k], rep.day)}
          = {j \in Like(rep, base) : j < k}
    BY <1>1, <2>1 DEF Like
  <2>3. QED
    BY <2>2, Zenon DEF Uses
<1>6. QED
  BY <1>1, <1>3, <1>4, <1>5

LEMMA UsesCount ==
  ASSUME NEW rep \in Reports, NEW base
  PROVE  /\ \A k \in Like(rep, base) : Uses(rep, k) \in 0 .. Cardinality(Like(rep, base)) - 1
         /\ \A j, k \in Like(rep, base) : Uses(rep, j) = Uses(rep, k) => j = k
         /\ \A u \in 0 .. Cardinality(Like(rep, base)) - 1 :
              \E k \in Like(rep, base) : Uses(rep, k) = u
<1> DEFINE L == Like(rep, base)
           n == Cardinality(L)
           Before(k) == {j \in L : j < k}
           f == [k \in L |-> Uses(rep, k)]
<1>1. /\ L \in SUBSET Nat /\ IsFiniteSet(L) /\ n \in Nat
      /\ \A k \in L : Uses(rep, k) = Cardinality(Before(k))
  BY LikeRows
<1> HIDE DEF L, n
<1>2. ASSUME NEW k \in L
      PROVE  IsFiniteSet(Before(k)) /\ Cardinality(Before(k)) \in Nat /\ Cardinality(Before(k)) < n
  <2>1. Before(k) \in SUBSET L /\ k \in L \ Before(k)
    BY <1>1
  <2> HIDE DEF Before
  <2>2. /\ IsFiniteSet(Before(k)) /\ Cardinality(Before(k)) <= n
        /\ n = Cardinality(Before(k)) => L = Before(k)
    BY <1>1, <2>1, FS_Subset DEF n
  <2>3. Cardinality(Before(k)) \in Nat
    BY <2>2, FS_CardinalityType
  <2>4. QED
    BY <1>1, <2>1, <2>2, <2>3
<1>3. ASSUME NEW j \in L, NEW k \in L, j < k
      PROVE  Cardinality(Before(j)) < Cardinality(Before(k))
  <2>0. \A m \in L : m \in Int
    BY <1>1
  <2>1. Before(j) \in SUBSET Before(k) /\ j \in Before(k) \ Before(j)
    BY ONLY <2>0, <1>3
  <2> HIDE DEF Before
  <2>a. /\ IsFiniteSet(Before(j)) /\ IsFiniteSet(Before(k))
        /\ Cardinality(Before(j)) \in Nat /\ Cardinality(Before(k)) \in Nat
    BY <1>2
  <2>2. /\ Cardinality(Before(j)) <= Cardinality(Before(k))
        /\ Cardinality(Before(k)) = Cardinality(Before(j)) => Before(k) = Before(j)
    BY <2>1, <2>a, FS_Subset
  <2>3. QED
    BY <2>1, <2>2, <2>a
<1> HIDE DEF Before
<1>4. \A j, k \in L : Uses(rep, j) = Uses(rep, k) => j = k
  <2> SUFFICES ASSUME NEW j \in L, NEW k \in L, Uses(rep, j) = Uses(rep, k), j # k PROVE FALSE
    OBVIOUS
  <2>1. j \in Nat /\ k \in Nat
    BY <1>1
  <2>2. Cardinality(Before(j)) = Cardinality(Before(k)) /\ Cardinality(Before(j)) \in Nat
    BY <1>1, <1>2
  <2>3. j < k \/ k < j
    BY <2>1
  <2>4. QED
    BY <1>3, <2>2, <2>3
<1>5. \A k \in L : Uses(rep, k) \in 0 .. n - 1
  BY <1>1, <1>2
<1>6. f \in Injection(L, 0 .. n - 1)
  BY <1>4, <1>5 DEF Injection, IsInjective
<1>7. f \in Surjection(L, 0 .. n - 1)
  <2>1. IsFiniteSet(0 .. n - 1) /\ Cardinality(0 .. n - 1) = n
    BY <1>1, FirstNumbers
  <2>2. Cardinality(L) = Cardinality(0 .. n - 1)
    BY <2>1 DEF n
  <2> HIDE DEF f
  <2>3. Cardinality(L) = Cardinality(0 .. n - 1) <=> f \in Surjection(L, 0 .. n - 1)
    BY ONLY <1>6, <2>1, FS_Injection
  <2>4. QED
    BY <2>2, <2>3
<1>8. \A u \in 0 .. n - 1 : \E k \in L : Uses(rep, k) = u
  BY <1>7 DEF Surjection
<1>9. QED
  BY <1>4, <1>5, <1>8 DEF L, n

LEMMA KeyOnce ==
  ASSUME NEW rep \in Reports, NEW j \in DOMAIN rep.rows, NEW k \in DOMAIN rep.rows,
         LedgerKey(rep, j) = LedgerKey(rep, k)
  PROVE  j = k
<1> DEFINE base == BaseKey(rep.rows[k], rep.day)
<1>1. BaseKey(rep.rows[j], rep.day) = base /\ Uses(rep, j) = Uses(rep, k)
  BY DEF LedgerKey
<1>2. j \in Like(rep, base) /\ k \in Like(rep, base)
  BY <1>1 DEF Like
<1>3. QED
  BY <1>1, <1>2, UsesCount

(* The keys of one identity in a report are its first numbers.             *)
LEMMA KeysOfBase ==
  ASSUME NEW rep \in Reports, NEW base, NEW u
  PROVE  <<base, u>> \in Keys(rep) <=> u \in 0 .. Cardinality(Like(rep, base)) - 1
<1>1. ASSUME NEW k \in DOMAIN rep.rows, LedgerKey(rep, k) = <<base, u>>
      PROVE  k \in Like(rep, base) /\ Uses(rep, k) = u
  BY <1>1 DEF LedgerKey, Like
<1>2. ASSUME NEW k \in Like(rep, base)
      PROVE  k \in DOMAIN rep.rows /\ LedgerKey(rep, k) = <<base, Uses(rep, k)>>
  BY DEF LedgerKey, Like
<1>3. <<base, u>> \in Keys(rep) <=> \E k \in Like(rep, base) : Uses(rep, k) = u
  BY <1>1, <1>2 DEF Keys
<1>4. QED
  BY <1>3, UsesCount

LEMMA KeyParts ==
  ASSUME NEW rep \in Reports, NEW key \in Keys(rep)
  PROVE  key = <<key[1], key[2]>> /\ key[2] \in Nat /\ key[2] < Len(rep.rows)
<1>1. PICK k \in DOMAIN rep.rows : key = LedgerKey(rep, k)
  BY DEF Keys
<1> DEFINE base == BaseKey(rep.rows[k], rep.day)
<1>2. key = <<base, Uses(rep, k)>> /\ k \in Like(rep, base)
  BY <1>1 DEF LedgerKey, Like
<1>3. Uses(rep, k) \in 0 .. Cardinality(Like(rep, base)) - 1
  BY <1>2, UsesCount
<1>4. /\ Len(rep.rows) \in Nat /\ IsFiniteSet(1..Len(rep.rows))
      /\ Cardinality(1..Len(rep.rows)) = Len(rep.rows) /\ DOMAIN rep.rows = 1..Len(rep.rows)
  BY SettlementAssumption, FirstPositions
<1>5. Cardinality(Like(rep, base)) \in Nat /\ Cardinality(Like(rep, base)) <= Len(rep.rows)
  BY <1>4, LikeRows, FS_Subset
<1> HIDE DEF base
<1>6. QED
  BY <1>2, <1>3, <1>4, <1>5

-----------------------------------------------------------------------------
(* Figures.  What Walmart charges for the units sold is the total that the *)
(* order was ingested with, and its shipping.                              *)
LEMMA GrossParts ==
  ASSUME NEW lines \in Payloads, lines # NoFigure, Gross(lines) # NoFigure
  PROVE  Gross(lines) \in Int /\ Gross(lines) = OrderTotal(lines) + SoldShipping(lines)
<1> DEFINE D == DOMAIN lines
           kept == {k \in D : lines[k].ordered # lines[k].cancelled}
           all == [k \in D |-> (lines[k].product + lines[k].tax + lines[k].shipping) * Sold(lines[k])]
           goods == [k \in D |-> (lines[k].product + lines[k].tax) * Sold(lines[k])]
           ship == [k \in D |-> lines[k].shipping * Sold(lines[k])]
           total == [k \in kept |->
                       (lines[k].product + lines[k].tax) * (lines[k].ordered - lines[k].cancelled)]
<1>1. Gross(lines) = SumFunction(all)
  BY DEF Gross
<1>2. OrderTotal(lines) = SumFunction(total) /\ SoldShipping(lines) = SumFunction(ship)
  BY DEF OrderTotal, SoldShipping
<1>3. IsFiniteSet(D)
  <2>1. D = 1..Len(lines) /\ Len(lines) \in Nat
    BY SettlementAssumption
  <2>2. QED
    BY <2>1, FirstPositions
<1>4. ASSUME NEW k \in D
      PROVE  /\ lines[k].ordered \in Int /\ lines[k].cancelled \in Int
             /\ lines[k].product \in Int /\ lines[k].tax \in Int /\ lines[k].shipping \in Int
  BY SettlementAssumption
<1>5. \A k \in D : all[k] \in Int /\ goods[k] \in Int /\ ship[k] \in Int /\ all[k] = goods[k] + ship[k]
  <2> SUFFICES ASSUME NEW k \in D
               PROVE  all[k] \in Int /\ goods[k] \in Int /\ ship[k] \in Int /\ all[k] = goods[k] + ship[k]
    OBVIOUS
  <2> DEFINE p == lines[k].product + lines[k].tax
             s == lines[k].shipping
             n == lines[k].ordered - lines[k].cancelled
  <2>1. p \in Int /\ s \in Int /\ n \in Int
    BY <1>4
  <2>2. all[k] = (p + s) * n /\ goods[k] = p * n /\ ship[k] = s * n
    BY DEF Sold
  <2> HIDE DEF p, s, n
  <2>3. (p + s) * n = p * n + s * n /\ (p + s) * n \in Int /\ p * n \in Int /\ s * n \in Int
    BY ONLY <2>1
  <2>4. QED
    BY ONLY <2>2, <2>3
<1>6. (\A k \in kept : total[k] = goods[k]) /\ \A k \in D \ kept : goods[k] = 0
  <2>1. ASSUME NEW k \in D \ kept PROVE goods[k] = 0
    <3>1. lines[k].ordered - lines[k].cancelled = 0 /\ lines[k].product + lines[k].tax \in Int
      BY <1>4
    <3>2. QED
      BY <3>1 DEF Sold
  <2>2. QED
    BY <2>1 DEF Sold
<1>7. DOMAIN all = D /\ DOMAIN total = kept /\ DOMAIN ship = D /\ kept \in SUBSET D
  OBVIOUS
<1> HIDE DEF D, kept, all, goods, ship, total
<1>8. SumFunctionOnSet(all, D) = SumFunctionOnSet(goods, D) + SumFunctionOnSet(ship, D)
  BY <1>3, <1>5, SumOfSums
<1>9. SumFunctionOnSet(total, kept) = SumFunctionOnSet(goods, D)
  BY <1>3, <1>5, <1>6, <1>7, SumSkips
<1>10. SumFunctionOnSet(all, D) \in Int
  BY <1>3, <1>5, SumFacts
<1>11. /\ SumFunction(all) = SumFunctionOnSet(all, D)
       /\ SumFunction(total) = SumFunctionOnSet(total, kept)
       /\ SumFunction(ship) = SumFunctionOnSet(ship, D)
  BY <1>7, Zenon DEF SumFunction
<1>12. QED
  BY ONLY <1>1, <1>2, <1>8, <1>9, <1>10, <1>11

-----------------------------------------------------------------------------
(* The inductive invariant.                                                *)
(* A figure, where there is one, is right.                                 *)
Figured(imp, e) ==
  e.discrepancy # NoFigure =>
    /\ Sale(e.row) /\ ~Blocked(imp, e.row.po) /\ Gross(payload[e.row.po]) # NoFigure
    /\ e.discrepancy = GroupSum(imp, e.row.po) - Gross(payload[e.row.po])
    /\ e.status = IF e.discrepancy = 0 THEN "matched" ELSE "discrepant"

(* What a call has written for the k-th row of its report.                 *)
Writes(imp, e, k) ==
  /\ e.key = LedgerKey(imp.rep, k) /\ e.row = imp.rep.rows[k]
  /\ e.reasons = Anomalies(imp.rep, k) /\ e.call = imp.id

SalesOf(written, po) == {e \in written : e.row.po = po /\ Sale(e.row)}
SaleSum(written, po) == SumFunction([e \in SalesOf(written, po) |-> e.row.amount])

(* A call that writes has written the rows it planned and that are not     *)
(* left, once each, and its figures are the sums of what it planned.       *)
Writing(imp) ==
  /\ imp.left \subseteq imp.plan /\ imp.plan \subseteq DOMAIN imp.rep.rows
  /\ \A k \in imp.plan \ imp.left : \E e \in imp.written : Writes(imp, e, k)
  /\ \A e \in imp.written : /\ \E k \in imp.plan \ imp.left : Writes(imp, e, k)
                            /\ Figured(imp, e)
  /\ \A e, f \in imp.written : e.key = f.key => e = f
  /\ IsFiniteSet(imp.written)
  /\ \A po \in PO : SaleSum(imp.written, po) = SumFunctionOnSet(Amounts(imp), Group(imp, po) \ imp.left)

Import(at, id, rep, plan, left, written, retried) ==
  [at |-> at, id |-> id, rep |-> rep, plan |-> plan, left |-> left, written |-> written,
   retried |-> retried]

Shape ==
  import = [i \in Importer |->
    Import(import[i].at, import[i].id, import[i].rep, import[i].plan, import[i].left,
           import[i].written, import[i].retried)]

Calls ==
  /\ payload \in [PO -> Payloads] /\ orders \subseteq PO
  /\ calls \in 0..MaxCalls /\ faults \in 0..MaxFaults
  /\ \A i \in Importer :
       /\ import[i].at \in {"idle", "keys", "write"} /\ import[i].retried \in BOOLEAN
       /\ import[i].at # "idle" => import[i].rep \in Reports /\ import[i].id \in 1..calls
       /\ import[i].at # "write" => /\ import[i].plan = {} /\ import[i].left = {}
                                    /\ import[i].written = {}
  /\ \A i, j \in Importer :
       i # j /\ import[i].at # "idle" /\ import[j].at # "idle" => import[i].id # import[j].id
  /\ \A a \in audits : a.rep \in Reports /\ a.call \in 1..calls
  /\ \A i \in Importer, a \in audits : import[i].at # "idle" => a.call # import[i].id

(* Nobody writes a key that is in the ledger or that another call writes;  *)
(* what a call has skipped is in the ledger.                               *)
Apart ==
  /\ \A i \in Importer : \A e \in import[i].written : e.key \notin Persisted
  /\ \A i, j \in Importer : i # j =>
       \A e \in import[i].written, f \in import[j].written : e.key # f.key
  /\ \A i \in Importer : import[i].at = "write" =>
       \A k \in DOMAIN import[i].rep.rows \ import[i].plan : LedgerKey(import[i].rep, k) \in Persisted

(* The ledger holds the keys of the reports that were imported, once each. *)
Ledger ==
  /\ IsFiniteSet(ledger)
  /\ \A e, f \in ledger : e.key = f.key => e = f
  /\ \A a \in audits : Keys(a.rep) \subseteq Persisted
  /\ \A e \in ledger : \E a \in audits : a.call = e.call /\ e.key \in Keys(a.rep)

(* The audit of a call counts what it wrote.                               *)
Counted(a) ==
  /\ a.imported = Cardinality({e \in ledger : e.call = a.call})
  /\ a.imported + a.skipped = Len(a.rep.rows)
  /\ a.byStatus["unmatched"] + a.linked = a.imported

Booked ==
  /\ Shape /\ Calls /\ \A i \in Importer : import[i].at = "write" => Writing(import[i])
  /\ Apart /\ Ledger /\ \A a \in audits : Counted(a)

-----------------------------------------------------------------------------
(* Steps of one call that leave the ledger as it is. *)
LEMMA WritingStays == payload' = payload => \A r : Writing(r) => Writing(r)'
BY DEF Writing, Figured

(* What the steps make of a call, field by field. *)
WithPlan(imp, plan) == [imp EXCEPT !.at = "write", !.plan = plan, !.left = plan]
WithRows(imp, left, written) == [imp EXCEPT !.left = left, !.written = written]
Yes == TRUE  \* kept whole, as a value that a field may have
Retried(imp) ==
  [imp EXCEPT !.at = "keys", !.plan = {}, !.left = {}, !.written = {}, !.retried = TRUE]

LEMMA Planned ==
  ASSUME NEW plan, NEW at, NEW id, NEW rep, NEW p, NEW left, NEW written, NEW retried
  PROVE  WithPlan(Import(at, id, rep, p, left, written, retried), plan)
           = Import("write", id, rep, plan, plan, written, retried)
<1> DEFINE f == WithPlan(Import(at, id, rep, p, left, written, retried), plan)
<1>1. f \in [at : {"write"}, id : {id}, rep : {rep}, plan : {plan}, left : {plan},
             written : {written}, retried : {retried}]
  BY DEF Import, WithPlan
<1> HIDE DEF f
<1>2. f = Import("write", id, rep, plan, plan, written, retried)
  BY <1>1 DEF Import
<1>3. QED
  BY <1>2 DEF f

LEMMA RowWritten ==
  ASSUME NEW l, NEW w, NEW at, NEW id, NEW rep, NEW plan, NEW left, NEW written, NEW retried
  PROVE  WithRows(Import(at, id, rep, plan, left, written, retried), l, w) = Import(at, id, rep, plan, l, w, retried)
<1> DEFINE f == WithRows(Import(at, id, rep, plan, left, written, retried), l, w)
<1>1. f \in [at : {at}, id : {id}, rep : {rep}, plan : {plan}, left : {l},
             written : {w}, retried : {retried}]
  BY DEF Import, WithRows
<1> HIDE DEF f
<1>2. f = Import(at, id, rep, plan, l, w, retried)
  BY <1>1 DEF Import
<1>3. QED
  BY <1>2 DEF f

LEMMA RolledBack ==
  ASSUME NEW at, NEW id, NEW rep, NEW plan, NEW left, NEW written, NEW retried
  PROVE  Retried(Import(at, id, rep, plan, left, written, retried))
           = Import("keys", id, rep, {}, {}, {}, Yes)
<1> DEFINE f == Retried(Import(at, id, rep, plan, left, written, retried))
<1>1. f \in [at : {"keys"}, id : {id}, rep : {rep}, plan : {{}}, left : {{}},
             written : {{}}, retried : {Yes}]
  BY DEF Import, Retried, Yes
<1> HIDE DEF f
<1>2. f = Import("keys", id, rep, {}, {}, {}, Yes)
  BY <1>1 DEF Import
<1>3. QED
  BY <1>2 DEF f

Becomes(i, r) ==
  Shape' /\ import'[i] = r /\ \A j \in Importer \ {i} : import'[j] = import[j]

LEMMA SetBecomes ==
  ASSUME Shape, NEW i \in Importer, NEW at, NEW id, NEW rep, NEW plan, NEW left, NEW written, NEW retried,
         import' = [import EXCEPT ![i] = Import(at, id, rep, plan, left, written, retried)]
  PROVE  Becomes(i, Import(at, id, rep, plan, left, written, retried))
BY DEF Shape, Becomes, Import

LEMMA CallMoves ==
  ASSUME Booked, NEW i \in Importer, NEW r, Becomes(i, r), UNCHANGED <<payload, orders, ledger, audits>>,
         calls' \in 0..MaxCalls, calls <= calls', faults' \in 0..MaxFaults,
         r.at \in {"idle", "keys", "write"}, r.retried \in BOOLEAN,
         r.at # "idle" => /\ r.rep \in Reports
                          /\ \/ import[i].at # "idle" /\ r.id = import[i].id
                             \/ calls' = calls + 1 /\ r.id = calls',
         r.at # "write" => r.plan = {} /\ r.left = {} /\ r.written = {},
         r.at = "write" => Writing(r),
         \A e \in r.written : e \in import[i].written \/
           (e.key \notin Persisted /\ \A j \in Importer \ {i} : \A f \in import[j].written : e.key # f.key),
         r.at = "write" => \A k \in DOMAIN r.rep.rows \ r.plan : LedgerKey(r.rep, k) \in Persisted
  PROVE  Booked'
<1>1. /\ Shape' /\ import'[i] = r /\ \A j \in Importer \ {i} : import'[j] = import[j]
      /\ Persisted' = Persisted
  BY DEF Becomes, Persisted
<1>2. Calls'
  <2>1. Calls /\ MaxCalls \in Nat /\ calls' \in Nat /\ calls \in Nat
    BY SettlementAssumption DEF Booked, Calls
  <2>2. /\ payload' \in [PO -> Payloads] /\ orders' \subseteq PO
        /\ calls' \in 0..MaxCalls /\ faults' \in 0..MaxFaults
    BY <2>1 DEF Calls
  <2>3. r.at # "idle" => r.id \in 1..calls'
    BY <2>1 DEF Calls
  <2>4. ASSUME NEW j \in Importer
        PROVE  /\ import'[j].at \in {"idle", "keys", "write"} /\ import'[j].retried \in BOOLEAN
               /\ import'[j].at # "idle" => import'[j].rep \in Reports /\ import'[j].id \in 1..calls'
               /\ import'[j].at # "write" => /\ import'[j].plan = {} /\ import'[j].left = {}
                                             /\ import'[j].written = {}
    <3>1. CASE j = i
      BY <1>1, <2>3, <3>1
    <3>2. CASE j # i
      <4>1. import'[j] = import[j]
        BY <1>1, <3>2
      <4>2. import[j].at # "idle" => import[j].id \in 1..calls'
        BY <2>1 DEF Calls
      <4>3. QED
        BY <2>1, <4>1, <4>2 DEF Calls
    <3>3. QED
      BY <3>1, <3>2
  <2>5. ASSUME NEW j \in Importer \ {i}, import[j].at # "idle", r.at # "idle"
        PROVE  r.id # import[j].id
    BY <2>1, <2>5 DEF Calls
  <2>6. ASSUME NEW j \in Importer, NEW k \in Importer, j # k, import'[j].at # "idle", import'[k].at # "idle"
        PROVE  import'[j].id # import'[k].id
    <3>1. CASE j = i
      BY <1>1, <2>5, <2>6, <3>1
    <3>2. CASE k = i
      BY <1>1, <2>5, <2>6, <3>2
    <3>3. CASE j # i /\ k # i
      BY <1>1, <2>1, <2>6, <3>3 DEF Calls
    <3>4. QED
      BY <3>1, <3>2, <3>3
  <2>7. \A a \in audits' : a.rep \in Reports /\ a.call \in 1..calls'
    BY <2>1 DEF Calls
  <2>8. ASSUME NEW j \in Importer, NEW a \in audits', import'[j].at # "idle" PROVE a.call # import'[j].id
    <3>1. CASE j = i
      BY <1>1, <2>1, <2>8, <3>1 DEF Calls
    <3>2. CASE j # i
      BY <1>1, <2>1, <2>8, <3>2 DEF Calls
    <3>3. QED
      BY <3>1, <3>2
  <2>9. QED
    BY <2>2, <2>4, <2>6, <2>7, <2>8 DEF Calls
<1>3. ASSUME NEW j \in Importer, import'[j].at = "write" PROVE Writing(import[j])'
  <2>1. PICK s : s = import'[j]
    OBVIOUS
  <2>2. Writing(s)
    BY <1>1, <1>3, <2>1 DEF Booked
  <2>3. QED
    BY <2>1, <2>2, WritingStays
<1>4. Apart'
  <2>1. \A j \in Importer : \A e \in import'[j].written : e.key \notin Persisted'
    <3>1. \A e \in r.written : e.key \notin Persisted
      BY DEF Booked, Apart
    <3>2. QED
      BY <1>1, <3>1 DEF Booked, Apart
  <2>2. ASSUME NEW j \in Importer \ {i}, NEW e \in r.written, NEW f \in import[j].written
        PROVE  e.key # f.key
    BY DEF Booked, Apart
  <2>3. \A j, k \in Importer : j # k =>
          \A e \in import'[j].written, f \in import'[k].written : e.key # f.key
    BY <1>1, <2>2 DEF Booked, Apart
  <2>4. \A j \in Importer : import'[j].at = "write" =>
          \A k \in DOMAIN import'[j].rep.rows \ import'[j].plan : LedgerKey(import'[j].rep, k) \in Persisted'
    BY <1>1 DEF Booked, Apart
  <2>5. QED
    BY <2>1, <2>3, <2>4 DEF Apart
<1>5. Ledger' /\ \A a \in audits' : Counted(a)'
  BY <1>1 DEF Booked, Ledger, Counted
<1>6. QED
  BY <1>1, <1>2, <1>3, <1>4, <1>5 DEF Booked

LEMMA OrdersGrow ==
  ASSUME Booked, NEW po \in PO, IngestOrder(po)
  PROVE  Booked'
<1>1. /\ payload' = payload /\ ledger' = ledger /\ audits' = audits /\ import' = import
      /\ calls' = calls /\ faults' = faults /\ orders' \subseteq PO
  BY DEF IngestOrder, Booked, Calls
<1>2. \A i \in Importer : import[i].at = "write" => Writing(import[i])'
  <2>1. ASSUME NEW i \in Importer, import[i].at = "write" PROVE Writing(import[i])'
    <3>1. PICK s : s = import[i]
      OBVIOUS
    <3>2. Writing(s) /\ s = import'[i]
      BY <1>1, <2>1, <3>1 DEF Booked
    <3>3. QED
      BY <1>1, <3>1, <3>2, WritingStays
  <2>2. QED
    BY <2>1
<1>3. Persisted' = Persisted
  BY <1>1 DEF Persisted
<1>4. Shape' /\ \A a \in audits' : Counted(a)'
  BY <1>1 DEF Booked, Shape, Counted
<1>5. Calls' /\ Apart' /\ Ledger'
  <2>1. Calls /\ Apart /\ Ledger
    BY DEF Booked
  <2>2. Calls'
    BY <1>1, <2>1 DEF Calls
  <2>3. Apart'
    BY <1>1, <1>3, <2>1 DEF Apart
  <2>4. Ledger'
    BY <1>1, <1>3, <2>1 DEF Ledger
  <2>5. QED
    BY <2>2, <2>3, <2>4
<1>6. QED
  BY <1>1, <1>2, <1>4, <1>5 DEF Booked

(* A call that ends, or is ended, leaves nothing behind. *)
LEMMA CallEnds ==
  ASSUME Booked, NEW i \in Importer, import' = [import EXCEPT ![i] = IdleImport],
         UNCHANGED <<payload, orders, ledger, audits, calls>>, faults' \in 0..MaxFaults
  PROVE  Booked'
<1> DEFINE r == Import("idle", 0, CHOOSE x \in Reports : TRUE, {}, {}, {}, FALSE)
<1>1. IdleImport = r
  BY DEF IdleImport, Import
<1>2. Becomes(i, r)
  <2>1. Shape
    BY DEF Booked
  <2>2. QED
    BY <1>1, <2>1, SetBecomes
<1>3. r.at = "idle" /\ r.retried = FALSE /\ r.plan = {} /\ r.left = {} /\ r.written = {}
  BY DEF Import
<1>4. calls' \in 0..MaxCalls /\ calls <= calls'
  BY SettlementAssumption DEF Booked, Calls
<1> HIDE DEF r
<1>5. QED
  BY <1>2, <1>3, <1>4, CallMoves

LEMMA CallBegins ==
  ASSUME Booked, NEW i \in Importer, NEW rep \in Reports, Fetch(i, rep)
  PROVE  Booked'
<1> DEFINE r == Import("keys", calls + 1, rep, {}, {}, {}, FALSE)
<1>1. [IdleImport EXCEPT !.at = "keys", !.id = calls + 1, !.rep = rep] = r
  <2> DEFINE f == [IdleImport EXCEPT !.at = "keys", !.id = calls + 1, !.rep = rep]
  <2>1. f \in [at : {"keys"}, id : {calls + 1}, rep : {rep}, plan : {{}}, left : {{}},
               written : {{}}, retried : {FALSE}]
    BY DEF IdleImport
  <2> HIDE DEF f
  <2>2. f = r
    BY <2>1 DEF Import
  <2>3. QED
    BY <2>2 DEF f
<1>2. Becomes(i, r)
  <2>1. Shape /\ import' = [import EXCEPT ![i] = r]
    BY <1>1 DEF Booked, Fetch
  <2>2. QED
    BY <2>1, SetBecomes
<1>3. /\ r.at = "keys" /\ r.retried = FALSE /\ r.plan = {} /\ r.left = {} /\ r.written = {}
      /\ r.rep = rep /\ r.id = calls + 1
  BY DEF Import
<1>4. /\ calls' \in 0..MaxCalls /\ calls <= calls' /\ faults' \in 0..MaxFaults
      /\ calls' = calls + 1 /\ UNCHANGED <<payload, orders, ledger, audits>>
  BY SettlementAssumption DEF Booked, Calls, Fetch
<1> HIDE DEF r
<1>5. QED
  BY <1>2, <1>3, <1>4, CallMoves

(* A call that has planned has written nothing yet. *)
LEMMA PlanIsMade ==
  ASSUME Booked, NEW i \in Importer, PlanRows(i)
  PROVE  Booked'
<1> DEFINE imp == import[i]
           plan == Plan(imp.rep)
           r == Import("write", imp.id, imp.rep, plan, plan, {}, imp.retried)
<1>1. /\ imp.at = "keys" /\ UNCHANGED <<payload, orders, ledger, audits, calls, faults>>
      /\ calls' \in 0..MaxCalls /\ calls <= calls' /\ faults' \in 0..MaxFaults
      /\ imp.rep \in Reports /\ imp.retried \in BOOLEAN
  BY SettlementAssumption DEF Booked, Calls, PlanRows
<1>2. Becomes(i, r)
  <2>1. Shape /\ imp.written = {}
    BY <1>1 DEF Booked, Calls
  <2>2. imp = Import("keys", imp.id, imp.rep, imp.plan, imp.left, {}, imp.retried)
    BY <1>1, <2>1 DEF Shape
  <2>3. WithPlan(imp, plan) = r
    BY <2>2, Planned
  <2>4. import' = [import EXCEPT ![i] = WithPlan(imp, plan)]
    BY DEF PlanRows, WithPlan
  <2>5. import' = [import EXCEPT ![i] = r]
    BY <2>3, <2>4
  <2>6. QED
    BY <2>1, <2>5, SetBecomes
<1>3. /\ r.at = "write" /\ r.id = imp.id /\ r.rep = imp.rep /\ r.plan = plan /\ r.left = plan
      /\ r.written = {} /\ r.retried = imp.retried
  BY DEF Import
<1>4. plan \subseteq DOMAIN imp.rep.rows
  BY DEF Plan
<1>5. \A k \in DOMAIN imp.rep.rows \ plan : LedgerKey(imp.rep, k) \in Persisted
  BY DEF Plan
<1> HIDE DEF r, plan
<1>6. Writing(r)
  <2>1. ASSUME NEW po \in PO
        PROVE  SaleSum(r.written, po) = SumFunctionOnSet(Amounts(r), Group(r, po) \ r.left)
    <3> DEFINE f == [e \in SalesOf(r.written, po) |-> e.row.amount]
    <3>1. SalesOf(r.written, po) = {} /\ Group(r, po) \ r.left = {}
      BY <1>3 DEF SalesOf, Group
    <3>2. DOMAIN f = {}
      BY <3>1
    <3>3. SumFunction(f) = SumFunctionOnSet(f, {})
      BY <3>2, Zenon DEF SumFunction
    <3>4. SumFunctionOnSet(f, {}) = 0 /\ SumFunctionOnSet(Amounts(r), {}) = 0
      BY FS_EmptySet, SumFacts
    <3>5. QED
      BY <3>1, <3>3, <3>4, Zenon DEF SaleSum
  <2>2. IsFiniteSet(r.written)
    BY <1>3, FS_EmptySet
  <2>3. QED
    BY <1>3, <1>4, <2>1, <2>2 DEF Writing
<1>7. QED
  BY <1>1, <1>2, <1>3, <1>5, <1>6, CallMoves

(* A lost race starts over, or gives up. *)
LEMMA RaceIsLost ==
  ASSUME Booked, NEW i \in Importer, LoseRace(i)
  PROVE  Booked'
<1> DEFINE imp == import[i]
<1>1. /\ imp.at = "write" /\ RollBack(i)
      /\ UNCHANGED <<payload, orders, ledger, audits, calls, faults>>
      /\ calls' \in 0..MaxCalls /\ calls <= calls' /\ faults' \in 0..MaxFaults
  BY SettlementAssumption DEF Booked, Calls, LoseRace, HasNext
<1>2. imp.rep \in Reports
  BY <1>1 DEF Booked, Calls
<1>a. import' = [import EXCEPT ![i] = IF imp.retried THEN IdleImport ELSE Retried(imp)]
  BY <1>1 DEF RollBack, Retried
<1>3. CASE imp.retried
  <2>1. import' = [import EXCEPT ![i] = IdleImport]
    BY <1>3, <1>a
  <2>2. QED
    BY <1>1, <2>1, CallEnds
<1>4. CASE ~imp.retried
  <2> DEFINE r == Import("keys", imp.id, imp.rep, {}, {}, {}, Yes)
  <2>1. Shape
    BY DEF Booked
  <2>2. imp = Import(imp.at, imp.id, imp.rep, imp.plan, imp.left, imp.written, imp.retried)
    BY <2>1 DEF Shape
  <2>3. Retried(imp) = r
    BY <2>2, RolledBack
  <2>4. import' = [import EXCEPT ![i] = Retried(imp)]
    BY <1>4, <1>a
  <2>5. Becomes(i, r)
    BY <2>1, <2>3, <2>4, SetBecomes
  <2>6. /\ r.at = "keys" /\ r.retried = TRUE /\ r.plan = {} /\ r.left = {} /\ r.written = {}
        /\ r.rep = imp.rep /\ r.id = imp.id
    BY DEF Import, Yes
  <2> HIDE DEF r
  <2>7. QED
    BY <1>1, <1>2, <2>5, <2>6, CallMoves
<1>5. QED
  BY <1>3, <1>4

(* What a call writes next. *)
LEMMA NextFacts ==
  ASSUME NEW imp, imp.rep \in Reports, Writing(imp), HasNext(imp)
  PROVE  /\ NextRow(imp) \in imp.left /\ NextRow(imp) \in DOMAIN imp.rep.rows
         /\ NextRow(imp) \in imp.plan
         /\ Writes(imp, Entry(imp, NextRow(imp)), NextRow(imp))
         /\ Entry(imp, NextRow(imp)).key = NextKey(imp)
         /\ \A e \in imp.written : e.key # NextKey(imp)
<1> DEFINE k == NextRow(imp)
<1>1. DOMAIN imp.rep.rows = 1..Len(imp.rep.rows) /\ Len(imp.rep.rows) \in Nat
  BY SettlementAssumption
<1>2. imp.left \in SUBSET Nat /\ imp.left # {}
  BY <1>1 DEF Writing, HasNext
<1>3. k \in imp.left
  BY <1>2, MinIsLeast DEF NextRow
<1>4. k \in DOMAIN imp.rep.rows /\ k \in imp.plan
  BY <1>3 DEF Writing
<1> HIDE DEF k
<1>5. Writes(imp, Entry(imp, k), k) /\ Entry(imp, k).key = LedgerKey(imp.rep, k)
  BY DEF Writes, Entry
<1>6. ASSUME NEW e \in imp.written, e.key = LedgerKey(imp.rep, k) PROVE FALSE
  <2>1. PICK m \in imp.plan \ imp.left : e.key = LedgerKey(imp.rep, m)
    BY DEF Writing, Writes
  <2>2. m \in DOMAIN imp.rep.rows /\ m # k
    BY <1>3, <2>1 DEF Writing
  <2>3. QED
    BY <1>4, <1>6, <2>1, <2>2, KeyOnce
<1>7. QED
  BY <1>3, <1>4, <1>5, <1>6 DEF k, NextKey

(* Its figure, where it has one, is right. *)
LEMMA NextFigured ==
  ASSUME payload \in [PO -> Payloads], NEW imp, NEW k, imp.rep.rows[k].po \in PO,
         GroupSum(imp, imp.rep.rows[k].po) \in Int
  PROVE  Figured(imp, Entry(imp, k))
<1> DEFINE e == Entry(imp, k)
           po == imp.rep.rows[k].po
           d == Discrepancy(imp, k)
<1>1. e.discrepancy = d /\ e.row = imp.rep.rows[k] /\ e.status = StatusOf(po, d)
  BY DEF Entry
<1>2. ASSUME d # NoFigure
      PROVE  /\ Sale(imp.rep.rows[k]) /\ ~Blocked(imp, po) /\ Gross(payload[po]) # NoFigure
             /\ d = GroupSum(imp, po) - Gross(payload[po]) /\ po \in orders
  BY <1>2 DEF Discrepancy, Compared
<1>3. ASSUME d # NoFigure
      PROVE  StatusOf(po, d) = IF d = 0 THEN "matched" ELSE "discrepant"
  BY <1>2, <1>3, SettlementAssumption DEF StatusOf
<1> HIDE DEF e, d
<1>4. QED
  BY <1>1, <1>2, <1>3 DEF Figured, e

(* The sums go on as rows are written. *)
LEMMA SumWithNext ==
  ASSUME NEW imp, imp.rep \in Reports, Writing(imp), HasNext(imp), NEW po \in PO,
         NEW e, e = Entry(imp, NextRow(imp)), NEW written, written = imp.written \cup {e},
         NEW left, left = imp.left \ {NextRow(imp)}
  PROVE  SaleSum(written, po) = SumFunctionOnSet(Amounts(imp), Group(imp, po) \ left)
<1> DEFINE k == NextRow(imp)
           S == SalesOf(imp.written, po)
           f == [x \in S |-> x.row.amount]
           g == [x \in SalesOf(written, po) |-> x.row.amount]
           G == Group(imp, po) \ imp.left
           amounts == Amounts(imp)
<1>1. /\ k \in imp.left /\ k \in DOMAIN imp.rep.rows /\ k \in imp.plan
      /\ e.row = imp.rep.rows[k] /\ e \notin imp.written
  BY NextFacts DEF Writes
<1>2. \A m \in DOMAIN imp.rep.rows : imp.rep.rows[m].amount \in Int
  BY SettlementAssumption
<1>3. \A x \in imp.written : x.row.amount \in Int
  BY <1>2 DEF Writing, Writes
<1>4. IsFiniteSet(S) /\ e \notin S /\ S \in SUBSET imp.written
  BY <1>1, FS_Subset DEF Writing, SalesOf
<1>5. IsFiniteSet(G) /\ k \notin G /\ G \in SUBSET DOMAIN imp.rep.rows
  <2>1. DOMAIN imp.rep.rows = 1..Len(imp.rep.rows) /\ Len(imp.rep.rows) \in Nat
    BY SettlementAssumption
  <2>2. IsFiniteSet(DOMAIN imp.rep.rows)
    BY <2>1, FirstPositions
  <2>3. G \in SUBSET DOMAIN imp.rep.rows /\ k \notin G
    BY <1>1 DEF Group, Writing
  <2> HIDE DEF G
  <2>4. QED
    BY <2>2, <2>3, FS_Subset
<1>6. \A m \in DOMAIN imp.rep.rows : amounts[m] = imp.rep.rows[m].amount
  BY DEF Amounts
<1>7. SumFunctionOnSet(f, S) = SumFunctionOnSet(amounts, G)
  <2>1. SumFunction(f) = SumFunctionOnSet(amounts, G)
    BY DEF Writing, SaleSum
  <2>2. DOMAIN f = S
    OBVIOUS
  <2> HIDE DEF f, S, G, amounts
  <2>3. SumFunction(f) = SumFunctionOnSet(f, S)
    BY <2>2, Zenon DEF SumFunction
  <2>4. QED
    BY <2>1, <2>3
<1>8. DOMAIN g = SalesOf(written, po)
  OBVIOUS
<1>9. (\A x \in SalesOf(written, po) : g[x] = x.row.amount) /\ \A x \in S : f[x] = x.row.amount
  OBVIOUS
<1>10. SumFunction(g) = SumFunctionOnSet(g, SalesOf(written, po))
  <2> HIDE DEF g
  <2>1. QED
    BY <1>8, Zenon DEF SumFunction
<1>11. CASE k \in Group(imp, po)
  <2>1. SalesOf(written, po) = S \cup {e} /\ Group(imp, po) \ left = G \cup {k}
    BY <1>1, <1>11 DEF SalesOf, Group
  <2>2. \A x \in S : g[x] \in Int /\ f[x] = g[x]
    BY <1>3, <1>4, <1>9, <2>1
  <2>3. g[e] = imp.rep.rows[k].amount /\ g[e] \in Int
    BY <1>1, <1>2, <1>9, <2>1
  <2>4. amounts[k] = g[e] /\ \A m \in G : amounts[m] \in Int
    BY <1>1, <1>2, <1>5, <1>6, <2>3
  <2> HIDE DEF k, S, f, g, G, amounts
  <2>a. IsFiniteSet(S) /\ e \notin S /\ g[e] \in Int /\ \A x \in S : g[x] \in Int
    BY <1>4, <2>2, <2>3
  <2>5. SumFunctionOnSet(g, S \cup {e}) = SumFunctionOnSet(g, S) + g[e]
    BY ONLY <2>a, SumGrows
  <2>6. SumFunctionOnSet(f, S) = SumFunctionOnSet(g, S)
    BY ONLY <1>4, <2>2, SumSame
  <2>7. amounts[k] \in Int
    BY <2>3, <2>4
  <2>8. SumFunctionOnSet(amounts, G \cup {k}) = SumFunctionOnSet(amounts, G) + amounts[k]
    BY ONLY <1>5, <2>4, <2>7, SumGrows
  <2>9. SumFunctionOnSet(g, S \cup {e}) = SumFunctionOnSet(amounts, G \cup {k})
    BY ONLY <1>7, <2>4, <2>5, <2>6, <2>8
  <2>10. SumFunction(g) = SumFunctionOnSet(amounts, Group(imp, po) \ left)
    BY ONLY <1>10, <2>1, <2>9, Zenon
  <2>11. QED
    BY <2>10 DEF g, amounts, SaleSum
<1>12. CASE k \notin Group(imp, po)
  <2>1. SalesOf(written, po) = S /\ Group(imp, po) \ left = G
    BY <1>1, <1>12 DEF SalesOf, Group
  <2>2. \A x \in S : f[x] \in Int /\ g[x] = f[x]
    BY <1>3, <1>4, <1>9, <2>1
  <2> HIDE DEF k, S, f, g, G, amounts
  <2>3. SumFunctionOnSet(g, S) = SumFunctionOnSet(f, S)
    BY ONLY <1>4, <2>2, SumSame
  <2>4. SumFunction(g) = SumFunctionOnSet(amounts, Group(imp, po) \ left)
    BY ONLY <1>7, <1>10, <2>1, <2>3, Zenon
  <2>5. QED
    BY <2>4 DEF g, amounts, SaleSum
<1>13. QED
  BY <1>11, <1>12

LEMMA GroupSumIsInt ==
  ASSUME NEW imp, imp.rep \in Reports, imp.plan \subseteq DOMAIN imp.rep.rows, NEW po
  PROVE  GroupSum(imp, po) \in Int
<1> DEFINE D == DOMAIN imp.rep.rows
           amounts == Amounts(imp)
           G == Group(imp, po)
<1>1. D = 1..Len(imp.rep.rows) /\ Len(imp.rep.rows) \in Nat /\ \A m \in D : amounts[m] \in Int
  BY SettlementAssumption DEF Amounts
<1>2. G \in SUBSET D
  BY DEF Group
<1> HIDE DEF amounts, D, G
<1>3. IsFiniteSet(D)
  BY <1>1, FirstPositions
<1>4. \A m \in D : amounts[m] \in Int
  BY <1>1
<1>5. SumFunctionOnSet(amounts, G) \in Int
  BY ONLY <1>2, <1>3, <1>4, SumFacts
<1>6. QED
  BY <1>5 DEF GroupSum, amounts, G

LEMMA RowIsWritten ==
  ASSUME Booked, NEW i \in Importer, WriteRow(i)
  PROVE  Booked'
<1> DEFINE imp == import[i]
           k == NextRow(imp)
           e == Entry(imp, k)
           left == imp.left \ {k}
           written == imp.written \cup {e}
           r == Import("write", imp.id, imp.rep, imp.plan, left, written, imp.retried)
<1>1. /\ imp.at = "write" /\ HasNext(imp) /\ WaitsFor(i) = {} /\ NextKey(imp) \notin Persisted
      /\ payload' = payload /\ UNCHANGED <<payload, orders, ledger, audits>>
      /\ calls' \in 0..MaxCalls /\ calls <= calls' /\ faults' \in 0..MaxFaults
  BY SettlementAssumption DEF Booked, Calls, WriteRow, HasNext
<1>2. imp.rep \in Reports /\ imp.retried \in BOOLEAN /\ Writing(imp) /\ payload \in [PO -> Payloads]
  BY <1>1 DEF Booked, Calls
<1>3. Becomes(i, r)
  <2>1. Shape
    BY DEF Booked
  <2>2. imp = Import("write", imp.id, imp.rep, imp.plan, imp.left, imp.written, imp.retried)
    BY <1>1, <2>1 DEF Shape
  <2>3. WithRows(imp, left, written) = r
    <3> HIDE DEF left, written
    <3>1. QED
      BY <2>2, RowWritten
  <2>4. import' = [import EXCEPT ![i] = WithRows(imp, left, written)]
    BY DEF WriteRow, WithRows
  <2>5. import' = [import EXCEPT ![i] = r]
    BY <2>3, <2>4
  <2>6. QED
    BY <2>1, <2>5, SetBecomes
<1>4. /\ r.at = "write" /\ r.id = imp.id /\ r.rep = imp.rep /\ r.plan = imp.plan /\ r.left = left
      /\ r.written = written /\ r.retried = imp.retried
  BY DEF Import
<1>5. /\ k \in imp.left /\ k \in DOMAIN imp.rep.rows /\ k \in imp.plan /\ Writes(imp, e, k)
      /\ e.key = NextKey(imp) /\ \A f \in imp.written : f.key # e.key
  BY <1>1, <1>2, NextFacts
<1> HIDE DEF r
<1>6. Writing(r)
  <2>1. \A po : Group(r, po) = Group(imp, po)
    BY <1>4 DEF Group
  <2>2. Amounts(r) = Amounts(imp)
    BY <1>4 DEF Amounts
  <2>3. \A po : (Blocked(r, po) <=> Blocked(imp, po)) /\ GroupSum(r, po) = GroupSum(imp, po)
    BY <1>4, <2>1, <2>2 DEF Blocked, GroupSum
  <2>4. \A f : Figured(imp, f) => Figured(r, f)
    BY <2>3 DEF Figured
  <2>5. \A f, m : Writes(r, f, m) <=> Writes(imp, f, m)
    BY <1>4 DEF Writes
  <2>6. Figured(imp, e)
    <3>1. imp.rep.rows[k].po \in PO
      BY <1>2, <1>5, SettlementAssumption
    <3>2. GroupSum(imp, imp.rep.rows[k].po) \in Int
      <4>1. imp.plan \subseteq DOMAIN imp.rep.rows
        BY <1>2 DEF Writing
      <4>2. QED
        BY <1>2, <4>1, GroupSumIsInt
    <3> HIDE DEF k
    <3>3. QED
      BY <1>2, <3>1, <3>2, NextFigured
  <2>7. \A po \in PO : SaleSum(r.written, po) = SumFunctionOnSet(Amounts(r), Group(r, po) \ r.left)
    <3> SUFFICES ASSUME NEW po \in PO
                 PROVE  SaleSum(written, po) = SumFunctionOnSet(Amounts(imp), Group(imp, po) \ left)
      BY <1>4, <2>1, <2>2, Zenon
    <3>1. e = Entry(imp, NextRow(imp)) /\ written = imp.written \cup {e} /\ left = imp.left \ {NextRow(imp)}
      OBVIOUS
    <3>2. imp.rep \in Reports /\ Writing(imp) /\ HasNext(imp)
      BY <1>1, <1>2
    <3> HIDE DEF e, k, written, left, imp
    <3>3. QED
      BY ONLY po \in PO, <3>1, <3>2, SumWithNext
  <2>8. /\ left \subseteq imp.plan /\ imp.plan \subseteq DOMAIN imp.rep.rows
        /\ imp.plan \ left = (imp.plan \ imp.left) \cup {k}
    BY <1>2, <1>5 DEF Writing
  <2>9. IsFiniteSet(written)
    BY <1>2, FS_AddElement DEF Writing
  <2> HIDE DEF left, e, k
  <2>10. \A m \in imp.plan \ left : \E f \in written : Writes(imp, f, m)
    BY <1>2, <1>5, <2>8 DEF Writing
  <2>11. \A f \in written : (\E m \in imp.plan \ left : Writes(imp, f, m)) /\ Figured(imp, f)
    BY <1>2, <1>5, <2>6, <2>8 DEF Writing
  <2>12. \A f, g \in written : f.key = g.key => f = g
    BY <1>2, <1>5 DEF Writing
  <2> HIDE DEF written
  <2>13. QED
    BY <1>4, <2>4, <2>5, <2>7, <2>8, <2>9, <2>10, <2>11, <2>12 DEF Writing
<1>7. \A j \in Importer \ {i} : \A f \in import[j].written : e.key # f.key
  BY <1>1, <1>5 DEF WaitsFor
<1>8. \A m \in DOMAIN r.rep.rows \ r.plan : LedgerKey(r.rep, m) \in Persisted
  BY <1>1, <1>4 DEF Booked, Apart
<1>9. \A f \in r.written : f \in import[i].written \/
        (f.key \notin Persisted /\ \A j \in Importer \ {i} : \A g \in import[j].written : f.key # g.key)
  BY <1>1, <1>4, <1>5, <1>7
<1> HIDE DEF e, k, left, written
<1>10. r.at \in {"idle", "keys", "write"} /\ r.retried \in BOOLEAN /\ r.rep \in Reports
       /\ imp.at # "idle" /\ r.id = imp.id /\ r.at = "write"
  BY <1>1, <1>2, <1>4
<1>11. QED
  BY ONLY Booked, i \in Importer, <1>1, <1>3, <1>6, <1>8, <1>9, <1>10, CallMoves

(* A call that has nothing left has written as many rows as it planned.    *)
LEMMA AllWritten ==
  ASSUME NEW imp, imp.rep \in Reports, Writing(imp), imp.left = {}
  PROVE  /\ IsFiniteSet(imp.written) /\ Cardinality(imp.written) = Cardinality(imp.plan)
         /\ Cardinality(imp.written) \in Nat
<1> DEFINE f == [e \in imp.written |-> CHOOSE k \in imp.plan : Writes(imp, e, k)]
<1>1. /\ IsFiniteSet(imp.written) /\ imp.plan \subseteq DOMAIN imp.rep.rows
      /\ \A k \in imp.plan : \E e \in imp.written : Writes(imp, e, k)
      /\ \A e \in imp.written : \E k \in imp.plan : Writes(imp, e, k)
      /\ \A e, g \in imp.written : e.key = g.key => e = g
  BY DEF Writing
<1>2. \A e \in imp.written : f[e] \in imp.plan /\ Writes(imp, e, f[e])
  BY <1>1
<1>3. f \in [imp.written -> imp.plan]
  BY <1>2
<1>4. DOMAIN f = imp.written
  OBVIOUS
<1> HIDE DEF f
<1>5. ASSUME NEW e \in imp.written, NEW g \in imp.written, f[e] = f[g] PROVE e = g
  <2>1. e.key = LedgerKey(imp.rep, f[e]) /\ g.key = LedgerKey(imp.rep, f[g])
    BY <1>2 DEF Writes
  <2>2. QED
    BY <1>1, <1>5, <2>1
<1>6. ASSUME NEW k \in imp.plan PROVE \E e \in imp.written : f[e] = k
  <2>1. PICK e \in imp.written : Writes(imp, e, k)
    BY <1>1
  <2>2. LedgerKey(imp.rep, f[e]) = LedgerKey(imp.rep, k)
    BY <1>2, <2>1 DEF Writes
  <2>3. f[e] \in DOMAIN imp.rep.rows /\ k \in DOMAIN imp.rep.rows
    BY <1>1, <1>2
  <2>4. f[e] = k
    BY <2>2, <2>3, KeyOnce
  <2>5. QED
    BY <2>4
<1>7. f \in Bijection(imp.written, imp.plan)
  BY <1>3, <1>5, <1>6 DEF Bijection, Injection, Surjection, IsInjective
<1>8. ExistsBijection(imp.written, imp.plan)
  BY <1>7 DEF ExistsBijection
<1>9. Cardinality(imp.plan) = Cardinality(imp.written)
  BY <1>1, <1>8, FS_Bijection
<1>10. QED
  BY <1>1, <1>9, FS_CardinalityType

LEMMA CallCommits ==
  ASSUME Booked, NEW i \in Importer, Commit(i)
  PROVE  Booked'
<1> DEFINE imp == import[i]
           a == Audit(imp)
           w == imp.written
           r == Import("idle", 0, CHOOSE x \in Reports : TRUE, {}, {}, {}, FALSE)
<1>1. /\ imp.at = "write" /\ imp.left = {} /\ ledger' = ledger \cup w /\ audits' = audits \cup {a}
      /\ payload' = payload /\ orders' = orders /\ calls' = calls /\ faults' = faults
  BY DEF Commit, HasNext
<1>2. Shape' /\ import'[i] = r /\ \A j \in Importer \ {i} : import'[j] = import[j]
  <2>1. Shape
    BY DEF Booked
  <2>2. IdleImport = r
    BY DEF IdleImport, Import
  <2>3. import' = [import EXCEPT ![i] = r]
    BY <2>2 DEF Commit
  <2>4. Becomes(i, r)
    BY <2>1, <2>3, SetBecomes
  <2>5. QED
    BY <2>4 DEF Becomes
<1>3. r.at = "idle" /\ r.retried = FALSE /\ r.plan = {} /\ r.left = {} /\ r.written = {}
  BY DEF Import
<1>4. Calls /\ Apart /\ Ledger /\ (\A b \in audits : Counted(b))
  BY DEF Booked
<1>5. imp.rep \in Reports /\ imp.id \in 1..calls /\ Writing(imp)
  BY <1>1 DEF Booked, Calls
<1>6. /\ a.call = imp.id /\ a.rep = imp.rep /\ a.imported = Cardinality(w)
      /\ a.skipped = Len(imp.rep.rows) - Cardinality(imp.plan)
      /\ a.linked = Cardinality(w) - With("unmatched", w)
      /\ a.byStatus["unmatched"] = With("unmatched", w)
  BY DEF Audit
<1>7. Persisted' = Persisted \cup {e.key : e \in w}
  BY <1>1 DEF Persisted
<1>8. (\A e \in w : e.call = imp.id) /\ \A e \in ledger : e.call # imp.id
  <2>1. \A e \in w : e.call = imp.id
    BY <1>5 DEF Writing, Writes
  <2>2. \A b \in audits : b.call # imp.id
    BY <1>1, <1>4 DEF Calls
  <2>3. QED
    BY <1>4, <2>1, <2>2 DEF Ledger
<1> HIDE DEF a, r
<1>9. Calls'
  <2>1. /\ payload' \in [PO -> Payloads] /\ orders' \subseteq PO
        /\ calls' \in 0..MaxCalls /\ faults' \in 0..MaxFaults
    BY <1>1, <1>4 DEF Calls
  <2>2. ASSUME NEW j \in Importer
        PROVE  /\ import'[j].at \in {"idle", "keys", "write"} /\ import'[j].retried \in BOOLEAN
               /\ import'[j].at # "idle" => import'[j].rep \in Reports /\ import'[j].id \in 1..calls'
               /\ import'[j].at # "write" => /\ import'[j].plan = {} /\ import'[j].left = {}
                                             /\ import'[j].written = {}
    <3>1. CASE j = i
      BY <1>2, <1>3, <3>1
    <3>2. CASE j # i
      BY <1>1, <1>2, <1>4, <3>2 DEF Calls
    <3>3. QED
      BY <3>1, <3>2
  <2>3. ASSUME NEW j \in Importer, import'[j].at # "idle"
        PROVE  j # i /\ import'[j] = import[j] /\ imp.id # import[j].id
    <3>1. j # i /\ import'[j] = import[j]
      BY <1>2, <1>3, <2>3
    <3>2. QED
      BY <1>1, <1>4, <2>3, <3>1 DEF Calls
  <2>4. \A j, k \in Importer :
          j # k /\ import'[j].at # "idle" /\ import'[k].at # "idle" => import'[j].id # import'[k].id
    BY <1>4, <2>3 DEF Calls
  <2>5. \A b \in audits' : b.rep \in Reports /\ b.call \in 1..calls'
    BY <1>1, <1>4, <1>5, <1>6 DEF Calls
  <2>6. ASSUME NEW j \in Importer, NEW b \in audits', import'[j].at # "idle" PROVE b.call # import'[j].id
    <3>1. CASE b = a
      BY <1>6, <2>3, <2>6, <3>1
    <3>2. CASE b \in audits
      BY <1>4, <2>3, <2>6, <3>2 DEF Calls
    <3>3. QED
      BY <1>1, <3>1, <3>2
  <2>7. QED
    BY <2>1, <2>2, <2>4, <2>5, <2>6 DEF Calls
<1>10. ASSUME NEW j \in Importer, import'[j].at = "write" PROVE Writing(import[j])'
  <2>1. PICK s : s = import'[j]
    OBVIOUS
  <2>2. s = import[j]
    BY <1>2, <1>3, <1>10, <2>1
  <2>3. Writing(s)
    BY <1>10, <2>1, <2>2 DEF Booked
  <2>4. QED
    BY <1>1, <2>1, <2>3, WritingStays
<1>11. Apart'
  <2>1. ASSUME NEW j \in Importer \ {i}
        PROVE  /\ \A e \in import[j].written : e.key \notin Persisted'
               /\ import[j].at = "write" =>
                    \A k \in DOMAIN import[j].rep.rows \ import[j].plan :
                      LedgerKey(import[j].rep, k) \in Persisted'
    BY <1>4, <1>7 DEF Apart
  <2>2. \A j \in Importer : \A e \in import'[j].written : e.key \notin Persisted'
    BY <1>2, <1>3, <2>1
  <2>3. \A j, k \in Importer : j # k =>
          \A e \in import'[j].written, f \in import'[k].written : e.key # f.key
    BY <1>2, <1>3, <1>4 DEF Apart
  <2>4. \A j \in Importer : import'[j].at = "write" =>
          \A k \in DOMAIN import'[j].rep.rows \ import'[j].plan : LedgerKey(import'[j].rep, k) \in Persisted'
    BY <1>2, <1>3, <2>1
  <2>5. QED
    BY <2>2, <2>3, <2>4 DEF Apart
<1>12. Keys(imp.rep) \subseteq Persisted' /\ \A e \in w : e.key \in Keys(imp.rep)
  <2>1. ASSUME NEW k \in DOMAIN imp.rep.rows PROVE LedgerKey(imp.rep, k) \in Persisted'
    <3>1. CASE k \in imp.plan
      <4>1. PICK e \in w : Writes(imp, e, k)
        BY <1>1, <1>5, <3>1 DEF Writing
      <4>2. QED
        BY <1>7, <4>1 DEF Writes
    <3>2. CASE k \notin imp.plan
      BY <1>1, <1>4, <1>7, <3>2 DEF Apart
    <3>3. QED
      BY <3>1, <3>2
  <2>2. ASSUME NEW e \in w PROVE e.key \in Keys(imp.rep)
    <3>1. PICK k \in imp.plan \ imp.left : Writes(imp, e, k)
      BY <1>5 DEF Writing
    <3>2. k \in DOMAIN imp.rep.rows /\ e.key = LedgerKey(imp.rep, k)
      BY <1>5, <3>1 DEF Writing, Writes
    <3>3. QED
      BY <3>2 DEF Keys
  <2>3. QED
    BY <2>1, <2>2 DEF Keys
<1>13. Ledger'
  <2>1. IsFiniteSet(ledger')
    <3>1. IsFiniteSet(ledger) /\ IsFiniteSet(w)
      BY <1>4, <1>5 DEF Ledger, Writing
    <3>2. QED
      BY <1>1, <3>1, FS_Union
  <2>2. \A e, f \in ledger' : e.key = f.key => e = f
    <3>1. \A e \in w, f \in ledger : e.key # f.key
      BY <1>4 DEF Apart, Persisted
    <3>2. (\A e, f \in w : e.key = f.key => e = f) /\ \A e, f \in ledger : e.key = f.key => e = f
      BY <1>4, <1>5 DEF Writing, Ledger
    <3>3. QED
      BY <1>1, <3>1, <3>2
  <2>3. \A b \in audits' : Keys(b.rep) \subseteq Persisted'
    <3>1. \A b \in audits : Keys(b.rep) \subseteq Persisted'
      BY <1>4, <1>7 DEF Ledger
    <3>2. QED
      BY <1>1, <1>6, <1>12, <3>1
  <2>4. \A e \in ledger' : \E b \in audits' : b.call = e.call /\ e.key \in Keys(b.rep)
    <3>1. \A e \in ledger : \E b \in audits' : b.call = e.call /\ e.key \in Keys(b.rep)
      BY <1>1, <1>4 DEF Ledger
    <3>2. \A e \in w : a.call = e.call /\ e.key \in Keys(a.rep)
      BY <1>6, <1>8, <1>12
    <3>3. QED
      BY <1>1, <3>1, <3>2
  <2>5. QED
    BY <2>1, <2>2, <2>3, <2>4 DEF Ledger
<1>14. ASSUME NEW b \in audits' PROVE Counted(b)'
  <2>1. CASE b \in audits
    <3>1. b.call # imp.id
      BY <1>1, <1>4, <2>1 DEF Calls
    <3>2. {e \in ledger' : e.call = b.call} = {e \in ledger : e.call = b.call}
      BY <1>1, <1>8, <3>1
    <3>3. Counted(b)
      BY <1>4, <2>1
    <3>4. Cardinality({e \in ledger' : e.call = b.call}) = Cardinality({e \in ledger : e.call = b.call})
      BY ONLY <3>2, Zenon
    <3>5. QED
      BY <3>3, <3>4 DEF Counted
  <2>2. CASE b = a
    <3>1. {e \in ledger' : e.call = a.call} = w
      BY <1>1, <1>6, <1>8
    <3>2. Cardinality({e \in ledger' : e.call = a.call}) = Cardinality(w)
      BY ONLY <3>1, Zenon
    <3>3. Cardinality(w) = Cardinality(imp.plan) /\ Cardinality(w) \in Nat /\ IsFiniteSet(w)
      BY <1>1, <1>5, AllWritten
    <3>4. With("unmatched", w) \in Nat
      <4>1. {e \in w : e.status = "unmatched"} \in SUBSET w
        OBVIOUS
      <4>2. IsFiniteSet({e \in w : e.status = "unmatched"})
        BY ONLY <3>3, <4>1, FS_Subset
      <4>3. Cardinality({e \in w : e.status = "unmatched"}) \in Nat
        BY ONLY <4>2, FS_CardinalityType
      <4>4. QED
        BY <4>3 DEF With
    <3>5. Len(imp.rep.rows) \in Nat
      BY <1>5, SettlementAssumption
    <3>6. /\ a.imported + a.skipped = Len(a.rep.rows)
          /\ a.byStatus["unmatched"] + a.linked = a.imported
      BY <1>6, <3>3, <3>4, <3>5
    <3>7. QED
      BY <1>6, <2>2, <3>2, <3>6 DEF Counted
  <2>3. QED
    BY <1>1, <2>1, <2>2
<1>15. QED
  BY <1>2, <1>9, <1>10, <1>11, <1>13, <1>14 DEF Booked

LEMMA BookedStep ==
  ASSUME Booked, [Next]_vars
  PROVE  Booked'
<1>1. CASE \E po \in PO : IngestOrder(po)
  BY <1>1, OrdersGrow
<1>2. ASSUME NEW i \in Importer, NEW rep \in Reports, Fetch(i, rep) PROVE Booked'
  BY <1>2, CallBegins
<1>3. ASSUME NEW i \in Importer, Step(i) PROVE Booked'
  <2>1. CASE PlanRows(i)
    BY <2>1, PlanIsMade
  <2>2. CASE WriteRow(i)
    BY <2>2, RowIsWritten
  <2>3. CASE LoseRace(i)
    BY <2>3, RaceIsLost
  <2>4. CASE BreakDeadlock(i)
    <3>1. /\ import' = [import EXCEPT ![i] = IdleImport]
          /\ UNCHANGED <<payload, orders, ledger, audits, calls>> /\ faults' \in 0..MaxFaults
      BY <2>4 DEF BreakDeadlock, Booked, Calls
    <3>2. QED
      BY <3>1, CallEnds
  <2>5. CASE Commit(i)
    BY <2>5, CallCommits
  <2>6. QED
    BY <1>3, <2>1, <2>2, <2>3, <2>4, <2>5 DEF Step
<1>4. ASSUME NEW i \in Importer, Abort(i) PROVE Booked'
  <2>1. /\ import' = [import EXCEPT ![i] = IdleImport]
        /\ UNCHANGED <<payload, orders, ledger, audits, calls>> /\ faults' \in 0..MaxFaults
    BY <1>4, SettlementAssumption DEF Abort, Booked, Calls
  <2>2. QED
    BY <2>1, CallEnds
<1>5. CASE UNCHANGED vars
  <2>1. /\ payload' = payload /\ orders' = orders /\ ledger' = ledger /\ audits' = audits
        /\ import' = import /\ calls' = calls /\ faults' = faults
    BY <1>5 DEF vars
  <2>2. \A i \in Importer : import'[i].at = "write" => Writing(import[i])'
    <3>1. ASSUME NEW i \in Importer, import'[i].at = "write" PROVE Writing(import[i])'
      <4>1. PICK s : s = import'[i]
        OBVIOUS
      <4>2. Writing(s)
        BY <2>1, <3>1, <4>1 DEF Booked
      <4>3. QED
        BY <2>1, <4>1, <4>2, WritingStays
    <3>2. QED
      BY <3>1
  <2>3. Persisted' = Persisted
    BY <2>1 DEF Persisted
  <2>4. Shape' /\ \A a \in audits' : Counted(a)'
    BY <2>1 DEF Booked, Shape, Counted
  <2>5. Calls /\ Apart /\ Ledger
    BY DEF Booked
  <2>6. Calls'
    BY <2>1, <2>5 DEF Calls
  <2>7. Apart'
    BY <2>1, <2>3, <2>5 DEF Apart
  <2>8. Ledger'
    BY <2>1, <2>3, <2>5 DEF Ledger
  <2>9. QED
    BY <2>2, <2>4, <2>6, <2>7, <2>8 DEF Booked
<1>6. QED
  BY <1>1, <1>2, <1>3, <1>4, <1>5 DEF Next

LEMMA BookedFirst == Init => Booked
<1> SUFFICES ASSUME Init PROVE Booked
  OBVIOUS
<1>1. IdleImport = Import("idle", 0, CHOOSE x \in Reports : TRUE, {}, {}, {}, FALSE)
  BY DEF IdleImport, Import
<1>2. /\ ledger = {} /\ audits = {} /\ orders = {} /\ calls = 0 /\ faults = 0
      /\ payload \in [PO -> Payloads] /\ import = [i \in Importer |-> IdleImport]
  BY DEF Init
<1>3. /\ IdleImport.at = "idle" /\ IdleImport.retried = FALSE /\ IdleImport.plan = {}
      /\ IdleImport.left = {} /\ IdleImport.written = {}
  BY DEF IdleImport
<1>4. \A i \in Importer : import[i] = IdleImport
  BY <1>2
<1>5. Shape
  <2>1. IdleImport = Import(IdleImport.at, IdleImport.id, IdleImport.rep, IdleImport.plan,
                            IdleImport.left, IdleImport.written, IdleImport.retried)
    BY DEF IdleImport, Import
  <2> HIDE DEF IdleImport
  <2>2. QED
    BY <1>2, <1>4, <2>1 DEF Shape
<1>6. Calls
  <2>1. 0 \in 0..MaxCalls /\ 0 \in 0..MaxFaults
    BY SettlementAssumption
  <2>2. \A i \in Importer : /\ import[i].at = "idle" /\ import[i].retried = FALSE
                            /\ import[i].plan = {} /\ import[i].left = {} /\ import[i].written = {}
    BY <1>3, <1>4
  <2>3. QED
    BY <1>2, <2>1, <2>2 DEF Calls
<1>7. Apart
  BY <1>3, <1>4 DEF Apart
<1>8. Ledger
  BY <1>2, FS_EmptySet DEF Ledger
<1>9. QED
  BY <1>2, <1>3, <1>4, <1>5, <1>6, <1>7, <1>8 DEF Booked

(* The bookkeeping of the calls and of the ledger holds at any time.       *)
THEOREM BookedAlways == Spec => []Booked
<1>1. Init => Booked
  BY BookedFirst
<1>2. Booked /\ [Next]_vars => Booked'
  BY BookedStep
<1>3. QED
  BY <1>1, <1>2, PTL DEF Spec

-----------------------------------------------------------------------------
(* Every step leaves the calls, the ledger and the audit records well      *)
(* formed: what a call has left to write is of its plan, its plan is of    *)
(* its report, and a row of the ledger has a report that was imported.     *)
THEOREM SettlementTypeCorrect == Spec => []TypeOK
<1>1. Booked => TypeOK
  <2> SUFFICES ASSUME Booked PROVE TypeOK
    OBVIOUS
  <2>1. Calls /\ Ledger
    BY DEF Booked
  <2>2. ASSUME NEW i \in Importer
        PROVE  import[i].left \subseteq import[i].plan /\ import[i].plan \subseteq DOMAIN import[i].rep.rows
    <3>1. CASE import[i].at = "write"
      BY <3>1 DEF Booked, Writing
    <3>2. CASE import[i].at # "write"
      BY <2>1, <3>2 DEF Calls
    <3>3. QED
      BY <3>1, <3>2
  <2>3. ASSUME NEW e \in ledger
        PROVE  \E a \in audits : a.call = e.call /\ e.key[2] < Len(a.rep.rows)
    <3>1. PICK a \in audits : a.call = e.call /\ e.key \in Keys(a.rep)
      BY <2>1 DEF Ledger
    <3>2. a.rep \in Reports
      BY <2>1 DEF Calls
    <3>3. e.key[2] < Len(a.rep.rows)
      BY <3>1, <3>2, KeyParts
    <3>4. QED
      BY <3>1, <3>3
  <2>4. QED
    BY <2>1, <2>2, <2>3 DEF Calls, TypeOK
<1>2. QED
  BY <1>1, BookedAlways, PTL

LEMMA MaxIs ==
  ASSUME NEW M \in SUBSET Nat, NEW n \in M, \A m \in M : m <= n
  PROVE  Max(M) = n
<1> DEFINE x == Max(M)
<1>1. \E y \in M : \A z \in M : y >= z
  BY SMT
<1>2. x \in M /\ \A z \in M : x >= z
  BY <1>1 DEF Max
<1> HIDE DEF x
<1>3. x \in Nat /\ n \in Nat /\ x >= n /\ x <= n
  BY <1>2
<1>4. QED
  BY <1>3 DEF x

(* The rows of one identity in the ledger are numbered from 0, as those of *)
(* the report that has the most.                                           *)
LEMMA LedgerOfBase ==
  ASSUME Booked, NEW base, audits # {}
  PROVE  Cardinality({e \in ledger : e.key[1] = base}) = Max({Cardinality(Like(a.rep, base)) : a \in audits})
<1> DEFINE C == {e \in ledger : e.key[1] = base}
           U == {e.key[2] : e \in C}
           f == [e \in C |-> e.key[2]]
           M == {Cardinality(Like(a.rep, base)) : a \in audits}
<1>1. Ledger /\ \A a \in audits : a.rep \in Reports
  BY DEF Booked, Calls
<1>2. ASSUME NEW e \in ledger
      PROVE  \E a \in audits : e.key \in Keys(a.rep) /\ e.key = <<e.key[1], e.key[2]>>
  <2>1. PICK a \in audits : e.key \in Keys(a.rep)
    BY <1>1 DEF Ledger
  <2>2. e.key = <<e.key[1], e.key[2]>>
    BY <1>1, <2>1, KeyParts
  <2>3. QED
    BY <2>1, <2>2
<1>3. \A u : u \in U <=> <<base, u>> \in Persisted
  <2>1. ASSUME NEW e \in C PROVE <<base, e.key[2]>> = e.key /\ e.key \in Persisted
    BY <1>2 DEF Persisted
  <2>2. ASSUME NEW u, <<base, u>> \in Persisted PROVE u \in U
    <3>1. PICK e \in ledger : e.key = <<base, u>>
      BY <2>2 DEF Persisted
    <3>2. e.key[1] = base /\ e.key[2] = u
      BY <3>1
    <3>3. QED
      BY <3>2
  <2>3. QED
    BY <2>1, <2>2
<1>4. f \in Bijection(C, U)
  <2>1. ASSUME NEW e \in C, NEW g \in C, f[e] = f[g] PROVE e = g
    <3>1. e.key = g.key
      BY <1>2, <2>1
    <3>2. QED
      BY <1>1, <3>1 DEF Ledger
  <2>2. f \in [C -> U] /\ \A u \in U : \E e \in C : f[e] = u
    OBVIOUS
  <2>3. QED
    BY <2>1, <2>2 DEF Bijection, Injection, Surjection, IsInjective
<1>5. IsFiniteSet(C)
  BY <1>1, FS_Subset DEF Ledger
<1> HIDE DEF f, C, U
<1>6. IsFiniteSet(U) /\ Cardinality(U) = Cardinality(C) /\ Cardinality(U) \in Nat
  <2>1. ExistsBijection(C, U)
    BY <1>4 DEF ExistsBijection
  <2>2. IsFiniteSet(U) /\ Cardinality(U) = Cardinality(C)
    BY <1>5, <2>1, FS_Bijection
  <2>3. QED
    BY <2>2, FS_CardinalityType
<1>7. ASSUME NEW a \in audits
      PROVE  /\ Cardinality(Like(a.rep, base)) \in Nat
             /\ 0 .. Cardinality(Like(a.rep, base)) - 1 \in SUBSET U
             /\ Cardinality(Like(a.rep, base)) <= Cardinality(U)
  <2> DEFINE n == Cardinality(Like(a.rep, base))
  <2>1. n \in Nat
    BY <1>1, LikeRows
  <2>2. Keys(a.rep) \subseteq Persisted
    BY <1>1 DEF Ledger
  <2>3. \A u : u \in 0 .. n - 1 => <<base, u>> \in Keys(a.rep)
    BY <1>1, KeysOfBase
  <2> HIDE DEF n
  <2>4. 0 .. n - 1 \in SUBSET U
    BY <1>3, <2>2, <2>3
  <2>5. Cardinality(0 .. n - 1) = n
    BY <2>1, FirstNumbers
  <2>6. Cardinality(0 .. n - 1) <= Cardinality(U)
    BY ONLY <1>6, <2>4, FS_Subset
  <2>7. QED
    BY <2>1, <2>4, <2>5, <2>6 DEF n
<1>8. M \in SUBSET Nat /\ M # {} /\ \A m \in M : m <= Cardinality(U)
  BY <1>7
<1>9. PICK n \in M : \A m \in M : m <= n
  <2> HIDE DEF M
  <2>1. QED
    BY <1>6, <1>8, GreatestExists
<1>10. U = 0 .. n - 1
  <2>1. 0 .. n - 1 \in SUBSET U
    BY <1>7
  <2>2. ASSUME NEW u \in U PROVE u \in 0 .. n - 1
    <3>1. PICK e \in ledger : e.key = <<base, u>>
      BY <1>3 DEF Persisted
    <3>2. PICK a \in audits : <<base, u>> \in Keys(a.rep)
      BY <1>2, <3>1
    <3>3. u \in 0 .. Cardinality(Like(a.rep, base)) - 1
      BY <1>1, <3>2, KeysOfBase
    <3>4. Cardinality(Like(a.rep, base)) \in M
      OBVIOUS
    <3>5. n \in Nat /\ Cardinality(Like(a.rep, base)) \in Nat /\ Cardinality(Like(a.rep, base)) <= n
      BY <1>8, <1>9, <3>4
    <3>6. QED
      BY <3>3, <3>5
  <2>3. QED
    BY <2>1, <2>2
<1>11. n \in Nat
  BY <1>8
<1>12. Cardinality(0 .. n - 1) = n
  BY <1>11, FirstNumbers
<1>13. Cardinality(U) = n
  BY ONLY <1>10, <1>12, Zenon
<1>14. Max(M) = n
  <2> HIDE DEF M
  <2>1. QED
    BY <1>8, <1>9, MaxIs
<1>15. Cardinality(C) = Max(M)
  BY <1>6, <1>13, <1>14
<1>16. QED
  BY <1>15 DEF C

(* Whatever reports come, overlap, repeat rows, race each other or are     *)
(* pulled again, the ledger has of every identity as many rows as the      *)
(* report with the most, and the audits count what was written.            *)
THEOREM LedgerIsTheReports == Spec => []LedgerHoldsTheReports
<1>1. Booked => LedgerHoldsTheReports
  <2> SUFFICES ASSUME Booked PROVE LedgerHoldsTheReports
    OBVIOUS
  <2>1. \A a \in audits : Counted(a)
    BY DEF Booked
  <2>2. ASSUME NEW base \in {e.key[1] : e \in ledger}
              \cup UNION {{BaseKey(r, a.rep.day) : r \in {a.rep.rows[k] : k \in DOMAIN a.rep.rows}} : a \in audits}
        PROVE  Cardinality({e \in ledger : e.key[1] = base}) = Max({Cardinality(Like(a.rep, base)) : a \in audits})
    <3>1. audits # {}
      BY DEF Booked, Ledger
    <3>2. QED
      BY <3>1, LedgerOfBase
  <2>3. QED
    BY <2>1, <2>2 DEF LedgerHoldsTheReports, Counted
<1>2. QED
  BY <1>1, BookedAlways, PTL

-----------------------------------------------------------------------------
(* ComparedGroupsAreExact, of one row and the rows of its group.           *)
GroupOf(rows, e) == {x \in rows : x.call = e.call /\ x.row.po = e.row.po /\ Sale(x.row)}

Exact(e, group, lines) ==
  /\ e \in group /\ \A x \in group : x.reasons = {}
  /\ e.discrepancy = SumFunction([x \in group |-> x.row.amount]) - (OrderTotal(lines) + SoldShipping(lines))
  /\ e.status = IF e.discrepancy = 0 THEN "matched" ELSE "discrepant"

LEMMA ExactRows ==
  /\ ComparedGroupsAreExact <=>
       \A e \in ledger : e.discrepancy # NoFigure => Exact(e, GroupOf(ledger, e), payload[e.row.po])
  /\ ComparedGroupsAreExact' <=>
       \A e \in ledger' : e.discrepancy # NoFigure => Exact(e, GroupOf(ledger', e), payload'[e.row.po])
BY DEF ComparedGroupsAreExact, Exact, GroupOf

(* What a call is about to commit is exact. *)
LEMMA WrittenAreExact ==
  ASSUME NEW imp, imp.rep \in Reports, Writing(imp), imp.left = {}, payload \in [PO -> Payloads],
         NEW e \in imp.written, e.discrepancy # NoFigure
  PROVE  Exact(e, SalesOf(imp.written, e.row.po), payload[e.row.po])
<1> DEFINE po == e.row.po
           lines == payload[po]
           group == SalesOf(imp.written, po)
<1>1. PICK k \in imp.plan : Writes(imp, e, k)
  BY DEF Writing
<1>2. po \in PO /\ lines \in Payloads
  BY <1>1, SettlementAssumption DEF Writing, Writes
<1>3. /\ Sale(e.row) /\ ~Blocked(imp, po) /\ Gross(lines) # NoFigure
      /\ e.discrepancy = GroupSum(imp, po) - Gross(lines)
      /\ e.status = IF e.discrepancy = 0 THEN "matched" ELSE "discrepant"
  BY DEF Writing, Figured
<1>4. e \in group
  BY <1>3 DEF SalesOf
<1>5. ASSUME NEW x \in group PROVE x.reasons = {}
  <2>1. x \in imp.written /\ x.row.po = po /\ Sale(x.row)
    BY DEF SalesOf
  <2>2. PICK m \in imp.plan : Writes(imp, x, m)
    BY <2>1 DEF Writing
  <2>3. m \in Group(imp, po) /\ x.reasons = Anomalies(imp.rep, m)
    BY <2>1, <2>2 DEF Group, Writes
  <2>4. QED
    BY <1>3, <2>3 DEF Blocked
<1>6. SumFunction([x \in group |-> x.row.amount]) = GroupSum(imp, po)
  <2>1. SaleSum(imp.written, po) = SumFunctionOnSet(Amounts(imp), Group(imp, po) \ imp.left)
    BY <1>2 DEF Writing
  <2>2. Group(imp, po) \ imp.left = Group(imp, po)
    OBVIOUS
  <2>3. SaleSum(imp.written, po) = GroupSum(imp, po)
    BY ONLY <2>1, <2>2, Zenon DEF GroupSum
  <2>4. QED
    BY <2>3, Zenon DEF SaleSum
<1>7. Gross(lines) = OrderTotal(lines) + SoldShipping(lines)
  <2>1. lines # NoFigure
    BY <1>3 DEF Gross
  <2> HIDE DEF lines
  <2>2. QED
    BY <1>2, <1>3, <2>1, GrossParts
<1> HIDE DEF po, lines, group
<1>8. Exact(e, group, lines)
  BY <1>3, <1>4, <1>5, <1>6, <1>7 DEF Exact
<1>9. QED
  BY <1>8 DEF group, lines, po

(* A figure in the ledger is the sum of its call's rows of the order,      *)
(* every one understood, less what the order was ingested with and its     *)
(* shipping; nothing that is written or ingested later makes it wrong.     *)
THEOREM ComparedAreExact == Spec => []ComparedGroupsAreExact
<1>1. Init => ComparedGroupsAreExact
  BY DEF Init, ComparedGroupsAreExact
<1>2. ASSUME Booked, ComparedGroupsAreExact, [Next]_vars PROVE ComparedGroupsAreExact'
  <2>1. ASSUME ledger' = ledger, payload' = payload PROVE ComparedGroupsAreExact'
    BY <1>2, <2>1, ExactRows
  <2>2. ASSUME NEW i \in Importer, Commit(i) PROVE ComparedGroupsAreExact'
    <3> DEFINE imp == import[i]
               w == imp.written
    <3>1. imp.at = "write" /\ imp.left = {} /\ ledger' = ledger \cup w /\ payload' = payload
      BY <2>2 DEF Commit, HasNext
    <3>2. imp.rep \in Reports /\ Writing(imp) /\ payload \in [PO -> Payloads]
      BY <1>2, <3>1 DEF Booked, Calls
    <3>3. (\A e \in w : e.call = imp.id) /\ \A e \in ledger : e.call # imp.id
      <4>1. \A e \in w : e.call = imp.id
        BY <3>2 DEF Writing, Writes
      <4>2. \A b \in audits : b.call # imp.id
        BY <1>2, <3>1 DEF Booked, Calls
      <4>3. QED
        BY <1>2, <4>1, <4>2 DEF Booked, Ledger
    <3>4. ASSUME NEW e \in w PROVE GroupOf(ledger', e) = SalesOf(w, e.row.po)
      BY <3>1, <3>3 DEF GroupOf, SalesOf
    <3>5. ASSUME NEW e \in ledger PROVE GroupOf(ledger', e) = GroupOf(ledger, e)
      BY <3>1, <3>3 DEF GroupOf
    <3>6. ASSUME NEW e \in w, e.discrepancy # NoFigure
          PROVE  Exact(e, GroupOf(ledger', e), payload'[e.row.po])
      <4>1. Exact(e, SalesOf(w, e.row.po), payload[e.row.po])
        BY <3>1, <3>2, <3>6, WrittenAreExact
      <4>2. QED
        BY <3>1, <3>4, <4>1
    <3>7. ASSUME NEW e \in ledger, e.discrepancy # NoFigure
          PROVE  Exact(e, GroupOf(ledger', e), payload'[e.row.po])
      <4>1. Exact(e, GroupOf(ledger, e), payload[e.row.po])
        BY <1>2, <3>7, ExactRows
      <4>2. QED
        BY <3>1, <3>5, <4>1
    <3>8. QED
      BY <3>1, <3>6, <3>7, ExactRows
  <2>3. ASSUME ~ \E i \in Importer : Commit(i) PROVE ledger' = ledger /\ payload' = payload
    <3>1. CASE UNCHANGED vars
      BY <3>1 DEF vars
    <3>2. CASE Next
      BY <2>3, <3>2 DEF Next, Step, IngestOrder, Fetch, PlanRows, WriteRow, LoseRace,
                        BreakDeadlock, Abort
    <3>3. QED
      BY <1>2, <3>1, <3>2
  <2>4. QED
    BY <2>1, <2>2, <2>3
<1>3. QED
  BY <1>1, <1>2, BookedAlways, PTL DEF Spec
=============================================================================
