-------------------------------- MODULE Sums --------------------------------
(***************************************************************************)
(* Facts about SumFunction of the community modules, for functions from a  *)
(* finite set to the integers.  The balances of WalletLedger, the debts of *)
(* GroupLedger and the totals of Reports are such sums.                    *)
(*                                                                         *)
(* Each proof by induction over a finite set takes a smallest set for      *)
(* which the claim fails (SubsetInduction): strict inclusion is            *)
(* well-founded on the subsets of a finite set.  No theorem with an        *)
(* operator as parameter is needed.                                        *)
(***************************************************************************)
EXTENDS Integers, Functions, FiniteSetTheorems, TLAPS

-----------------------------------------------------------------------------
(* The sum as a recursive function on the subsets of the domain *)

(* The element of s the fold takes next.                                     *)
SomeOf(s) == CHOOSE x \in s : TRUE

(* The sum of f over each subset of S, by taking out one element at a time.  *)
Fold(S, f) == CHOOSE F : F = [s \in SUBSET S |-> IF s = {} THEN 0 ELSE f[SomeOf(s)] + F[s \ {SomeOf(s)}]]

(* SumFunction is the fold over the whole domain.                            *)
LEMMA SumIsFold == ASSUME NEW f PROVE SumFunction(f) = Fold(DOMAIN f, f)[DOMAIN f]
  BY Zenon DEF SumFunction, SumFunctionOnSet, FoldFunctionOnSet, MapThenFoldSet, Fold, SomeOf

(* No set in T is strictly within x.                                         *)
Smallest(x, T) == \A y \in T : y \subseteq x => y = x

(* A non-empty collection of subsets of a finite set has a smallest one.      *)
LEMMA SubsetInduction ==
  ASSUME NEW S, IsFiniteSet(S), NEW T \in SUBSET SUBSET S, T # {}
  PROVE  \E x \in T : Smallest(x, T)
  <1>1. IsWellFoundedOn(StrictSubsetOrdering(S), FiniteSubsetsOf(S)) /\ FiniteSubsetsOf(S) = SUBSET S
    BY FS_StrictSubsetOrderingWellFounded, FS_FiniteSubsetsOfFinite
  <1>2. \E x \in T : \A y \in T : ~(<<y, x>> \in StrictSubsetOrdering(S))
    BY <1>1, WFMin
  <1>3. QED
    BY <1>2 DEF StrictSubsetOrdering, Smallest

(* A non-empty set of natural numbers has a least one.                       *)
LEMMA LeastNumber == ASSUME NEW T \in SUBSET Nat, T # {} PROVE \E m \in T : \A n \in T : m <= n
  <1>1. PICK b \in T : TRUE
    OBVIOUS
  <1> DEFINE I == {0..n : n \in {m \in T : m <= b}}
  <1>2. IsFiniteSet(0..b)
    BY FS_Interval
  <1>3. I \in SUBSET SUBSET (0..b)
    OBVIOUS
  <1>4. I # {}
    OBVIOUS
  <1> HIDE DEF I
  <1>5. PICK x \in I : Smallest(x, I)
    BY <1>2, <1>3, <1>4, SubsetInduction
  <1> USE DEF I
  <1>6. PICK m \in T : m <= b /\ x = 0..m
    OBVIOUS
  <1>7. ASSUME NEW n \in T, n < m PROVE FALSE
    <2>1. 0..n \in I /\ 0..n \subseteq x /\ m \in x /\ m \notin 0..n
      BY <1>6, <1>7
    <2>2. QED
      BY <1>5, <2>1 DEF Smallest
  <1>8. QED
    BY <1>7

(* What the fold has left after one element.                                 *)
Without(s) == s \ {SomeOf(s)}

(* A set that is not empty has the element the fold takes.                   *)
LEMMA SomeIsThere == ASSUME NEW s, s # {} PROVE SomeOf(s) \in s
  BY DEF SomeOf

(* The rest is a subset, one element smaller.                                *)
LEMMA RestIsSmaller == ASSUME NEW S, IsFiniteSet(S), NEW s \in SUBSET S, s # {}
                       PROVE Without(s) \in SUBSET S /\ Cardinality(Without(s)) = Cardinality(s) - 1 /\ Cardinality(s) \in Nat
  <1>1. IsFiniteSet(s) /\ Cardinality(s) \in Nat
    BY FS_Subset, FS_CardinalityType
  <1>2. SomeOf(s) \in s
    BY SomeIsThere
  <1>3. QED
    BY <1>1, <1>2, FS_RemoveElement DEF Without

(* What the recursive equation gives for s when F holds for smaller sets.     *)
EntryOf(F, f, s) == IF s = {} THEN 0 ELSE f[SomeOf(s)] + F[Without(s)]

(* F solves the recursive equation.                                         *)
IsFold(F, S, f) == F = [s \in SUBSET S |-> EntryOf(F, f, s)]

(* The equation has a solution: one up to each cardinality, by the least that *)
(* has none.                                                                 *)
LEMMA FoldExists == ASSUME NEW S, IsFiniteSet(S), NEW f
                    PROVE \E F : IsFold(F, S, f)
  <1> DEFINE Good(F, n) == \A s \in SUBSET S : Cardinality(s) <= n => F[s] = EntryOf(F, f, s)
             Bad == {n \in Nat : ~ \E F : Good(F, n)}
  <1>1. Bad = {}
    <2> SUFFICES ASSUME Bad # {} PROVE FALSE
      OBVIOUS
    <2>1. PICK n \in Bad : \A m \in Bad : n <= m
      BY LeastNumber
    <2>2. CASE n = 0
      <3> DEFINE Z == [s \in SUBSET S |-> 0]
      <3>1. ASSUME NEW s \in SUBSET S, Cardinality(s) <= 0 PROVE s = {}
        BY <3>1, RestIsSmaller, FS_Subset, FS_CardinalityType, FS_EmptySet
      <3>2. Good(Z, 0)
        BY <3>1 DEF EntryOf
      <3>3. QED
        BY <2>1, <2>2, <3>2
    <2>3. CASE n # 0
      <3>1. n - 1 \in Nat /\ n - 1 \notin Bad
        BY <2>1, <2>3
      <3>2. PICK F : Good(F, n - 1)
        BY <3>1
      <3> DEFINE G == [s \in SUBSET S |-> EntryOf(F, f, s)]
      <3>3. ASSUME NEW s \in SUBSET S, Cardinality(s) <= n PROVE G[s] = EntryOf(G, f, s)
        <4>1. CASE s = {}
          BY <4>1 DEF EntryOf
        <4>2. CASE s # {}
          <5>1. Without(s) \in SUBSET S /\ Cardinality(Without(s)) <= n - 1
            BY <2>1, <3>3, <4>2, RestIsSmaller
          <5>2. F[Without(s)] = G[Without(s)]
            BY <3>2, <5>1
          <5>3. QED
            BY <4>2, <5>2 DEF EntryOf
        <4>3. QED
          BY <4>1, <4>2
      <3>4. Good(G, n)
        BY <3>3
      <3>5. QED
        BY <2>1, <3>4
    <2>4. QED
      BY <2>2, <2>3
  <1>2. PICK F : Good(F, Cardinality(S))
    BY <1>1, FS_CardinalityType
  <1>3. ASSUME NEW s \in SUBSET S PROVE F[s] = EntryOf(F, f, s)
    BY <1>2, FS_Subset
  <1> DEFINE G == [s \in SUBSET S |-> F[s]]
  <1>4. ASSUME NEW s \in SUBSET S PROVE EntryOf(F, f, s) = EntryOf(G, f, s)
    BY RestIsSmaller DEF EntryOf
  <1>5. G = [s \in SUBSET S |-> EntryOf(G, f, s)]
    BY <1>3, <1>4
  <1>6. QED
    BY <1>5 DEF IsFold

(* So the fold, which is chosen, satisfies it.                               *)
LEMMA FoldEquation == ASSUME NEW S, IsFiniteSet(S), NEW f, NEW s \in SUBSET S
                      PROVE Fold(S, f)[s] = EntryOf(Fold(S, f), f, s)
  <1>1. Fold(S, f) = CHOOSE F : IsFold(F, S, f)
    BY Zenon DEF Fold, EntryOf, Without, IsFold
  <1>2. IsFold(Fold(S, f), S, f)
    BY <1>1, FoldExists
  <1>3. QED
    BY <1>2 DEF IsFold

(* The order in which the fold takes the elements does not matter.            *)
LEMMA FoldRemoves ==
  ASSUME NEW S, IsFiniteSet(S), NEW f \in [S -> Int]
  PROVE  \A s \in SUBSET S : /\ Fold(S, f)[s] \in Int
                            /\ \A y \in s : Fold(S, f)[s] = f[y] + Fold(S, f)[s \ {y}]
  <1> DEFINE F == Fold(S, f)
             Ok(s) == F[s] \in Int /\ \A y \in s : F[s] = f[y] + F[s \ {y}]
             Bad == {s \in SUBSET S : ~Ok(s)}
  <1>1. \A s \in SUBSET S : F[s] = EntryOf(F, f, s)
    BY FoldEquation
  <1> HIDE DEF F
  <1>2. Bad = {}
    <2> SUFFICES ASSUME Bad # {} PROVE FALSE
      OBVIOUS
    <2>1. PICK s \in Bad : Smallest(s, Bad)
      <3>1. Bad \in SUBSET SUBSET S
        OBVIOUS
      <3> HIDE DEF Bad
      <3>2. QED
        BY <3>1, SubsetInduction
    <2>2. ASSUME NEW t \in SUBSET s, t # s PROVE Ok(t)
      BY <2>1, <2>2 DEF Smallest
    <2>3. s # {}
      <3>1. ASSUME s = {} PROVE F[s] = 0
        BY <1>1, <3>1 DEF EntryOf
      <3>2. ASSUME s = {} PROVE Ok(s)
        BY <3>1, <3>2
      <3>3. QED
        BY <2>1, <3>2
    <2> DEFINE x == SomeOf(s)
    <2>4. x \in s /\ F[s] = f[x] + F[s \ {x}]
      BY <1>1, <2>1, <2>3, SomeIsThere DEF EntryOf, Without
    <2> HIDE DEF x
    <2>5. F[s] \in Int
      BY <2>1, <2>2, <2>4
    <2>6. ASSUME NEW y \in s PROVE F[s] = f[y] + F[s \ {y}]
      <3>1. CASE y = x
        BY <2>4, <3>1
      <3>2. CASE y # x
        <4> DEFINE t == (s \ {x}) \ {y}
        <4>1. t = (s \ {y}) \ {x}
          OBVIOUS
        <4>2. F[s \ {x}] = f[y] + F[t]
          BY <2>2, <2>4, <3>2
        <4>3. F[s \ {y}] = f[x] + F[t]
          <5>1. F[s \ {y}] = f[x] + F[(s \ {y}) \ {x}]
            BY <2>2, <2>4, <2>6, <3>2
          <5>2. QED
            BY <4>1, <5>1
        <4>4. F[t] \in Int
          BY <2>2, <2>4, <3>2
        <4> HIDE DEF t
        <4>5. f[x] \in Int /\ f[y] \in Int
          BY <2>1, <2>4
        <4>6. QED
          BY <2>4, <4>2, <4>3, <4>4, <4>5
      <3>3. QED
        BY <3>1, <3>2
    <2>7. QED
      BY <2>1, <2>5, <2>6
  <1>3. QED
    BY <1>2 DEF F

(* Nor does what the function is elsewhere.                                  *)
LEMMA FoldIsLocal ==
  ASSUME NEW S, IsFiniteSet(S), NEW f \in [S -> Int],
         NEW T \in SUBSET S, NEW g \in [T -> Int], \A x \in T : g[x] = f[x]
  PROVE  Fold(T, g)[T] = Fold(S, f)[T]
  <1> DEFINE F == Fold(S, f)
             G == Fold(T, g)
             Bad == {s \in SUBSET T : G[s] # F[s]}
  <1>1. IsFiniteSet(T)
    BY FS_Subset
  <1>2. \A s \in SUBSET T : F[s] = EntryOf(F, f, s) /\ G[s] = EntryOf(G, g, s)
    BY <1>1, FoldEquation
  <1> HIDE DEF F, G
  <1>3. Bad = {}
    <2> SUFFICES ASSUME Bad # {} PROVE FALSE
      OBVIOUS
    <2>1. PICK s \in Bad : Smallest(s, Bad)
      <3>1. Bad \in SUBSET SUBSET T
        OBVIOUS
      <3> HIDE DEF Bad
      <3>2. QED
        BY <1>1, <3>1, SubsetInduction
    <2>2. s # {}
      BY <1>2, <2>1 DEF EntryOf
    <2>3. PICK x \in s : x = SomeOf(s)
      BY <2>2, SomeIsThere
    <2>4. G[s \ {x}] = F[s \ {x}]
      BY <2>1, <2>3 DEF Smallest
    <2>5. QED
      BY <1>2, <2>1, <2>2, <2>3, <2>4 DEF EntryOf, Without
  <1>4. QED
    BY <1>3 DEF F, G

-----------------------------------------------------------------------------
(* Sums *)

(* The sum over nothing is nought.                                           *)
LEMMA SumEmpty == ASSUME NEW f \in [{} -> Int] PROVE SumFunction(f) = 0
  <1>1. SumFunction(f) = Fold({}, f)[{}]
    BY SumIsFold
  <1>2. QED
    BY <1>1, FoldEquation, FS_EmptySet DEF EntryOf

(* A sum of integers is an integer.                                          *)
LEMMA SumType == ASSUME NEW S, IsFiniteSet(S), NEW f \in [S -> Int] PROVE SumFunction(f) \in Int
  <1>1. SumFunction(f) = Fold(S, f)[S]
    BY SumIsFold
  <1>2. QED
    BY <1>1, FoldRemoves

(* One term can be taken out of a sum.                                       *)
LEMMA SumRemove ==
  ASSUME NEW S, IsFiniteSet(S), NEW f \in [S -> Int], NEW y \in S,
         NEW T, T = S \ {y}, NEW g \in [T -> Int], \A x \in T : g[x] = f[x]
  PROVE  SumFunction(f) = f[y] + SumFunction(g)
  <1>1. SumFunction(f) = Fold(S, f)[S] /\ SumFunction(g) = Fold(S \ {y}, g)[S \ {y}]
    BY SumIsFold
  <1>2. Fold(S \ {y}, g)[S \ {y}] = Fold(S, f)[S \ {y}]
    BY FoldIsLocal
  <1>3. QED
    BY <1>1, <1>2, FoldRemoves

(* When one term changes, the sum changes by as much.                        *)
LEMMA SumChange ==
  ASSUME NEW S, IsFiniteSet(S), NEW f \in [S -> Int], NEW g \in [S -> Int], NEW y \in S,
         \A x \in S \ {y} : g[x] = f[x]
  PROVE  SumFunction(g) = SumFunction(f) + g[y] - f[y]
  <1> DEFINE h == Restrict(f, S \ {y})
  <1>1. h \in [S \ {y} -> Int] /\ \A x \in S \ {y} : h[x] = f[x] /\ h[x] = g[x]
    BY DEF Restrict
  <1> HIDE DEF h
  <1>2. SumFunction(f) = f[y] + SumFunction(h) /\ SumFunction(g) = g[y] + SumFunction(h)
    BY <1>1, SumRemove
  <1>3. SumFunction(h) \in Int
    <2>1. IsFiniteSet(S \ {y})
      BY FS_RemoveElement
    <2>2. QED
      BY <1>1, <2>1, SumType
  <1>4. QED
    BY <1>2, <1>3

(* A restriction has its values from the function.                           *)
LEMMA RestrictType == ASSUME NEW S, NEW f \in [S -> Int], NEW s \in SUBSET S
                      PROVE /\ Restrict(f, s) \in [s -> Int]
                            /\ \A x \in s : Restrict(f, s)[x] = f[x]
                            /\ Restrict(f, S) = f
  BY DEF Restrict

(* The sum over a part of the domain, term by term.                          *)
LEMMA SumRestrict ==
  ASSUME NEW S, IsFiniteSet(S), NEW f \in [S -> Int], NEW s \in SUBSET S
  PROVE  /\ SumFunction(Restrict(f, s)) \in Int
         /\ s = {} => SumFunction(Restrict(f, s)) = 0
         /\ \A y \in s : SumFunction(Restrict(f, s)) = f[y] + SumFunction(Restrict(f, s \ {y}))
  <1>1. IsFiniteSet(s)
    BY FS_Subset
  <1>2. SumFunction(Restrict(f, s)) \in Int
    BY <1>1, RestrictType, SumType
  <1>3. ASSUME s = {} PROVE SumFunction(Restrict(f, s)) = 0
    BY <1>3, RestrictType, SumEmpty
  <1>4. ASSUME NEW y \in s PROVE SumFunction(Restrict(f, s)) = f[y] + SumFunction(Restrict(f, s \ {y}))
    <2>1. PICK F \in [s -> Int] : F = Restrict(f, s) /\ \A x \in s : F[x] = f[x]
      BY RestrictType
    <2>2. PICK t \in SUBSET S : t = s \ {y}
      OBVIOUS
    <2>3. PICK G \in [t -> Int] : G = Restrict(f, t) /\ \A x \in t : G[x] = f[x]
      BY RestrictType
    <2>4. SumFunction(F) = F[y] + SumFunction(G)
      <3>1. \A x \in t : G[x] = F[x]
        BY <2>1, <2>2, <2>3
      <3>2. QED
        BY <1>1, <2>2, <3>1, SumRemove
    <2>5. QED
      BY <2>1, <2>2, <2>3, <2>4
  <1>5. QED
    BY <1>2, <1>3, <1>4

(* A sum of sums. *)
LEMMA SumPlus ==
  ASSUME NEW S, IsFiniteSet(S), NEW f \in [S -> Int], NEW g \in [S -> Int], NEW h \in [S -> Int],
         \A x \in S : h[x] = f[x] + g[x]
  PROVE  SumFunction(h) = SumFunction(f) + SumFunction(g)
  <1> DEFINE Part(k, s) == SumFunction(Restrict(k, s))
             Bad == {s \in SUBSET S : Part(h, s) # Part(f, s) + Part(g, s)}
  <1>1. \A k \in {f, g, h}, s \in SUBSET S :
           /\ Part(k, s) \in Int
           /\ s = {} => Part(k, s) = 0
           /\ \A y \in s : Part(k, s) = k[y] + Part(k, s \ {y})
    BY SumRestrict
  <1>2. Part(f, S) = SumFunction(f) /\ Part(g, S) = SumFunction(g) /\ Part(h, S) = SumFunction(h)
    BY RestrictType
  <1> HIDE DEF Part
  <1>3. Bad = {}
    <2> SUFFICES ASSUME Bad # {} PROVE FALSE
      OBVIOUS
    <2>1. PICK s \in Bad : Smallest(s, Bad)
      <3>1. Bad \in SUBSET SUBSET S
        OBVIOUS
      <3> HIDE DEF Bad
      <3>2. QED
        BY <3>1, SubsetInduction
    <2>2. PICK y \in s : TRUE
      <3>1. s # {}
        BY <1>1, <2>1
      <3>2. QED
        BY <3>1
    <2>3. PICK t \in SUBSET S : t = s \ {y}
      BY <2>1
    <2>4. Part(h, t) = Part(f, t) + Part(g, t)
      BY <2>1, <2>2, <2>3 DEF Smallest
    <2>5. \A k \in {f, g, h} : Part(k, s) = k[y] + Part(k, t) /\ Part(k, t) \in Int
      BY <1>1, <2>1, <2>3
    <2>6. h[y] = f[y] + g[y] /\ f[y] \in Int /\ g[y] \in Int
      BY <2>1
    <2>7. QED
      BY <2>1, <2>4, <2>5, <2>6
  <1>4. QED
    BY <1>2, <1>3

(* A sum of noughts is nought.                                               *)
LEMMA SumZero == ASSUME NEW S, IsFiniteSet(S), NEW f \in [S -> Int], \A x \in S : f[x] = 0
                 PROVE SumFunction(f) = 0
  <1>1. PICK n \in Int : n = SumFunction(f)
    BY SumType
  <1>2. n = n + n
    BY <1>1, SumPlus
  <1>3. n = 0
    BY <1>2
  <1>4. QED
    BY <1>1, <1>3

(* What is nought can be left out. *)
LEMMA SumSupport ==
  ASSUME NEW S, IsFiniteSet(S), NEW f \in [S -> Int], NEW T \in SUBSET S, NEW g \in [T -> Int],
         \A x \in T : g[x] = f[x], \A x \in S \ T : f[x] = 0
  PROVE  SumFunction(f) = SumFunction(g)
  <1> DEFINE Part(s) == SumFunction(Restrict(f, s))
             Bad == {s \in SUBSET (S \ T) : Part(T \cup s) # Part(T)}
  <1>1. \A s \in SUBSET S, y \in S : y \in s => Part(s) = f[y] + Part(s \ {y}) /\ Part(s \ {y}) \in Int
    BY SumRestrict
  <1>2. Part(S) = SumFunction(f) /\ Part(T) = SumFunction(g)
    <2>1. Restrict(f, T) = g /\ Restrict(f, S) = f
      BY DEF Restrict
    <2>2. QED
      BY <2>1
  <1> HIDE DEF Part
  <1>3. Bad = {}
    <2> SUFFICES ASSUME Bad # {} PROVE FALSE
      OBVIOUS
    <2>1. PICK s \in Bad : Smallest(s, Bad)
      <3>1. Bad \in SUBSET SUBSET S
        OBVIOUS
      <3> HIDE DEF Bad
      <3>2. QED
        BY <3>1, SubsetInduction
    <2>2. PICK y \in s : TRUE
      <3>1. T \cup {} = T
        OBVIOUS
      <3>2. s # {}
        BY <2>1, <3>1
      <3>3. QED
        BY <3>2
    <2>3. PICK t \in SUBSET (S \ T) : t = s \ {y}
      BY <2>1
    <2>4. t \notin Bad
      BY <2>1, <2>2, <2>3 DEF Smallest
    <2>5. Part(T \cup t) = Part(T)
      BY <2>4
    <2>6. (T \cup s) \ {y} = T \cup t
      BY <2>1, <2>2, <2>3
    <2>7. Part(T \cup s) = f[y] + Part(T \cup t) /\ Part(T \cup t) \in Int /\ f[y] = 0
      <3>1. T \cup s \in SUBSET S /\ y \in S \ T /\ y \in T \cup s
        BY <2>1, <2>2
      <3> HIDE DEF Bad
      <3>2. QED
        BY <1>1, <2>6, <3>1
    <2>8. QED
      BY <2>1, <2>5, <2>7
  <1>4. T \cup (S \ T) = S
    OBVIOUS
  <1>5. Part(T \cup (S \ T)) = Part(T)
    BY <1>3
  <1>6. QED
    BY <1>2, <1>4, <1>5

(* A sum of which only one term is not nought is that term.                   *)
LEMMA SumOne ==
  ASSUME NEW S, IsFiniteSet(S), NEW f \in [S -> Int], NEW y \in S, \A x \in S \ {y} : f[x] = 0
  PROVE  SumFunction(f) = f[y]
  <1> DEFINE z == [x \in S |-> 0]
  <1>1. z \in [S -> Int] /\ (\A x \in S : z[x] = 0) /\ \A x \in S \ {y} : f[x] = z[x]
    OBVIOUS
  <1> HIDE DEF z
  <1>2. SumFunction(z) = 0
    BY <1>1, SumZero
  <1>3. QED
    BY <1>1, <1>2, SumChange

(* A table is summed by rows or by columns. *)
LEMMA SumSwap ==
  ASSUME NEW S, IsFiniteSet(S), NEW T, IsFiniteSet(T), NEW a \in [S -> [T -> Int]]
  PROVE  SumFunction([x \in S |-> SumFunction(a[x])]) =
         SumFunction([y \in T |-> SumFunction([x \in S |-> a[x][y]])])
  <1> DEFINE rows == [x \in S |-> SumFunction(a[x])]
             col(y) == [x \in S |-> a[x][y]]
             cols(s) == [y \in T |-> SumFunction(Restrict(col(y), s))]
             Bad == {s \in SUBSET S : SumFunction(Restrict(rows, s)) # SumFunction(cols(s))}
  <1>1. rows \in [S -> Int] /\ \A x \in S : rows[x] = SumFunction(a[x])
    BY SumType
  <1>2. \A y \in T : col(y) \in [S -> Int] /\ \A x \in S : col(y)[x] = a[x][y]
    OBVIOUS
  <1> HIDE DEF rows, col
  <1>3. ASSUME NEW s \in SUBSET S PROVE cols(s) \in [T -> Int] /\ \A y \in T : cols(s)[y] = SumFunction(Restrict(col(y), s))
    BY <1>2, SumRestrict
  <1>4. Bad = {}
    <2> SUFFICES ASSUME Bad # {} PROVE FALSE
      OBVIOUS
    <2>1. PICK s \in Bad : Smallest(s, Bad)
      <3>1. Bad \in SUBSET SUBSET S
        OBVIOUS
      <3> HIDE DEF Bad
      <3>2. QED
        BY <3>1, SubsetInduction
    <2>2. PICK x \in s : TRUE
      <3>1. ASSUME s = {} PROVE FALSE
        <4>1. \A y \in T : cols(s)[y] = 0
          <5>1. ASSUME NEW y \in T PROVE SumFunction(Restrict(col(y), s)) = 0
            BY <1>2, <2>1, <3>1, SumRestrict
          <5>2. QED
            BY <1>3, <2>1, <5>1
        <4>2. cols(s) \in [T -> Int]
          BY <1>3, <2>1
        <4> HIDE DEF cols
        <4>3. SumFunction(cols(s)) = 0
          BY <4>1, <4>2, SumZero
        <4>4. SumFunction(Restrict(rows, s)) = 0
          BY <1>1, <3>1, SumRestrict
        <4>5. QED
          BY <2>1, <4>3, <4>4
      <3>2. QED
        BY <3>1
    <2>3. PICK t \in SUBSET S : t = s \ {x}
      BY <2>1
    <2>4. SumFunction(Restrict(rows, t)) = SumFunction(cols(t))
      <3>1. t \notin Bad
        <4> HIDE DEF Bad
        <4>1. QED
          BY <2>1, <2>2, <2>3 DEF Smallest
      <3> HIDE DEF cols
      <3>2. QED
        BY <3>1
    <2>5. SumFunction(Restrict(rows, s)) = SumFunction(a[x]) + SumFunction(Restrict(rows, t))
      BY <1>1, <2>1, <2>2, <2>3, SumRestrict
    <2>6. \A y \in T : cols(s)[y] = a[x][y] + cols(t)[y]
      <3> SUFFICES ASSUME NEW y \in T PROVE cols(s)[y] = a[x][y] + cols(t)[y]
        OBVIOUS
      <3>1. SumFunction(Restrict(col(y), s)) = col(y)[x] + SumFunction(Restrict(col(y), t))
        <4>1. PICK c \in [S -> Int] : c = col(y)
          BY <1>2
        <4>2. SumFunction(Restrict(c, s)) = c[x] + SumFunction(Restrict(c, s \ {x}))
          BY <2>1, <2>2, SumRestrict
        <4>3. QED
          BY <2>3, <4>1, <4>2
      <3>2. cols(s)[y] = SumFunction(Restrict(col(y), s)) /\ cols(t)[y] = SumFunction(Restrict(col(y), t))
        BY <1>3, <2>1
      <3>3. QED
        BY <1>2, <2>1, <2>2, <3>1, <3>2
    <2>7. cols(s) \in [T -> Int] /\ cols(t) \in [T -> Int] /\ a[x] \in [T -> Int]
      BY <1>3, <2>1, <2>2, <2>3
    <2> HIDE DEF cols
    <2>8. SumFunction(cols(s)) = SumFunction(a[x]) + SumFunction(cols(t))
      BY <2>6, <2>7, SumPlus
    <2>9. QED
      BY <2>1, <2>4, <2>5, <2>8
  <1>5. Restrict(rows, S) = rows /\ cols(S) = [y \in T |-> SumFunction(col(y))]
    BY <1>1, <1>2, RestrictType
  <1>6. SumFunction(rows) = SumFunction([y \in T |-> SumFunction(col(y))])
    BY <1>4, <1>5
  <1>7. QED
    BY <1>6 DEF rows, col
=============================================================================
