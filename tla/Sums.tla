-------------------------------- MODULE Sums --------------------------------
(***************************************************************************)
(* The laws of SumFunctionOnSet(f, S), the sum of f over a finite set S,   *)
(* which the invariants about stock, prices and attempts are made of.      *)
(*                                                                         *)
(* The library defines the sum by recursion over the subsets of S, taking  *)
(* CHOOSE's element first.  That such a function exists, and is the only   *)
(* one, is proved here by induction over finite sets, in the form that a   *)
(* first-order prover can use: a set of counterexamples has a smallest one.*)
(***************************************************************************)
EXTENDS Functions, FiniteSetTheorems, TLAPS

(* The element that the definition of a sum takes first.                   *)
Pick(T) == CHOOSE x \in T : TRUE

(* g is the function of subsets of S by which the sum over S is defined.   *)
Sums(g, f, S) ==
    g = [T \in SUBSET S |-> IF T = {} THEN 0 ELSE f[Pick(T)] + g[T \ {Pick(T)}]]

(* The sum is that function's value for the whole set.                     *)
LEMMA SumDefinition ==
    ASSUME NEW f, NEW S
    PROVE  SumFunctionOnSet(f, S) = (CHOOSE g : Sums(g, f, S))[S]
  BY DEF SumFunctionOnSet, FoldFunctionOnSet, MapThenFoldSet, Sums, Pick

(* What is picked from a set is in it.                                     *)
LEMMA PickIsMember == ASSUME NEW T, T # {} PROVE Pick(T) \in T
  BY DEF Pick

(* Induction over finite sets: among any subsets of S there is a smallest. *)
LEMMA SmallestSet ==
    ASSUME NEW S, IsFiniteSet(S), NEW B \in SUBSET SUBSET S, B # {}
    PROVE  \E T \in B : \A U \in B : U \subseteq T => U = T
  <1>1. IsWellFoundedOn(StrictSubsetOrdering(S), FiniteSubsetsOf(S))
    BY FS_StrictSubsetOrderingWellFounded
  <1>2. B \subseteq FiniteSubsetsOf(S)
    BY FS_FiniteSubsetsOfFinite
  <1>3. PICK T \in B : \A U \in B : <<U, T>> \notin StrictSubsetOrdering(S)
    BY <1>1, <1>2, WFMin
  <1>4. ASSUME NEW U \in B, U \subseteq T PROVE U = T
    BY <1>3, <1>4 DEF StrictSubsetOrdering
  <1> QED
    BY <1>4

(* Among any natural numbers there is a least.                             *)
LEMMA SmallestNumber ==
    ASSUME NEW S \in SUBSET Nat, S # {}
    PROVE  \E k \in S : \A i \in S : k <= i
  <1>1. PICK n \in S : TRUE
    OBVIOUS
  <1> DEFINE Below(i) == 0..i
             low == {i \in S : i <= n}
             B == {Below(i) : i \in low}
  <1>2. IsFiniteSet(Below(n)) /\ B \in SUBSET SUBSET Below(n) /\ B # {}
    <2>1. n \in low /\ n \in Nat
      OBVIOUS
    <2>2. \A i \in low : Below(i) \subseteq Below(n)
      OBVIOUS
    <2>3. IsFiniteSet(Below(n))
      BY <2>1, FS_Interval
    <2> HIDE DEF Below, low
    <2>4. B # {}
      BY <2>1
    <2> QED
      BY <2>2, <2>3, <2>4
  <1>3. PICK T \in B : \A U \in B : U \subseteq T => U = T
    <2> HIDE DEF B, Below
    <2> QED
      BY <1>2, SmallestSet
  <1>4. PICK k \in S : k <= n /\ T = 0..k
    OBVIOUS
  <1>5. ASSUME NEW i \in S, i < k
        PROVE  FALSE
    <2>1. 0..i \in B /\ 0..i \subseteq T
      BY <1>4, <1>5
    <2>2. 0..i = 0..k
      BY <1>3, <1>4, <2>1
    <2>3. k \in 0..k /\ k \notin 0..i
      BY <1>5
    <2> QED
      BY <2>2, <2>3
  <1> QED
    BY <1>4, <1>5

(* The function for S gives the one for a subset of S.                     *)
LEMMA SumsRestrict ==
    ASSUME NEW f, NEW S, NEW g, Sums(g, f, S), NEW T \in SUBSET S
    PROVE  Sums([U \in SUBSET T |-> g[U]], f, T)
  <1> DEFINE h == [U \in SUBSET T |-> g[U]]
  <1>1. ASSUME NEW U \in SUBSET T
        PROVE  h[U] = IF U = {} THEN 0 ELSE f[Pick(U)] + h[U \ {Pick(U)}]
    BY DEF Sums
  <1> QED
    BY <1>1 DEF Sums

(* There is one such function at most.                                     *)
LEMMA SumsUnique ==
    ASSUME NEW f, NEW S, IsFiniteSet(S), NEW g, NEW h, Sums(g, f, S), Sums(h, f, S)
    PROVE  g = h
  <1> DEFINE B == {T \in SUBSET S : g[T] # h[T]}
  <1>1. SUFFICES ASSUME B # {} PROVE FALSE
    BY DEF Sums
  <1>2. PICK T \in B : \A U \in B : U \subseteq T => U = T
    <2>1. B \in SUBSET SUBSET S
      OBVIOUS
    <2> HIDE DEF B
    <2> QED
      BY <1>1, <2>1, SmallestSet
  <1>3. /\ g[T] = IF T = {} THEN 0 ELSE f[Pick(T)] + g[T \ {Pick(T)}]
        /\ h[T] = IF T = {} THEN 0 ELSE f[Pick(T)] + h[T \ {Pick(T)}]
    BY DEF Sums
  <1>4. T # {} /\ T \ {Pick(T)} # T
    BY <1>3, PickIsMember
  <1>5. g[T \ {Pick(T)}] = h[T \ {Pick(T)}]
    BY <1>2, <1>4
  <1> QED
    BY <1>3, <1>4, <1>5

(* There is one: below a smallest set that has none, the functions of the  *)
(* smaller sets fit together.                                              *)
LEMMA SumsExist ==
    ASSUME NEW f, NEW S, IsFiniteSet(S)
    PROVE  \E g : Sums(g, f, S)
  <1> DEFINE B == {T \in SUBSET S : ~\E g : Sums(g, f, T)}
             part[T \in SUBSET S] == CHOOSE g : Sums(g, f, T)
  <1>1. SUFFICES ASSUME B # {} PROVE FALSE
    OBVIOUS
  <1>2. PICK T \in B : \A U \in B : U \subseteq T => U = T
    <2>1. B \in SUBSET SUBSET S
      OBVIOUS
    <2> HIDE DEF B
    <2> QED
      BY <1>1, <2>1, SmallestSet
  <1>3. ASSUME NEW U \in SUBSET T, U # T PROVE Sums(part[U], f, U)
    BY <1>2, <1>3
  <1> DEFINE total(U) == IF U = {} THEN 0
                         ELSE f[Pick(U)] + part[U \ {Pick(U)}][U \ {Pick(U)}]
             h == [U \in SUBSET T |-> total(U)]
  <1>4. ASSUME NEW U \in SUBSET T, U # T PROVE h[U] = part[U][U]
    <2>1. Sums(part[U], f, U)
      BY <1>3, <1>4
    <2>2. CASE U = {}
      BY <2>1, <2>2 DEF Sums
    <2>3. CASE U # {}
      <3> DEFINE W == U \ {Pick(U)}
      <3>1. W \in SUBSET U /\ W # T /\ IsFiniteSet(W)
        BY <1>4, <2>3, PickIsMember, FS_Subset
      <3>2. Sums([V \in SUBSET W |-> part[U][V]], f, W) /\ Sums(part[W], f, W)
        BY <1>3, <2>1, <3>1, SumsRestrict
      <3>3. part[W] = [V \in SUBSET W |-> part[U][V]]
        BY <3>1, <3>2, SumsUnique
      <3>4. part[W][W] = part[U][W]
        BY <3>3
      <3>5. part[U][U] = f[Pick(U)] + part[U][W]
        BY <2>1, <2>3 DEF Sums
      <3> QED
        BY <2>3, <3>4, <3>5
    <2> QED
      BY <2>2, <2>3
  <1>5. ASSUME NEW U \in SUBSET T
        PROVE  h[U] = IF U = {} THEN 0 ELSE f[Pick(U)] + h[U \ {Pick(U)}]
    <2>1. CASE U = {}
      BY <2>1
    <2>2. CASE U # {}
      <3> DEFINE W == U \ {Pick(U)}
      <3>1. W \in SUBSET T /\ W # T
        BY <2>2, PickIsMember
      <3>2. h[W] = part[W][W]
        BY <1>4, <3>1
      <3>3. h[U] = f[Pick(U)] + part[W][W]
        BY <2>2
      <3> HIDE DEF h
      <3> QED
        BY <2>2, <3>2, <3>3
    <2> QED
      BY <2>1, <2>2
  <1>6. Sums(h, f, T)
    <2>1. h = [U \in SUBSET T |-> h[U]]
      OBVIOUS
    <2> HIDE DEF h
    <2> QED
      BY <1>5, <2>1 DEF Sums
  <1> QED
    BY <1>2, <1>6

-----------------------------------------------------------------------------
(* Nothing adds up to zero.                                                *)
LEMMA SumEmpty == ASSUME NEW f PROVE SumFunctionOnSet(f, {}) = 0
  <1>1. PICK g : Sums(g, f, {})
    BY SumsExist, FS_EmptySet
  <1>2. Sums(CHOOSE h : Sums(h, f, {}), f, {})
    BY <1>1
  <1> QED
    BY <1>2, SumDefinition DEF Sums

(* One element and the rest, for the element that is picked.               *)
LEMMA SumPick ==
    ASSUME NEW f, NEW S, IsFiniteSet(S), S # {}
    PROVE  SumFunctionOnSet(f, S)
             = f[Pick(S)] + SumFunctionOnSet(f, S \ {Pick(S)})
  <1> DEFINE T == S \ {Pick(S)}
             g == CHOOSE h : Sums(h, f, S)
             r == CHOOSE h : Sums(h, f, T)
  <1>1. IsFiniteSet(T) /\ T \in SUBSET S
    BY FS_Subset
  <1>2. Sums(g, f, S) /\ Sums(r, f, T)
    BY <1>1, SumsExist
  <1>3. Sums([U \in SUBSET T |-> g[U]], f, T)
    BY <1>1, <1>2, SumsRestrict
  <1>4. r = [U \in SUBSET T |-> g[U]]
    BY <1>1, <1>2, <1>3, SumsUnique
  <1>5. r[T] = g[T]
    BY <1>4
  <1>6. g[S] = f[Pick(S)] + g[T]
    BY <1>2 DEF Sums
  <1> QED
    BY <1>5, <1>6, SumDefinition

(* The sum of integers is one.                                             *)
LEMMA SumInt ==
    ASSUME NEW S, IsFiniteSet(S), NEW f, \A x \in S : f[x] \in Int
    PROVE  SumFunctionOnSet(f, S) \in Int
  <1> DEFINE B == {T \in SUBSET S : SumFunctionOnSet(f, T) \notin Int}
  <1>1. SUFFICES ASSUME B # {} PROVE FALSE
    OBVIOUS
  <1>2. PICK T \in B : \A U \in B : U \subseteq T => U = T
    <2>1. B \in SUBSET SUBSET S
      OBVIOUS
    <2> HIDE DEF B
    <2> QED
      BY <1>1, <2>1, SmallestSet
  <1>3. T # {} /\ IsFiniteSet(T)
    <2>1. T \in SUBSET S /\ SumFunctionOnSet(f, T) \notin Int
      OBVIOUS
    <2>2. SumFunctionOnSet(f, {}) \in Int
      BY SumEmpty
    <2>3. IsFiniteSet(T)
      BY <2>1, FS_Subset
    <2> HIDE DEF B
    <2> QED
      BY <2>1, <2>2, <2>3
  <1>4. Pick(T) \in T
    BY <1>3, PickIsMember
  <1>5. SumFunctionOnSet(f, T \ {Pick(T)}) \in Int
    BY <1>2, <1>4
  <1> QED
    BY <1>2, <1>3, <1>4, <1>5, SumPick

(* Any element may be taken first.                                         *)
LEMMA SumRemove ==
    ASSUME NEW S, IsFiniteSet(S), NEW f, \A x \in S : f[x] \in Int, NEW x \in S
    PROVE  SumFunctionOnSet(f, S) = f[x] + SumFunctionOnSet(f, S \ {x})
  <1> DEFINE Total(T) == SumFunctionOnSet(f, T)
             B == {T \in SUBSET S : \E y \in T : Total(T) # f[y] + Total(T \ {y})}
  <1>1. SUFFICES ASSUME B # {} PROVE FALSE
    OBVIOUS
  <1>2. PICK T \in B : \A U \in B : U \subseteq T => U = T
    <2>1. B \in SUBSET SUBSET S
      OBVIOUS
    <2> HIDE DEF B
    <2> QED
      BY <1>1, <2>1, SmallestSet
  <1>3. PICK y \in T : Total(T) # f[y] + Total(T \ {y})
    BY <1>2
  <1> DEFINE z == Pick(T)
             U == T \ {y, z}
  <1>4. IsFiniteSet(T) /\ z \in T /\ z # y
    BY <1>3, PickIsMember, FS_Subset, SumPick
  <1>5. Total(T) = f[z] + Total(T \ {z})
    BY <1>3, <1>4, SumPick
  <1>6. Total(T \ {z}) = f[y] + Total(U)
    <2>1. T \ {z} \in SUBSET S /\ T \ {z} # T /\ y \in T \ {z}
      BY <1>4
    <2>2. T \ {z} \notin B
      BY <1>2, <2>1
    <2>3. (T \ {z}) \ {y} = U
      OBVIOUS
    <2> HIDE DEF U, z
    <2> QED
      BY <2>1, <2>2, <2>3
  <1>7. Total(T \ {y}) = f[z] + Total(U)
    <2>1. T \ {y} \in SUBSET S /\ T \ {y} # T /\ z \in T \ {y}
      BY <1>4
    <2>2. T \ {y} \notin B
      BY <1>2, <2>1
    <2>3. (T \ {y}) \ {z} = U
      OBVIOUS
    <2> HIDE DEF U, z
    <2> QED
      BY <2>1, <2>2, <2>3
  <1>8. f[y] \in Int /\ f[z] \in Int /\ Total(U) \in Int
    <2>1. U \in SUBSET S /\ IsFiniteSet(U)
      BY FS_Subset
    <2> QED
      BY <1>4, <2>1, SumInt
  <1> HIDE DEF Total, U, z
  <1> QED
    BY <1>3, <1>5, <1>6, <1>7, <1>8

(* A sum depends on the values that are added up only.                     *)
LEMMA SumEqual ==
    ASSUME NEW S, IsFiniteSet(S), NEW f, NEW g, \A x \in S : f[x] = g[x]
    PROVE  SumFunctionOnSet(f, S) = SumFunctionOnSet(g, S)
  <1> DEFINE B == {T \in SUBSET S : SumFunctionOnSet(f, T) # SumFunctionOnSet(g, T)}
  <1>1. SUFFICES ASSUME B # {} PROVE FALSE
    OBVIOUS
  <1>2. PICK T \in B : \A U \in B : U \subseteq T => U = T
    <2>1. B \in SUBSET SUBSET S
      OBVIOUS
    <2> HIDE DEF B
    <2> QED
      BY <1>1, <2>1, SmallestSet
  <1>3. T # {}
    BY <1>2, SumEmpty
  <1>4. IsFiniteSet(T) /\ Pick(T) \in T
    BY <1>3, PickIsMember, FS_Subset
  <1>5. SumFunctionOnSet(f, T \ {Pick(T)}) = SumFunctionOnSet(g, T \ {Pick(T)})
    BY <1>2, <1>4
  <1>6. f[Pick(T)] = g[Pick(T)]
    BY <1>4
  <1> QED
    BY <1>2, <1>3, <1>4, <1>5, <1>6, SumPick

(* When one value changes, the sum changes by as much.                     *)
LEMMA SumChange ==
    ASSUME NEW S, IsFiniteSet(S), NEW f, NEW g, NEW x \in S,
           \A y \in S : f[y] \in Int /\ g[y] \in Int,
           \A y \in S \ {x} : g[y] = f[y]
    PROVE  SumFunctionOnSet(g, S) = SumFunctionOnSet(f, S) + g[x] - f[x]
  <1> DEFINE T == S \ {x}
  <1>1. IsFiniteSet(T)
    BY FS_Subset
  <1>2. SumFunctionOnSet(g, T) = SumFunctionOnSet(f, T)
    BY <1>1, SumEqual
  <1>3. SumFunctionOnSet(f, T) \in Int
    BY <1>1, SumInt
  <1>4. /\ SumFunctionOnSet(f, S) = f[x] + SumFunctionOnSet(f, T)
        /\ SumFunctionOnSet(g, S) = g[x] + SumFunctionOnSet(g, T)
    BY SumRemove
  <1> QED
    BY <1>2, <1>3, <1>4

(* Sums of smaller values are smaller.                                     *)
LEMMA SumMonotone ==
    ASSUME NEW S, IsFiniteSet(S), NEW f, NEW g,
           \A x \in S : f[x] \in Int /\ g[x] \in Int /\ f[x] <= g[x]
    PROVE  SumFunctionOnSet(f, S) <= SumFunctionOnSet(g, S)
  <1> DEFINE B == {T \in SUBSET S :
                     ~(SumFunctionOnSet(f, T) <= SumFunctionOnSet(g, T))}
  <1>1. SUFFICES ASSUME B # {} PROVE FALSE
    OBVIOUS
  <1>2. PICK T \in B : \A U \in B : U \subseteq T => U = T
    <2>1. B \in SUBSET SUBSET S
      OBVIOUS
    <2> HIDE DEF B
    <2> QED
      BY <1>1, <2>1, SmallestSet
  <1>3. T # {}
    <2>1. ~(SumFunctionOnSet(f, T) <= SumFunctionOnSet(g, T))
      OBVIOUS
    <2>2. SumFunctionOnSet(f, {}) = 0 /\ SumFunctionOnSet(g, {}) = 0
      BY SumEmpty
    <2> HIDE DEF B
    <2> QED
      BY <2>1, <2>2
  <1>4. IsFiniteSet(T) /\ Pick(T) \in T
    BY <1>3, PickIsMember, FS_Subset
  <1> DEFINE U == T \ {Pick(T)}
  <1>5. U \in SUBSET S /\ U # T /\ IsFiniteSet(U)
    BY <1>4, FS_Subset
  <1>6. SumFunctionOnSet(f, U) <= SumFunctionOnSet(g, U)
    BY <1>2, <1>5
  <1>7. SumFunctionOnSet(f, U) \in Int /\ SumFunctionOnSet(g, U) \in Int
    BY <1>5, SumInt
  <1>8. /\ SumFunctionOnSet(f, T) = f[Pick(T)] + SumFunctionOnSet(f, U)
        /\ SumFunctionOnSet(g, T) = g[Pick(T)] + SumFunctionOnSet(g, U)
    BY <1>3, <1>4, SumPick
  <1>9. /\ f[Pick(T)] \in Int /\ g[Pick(T)] \in Int /\ f[Pick(T)] <= g[Pick(T)]
        /\ ~(SumFunctionOnSet(f, T) <= SumFunctionOnSet(g, T))
    BY <1>2, <1>4
  <1> HIDE DEF U
  <1> QED
    BY <1>6, <1>7, <1>8, <1>9

(* Zeros add nothing.                                                      *)
LEMMA SumSupport ==
    ASSUME NEW S, IsFiniteSet(S), NEW f, NEW T \in SUBSET S,
           \A x \in S : f[x] \in Int, \A x \in S \ T : f[x] = 0
    PROVE  SumFunctionOnSet(f, S) = SumFunctionOnSet(f, T)
  <1> DEFINE B == {U \in SUBSET S :
                     T \subseteq U /\ SumFunctionOnSet(f, U) # SumFunctionOnSet(f, T)}
  <1>1. SUFFICES ASSUME B # {} PROVE FALSE
    OBVIOUS
  <1>2. PICK U \in B : \A V \in B : V \subseteq U => V = U
    <2>1. B \in SUBSET SUBSET S
      OBVIOUS
    <2> HIDE DEF B
    <2> QED
      BY <1>1, <2>1, SmallestSet
  <1>3. PICK x \in U \ T : TRUE
    BY <1>2
  <1> DEFINE W == U \ {x}
  <1>4. SumFunctionOnSet(f, W) = SumFunctionOnSet(f, T)
    BY <1>2, <1>3
  <1>5. IsFiniteSet(U) /\ IsFiniteSet(W)
    BY FS_Subset
  <1>6. SumFunctionOnSet(f, U) = f[x] + SumFunctionOnSet(f, W)
    BY <1>3, <1>5, SumRemove
  <1>7. f[x] = 0 /\ SumFunctionOnSet(f, W) \in Int
    BY <1>3, <1>5, SumInt
  <1> HIDE DEF W
  <1> QED
    BY <1>2, <1>4, <1>6, <1>7

(* Zeros add up to zero.                                                   *)
LEMMA SumZero ==
    ASSUME NEW S, IsFiniteSet(S), NEW f, \A x \in S : f[x] = 0
    PROVE  SumFunctionOnSet(f, S) = 0
  <1>1. SumFunctionOnSet(f, S) = SumFunctionOnSet(f, {})
    BY SumSupport
  <1> QED
    BY <1>1, SumEmpty

(* A sum of natural numbers is one, and none of them exceeds it.           *)
LEMMA SumNat ==
    ASSUME NEW S, IsFiniteSet(S), NEW f, \A x \in S : f[x] \in Nat
    PROVE  /\ SumFunctionOnSet(f, S) \in Nat
           /\ \A x \in S : f[x] <= SumFunctionOnSet(f, S)
  <1> DEFINE zero == [x \in S |-> 0]
  <1>1. ASSUME NEW T \in SUBSET S PROVE SumFunctionOnSet(f, T) \in Nat
    <2>1. IsFiniteSet(T)
      BY FS_Subset
    <2>2. SumFunctionOnSet(zero, T) = 0
      BY <2>1, SumZero
    <2>3. SumFunctionOnSet(zero, T) <= SumFunctionOnSet(f, T)
      BY <2>1, SumMonotone
    <2>4. SumFunctionOnSet(f, T) \in Int
      BY <2>1, SumInt
    <2> QED
      BY <2>2, <2>3, <2>4
  <1>2. ASSUME NEW x \in S PROVE f[x] <= SumFunctionOnSet(f, S)
    <2>1. SumFunctionOnSet(f, S) = f[x] + SumFunctionOnSet(f, S \ {x})
      BY SumRemove
    <2>2. SumFunctionOnSet(f, S \ {x}) \in Nat
      BY <1>1
    <2> QED
      BY <2>1, <2>2
  <1> QED
    BY <1>1, <1>2
(* A part of a sum of natural numbers does not exceed it.                  *)
LEMMA SumSubset ==
    ASSUME NEW S, IsFiniteSet(S), NEW f, \A x \in S : f[x] \in Nat,
           NEW T \in SUBSET S
    PROVE  SumFunctionOnSet(f, T) <= SumFunctionOnSet(f, S)
  <1> DEFINE part == [x \in S |-> IF x \in T THEN f[x] ELSE 0]
  <1>1. IsFiniteSet(T)
    BY FS_Subset
  <1>2. /\ \A x \in T : f[x] = part[x]
        /\ \A x \in S \ T : part[x] = 0
        /\ \A x \in S : part[x] \in Int /\ f[x] \in Int /\ part[x] <= f[x]
    OBVIOUS
  <1> HIDE DEF part
  <1>3. SumFunctionOnSet(f, T) = SumFunctionOnSet(part, T)
    BY <1>1, <1>2, SumEqual
  <1>4. SumFunctionOnSet(part, S) = SumFunctionOnSet(part, T)
    BY <1>2, SumSupport
  <1>5. SumFunctionOnSet(part, S) <= SumFunctionOnSet(f, S)
    BY <1>2, SumMonotone
  <1> QED
    BY <1>3, <1>4, <1>5

(* The same numbers under other names have the same sum.                   *)
LEMMA SumReindex ==
    ASSUME NEW S, IsFiniteSet(S), NEW f, NEW g, NEW h,
           \A x, y \in S : h[x] = h[y] => x = y,
           \A x \in S : f[x] \in Int /\ g[h[x]] = f[x]
    PROVE  SumFunctionOnSet(f, S) = SumFunctionOnSet(g, {h[x] : x \in S})
  <1> DEFINE Image(T) == {h[x] : x \in T}
             B == {T \in SUBSET S :
                     SumFunctionOnSet(f, T) # SumFunctionOnSet(g, Image(T))}
  <1>1. SUFFICES ASSUME B # {} PROVE FALSE
    OBVIOUS
  <1>2. PICK T \in B : \A U \in B : U \subseteq T => U = T
    <2>1. B \in SUBSET SUBSET S
      OBVIOUS
    <2> HIDE DEF B
    <2> QED
      BY <1>1, <2>1, SmallestSet
  <1>3. T # {}
    <2>1. Image({}) = {}
      OBVIOUS
    <2> QED
      BY <1>2, <2>1, SumEmpty
  <1> DEFINE x == Pick(T)
             U == T \ {x}
  <1>4. IsFiniteSet(T) /\ x \in T /\ x \in S
    BY <1>3, PickIsMember, FS_Subset
  <1>5. SumFunctionOnSet(f, U) = SumFunctionOnSet(g, Image(U))
    BY <1>2, <1>4
  <1>6. /\ IsFiniteSet(Image(T)) /\ h[x] \in Image(T)
        /\ \A y \in Image(T) : g[y] \in Int
        /\ Image(T) \ {h[x]} = Image(U)
        /\ g[h[x]] = f[x]
    <2>1. IsFiniteSet(Image(T))
      <3>1. [y \in T |-> h[y]] \in Surjection(T, Image(T))
        BY DEF Surjection
      <3> QED
        BY <1>4, <3>1, FS_Surjection
    <2> QED
      BY <1>4, <2>1
  <1>7. SumFunctionOnSet(f, T) = f[x] + SumFunctionOnSet(f, U)
    BY <1>3, <1>4, SumPick
  <1>8. SumFunctionOnSet(g, Image(T)) = SumFunctionOnSet(f, T)
    <2> HIDE DEF Image
    <2>1. SumFunctionOnSet(g, Image(T))
            = g[h[x]] + SumFunctionOnSet(g, Image(T) \ {h[x]})
      BY <1>6, SumRemove
    <2> QED
      BY <1>5, <1>6, <1>7, <2>1
  <1> QED
    BY <1>2, <1>8
=============================================================================
