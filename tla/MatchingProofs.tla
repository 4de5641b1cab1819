---------------------------- MODULE MatchingProofs ----------------------------
(***************************************************************************)
(* What the suggestions and the two reviews can be relied on for, with any *)
(* number of products and variants: what scores enough is looked at, what  *)
(* is offered agrees, and a review on which every pair is ticked goes      *)
(* through.                                                                *)
(***************************************************************************)
EXTENDS MCCatalogue, FiniteSetTheorems, TLAPS

-----------------------------------------------------------------------------
(* The score of a pair.                                                    *)

(* A quotient that is rounded is at least k when the fraction is, less a   *)
(* half.                                                                   *)
LEMMA RoundedAtLeast ==
    ASSUME NEW n \in Nat, NEW d \in Nat \ {0}, NEW k \in Nat
    PROVE  /\ Match!Rounded(n, d) \in Nat
           /\ Match!Rounded(n, d) >= k <=> 2 * n + d >= k * (2 * d)
  <1> DEFINE a == 2 * n + d
             b == 2 * d
             q == a \div b
  <1>1. a \in Nat /\ b \in Nat \ {0}
    OBVIOUS
  <1> HIDE DEF a, b
  <1>2. q \in Nat /\ q * b <= a /\ a < (q + 1) * b
    BY <1>1
  <1> HIDE DEF q
  <1>3. q >= k => a >= k * b
    <2> SUFFICES ASSUME q >= k PROVE a >= k * b
      OBVIOUS
    <2>1. PICK e \in Nat : q = k + e
      BY <1>2
    <2>2. q * b = k * b + e * b /\ e * b >= 0
      BY <1>1, <2>1
    <2> QED
      BY <1>1, <1>2, <2>2
  <1>4. a >= k * b => q >= k
    <2> SUFFICES ASSUME q < k PROVE a < k * b
      BY <1>1, <1>2
    <2>1. PICK e \in Nat : k = (q + 1) + e
      BY <1>2
    <2>2. k * b = (q + 1) * b + e * b /\ e * b >= 0
      BY <1>1, <1>2, <2>1
    <2> QED
      BY <1>1, <1>2, <2>2
  <1> QED
    BY <1>2, <1>3, <1>4 DEF Match!Rounded, a, b, q

(* What may be said of a product and of a variant, and how alike two       *)
(* brands may be.                                                          *)
KnownRow == [brand : Brands \cup {NoBrand}, words : SUBSET (Words \cup Brands),
             size : Sizes, accessory : BOOLEAN]
KnownOnline == [brand : Brands \cup {NoBrand}, words : SUBSET Words,
                label : SUBSET Words, size : Sizes]
Stated ==
    /\ row \in [Skus -> KnownRow]
    /\ candidate \in [Variants -> KnownOnline]
    /\ \A b, c \in Brands :
          likeness[<<b, c>>] \in IF b = c THEN {1000} ELSE Ratios

LEMMA BrandPart ==
    ASSUME Stated, NEW s \in Skus, NEW v \in Variants
    PROVE  /\ Match!BrandComponent(s, v) \in (0 .. 1000) \ {713, 714}
           /\ Match!OtherBrand(s, v) => Match!BrandComponent(s, v) < 600
  <1>1. row[s].brand \in Brands \cup {NoBrand} /\ candidate[v].brand \in Brands \cup {NoBrand}
    BY DEF Stated, KnownRow, KnownOnline
  <1>2. Match!BrandSimilarity(s, v) \in {NoBrand} \cup Ratios
    <2>1. CASE candidate[v].brand = NoBrand
      BY <2>1 DEF Match!BrandSimilarity
    <2>2. CASE candidate[v].brand # NoBrand /\ row[s].brand # NoBrand
      <3>1. likeness[<<row[s].brand, candidate[v].brand>>] \in Ratios
        BY <1>1, <2>2 DEF Stated, Ratios
      <3> QED
        BY <2>2, <3>1 DEF Match!BrandSimilarity
    <2>3. CASE candidate[v].brand # NoBrand /\ row[s].brand = NoBrand
      BY <2>3 DEF Match!BrandSimilarity, Match!UNKNOWN_BRAND_SCORE, Ratios
    <2> QED
      BY <2>1, <2>2, <2>3
  <1> DEFINE alike == Match!BrandSimilarity(s, v)
  <1>3. Match!BrandComponent(s, v) = IF alike = NoBrand THEN 500 ELSE alike
    BY DEF Match!BrandComponent
  <1>4. Match!OtherBrand(s, v) <=> alike # NoBrand /\ alike < 600
    BY DEF Match!OtherBrand, Match!BRAND_MATCH_FLOOR
  <1> HIDE DEF alike
  <1>5. alike \in {NoBrand} \cup Ratios
    BY <1>2 DEF alike
  <1> QED
    BY <1>3, <1>4, <1>5 DEF Ratios

LEMMA FewWords == IsFiniteSet(Words \cup Brands)
  <1>1. Words = {"noor"} \cup ({"oud"} \cup {"gift set"}) /\ Brands = {"afnan"} \cup {"rasasi"}
    BY DEF Words, Brands
  <1>2. \A w : IsFiniteSet({w})
    BY FS_Singleton
  <1>3. IsFiniteSet({"oud"} \cup {"gift set"}) /\ IsFiniteSet({"afnan"} \cup {"rasasi"})
    BY <1>2, FS_Union
  <1>4. IsFiniteSet(Words)
    BY <1>1, <1>2, <1>3, FS_Union
  <1> QED
    BY <1>1, <1>3, <1>4, FS_Union

(* The words that match are words of either side.                          *)
LEMMA NamePart ==
    ASSUME Stated, NEW s \in Skus, NEW v \in Variants
    PROVE  /\ Match!Length(s, v) \in Nat \ {0}
           /\ Match!Matched(s, v) \in 0 .. Match!Length(s, v)
           /\ Match!PosTokens(s) = Match!CandidateTokens(s, v) /\ Match!PosTokens(s) # {}
                 => Match!Matched(s, v) = Match!Length(s, v)
  <1> DEFINE A == Match!PosTokens(s)
             B == Match!CandidateTokens(s, v)
  <1>1. A \in SUBSET (Words \cup Brands) /\ B \in SUBSET (Words \cup Brands)
    BY DEF Stated, KnownRow, KnownOnline, Match!PosTokens, Match!CandidateTokens
  <1>2. /\ Match!Matched(s, v) = 2 * Match!Cardinality(A \cap B)
        /\ Match!Length(s, v) = IF A = {} /\ B = {} THEN 1
                                ELSE Match!Cardinality(A) + Match!Cardinality(B)
    BY DEF Match!Matched, Match!Length
  <1> HIDE DEF A, B
  <1>3. IsFiniteSet(A) /\ IsFiniteSet(B)
    BY <1>1, FewWords, FS_Subset
  <1>4. /\ A \cap B \subseteq A /\ A \cap B \subseteq B
    OBVIOUS
  <1>5. /\ IsFiniteSet(A \cap B)
        /\ Cardinality(A \cap B) <= Cardinality(A)
        /\ Cardinality(A \cap B) <= Cardinality(B)
    BY <1>3, <1>4, FS_Subset
  <1>6. /\ Cardinality(A) \in Nat /\ Cardinality(B) \in Nat /\ Cardinality(A \cap B) \in Nat
        /\ Cardinality(A) = 0 <=> A = {}
        /\ Cardinality(B) = 0 <=> B = {}
    BY <1>3, <1>5, FS_CardinalityType, FS_EmptySet
  <1>7. \A U : Match!Cardinality(U) = Cardinality(U)
    BY DEF Cardinality, Match!Cardinality
  <1>8. /\ Match!Matched(s, v) = 2 * Cardinality(A \cap B)
        /\ Match!Length(s, v) = IF A = {} /\ B = {} THEN 1
                                ELSE Cardinality(A) + Cardinality(B)
    BY <1>2, <1>7
  <1>9. CASE A = {} /\ B = {}
    <2>1. Cardinality(A \cap B) = 0
      BY <1>5, <1>6, <1>9
    <2> QED
      BY <1>8, <1>9, <2>1 DEF A
  <1>10. CASE ~(A = {} /\ B = {})
    <2>1. A = B => A \cap B = A
      OBVIOUS
    <2>2. A = B => Cardinality(A \cap B) = Cardinality(A) /\ Cardinality(B) = Cardinality(A)
      BY <2>1
    <2>3. /\ Match!Length(s, v) \in Nat \ {0}
          /\ Match!Matched(s, v) \in 0 .. Match!Length(s, v)
          /\ A = B => Match!Matched(s, v) = Match!Length(s, v)
      BY <1>5, <1>6, <1>8, <1>10, <2>2
    <2> QED
      BY <2>3 DEF A, B
  <1> QED
    BY <1>9, <1>10

(* What a score is made of.                                                *)
LEMMA ScoreFactors ==
    ASSUME Stated, NEW s \in Skus, NEW v \in Variants
    PROVE  /\ Match!SizeBonus(s, v) \in {0, 100}
           /\ Match!SizeFactor(s, v) \in {4, 10}
           /\ Match!BrandFactor(s, v) \in {3, 10}
           /\ Match!BrandFactor(s, v) = 3 => Match!BrandComponent(s, v) < 600
  BY BrandPart DEF Match!SizeBonus, Match!SIZE_BONUS, Match!SizeFactor, Match!BrandFactor

LEMMA WeightedIs ==
    ASSUME NEW s, NEW v
    PROVE  Match!Weighted(s, v) =
                 (350 * Match!BrandComponent(s, v) * Match!Length(s, v)
                  + 550 * 1000 * Match!Matched(s, v)
                  + Match!SizeBonus(s, v) * 1000 * Match!Length(s, v))
                     * Match!SizeFactor(s, v) * Match!BrandFactor(s, v)
  BY Zenon DEF Match!Weighted, Match!BRAND_WEIGHT, Match!NAME_WEIGHT

LEMMA ScoreIs ==
    ASSUME NEW s, NEW v
    PROVE  Match!Score(s, v) =
               IF Match!SameKind(s, v)
               THEN Match!Rounded(Match!Weighted(s, v), Match!Length(s, v) * 100000) ELSE 0
  BY SMT DEF Match!Score

LEMMA PossibleIs ==
    ASSUME NEW s, NEW v, NEW min
    PROVE  Match!Possible(s, v, min) <=>
               (350 * Match!BrandComponent(s, v) + (550 + 100) * 1000)
                    * Match!BrandFactor(s, v) >= min * 10000
  BY SMT DEF Match!Possible, Match!BRAND_WEIGHT, Match!NAME_WEIGHT, Match!SIZE_BONUS

LEMMA ScoreIsNat ==
    ASSUME Stated, NEW s \in Skus, NEW v \in Variants
    PROVE  Match!Score(s, v) \in Nat
  <1> DEFINE alike == Match!BrandComponent(s, v)
             len == Match!Length(s, v)
             matched == Match!Matched(s, v)
             bonus == Match!SizeBonus(s, v)
             by_size == Match!SizeFactor(s, v)
             by_brand == Match!BrandFactor(s, v)
             all == Match!Weighted(s, v)
             score == Match!Score(s, v)
  <1>3. score = IF Match!SameKind(s, v) THEN Match!Rounded(all, len * 100000) ELSE 0
    BY ScoreIs
  <1>4. /\ alike \in 0 .. 1000 /\ len \in Nat \ {0} /\ matched \in 0 .. len
    BY BrandPart, NamePart
  <1>5. all = (350 * alike * len + 550 * 1000 * matched + bonus * 1000 * len)
                  * by_size * by_brand
    BY Zenon, WeightedIs
  <1>6. bonus \in {0, 100} /\ by_size \in {4, 10} /\ by_brand \in {3, 10}
    BY ScoreFactors
  <1> HIDE DEF alike, len, matched, bonus, by_size, by_brand, all, score
  <1>7. all \in Nat /\ len * 100000 \in Nat \ {0}
    <2>1. 350 * alike * len \in Nat /\ 550 * 1000 * matched \in Nat
          /\ bonus * 1000 * len \in Nat
      BY <1>4, <1>6
    <2> QED
      BY <1>4, <1>5, <1>6, <2>1
  <1>8. Match!Rounded(all, len * 100000) \in Nat
    <2>1. 0 \in Nat
      OBVIOUS
    <2> QED
      BY <1>7, <2>1, RoundedAtLeast
  <1>9. score \in Nat
    BY <1>3, <1>8
  <1> QED
    BY <1>9 DEF score

(* A pair that scores enough is one that its brand allows to: the name and *)
(* the size add no more than the bound supposes, and rounding lifts no     *)
(* score over a threshold but for two likenesses.                          *)
LEMMA ScoreMeans ==
    ASSUME Stated, NEW s \in Skus, NEW v \in Variants, NEW min \in {300, 650, 900},
           Match!Score(s, v) >= min
    PROVE  Match!Possible(s, v, min) /\ ~Match!OtherBrand(s, v) /\ Match!SameKind(s, v)
  <1> DEFINE alike == Match!BrandComponent(s, v)
             len == Match!Length(s, v)
             matched == Match!Matched(s, v)
             bonus == Match!SizeBonus(s, v)
             by_size == Match!SizeFactor(s, v)
             by_brand == Match!BrandFactor(s, v)
             all == Match!Weighted(s, v)
             rounded == Match!Rounded(all, len * 100000)
             same == Match!SameKind(s, v)
             possible == Match!Possible(s, v, min)
             bound == (350 * alike + (550 + 100) * 1000) * by_brand
             total == 350 * alike * len + 550 * 1000 * matched + bonus * 1000 * len
             most == 350 * alike + 650000
             most_len == most * len
  <1>1. Match!Score(s, v) = IF same THEN rounded ELSE 0
    BY ScoreIs
  <1>2. same /\ rounded >= min
    <2> HIDE DEF rounded, same
    <2> QED
      BY <1>1
  <1>3. /\ alike \in 0 .. 1000 /\ alike \notin {713, 714}
        /\ len \in Nat \ {0} /\ matched \in 0 .. len
    BY BrandPart, NamePart
  <1>4. /\ bonus \in {0, 100} /\ by_size \in {4, 10} /\ by_brand \in {3, 10}
        /\ by_brand = 3 => alike < 600
    BY ScoreFactors
  <1>5. all = (350 * alike * len + 550 * 1000 * matched + bonus * 1000 * len)
                  * by_size * by_brand
    BY Zenon, WeightedIs
  <1>6. possible <=> bound >= min * 10000
    BY PossibleIs
  <1>7. by_brand # 3 => ~Match!OtherBrand(s, v)
    BY Zenon DEF Match!BrandFactor
  <1> HIDE DEF alike, len, matched, bonus, by_size, by_brand, all, same, possible,
           bound
  <1>8. total \in Nat /\ most \in Nat /\ most_len \in Nat /\ total <= most_len
    <2>1. alike * len \in Nat /\ most_len = 350 * (alike * len) + 650000 * len
      BY <1>3
    <2>2. total = 350 * (alike * len) + 550000 * matched + bonus * 1000 * len
      BY <1>3, <1>4
    <2> QED
      BY <1>3, <1>4, <2>1, <2>2
  <1>9. all = total * by_size * by_brand
    BY <1>5
  <1> HIDE DEF total, most_len
  <1>10. all \in Nat /\ all <= most_len * 10 * by_brand
    BY <1>4, <1>8, <1>9
  <1>11. 2 * all + len * 100000 >= min * (2 * (len * 100000))
    <2> DEFINE d == len * 100000
    <2>1. d \in Nat \ {0} /\ min \in Nat
      BY <1>3
    <2>2. Match!Rounded(all, d) >= min
      BY <1>2
    <2> HIDE DEF d
    <2>3. 2 * all + d >= min * (2 * d)
      BY <1>10, <2>1, <2>2, RoundedAtLeast
    <2> QED
      BY <2>3 DEF d
  <1> HIDE DEF rounded
  <1>12. 20 * by_brand * most_len + 100000 * len >= 200000 * min * len
    BY <1>3, <1>4, <1>8, <1>10, <1>11
  <1>13. 20 * by_brand * most + 100000 >= 200000 * min
    <2> SUFFICES ASSUME 20 * by_brand * most + 100000 < 200000 * min PROVE FALSE
      BY <1>4, <1>8
    <2>1. (20 * by_brand * most + 100000) * len < (200000 * min) * len
      BY <1>3, <1>4, <1>8
    <2>2. (20 * by_brand * most + 100000) * len = 20 * by_brand * most_len + 100000 * len
      BY <1>3, <1>4, <1>8 DEF most_len
    <2> QED
      BY <1>3, <1>4, <1>8, <1>12, <2>1, <2>2
  <1>14. by_brand = 10
    BY <1>3, <1>4, <1>13
  <1>15. 2 * most >= 2000 * min - 1000
    BY <1>8, <1>13, <1>14
  <1>16. most >= 1000 * min
    BY <1>3, <1>15
  <1>17. bound >= min * 10000
    BY <1>3, <1>14, <1>16 DEF bound
  <1>18. possible
    BY <1>6, <1>17
  <1> QED
    BY <1>2, <1>7, <1>14, <1>18 DEF possible, same

-----------------------------------------------------------------------------
(* What the pages offer.                                                   *)

(* Another size scores 0.36.                                               *)
LEMMA OtherSizeScores ==
    ASSUME Stated, NEW s \in Skus, NEW v \in Variants,
           Match!SizeMismatch(s, v), row[s].brand = candidate[v].brand,
           row[s].brand # NoBrand,
           Match!PosTokens(s) # {}, Match!PosTokens(s) = Match!CandidateTokens(s, v),
           Match!SameKind(s, v)
    PROVE  Match!Score(s, v) >= 300
  <1> DEFINE len == Match!Length(s, v)
             n == (350 * 1000 * len + 550 * 1000 * len + 0 * 1000 * len) * 4 * 10
  <1>1. Match!BrandSimilarity(s, v) = 1000
    <2>1. row[s].brand \in Brands
      BY DEF Stated, KnownRow
    <2>2. likeness[<<row[s].brand, candidate[v].brand>>] = 1000
      BY <2>1 DEF Stated
    <2> QED
      BY <2>2 DEF Match!BrandSimilarity
  <1>2. Match!BrandComponent(s, v) = 1000 /\ Match!BrandFactor(s, v) = 10
    BY <1>1, NoneAssumption DEF Match!BrandComponent, Match!BrandFactor, Match!OtherBrand,
       Match!BRAND_MATCH_FLOOR
  <1>3. Match!SizeFactor(s, v) = 4 /\ Match!SizeBonus(s, v) = 0
    BY DEF Match!SizeFactor, Match!SizeMismatch, Match!SizeAgrees, Match!SizeBonus
  <1>4. Match!Matched(s, v) = len /\ len \in Nat \ {0}
    BY NamePart
  <1>5. Match!Weighted(s, v) = n
    <2> DEFINE alike == Match!BrandComponent(s, v)
               matched == Match!Matched(s, v)
               bonus == Match!SizeBonus(s, v)
               by_size == Match!SizeFactor(s, v)
               by_brand == Match!BrandFactor(s, v)
               all == Match!Weighted(s, v)
    <2>1. all = (350 * alike * len + 550 * 1000 * matched + bonus * 1000 * len)
                    * by_size * by_brand
      BY Zenon, WeightedIs
    <2>2. alike = 1000 /\ matched = len /\ bonus = 0 /\ by_size = 4 /\ by_brand = 10
      BY <1>2, <1>3, <1>4
    <2>3. Match!Weighted(s, v) = all
      OBVIOUS
    <2> HIDE DEF alike, matched, bonus, by_size, by_brand, all, len
    <2>4. all = n
      BY <2>1, <2>2
    <2> QED
      BY <2>3, <2>4
  <1> HIDE DEF n
  <1>6. Match!Score(s, v) = Match!Rounded(n, len * 100000)
    BY <1>5, ScoreIs
  <1> HIDE DEF len
  <1> USE DEF n
  <1>7. /\ n \in Nat /\ len * 100000 \in Nat \ {0} /\ 300 \in Nat
        /\ 2 * n + len * 100000 >= 300 * (2 * (len * 100000))
    BY <1>4
  <1> HIDE DEF n
  <1>8. Match!Rounded(n, len * 100000) >= 300
    <2> DEFINE d == len * 100000
    <2>1. d \in Nat \ {0} /\ 2 * n + d >= 300 * (2 * d)
      BY <1>7
    <2> HIDE DEF d
    <2>2. Match!Rounded(n, d) >= 300
      BY <1>7, <2>1, RoundedAtLeast
    <2> QED
      BY <2>2 DEF d
  <1> QED
    BY <1>6, <1>8

(* What is told of a pair that a review picked.                            *)
LEMMA ClearPick ==
    ASSUME Stated, NEW p \in Match!ClearPicks
    PROVE  /\ p \in Skus \X Variants /\ Match!Confirmable(p[1], p[2])
           /\ Match!Score(p[1], p[2]) >= 900
           /\ ~Match!SizeMismatch(p[1], p[2])
           /\ \A v \in Match!UnmappedVariants : Match!Score(p[1], v) >= 900 => v = p[2]
  <1>1. /\ p \in Skus \X Variants /\ p[1] \in Skus /\ p[2] \in Variants
        /\ p[1] \in Match!OpenRows /\ p[2] \in Match!UnmappedVariants
        /\ Match!Qualified(p[1], 900) = {p[2]}
        /\ ~Match!SizeMismatch(p[1], p[2])
    BY DEF Match!ClearPicks, Match!OpenRows, Match!UnmappedVariants,
           Match!BULK_CONFIRM_MIN_SCORE
  <1>2. Match!Confirmable(p[1], p[2])
    BY <1>1 DEF Match!Confirmable, Match!OpenRows
  <1>3. p[2] \in Match!Qualified(p[1], 900)
    BY <1>1
  <1>4. Match!Score(p[1], p[2]) >= 900
    BY <1>3 DEF Match!Qualified
  <1>5. ASSUME NEW v \in Match!UnmappedVariants, Match!Score(p[1], v) >= 900
        PROVE  v = p[2]
    <2>1. v \in Variants
      BY DEF Match!UnmappedVariants
    <2>2. Match!Possible(p[1], v, 900)
      BY <1>1, <1>5, <2>1, ScoreMeans
    <2>3. v \in Match!Qualified(p[1], 900)
      BY <1>5, <2>2 DEF Match!Qualified
    <2> QED
      BY <1>1, <2>3
  <1> QED
    BY <1>1, <1>2, <1>4, <1>5

LEMMA ProbablePick ==
    ASSUME Stated, NEW p \in Match!ProbablePicks
    PROVE  /\ p \in Skus \X Variants /\ Match!Confirmable(p[1], p[2])
           /\ Match!Score(p[1], p[2]) >= 700 /\ Match!Score(p[1], p[2]) < 900
           /\ ~Match!SizeMismatch(p[1], p[2])
           /\ \A v \in Match!UnmappedVariants \ {p[2]} :
                 Match!Score(p[1], v) + 50 <= Match!Score(p[1], p[2])
  <1> DEFINE ranked == Match!Qualified(p[1], 650)
  <1>1. Match!PROBABLE_MIN_SCORE - Match!PROBABLE_MARGIN = 650
    BY DEF Match!PROBABLE_MIN_SCORE, Match!PROBABLE_MARGIN
  <1>2. /\ p \in Skus \X Variants /\ p[1] \in Skus /\ p[2] \in Variants
        /\ p[1] \in Match!OpenRows /\ p[2] \in Match!UnmappedVariants
        /\ ~Match!SizeMismatch(p[1], p[2])
    BY DEF Match!ProbablePicks, Match!OpenRows, Match!UnmappedVariants
  <1>3. /\ Match!Score(p[1], p[2]) >= 700 /\ Match!Score(p[1], p[2]) < 900
        /\ \A u \in ranked \ {p[2]} :
              Match!Score(p[1], p[2]) - Match!Score(p[1], u) >= 50
    <2>1. /\ Match!PROBABLE_MIN_SCORE <= Match!Score(p[1], p[2])
          /\ Match!Score(p[1], p[2]) < Match!BULK_CONFIRM_MIN_SCORE
          /\ \A u \in Match!Qualified(p[1], Match!PROBABLE_MIN_SCORE - Match!PROBABLE_MARGIN)
                          \ {p[2]} :
                Match!Score(p[1], p[2]) - Match!Score(p[1], u) >= Match!PROBABLE_MARGIN
      BY DEF Match!ProbablePicks
    <2>2. Match!Score(p[1], p[2]) \in Nat
      BY <1>2, ScoreIsNat
    <2> QED
      BY <1>1, <2>1, <2>2 DEF Match!PROBABLE_MIN_SCORE, Match!PROBABLE_MARGIN,
         Match!BULK_CONFIRM_MIN_SCORE
  <1>4. Match!Confirmable(p[1], p[2])
    BY <1>2 DEF Match!Confirmable, Match!OpenRows
  <1>5. ASSUME NEW v \in Match!UnmappedVariants \ {p[2]}
        PROVE  Match!Score(p[1], v) + 50 <= Match!Score(p[1], p[2])
    <2>1. v \in Variants
      BY DEF Match!UnmappedVariants
    <2>2. Match!Score(p[1], v) \in Nat /\ Match!Score(p[1], p[2]) \in Nat
      BY <1>2, <2>1, ScoreIsNat
    <2>3. CASE Match!Score(p[1], v) < 650
      BY <1>3, <2>2, <2>3
    <2>4. CASE Match!Score(p[1], v) >= 650
      <3>1. Match!Possible(p[1], v, 650)
        BY <1>2, <2>1, <2>4, ScoreMeans
      <3>2. v \in ranked
        BY <2>4, <3>1 DEF Match!Qualified
      <3> QED
        BY <1>3, <2>2, <3>2
    <2> QED
      BY <2>2, <2>3, <2>4
  <1> QED
    BY <1>2, <1>3, <1>4, <1>5

(* A review offers a product and a variant once, and no product is in both *)
(* reviews.                                                                *)
LEMMA OfferedOnce ==
    ASSUME Stated, NEW o1 \in Match!Proposals, NEW o2 \in Match!Proposals,
           NEW p \in o1, NEW q \in o2, p[1] = q[1]
    PROVE  p = q
  <1>1. /\ p \in Match!ClearPicks \/ p \in Match!ProbablePicks
        /\ q \in Match!ClearPicks \/ q \in Match!ProbablePicks
    BY DEF Match!Proposals, Match!Unrivalled
  <1>2. /\ p \in Skus \X Variants /\ q \in Skus \X Variants
        /\ Match!Confirmable(p[1], p[2]) /\ Match!Confirmable(q[1], q[2])
    BY <1>1, ClearPick, ProbablePick
  <1>3. /\ p[2] \in Match!UnmappedVariants /\ q[2] \in Match!UnmappedVariants
        /\ Match!Score(p[1], p[2]) \in Nat /\ Match!Score(q[1], q[2]) \in Nat
    BY <1>2, ScoreIsNat DEF Match!Confirmable
  <1>4. p[2] = q[2]
    <2>1. CASE p \in Match!ClearPicks /\ q \in Match!ClearPicks
      BY <1>3, <2>1, ClearPick
    <2>2. CASE p \in Match!ClearPicks /\ q \in Match!ProbablePicks
      <3>1. Match!Score(p[1], p[2]) >= 900 /\ Match!Score(q[1], q[2]) < 900
        BY <2>2, ClearPick, ProbablePick
      <3>2. p[2] # q[2] => Match!Score(q[1], p[2]) + 50 <= Match!Score(q[1], q[2])
        BY <1>3, <2>2, ProbablePick
      <3> QED
        BY <1>3, <3>1, <3>2
    <2>3. CASE p \in Match!ProbablePicks /\ q \in Match!ClearPicks
      <3>1. Match!Score(q[1], q[2]) >= 900 /\ Match!Score(p[1], p[2]) < 900
        BY <2>3, ClearPick, ProbablePick
      <3>2. p[2] # q[2] => Match!Score(p[1], q[2]) + 50 <= Match!Score(p[1], p[2])
        BY <1>3, <2>3, ProbablePick
      <3> QED
        BY <1>3, <3>1, <3>2
    <2>4. CASE p \in Match!ProbablePicks /\ q \in Match!ProbablePicks
      <3>1. p[2] # q[2] => /\ Match!Score(q[1], p[2]) + 50 <= Match!Score(q[1], q[2])
                           /\ Match!Score(p[1], q[2]) + 50 <= Match!Score(p[1], p[2])
        BY <1>3, <2>4, ProbablePick
      <3> QED
        BY <1>3, <3>1
    <2> QED
      BY <1>1, <2>1, <2>2, <2>3, <2>4
  <1> QED
    BY <1>2, <1>4

(* What is offered agrees in what matters.                                 *)
LEMMA OfferedAgrees ==
    ASSUME Stated, NEW offered \in Match!Proposals, NEW p \in offered
    PROVE  /\ p \in Skus \X Variants /\ Match!Confirmable(p[1], p[2])
           /\ Match!SameKind(p[1], p[2])
           /\ ~Match!SizeMismatch(p[1], p[2]) /\ ~Match!OtherBrand(p[1], p[2])
           /\ \A q \in offered : q[2] = p[2] => q = p
  <1>1. p \in Match!ClearPicks \/ p \in Match!ProbablePicks
    BY DEF Match!Proposals, Match!Unrivalled
  <1>2. /\ p \in Skus \X Variants /\ Match!Confirmable(p[1], p[2])
        /\ ~Match!SizeMismatch(p[1], p[2])
        /\ Match!Score(p[1], p[2]) >= 900 \/ Match!Score(p[1], p[2]) >= 700
    BY <1>1, ClearPick, ProbablePick
  <1>3. Match!Score(p[1], p[2]) >= 650
    <2>1. Match!Score(p[1], p[2]) \in Nat
      BY <1>2, ScoreIsNat
    <2> QED
      BY <1>2, <2>1
  <1>4. ~Match!OtherBrand(p[1], p[2]) /\ Match!SameKind(p[1], p[2])
    BY <1>2, <1>3, ScoreMeans
  <1>5. \A q \in offered : q[2] = p[2] => q = p
    BY DEF Match!Proposals, Match!Unrivalled
  <1> QED
    BY <1>2, <1>4, <1>5

-----------------------------------------------------------------------------
(* A review's pairs have no row and no variant in common; as long as only  *)
(* they are mapped, each of them can be.                                   *)
Inseparable == \A p, q \in ticked : p[1] = q[1] \/ p[2] = q[2] => p = q

MatchInv ==
    /\ Match!TypeOK /\ Stated /\ ~skipped
    /\ undisturbed => Inseparable /\ \A p \in ticked : Match!Confirmable(p[1], p[2])

LEMMA AlikeIsKnown ==
    ASSUME NEW n \in Ratios, NEW b \in Brands, NEW c \in Brands
    PROVE  Alike(n)[<<b, c>>] \in IF b = c THEN {1000} ELSE Ratios
  BY DEF Alike

LEMMA RowIsKnown ==
    ASSUME NEW b \in Brands \cup {NoBrand}, NEW w \in SUBSET (Words \cup Brands),
           NEW m \in Sizes, NEW a \in BOOLEAN
    PROVE  PosRow(b, w, m, a) \in KnownRow
  BY DEF PosRow, KnownRow

LEMMA OnlineIsKnown ==
    ASSUME NEW b \in Brands \cup {NoBrand}, NEW w \in SUBSET Words,
           NEW l \in SUBSET Words, NEW m \in Sizes
    PROVE  Online(b, w, l, m) \in KnownOnline
  BY DEF Online, KnownOnline

LEMMA AnyRowIsKnown ==
    ASSUME NEW r \in AnyRow
    PROVE  r \in KnownRow
  <1>1. PICK b \in {"afnan", NoBrand}, m \in Sizes, a \in BOOLEAN,
             w \in Names \cup {n \cup {"afnan"} : n \in Names} : r = PosRow(b, w, m, a)
    BY DEF AnyRow, Rows
  <1>2. b \in Brands \cup {NoBrand} /\ w \in SUBSET (Words \cup Brands)
    BY DEF Names, Brands
  <1> QED
    BY <1>1, <1>2, RowIsKnown

LEMMA CandidateIsKnown ==
    ASSUME NEW c \in Candidates
    PROVE  c \in KnownOnline
  <1>1. PICK b \in {"afnan", "rasasi", NoBrand}, w \in Names, l \in {{}, {"oud"}},
             m \in Sizes : c = Online(b, w, l, m)
    BY DEF Candidates
  <1>2. b \in Brands \cup {NoBrand} /\ w \in SUBSET Words /\ l \in SUBSET Words
    BY DEF Names, Brands, Words
  <1> QED
    BY <1>1, <1>2, OnlineIsKnown

LEMMA InitMatch ==
    ASSUME OnePair \/ Rivals
    PROVE  MatchInv
  <1>1. PICK r \in [Skus -> KnownRow], c \in [Variants -> KnownOnline], n \in Ratios :
            Match!InitWith(r, c, Alike(n))
    <2>1. CASE OnePair
      <3>1. PICK r \in AnyRow, c \in Candidates, n \in Likenesses :
                Match!InitWith([s \in Skus |-> IF s = First(Skus) THEN r ELSE OtherRow],
                               [v \in Variants |->
                                   IF v = First(Variants) THEN c ELSE OtherOnline],
                               Alike(n))
        BY <2>1 DEF OnePair
      <3>2. r \in KnownRow /\ OtherRow \in KnownRow
        BY AnyRowIsKnown, RowIsKnown DEF OtherRow, Brands, Sizes
      <3>3. c \in KnownOnline /\ OtherOnline \in KnownOnline
        BY CandidateIsKnown, OnlineIsKnown DEF OtherOnline, Brands, Sizes
      <3> QED
        BY <3>1, <3>2, <3>3, LikenessAssumption
    <2>2. CASE Rivals
      <3>1. PICK r \in [Skus -> FewRows], c \in [Variants -> FewOnline] :
                Match!InitWith(r, c, Alike(599))
        BY <2>2 DEF Rivals
      <3>2. FewRows \subseteq KnownRow
        <4> SUFFICES ASSUME NEW f \in FewRows PROVE f \in KnownRow
          OBVIOUS
        <4>1. PICK w \in {{"noor"}, {"noor", "oud"}}, m \in {NoSize, 50}, a \in BOOLEAN :
                  f = PosRow("afnan", w, m, a)
          BY DEF FewRows
        <4>2. /\ "afnan" \in Brands \cup {NoBrand} /\ w \in SUBSET (Words \cup Brands)
              /\ m \in Sizes
          BY DEF Brands, Words, Sizes
        <4> QED
          BY <4>1, <4>2, RowIsKnown
      <3>3. FewOnline \subseteq KnownOnline
        <4> SUFFICES ASSUME NEW f \in FewOnline PROVE f \in KnownOnline
          OBVIOUS
        <4>1. PICK b \in {"afnan", "rasasi", NoBrand},
                   w \in {{"noor"}, {"oud"}, {"noor", "oud"}},
                   l \in {{}, {"oud"}}, m \in {50, 100} : f = Online(b, w, l, m)
          BY DEF FewOnline
        <4>2. /\ b \in Brands \cup {NoBrand} /\ w \in SUBSET Words /\ l \in SUBSET Words
              /\ m \in Sizes
          BY DEF Brands, Words, Sizes
        <4> QED
          BY <4>1, <4>2, OnlineIsKnown
      <3>4. 599 \in Ratios
        BY DEF Ratios
      <3> QED
        BY <3>1, <3>2, <3>3, <3>4
    <2> QED
      BY <2>1, <2>2
  <1>2. /\ row = r /\ candidate = c /\ likeness = Alike(n)
        /\ mapped = [s \in Skus |-> NoVariant] /\ not_online = {} /\ ticked = {}
        /\ undisturbed = FALSE /\ skipped = FALSE
    BY <1>1 DEF Match!InitWith
  <1>3. Stated
    BY <1>1, <1>2, AlikeIsKnown DEF Stated
  <1>4. Match!TypeOK
    BY <1>2 DEF Match!TypeOK
  <1> QED
    BY <1>2, <1>3, <1>4 DEF MatchInv

LEMMA OpenReviewKeeps ==
    ASSUME MatchInv, Match!OpenReview
    PROVE  MatchInv'
  <1>1. /\ UNCHANGED <<row, candidate, likeness, mapped, not_online, skipped>>
        /\ undisturbed' = TRUE
    BY DEF Match!OpenReview
  <1>2. PICK offered \in Match!Proposals : ticked' \in SUBSET offered
    BY DEF Match!OpenReview
  <1>3. Stated /\ Stated'
    BY <1>1 DEF MatchInv, Stated
  <1>4. \A p \in ticked' : p \in Skus \X Variants /\ Match!Confirmable(p[1], p[2])
    BY <1>2, <1>3, OfferedAgrees
  <1>5. \A p \in ticked' : Match!Confirmable(p[1], p[2])'
    BY <1>1, <1>4 DEF Match!Confirmable, Match!UnmappedVariants
  <1>6. Inseparable'
    BY <1>2, <1>3, OfferedAgrees, OfferedOnce DEF Inseparable
  <1>7. Match!TypeOK'
    BY <1>1, <1>4 DEF MatchInv, Match!TypeOK
  <1> QED
    BY <1>1, <1>3, <1>5, <1>6, <1>7 DEF MatchInv

LEMMA ConfirmKeeps ==
    ASSUME MatchInv, NEW p \in ticked, Match!ConfirmTicked(p)
    PROVE  MatchInv'
  <1>1. /\ UNCHANGED <<row, candidate, likeness, undisturbed>>
        /\ ticked' = ticked \ {p}
        /\ p[1] \in Skus /\ p[2] \in Variants
        /\ mapped \in [Skus -> Variants \cup {NoVariant}] /\ not_online \subseteq Skus
        /\ undisturbed \in BOOLEAN /\ skipped \in BOOLEAN /\ ~skipped
    BY DEF Match!ConfirmTicked, MatchInv, Match!TypeOK
  <1>2. Stated'
    BY <1>1 DEF MatchInv, Stated
  <1>3. CASE Match!Confirmable(p[1], p[2])
    <2>1. /\ mapped' = [mapped EXCEPT ![p[1]] = p[2]]
          /\ not_online' = not_online \ {p[1]} /\ skipped' = skipped
      BY <1>3 DEF Match!ConfirmTicked, Match!ConfirmPair
    <2>2. Match!TypeOK'
      BY <1>1, <2>1 DEF MatchInv, Match!TypeOK
    <2>3. ASSUME undisturbed, NEW q \in ticked'
          PROVE  Match!Confirmable(q[1], q[2])'
      <3>1. q \in ticked /\ q # p /\ q[1] # p[1] /\ q[2] # p[2] /\ q[1] \in Skus
        BY <1>1, <2>3 DEF MatchInv, Inseparable, Match!TypeOK
      <3>2. mapped[q[1]] = NoVariant /\ q[2] \in Variants /\ \A s \in Skus : mapped[s] # q[2]
        BY <2>3, <3>1 DEF MatchInv, Match!Confirmable, Match!UnmappedVariants
      <3>3. mapped'[q[1]] = NoVariant /\ \A s \in Skus : mapped'[s] # q[2]
        BY <1>1, <2>1, <3>1, <3>2
      <3> QED
        BY <3>2, <3>3 DEF Match!Confirmable, Match!UnmappedVariants
    <2>4. undisturbed => Inseparable'
      BY <1>1 DEF MatchInv, Inseparable
    <2> QED
      BY <1>1, <1>2, <2>1, <2>2, <2>3, <2>4 DEF MatchInv
  <1>4. CASE ~Match!Confirmable(p[1], p[2])
    <2>1. UNCHANGED <<mapped, not_online>> /\ skipped' = (skipped \/ undisturbed)
      BY <1>4 DEF Match!ConfirmTicked
    <2>2. ~undisturbed
      BY <1>4 DEF MatchInv
    <2>3. ~undisturbed' /\ skipped' = FALSE
      BY <1>1, <2>1, <2>2
    <2>4. Match!TypeOK'
      BY <1>1, <2>1, <2>3 DEF MatchInv, Match!TypeOK
    <2> QED
      BY <1>2, <2>3, <2>4 DEF MatchInv
  <1> QED
    BY <1>3, <1>4

LEMMA OtherDecisionKeeps ==
    ASSUME MatchInv, Match!OtherDecision
    PROVE  MatchInv'
  <1>1. /\ UNCHANGED <<row, candidate, likeness, ticked, skipped>> /\ undisturbed' = FALSE
        /\ mapped \in [Skus -> Variants \cup {NoVariant}] /\ not_online \subseteq Skus
    BY DEF Match!OtherDecision, MatchInv, Match!TypeOK
  <1>2. mapped' \in [Skus -> Variants \cup {NoVariant}] /\ not_online' \subseteq Skus
    <2>1. CASE \E s \in Skus, v \in Variants :
                   Match!Confirmable(s, v) /\ Match!ConfirmPair(s, v)
      BY <1>1, <2>1 DEF Match!ConfirmPair
    <2>2. CASE \E s \in Skus : mapped[s] # NoVariant
                   /\ mapped' = [mapped EXCEPT ![s] = NoVariant] /\ UNCHANGED not_online
      BY <1>1, <2>2
    <2>3. CASE \E s \in Match!OpenRows : not_online' = not_online \cup {s} /\ UNCHANGED mapped
      BY <1>1, <2>3 DEF Match!OpenRows
    <2> QED
      BY <2>1, <2>2, <2>3 DEF Match!OtherDecision
  <1>3. Match!TypeOK'
    BY <1>1, <1>2 DEF MatchInv, Match!TypeOK
  <1>4. Stated'
    BY <1>1 DEF MatchInv, Stated
  <1> QED
    BY <1>1, <1>3, <1>4 DEF MatchInv

LEMMA MatchStep ==
    ASSUME MatchInv, Match!Next \/ UNCHANGED match_vars
    PROVE  MatchInv'
  <1>1. CASE Match!Next
    BY <1>1, OpenReviewKeeps, ConfirmKeeps, OtherDecisionKeeps DEF Match!Next
  <1>2. CASE UNCHANGED match_vars
    BY <1>2 DEF match_vars, MatchInv, Match!TypeOK, Stated, Inseparable,
       Match!Confirmable, Match!UnmappedVariants
  <1> QED
    BY <1>1, <1>2

Matching == part \in {"scores", "reviews"} => MatchInv

LEMMA InitMatching == Init => Matching
  BY InitMatch DEF Init, Matching

LEMMA StepMatching == Matching /\ [Next]_vars => Matching'
  <1> SUFFICES ASSUME Matching, [Next]_vars PROVE Matching'
    OBVIOUS
  <1>1. part' = part
    BY DEF Next, vars
  <1>2. part \in {"scores", "reviews"} => Match!Next \/ UNCHANGED match_vars
    BY DEF Next, vars
  <1> QED
    BY <1>1, <1>2, MatchStep DEF Matching

(* PosMatching: every column and page holds what it may.                   *)
THEOREM MatchingTypes == Spec => [](part \in {"scores", "reviews"} => Match!TypeOK)
  <1>1. Matching => (part \in {"scores", "reviews"} => Match!TypeOK)
    BY DEF Matching, MatchInv
  <1> QED
    BY InitMatching, StepMatching, <1>1, PTL DEF Spec

(* PosMatching: at none of the thresholds does the bound made of the brand *)
(* alone (_best_possible_score) hide a variant that scores enough.         *)
THEOREM NothingIsHidden == Spec => []PruningHidesNothing
  <1>1. Matching => PruningHidesNothing
    <2> SUFFICES ASSUME Stated, NEW s \in Skus, NEW v \in Variants,
                        NEW min \in {Match!SUGGESTION_MIN_SCORE,
                                     Match!PROBABLE_MIN_SCORE - Match!PROBABLE_MARGIN,
                                     Match!BULK_CONFIRM_MIN_SCORE},
                        Match!Score(s, v) >= min
                 PROVE  Match!Possible(s, v, min)
      BY DEF Matching, MatchInv, PruningHidesNothing, Match!PruningHidesNothing
    <2>1. min \in {300, 650, 900}
      BY DEF Match!SUGGESTION_MIN_SCORE, Match!PROBABLE_MIN_SCORE, Match!PROBABLE_MARGIN,
             Match!BULK_CONFIRM_MIN_SCORE
    <2> QED
      BY <2>1, ScoreMeans
  <1> QED
    BY InitMatching, StepMatching, <1>1, PTL DEF Spec

(* PosMatching: the pairs that a review offers agree in kind, size and     *)
(* brand, no product is in both reviews, and all ticked pairs are mapped   *)
(* unless somebody else decides meanwhile.                                 *)
THEOREM ReviewsAreSound == Spec => []ReviewsGoThrough
  <1>1. Matching => ReviewsGoThrough
    <2> SUFFICES ASSUME MatchInv PROVE Match!ReviewsGoThrough
      BY DEF Matching, ReviewsGoThrough
    <2>1. Stated /\ ~skipped
      BY DEF MatchInv
    <2>2. ASSUME NEW offered \in Match!Proposals, NEW p \in offered
          PROVE  /\ "gift set" \in row[p[1]].words
                    <=> "gift set" \in candidate[p[2]].words \cup candidate[p[2]].label
                 /\ ~Match!SizeMismatch(p[1], p[2])
                 /\ ~Match!OtherBrand(p[1], p[2])
      BY <2>1, OfferedAgrees DEF Match!SameKind, Match!IsGiftSet
    <2>3. \A o1, o2 \in Match!Proposals : \A p \in o1, q \in o2 : p[1] = q[1] => p = q
      BY <2>1, OfferedOnce
    <2> QED
      BY <2>1, <2>2, <2>3 DEF Match!ReviewsGoThrough
  <1> QED
    BY InitMatching, StepMatching, <1>1, PTL DEF Spec

(* PosMatching: the same perfume in another size is suggested on the       *)
(* mapping page, when both sides name the brand, unless the page's few     *)
(* places are taken by unmapped variants of the same kind, and of no other *)
(* brand, that rank before it.                                             *)
THEOREM OtherSizesShow == Spec => []OtherSizesAreShown
  <1>1. Matching => OtherSizesAreShown
    <2> SUFFICES ASSUME Stated, NEW s \in Match!OpenRows, NEW v \in Match!UnmappedVariants,
                        Match!SizeMismatch(s, v),
                        row[s].brand = candidate[v].brand, row[s].brand # NoBrand,
                        Match!PosTokens(s) # {},
                        Match!PosTokens(s) = Match!CandidateTokens(s, v),
                        Match!SameKind(s, v),
                        v \notin Match!Suggestions(s)
                 PROVE  Match!Cardinality({u \in Match!UnmappedVariants :
                            /\ Match!SameKind(s, u) /\ ~Match!OtherBrand(s, u)
                            /\ Match!RanksBefore(s, u, v)}) >= SUGGESTION_COUNT
      BY DEF Matching, MatchInv, OtherSizesAreShown, Match!OtherSizesAreShown
    <2> DEFINE qualified == Match!Qualified(s, 300)
               before == {u \in qualified : Match!RanksBefore(s, u, v)}
               rivals == {u \in Match!UnmappedVariants :
                            /\ Match!SameKind(s, u) /\ ~Match!OtherBrand(s, u)
                            /\ Match!RanksBefore(s, u, v)}
    <2>1. s \in Skus /\ v \in Variants
      BY DEF Match!OpenRows, Match!UnmappedVariants
    <2>2. v \in qualified
      <3>1. Match!Score(s, v) >= 300
        BY <2>1, OtherSizeScores
      <3>2. Match!Possible(s, v, 300)
        BY <2>1, <3>1, ScoreMeans
      <3> QED
        BY <3>1, <3>2 DEF Match!Qualified
    <2>3. before \in SUBSET rivals
      <3> SUFFICES ASSUME NEW u \in before PROVE u \in rivals
        OBVIOUS
      <3>1. /\ u \in Match!UnmappedVariants /\ Match!Score(s, u) >= 300
            /\ Match!RanksBefore(s, u, v)
        BY DEF Match!Qualified
      <3>2. Match!SameKind(s, u) /\ ~Match!OtherBrand(s, u)
        BY <2>1, <3>1, ScoreMeans DEF Match!UnmappedVariants
      <3> QED
        BY <3>1, <3>2
    <2>4. rivals \in SUBSET Variants
      BY DEF Match!UnmappedVariants
    <2>5. v \notin Match!FirstFew(s)
      BY DEF Match!Suggestions
    <2>6. Match!FirstFew(s) =
              {w \in qualified :
                  Match!Cardinality({u \in qualified : Match!RanksBefore(s, u, w)})
                      < SUGGESTION_COUNT}
      BY DEF Match!FirstFew, Match!SUGGESTION_MIN_SCORE
    <2>7. ~(Match!Cardinality(before) < SUGGESTION_COUNT)
      BY <2>2, <2>5, <2>6
    <2> HIDE DEF qualified, before, rivals
    <2>8. \A T : Match!Cardinality(T) = Cardinality(T)
      BY DEF Cardinality, Match!Cardinality
    <2>9. IsFiniteSet(rivals)
      BY <2>4, FiniteAssumption, FS_Subset
    <2>10. /\ IsFiniteSet(before)
           /\ Cardinality(before) <= Cardinality(rivals)
      BY <2>3, <2>9, FS_Subset
    <2>11. Cardinality(before) \in Nat /\ Cardinality(rivals) \in Nat
      BY <2>9, <2>10, FS_CardinalityType
    <2>12. Match!Cardinality(rivals) >= SUGGESTION_COUNT
      BY <2>7, <2>8, <2>10, <2>11, SuggestionAssumption
    <2> QED
      BY <2>12 DEF rivals
  <1> QED
    BY InitMatching, StepMatching, <1>1, PTL DEF Spec
=============================================================================
