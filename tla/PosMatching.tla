---------------------------- MODULE PosMatching ----------------------------
(***************************************************************************)
(* Which website variant a product of the point of sale probably is: the   *)
(* scores (possync/matching.py), the two reviews that offer pairs to the   *)
(* owner, and the mapping of the pairs that are ticked                     *)
(* (possync/services.py, possync/portal_views.py).                         *)
(*                                                                         *)
(* Data.  Spellings that the code folds together are one word here, and a  *)
(* name is the set of its words, the brand's and GiftSet among them.  A    *)
(* score is an integer number of thousandths, rounded where the code       *)
(* rounds.  How alike two different brands are spelled is any of           *)
(* Likenesses.                                                             *)
(*                                                                         *)
(* Grain.  A review is a page: its pairs were offered some time ago.  Each *)
(* ticked pair is a transaction of its own.                                *)
(***************************************************************************)
EXTENDS Integers, FiniteSets

CONSTANTS
    Skus,        \* products of the point of sale
    Variants,    \* variants of the website: their ids, numbers
    Brands,      \* brand names; each is a word of names, too
    GiftSet,     \* the word "gift set"
    NoBrand,     \* an empty brand
    NoSize,      \* no size is stated
    Rows,        \* what the point of sale may say of a product
    Candidates,  \* what the website may say of a variant
    Likenesses,  \* how alike different brands may be, in thousandths
    SUGGESTION_COUNT,  \* config.py: how many candidates a row may get
    NoVariant

VARIABLES
    row,          \* row[s]: brand, name, size and category of PosProduct s
    candidate,    \* candidate[v]: the VariantCandidate of variant v
    likeness,     \* likeness[<<b, c>>]: the ratio of two brands' spellings
    mapped,       \* mapped[s]: the variant whose pos_sku is s
    not_online,   \* the products marked "not sold online"
    ticked,       \* the ticked pairs of the open review, not yet confirmed
    undisturbed,  \* history: only the review's own pairs were mapped since
    skipped       \* history: a pair of an undisturbed review was refused

vars == <<row, candidate, likeness, mapped, not_online, ticked, undisturbed,
          skipped>>

(* config.py and the weights of matching.py, in thousandths.               *)
SUGGESTION_MIN_SCORE == 300
SUGGESTION_DISPLAY_MIN_SCORE == 500
BULK_CONFIRM_MIN_SCORE == 900
PROBABLE_MIN_SCORE == 700
PROBABLE_MARGIN == 50
BRAND_WEIGHT == 350
NAME_WEIGHT == 550
SIZE_BONUS == 100
BRAND_MATCH_FLOOR == 600
UNKNOWN_BRAND_SCORE == 400

-----------------------------------------------------------------------------
(* The score of a pair.                                                    *)

IsGiftSet(words) == GiftSet \in words

SizeMismatch(s, v) ==
    /\ row[s].size # NoSize /\ candidate[v].size # NoSize
    /\ row[s].size # candidate[v].size

SizeAgrees(s, v) == row[s].size # NoSize /\ row[s].size = candidate[v].size

(* A variant without a brand has none to compare; a product without one may
   carry it in its name.                                                   *)
BrandSimilarity(s, v) ==
    LET c == candidate[v].brand
    IN  IF c = NoBrand THEN NoBrand
        ELSE IF row[s].brand # NoBrand THEN likeness[<<row[s].brand, c>>]
        ELSE IF c \in row[s].words THEN 1000 ELSE UNKNOWN_BRAND_SCORE

BrandComponent(s, v) ==
    IF BrandSimilarity(s, v) = NoBrand THEN 500 ELSE BrandSimilarity(s, v)

OtherBrand(s, v) ==
    BrandSimilarity(s, v) # NoBrand /\ BrandSimilarity(s, v) < BRAND_MATCH_FLOOR

(* A word of the variant's label counts if the other side uses it.         *)
PosTokens(s) == row[s].words \ {row[s].brand}
CandidateTokens(s, v) ==
    (candidate[v].words \cup (candidate[v].label \cap PosTokens(s))) \ {candidate[v].brand}

(* 2 * matched / (len(left) + len(right)): numerator and denominator.      *)
Matched(s, v) == 2 * Cardinality(PosTokens(s) \cap CandidateTokens(s, v))
Length(s, v) ==
    IF PosTokens(s) = {} /\ CandidateTokens(s, v) = {} THEN 1
    ELSE Cardinality(PosTokens(s)) + Cardinality(CandidateTokens(s, v))

(* Mutant: a size that differs costs as much as another brand.             *)
SizeFactorHarsh(s, v) == IF SizeMismatch(s, v) THEN 3 ELSE 10

(* The factors, in tenths.                                                 *)
SizeFactor(s, v) == IF SizeMismatch(s, v) THEN 4 ELSE 10
BrandFactor(s, v) == IF OtherBrand(s, v) THEN 3 ELSE 10

Rounded(n, d) == (2 * n + d) \div (2 * d)

SizeBonus(s, v) == IF SizeAgrees(s, v) THEN SIZE_BONUS ELSE 0

(* The weighted sum and its factors, times Length(s, v) * 100000.          *)
Weighted(s, v) ==
    (BRAND_WEIGHT * BrandComponent(s, v) * Length(s, v)
     + NAME_WEIGHT * 1000 * Matched(s, v) + SizeBonus(s, v) * 1000 * Length(s, v))
        * SizeFactor(s, v) * BrandFactor(s, v)

(* A bottle is no gift set.                                                *)
SameKind(s, v) ==
    IsGiftSet(row[s].words) <=> IsGiftSet(candidate[v].words \cup candidate[v].label)

Score(s, v) ==
    IF SameKind(s, v) THEN Rounded(Weighted(s, v), Length(s, v) * 100000) ELSE 0

(* Mutant: the bound forgets that a matching size adds to the score.       *)
PossibleWithoutSize(s, v, min) ==
    (BRAND_WEIGHT * BrandComponent(s, v) + NAME_WEIGHT * 1000)
        * BrandFactor(s, v) >= min * 10000

(* The score that brand alone allows, with a perfect name and size, is at  *)
(* least min; candidates of which this is not true are not looked at.      *)
Possible(s, v, min) ==
    (BRAND_WEIGHT * BrandComponent(s, v) + (NAME_WEIGHT + SIZE_BONUS) * 1000)
        * BrandFactor(s, v) >= min * 10000

-----------------------------------------------------------------------------
(* What the pages offer.                                                   *)

UnmappedVariants == {v \in Variants : \A s \in Skus : mapped[s] # v}
OpenRows == {s \in Skus : mapped[s] = NoVariant /\ s \notin not_online}

Qualified(s, min) ==
    {v \in UnmappedVariants : Possible(s, v, min) /\ Score(s, v) >= min}

(* suggest, for the reviews: they ask for the first two, which say whether *)
(* there is one candidate, and which is the best by how much.  The         *)
(* tie-break on the id is left out here, for no review offers a tied pair. *)
Best(s, min) ==
    {v \in Qualified(s, min) : \A u \in Qualified(s, min) : Score(s, u) <= Score(s, v)}

(* suggest, for the mapping page: the better score first, and the lower id *)
(* on a tie, of which the first SUGGESTION_COUNT are returned.             *)
RanksBefore(s, u, v) ==
    Score(s, u) > Score(s, v) \/ (Score(s, u) = Score(s, v) /\ u < v)

FirstFew(s) ==
    LET qualified == Qualified(s, SUGGESTION_MIN_SCORE)
    IN  {v \in qualified :
            Cardinality({u \in qualified : RanksBefore(s, u, v)}) < SUGGESTION_COUNT}

(* The suggestions beside a row of the mapping page: of those few, the ones*)
(* the page does not filter out.                                           *)
Suggestions(s) ==
    {v \in FirstFew(s) :
        Score(s, v) >= SUGGESTION_DISPLAY_MIN_SCORE \/ SizeMismatch(s, v)}

(* The rows of each review before rivals for one variant are left out.     *)
ClearPicks ==
    {p \in OpenRows \X UnmappedVariants :
        /\ Qualified(p[1], BULK_CONFIRM_MIN_SCORE) = {p[2]}
        /\ ~SizeMismatch(p[1], p[2])}

ProbablePicks ==
    {p \in OpenRows \X UnmappedVariants :
        LET ranked == Qualified(p[1], PROBABLE_MIN_SCORE - PROBABLE_MARGIN)
            best == Score(p[1], p[2])
        IN  /\ ~row[p[1]].accessory
            /\ p[2] \in Best(p[1], PROBABLE_MIN_SCORE - PROBABLE_MARGIN)
            /\ PROBABLE_MIN_SCORE <= best /\ best < BULK_CONFIRM_MIN_SCORE
            /\ ~SizeMismatch(p[1], p[2])
            /\ \A u \in ranked \ {p[2]} : best - Score(p[1], u) >= PROBABLE_MARGIN}

(* Mutant: rivals for one variant are both offered.                        *)
UnrivalledAny(picks) == picks

(* A variant that two rows pick is left out of both.                       *)
Unrivalled(picks) == {p \in picks : \A q \in picks : q[2] = p[2] => q = p}

(* bulk_match_proposals and probable_match_proposals.                      *)
Proposals == {Unrivalled(ClearPicks), Unrivalled(ProbablePicks)}

-----------------------------------------------------------------------------
InitWith(r, c, l) ==
    /\ row = r /\ candidate = c /\ likeness = l
    /\ mapped = [s \in Skus |-> NoVariant]
    /\ not_online = {}
    /\ ticked = {} /\ undisturbed = FALSE /\ skipped = FALSE

Spellings ==
    {l \in [Brands \X Brands -> Likenesses \cup {1000}] :
        \A b, c \in Brands : l[<<b, c>>] = 1000 <=> b = c}

Init ==
    \E r \in [Skus -> Rows], c \in [Variants -> Candidates], l \in Spellings : InitWith(r, c, l)

(* A review is opened and some of its pairs are ticked.                    *)
OpenReview ==
    /\ ticked = {}
    /\ \E offered \in Proposals : \E pairs \in SUBSET offered :
          pairs # {} /\ ticked' = pairs
    /\ undisturbed' = TRUE
    /\ UNCHANGED <<row, candidate, likeness, mapped, not_online, skipped>>

(* What confirm_mapping asks for, and what it writes.                      *)
Confirmable(s, v) == mapped[s] = NoVariant /\ v \in UnmappedVariants
ConfirmPair(s, v) ==
    /\ mapped' = [mapped EXCEPT ![s] = v]
    /\ not_online' = not_online \ {s}

(* confirm_mappings: the next ticked pair is mapped, or reported and       *)
(* skipped.                                                                *)
ConfirmTicked(p) ==
    /\ p \in ticked
    /\ ticked' = ticked \ {p}
    /\ IF Confirmable(p[1], p[2])
       THEN ConfirmPair(p[1], p[2]) /\ UNCHANGED skipped
       ELSE skipped' = (skipped \/ undisturbed) /\ UNCHANGED <<mapped, not_online>>
    /\ UNCHANGED <<row, candidate, likeness, undisturbed>>

(* Another manager maps, unmaps or hides a product.                        *)
OtherDecision ==
    /\ \/ \E s \in Skus, v \in Variants : Confirmable(s, v) /\ ConfirmPair(s, v)
       \/ \E s \in Skus : mapped[s] # NoVariant
              /\ mapped' = [mapped EXCEPT ![s] = NoVariant] /\ UNCHANGED not_online
       \/ \E s \in OpenRows : not_online' = not_online \cup {s} /\ UNCHANGED mapped
    /\ undisturbed' = FALSE
    /\ UNCHANGED <<row, candidate, likeness, ticked, skipped>>

Next == OpenReview \/ (\E p \in ticked : ConfirmTicked(p)) \/ OtherDecision

Spec == Init /\ [][Next]_vars

-----------------------------------------------------------------------------
(* Every variable holds what its column or page may hold.                  *)
TypeOK ==
    /\ mapped \in [Skus -> Variants \cup {NoVariant}]
    /\ not_online \subseteq Skus
    /\ ticked \subseteq Skus \X Variants
    /\ undisturbed \in BOOLEAN /\ skipped \in BOOLEAN

(* Skipping candidates by their brand alone (_best_possible_score) hides   *)
(* nothing: at each threshold the code uses, whatever scores enough is     *)
(* looked at.  (In the code's floating point the one exception needs two   *)
(* brands of 101 letters together.)                                        *)
PruningHidesNothing ==
    \A s \in Skus, v \in Variants :
        \A min \in {SUGGESTION_MIN_SCORE, PROBABLE_MIN_SCORE - PROBABLE_MARGIN,
                    BULK_CONFIRM_MIN_SCORE} :
            Score(s, v) >= min => Possible(s, v, min)

(* What a review offers for ticking in bulk is never a bottle for a gift   *)
(* set, another stated size, or another brand; no product is in both       *)
(* reviews; and a review on which every pair is ticked has every pair      *)
(* mapped unless somebody else decides meanwhile.                          *)
ReviewsGoThrough ==
    /\ \A offered \in Proposals : \A p \in offered :
          /\ GiftSet \in row[p[1]].words
               <=> GiftSet \in candidate[p[2]].words \cup candidate[p[2]].label
          /\ ~SizeMismatch(p[1], p[2])
          /\ ~OtherBrand(p[1], p[2])
    /\ \A o1, o2 \in Proposals : \A p \in o1, q \in o2 : p[1] = q[1] => p = q
    /\ ~skipped

(* The same perfume in another size is shown on the mapping page, with its *)
(* warning, as config.py:35-38 says, when both sides name the brand; unless*)
(* SUGGESTION_COUNT unmapped variants rank before it, and these are never  *)
(* of another brand, nor bottles where a gift set is meant.                *)
OtherSizesAreShown ==
    \A s \in OpenRows, v \in UnmappedVariants :
        /\ SizeMismatch(s, v)
        /\ row[s].brand = candidate[v].brand /\ row[s].brand # NoBrand
        /\ PosTokens(s) # {} /\ PosTokens(s) = CandidateTokens(s, v)
        /\ SameKind(s, v)
        => \/ v \in Suggestions(s)
           \/ Cardinality({u \in UnmappedVariants :
                  SameKind(s, u) /\ ~OtherBrand(s, u) /\ RanksBefore(s, u, v)})
                  >= SUGGESTION_COUNT
=============================================================================
