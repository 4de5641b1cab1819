----------------------------- MODULE MCCatalogue -----------------------------
(***************************************************************************)
(* The parts of the catalogue, and its matching with the products of the   *)
(* point of sale, for TLC.  They share no state, so each behaviour is one  *)
(* of one part: "part" says which.                                         *)
(***************************************************************************)
EXTENDS FiniteSets, Integers, TLC

CONSTANTS Images, Variants, Values, Products, Slugs, Requests, NoProduct, NoSlug,
          Skus, NoBrand, NoSize, NoVariant,
          ProductNames, BrandNames, ProductSkus, ProductValues, Likenesses,
          SUGGESTION_COUNT

(* The marks of "none" are no slugs, products or numbers.                  *)
ASSUME NoneAssumption ==
    NoSlug \notin Slugs /\ NoProduct \notin Products /\ NoBrand \notin Int
ASSUME FiniteAssumption ==
    IsFiniteSet(Images) /\ IsFiniteSet(Variants) /\ Variants # {}
(* Variants are their ids, and are suggested a few at a time.              *)
ASSUME SuggestionAssumption ==
    Variants \subseteq Nat /\ SUGGESTION_COUNT \in Nat \ {0}

(* How alike two brands can be.  Left out are the thousandths just below   *)
(* 5/7, at which the bound is 0.9 exactly: two brands with fewer than 101  *)
(* letters together are 5/7 alike, or differ from it by more.              *)
Ratios == (0 .. 1000) \ {713, 714}
ASSUME LikenessAssumption == Likenesses \subseteq Ratios

VARIABLES part,
    images, primaries, uploaded, image_req, skewed, outdated,
    variants, is_default, values, attribute_signature, value_rows, created,
    form_req, drifted,
    slug, published, redirect, slug_req, had, raced,
    row, candidate, likeness, mapped, not_online, ticked, undisturbed, skipped,
    name, brand, skus, valued, filterable, search_text, index_req, behind

image_vars == <<images, primaries, uploaded, image_req, skewed, outdated>>
variant_vars == <<variants, is_default, values, attribute_signature, value_rows,
                  created, form_req, drifted>>
slug_vars == <<slug, published, redirect, slug_req, had, raced>>
match_vars == <<row, candidate, likeness, mapped, not_online, ticked, undisturbed,
                skipped>>
index_vars == <<name, brand, skus, valued, filterable, search_text, index_req, behind>>

(* Names of one or two words, some in a gift set, some with the brand.     *)
Words == {"noor", "oud", "gift set"}
Names == SUBSET Words \ {{}}
Brands == {"afnan", "rasasi"}
Sizes == {NoSize, 50, 100}
PosRow(b, w, m, a) == [brand |-> b, words |-> w, size |-> m, accessory |-> a]
Online(b, w, l, m) == [brand |-> b, words |-> w, label |-> l, size |-> m]
Rows == {PosRow(b, w, m, a) : b \in {"afnan", NoBrand}, m \in Sizes, a \in BOOLEAN,
                              w \in Names \cup {n \cup {"afnan"} : n \in Names}}
Candidates == {Online(b, w, l, m) : b \in {"afnan", "rasasi", NoBrand}, w \in Names,
                                    l \in {{}, {"oud"}}, m \in Sizes}

First(S) == CHOOSE x \in S : TRUE

Image == INSTANCE ProductImages
Variant == INSTANCE ProductVariants
Slug == INSTANCE ProductSlugs
Match == INSTANCE PosMatching WITH GiftSet <- "gift set"
Index == INSTANCE SearchIndex WITH Names <- ProductNames, values <- valued,
                                   Skus <- ProductSkus, Values <- ProductValues

(* Only one part is looked at, so that the names in it may be the model    *)
(* values of another: the .cfg calls products p1 and p2, and brands r1 and *)
(* r2, which keeps the group small.                                        *)
Symmetry == Permutations(Products) \cup Permutations(Slugs) \cup Permutations(Requests)

(* Matching: "scores" looks at one product and one variant of any kind,    *)
(* "reviews" at two of each, of a few kinds that compete.                  *)
AnyRow == {r \in Rows : ~r.accessory /\ r.brand \notin r.words /\ r.size # 100}
FewRows == {PosRow("afnan", {"noor"}, m, FALSE) : m \in {NoSize, 50}}
           \cup {PosRow("afnan", {"noor", "oud"}, 50, a) : a \in BOOLEAN}
FewOnline == {Online("afnan", w, {}, m) :
                 w \in {{"noor"}, {"noor", "oud"}}, m \in {50, 100}}
             \cup {Online(NoBrand, {"noor"}, {"oud"}, 50), Online("afnan", {"oud"}, {}, 50),
                   Online("rasasi", {"noor"}, {}, 50)}
OtherRow == PosRow(NoBrand, {}, NoSize, TRUE)
OtherOnline == Online("rasasi", {}, {}, NoSize)
Alike(n) == [p \in Brands \X Brands |-> IF p[1] = p[2] THEN 1000 ELSE n]

OnePair ==
    \E r \in AnyRow, c \in Candidates, n \in Likenesses :
        Match!InitWith([s \in Skus |-> IF s = First(Skus) THEN r ELSE OtherRow],
                       [v \in Variants |->
                           IF v = First(Variants) THEN c ELSE OtherOnline],
                       Alike(n))
Rivals ==
    \E r \in [Skus -> FewRows], c \in [Variants -> FewOnline] :
        Match!InitWith(r, c, Alike(599))
(* The parts that are not looked at rest, with no state.                   *)
ImagesRest == /\ images = {} /\ primaries = {} /\ uploaded = {}
              /\ image_req = {} /\ skewed = {} /\ outdated = {}
VariantsRest == /\ variants = {} /\ is_default = {} /\ values = {} /\ drifted = {}
                /\ attribute_signature = {} /\ value_rows = {} /\ created = {}
                /\ form_req = {}
SlugsRest == /\ slug = {} /\ published = {} /\ redirect = {}
             /\ slug_req = {} /\ had = {} /\ raced = {}
MatchRests == /\ row = {} /\ candidate = {} /\ likeness = {} /\ mapped = {}
              /\ not_online = {} /\ ticked = {} /\ undisturbed = {} /\ skipped = {}
IndexRests == /\ name = {} /\ brand = {} /\ skus = {} /\ valued = {} /\ behind = {}
              /\ filterable = {} /\ search_text = {} /\ index_req = {}

Init ==
    /\ part \in {"images", "variants", "slugs", "scores", "reviews", "index"}
    /\ IF part = "images" THEN Image!Init ELSE ImagesRest
    /\ IF part = "variants" THEN Variant!Init ELSE VariantsRest
    /\ IF part = "slugs" THEN Slug!Init ELSE SlugsRest
    /\ IF part = "index" THEN Index!Init ELSE IndexRests
    /\ \/ part = "scores" /\ OnePair
       \/ part = "reviews" /\ Rivals
       \/ part \notin {"scores", "reviews"} /\ MatchRests

Next ==
    /\ UNCHANGED part
    /\ \/ /\ part = "images" /\ Image!Next
          /\ UNCHANGED <<variant_vars, slug_vars, match_vars, index_vars>>
       \/ /\ part = "variants" /\ Variant!Next
          /\ UNCHANGED <<image_vars, slug_vars, match_vars, index_vars>>
       \/ /\ part = "slugs" /\ Slug!Next
          /\ UNCHANGED <<image_vars, variant_vars, match_vars, index_vars>>
       \/ /\ part = "reviews" /\ Match!Next
          /\ UNCHANGED <<image_vars, variant_vars, slug_vars, index_vars>>
       \/ /\ part = "index" /\ Index!Next
          /\ UNCHANGED <<image_vars, variant_vars, slug_vars, match_vars>>

vars == <<part, image_vars, variant_vars, slug_vars, match_vars, index_vars>>

Spec == Init /\ [][Next]_vars

(* ProductImages: at most one image is primary but for a commit race.      *)
AtMostOnePrimary == part = "images" => Image!AtMostOnePrimary

(* ProductImages: a product with images keeps a primary one.               *)
PrimaryStays == part = "images" => Image!PrimaryStays

(* ProductVariants: one default variant, whatever forms are open.          *)
OneDefault == part = "variants" => Variant!OneDefault

(* ProductVariants: no two variants with the same attribute values.        *)
NoTwins == part = "variants" => Variant!NoTwins

(* ProductSlugs: a link to any slug a product had still leads to it.       *)
LinksKeepWorking == part = "slugs" => Slug!LinksKeepWorking

(* PosMatching: no candidate that scores enough is skipped by its brand.   *)
PruningHidesNothing == part \in {"scores", "reviews"} => Match!PruningHidesNothing

(* PosMatching: a review offers what agrees, and goes through as a whole.  *)
ReviewsGoThrough == part \in {"scores", "reviews"} => Match!ReviewsGoThrough

(* PosMatching: the same perfume in another size is shown, or enough that  *)
(* rank before it.                                                         *)
OtherSizesAreShown == part \in {"scores", "reviews"} => Match!OtherSizesAreShown

(* SearchIndex: a product is found by what it is, once a rebuild is clear. *)
FoundByWhatItIs == part = "index" => Index!FoundByWhatItIs
=============================================================================
