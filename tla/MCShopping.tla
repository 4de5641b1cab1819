----------------------------- MODULE MCShopping -----------------------------
(***************************************************************************)
(* What a shopper and an order meet, for TLC: the listing and the feeds,   *)
(* the cart, the prices of an order and its message.  They share no state, *)
(* so each behaviour is one of one part: "part" says which.                *)
(***************************************************************************)
EXTENDS FiniteSets, Integers, TLC

CONSTANTS Variants, Requests, MaxQty, MaxStock,
          Prices, Quantities, Rates, Thresholds, None,
          Products, Categories, Brands, Bounds, Attributes, ValueSlugs

ASSUME StockAssumption == MaxStock \in Nat
ASSUME VariantsAssumption == IsFiniteSet(Variants)
(* Amounts of money are in whole units and never negative.                 *)
ASSUME MoneyAssumption ==
    /\ Prices \subseteq Nat /\ Rates \subseteq Nat /\ Thresholds \subseteq Nat
    /\ Quantities \subseteq Nat
ASSUME NoneAssumption ==
    /\ None \notin [unit_price : Prices, quantity : Quantities, line_total : Nat]
    /\ None \notin Brands
(* No attribute has the slug of a parameter of the page itself; and the    *)
(* catalogues below have products that carry a value of one.               *)
ASSUME SlugsAssumption ==
    /\ Attributes \cap {"brand", "nothing"} = {}
    /\ Attributes # {} /\ ValueSlugs # {}

VARIABLES part,
    available, item, cart_req, locker, added, ordered, muddled,
    line, order, editable, edit, told, misread,
    product, filters,
    item_lines, frame, max_chars, included, message

cart_vars == <<available, item, cart_req, locker, added, ordered, muddled>>
total_vars == <<line, order, editable, edit, told, misread>>
listing_vars == <<product, filters>>
message_vars == <<item_lines, frame, max_chars, included, message>>

(* Orders of a few items, and of about ten, where the notice gets longer.  *)
Orders == (UNION {[1..n -> {20, 24}] : n \in 1..3})
          \cup {[i \in 1..n |-> m] : n \in 8..12, m \in {20, 24}}
Frames == {90, 150}
MaxChars == 100..260 \cup {320, 330, 340, 345, 350, 355, 360, 365, 370}

Cart == INSTANCE CartCheckout
Totals == INSTANCE OrderTotals
Listing == INSTANCE ProductListing
Notice == INSTANCE OrderMessage

Symmetry == Permutations(Variants) \cup Permutations(Requests)

(* Catalogues: one product of any two variants for the feeds, and two of a *)
(* few kinds for the listing.                                              *)
VariantRow(price, n, active, default, values) ==
    [price |-> price, available |-> n, is_active |-> active, is_default |-> default,
     values |-> values]
ProductRow(b, c, variants) ==
    [brand |-> b, category |-> c[1], subcategory |-> c[2], published |-> TRUE,
     variants |-> variants]
First(S) == CHOOSE x \in S : TRUE
Brand == First(Brands)
Category == First(Categories)
AnyVariant(default) ==
    {VariantRow(m, n, a, default, {}) :
        m \in {10000, 14950}, n \in {-1, 0, 1, 2}, a \in BOOLEAN}
AnySizes == {<<v>> : v \in AnyVariant(TRUE)}
            \cup {<<v, w>> : v \in AnyVariant(TRUE), w \in AnyVariant(FALSE)}
            \cup {<<v, w>> : v \in AnyVariant(FALSE), w \in AnyVariant(TRUE)}
Carried(a, s) == VariantRow(10000, 1, TRUE, TRUE, {<<a, s>>})
Another(active, values) == VariantRow(14950, 1, active, FALSE, values)
FewSizes == {<<Carried(a, s)>> : a \in Attributes, s \in ValueSlugs}
            \cup {<<Carried(First(Attributes), s),
                     Another(b, {<<First(Attributes), t>>})>> :
                       s, t \in ValueSlugs, b \in BOOLEAN}
FewProducts == {ProductRow(b, c, v) : b \in {Brand, None}, v \in FewSizes,
                                      c \in Categories \X {Category}}
Plain == ProductRow(None, <<Category, None>>, <<Another(TRUE, {})>>)
Rival == ProductRow(Brand, <<Category, None>>,
                    <<Carried(First(Attributes), First(ValueSlugs))>>)
Draft == [Plain EXCEPT !.published = FALSE]

OneProduct(row, other) ==
    [p \in Products |-> IF p = First(Products) THEN row ELSE other]
Feeds == {OneProduct(ProductRow(Brand, <<Category, None>>, v), Draft) : v \in AnySizes}
Listings == {OneProduct(row, other) : row \in FewProducts, other \in {Plain, Rival}}

(* The parts that are not looked at rest, with no state.                   *)
CartRests == /\ available = {} /\ item = {} /\ cart_req = {} /\ locker = {}
             /\ added = {} /\ ordered = {} /\ muddled = {}
TotalsRest == /\ line = {} /\ order = {} /\ editable = {}
              /\ edit = {} /\ told = {} /\ misread = {}
ListingRests == product = {} /\ filters = {}
NoticeRests == /\ item_lines = {} /\ frame = {} /\ max_chars = {}
               /\ included = {} /\ message = {}

Init ==
    /\ part \in {"cart", "totals", "feeds", "listing", "message"}
    /\ IF part = "cart" THEN Cart!Init ELSE CartRests
    /\ IF part = "totals" THEN Totals!Init ELSE TotalsRest
    /\ IF part = "message" THEN Notice!Init ELSE NoticeRests
    /\ \/ part = "feeds" /\ \E c \in Feeds : Listing!InitWith(c)
       \/ part = "listing" /\ \E c \in Listings : Listing!InitWith(c)
       \/ part \notin {"feeds", "listing"} /\ ListingRests

Next ==
    /\ UNCHANGED part
    /\ \/ /\ part = "cart" /\ Cart!Next
          /\ UNCHANGED <<total_vars, listing_vars, message_vars>>
       \/ /\ part = "totals" /\ Totals!Next
          /\ UNCHANGED <<cart_vars, listing_vars, message_vars>>
       \/ /\ part = "listing" /\ Listing!Next
          /\ UNCHANGED <<cart_vars, total_vars, message_vars>>
       \/ /\ part = "message" /\ Notice!Next
          /\ UNCHANGED <<cart_vars, total_vars, listing_vars>>

Spec == Init /\ [][Next]_<<part, cart_vars, total_vars, listing_vars, message_vars>>

(* CartCheckout: what the shopper was told is in the cart or was ordered.  *)
TabsAddUp == part = "cart" => Cart!TabsAddUp

(* OrderTotals: the customer pays the sum of the lines and the delivery.   *)
TotalsAddUp == part = "totals" => Totals!TotalsAddUp

(* OrderTotals: a line is what it costs and what the trail tells.          *)
LinesAreWhatTheyCost == part = "totals" => Totals!LinesAreWhatTheyCost

(* OrderTotals: ordering more never makes the delivery dearer.             *)
MoreNeverCostsDelivery == part = "totals" => Totals!MoreNeverCostsDelivery

(* ProductListing: a facet's count is the number of products it shows.     *)
CountsAreResults == part = "listing" => Listing!CountsAreResults

(* ProductListing: what is said to be in stock can be bought.              *)
AdvertisedAsSold == part \in {"feeds", "listing"} => Listing!AdvertisedAsSold

(* OrderMessage: the message tells as many items as fit.                   *)
MessageFits == part = "message" => Notice!MessageFits
=============================================================================
