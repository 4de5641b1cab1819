---------------------------- MODULE ProductListing ----------------------------
(***************************************************************************)
(* What the shop tells of its products: the listing with its filters and   *)
(* facet counts (storefront/filtering.py, ProductListView), the feeds      *)
(* (noor/catalog.py, noor/views.py) and the structured data of a product   *)
(* page (storefront/seo.py).                                               *)
(*                                                                         *)
(* Grain.  The pages only read: a step is a click that changes the query   *)
(* string.  The queries of one page see one catalogue.                     *)
(*                                                                         *)
(* Data.  A product is a record with the sequence of its variants, by      *)
(* position; a variant's values are pairs of an attribute and the slug of  *)
(* the value, which is unique only within the attribute.  Prices are in    *)
(* paisa.  Names, notes, links and images are left out, pages and sorting  *)
(* too.  No attribute has a slug that is a parameter of the page itself.    *)
(***************************************************************************)
EXTENDS Integers, FiniteSetsExt, SequencesExt

CONSTANTS
    Products,    \* the products of the catalogue
    Categories,  \* categories and subcategories
    Brands,      \* the brands
    Bounds,      \* the prices a shopper may type in
    Attributes,  \* the filterable attributes
    ValueSlugs,  \* the slugs of their values
    None         \* a filter that is not set, no brand, no subcategory

VARIABLES
    product,  \* product[p]: a Product row and its variants
    filters   \* the ListingFilters of the page

vars == <<product, filters>>

NoFilters == [category |-> None, brand |-> None, price_min |-> None, price_max |-> None,
              groups |-> [a \in Attributes |-> {}]]

(* A shop with the given catalogue.                                        *)
InitWith(catalogue) ==
    /\ product = catalogue
    /\ filters = NoFilters

Published == {p \in Products : product[p].published}
VariantsOf(p) == ToSet(product[p].variants)

-----------------------------------------------------------------------------
(* apply_filters.                                                          *)
InCategory(p, f) ==
    f.category # None => f.category \in {product[p].category, product[p].subcategory}
InBrand(p, f) == f.brand # None => f.brand = product[p].brand

(* One active variant within both bounds.                                  *)
InPrice(p, f) ==
    f.price_min # None \/ f.price_max # None =>
        \E v \in VariantsOf(p) :
            /\ v.is_active
            /\ f.price_min # None => v.price >= f.price_min
            /\ f.price_max # None => v.price <= f.price_max

(* Any variant with a value of one of the slugs, whatever its attribute.   *)
InGroup(p, slugs) ==
    slugs # {} => \E v \in VariantsOf(p) : \E value \in v.values : value[2] \in slugs

ApplyFilters(f, exclude) ==
    {p \in Published :
        /\ InCategory(p, f)
        /\ exclude # "brand" => InBrand(p, f)
        /\ InPrice(p, f)
        /\ \A a \in Attributes \ {exclude} : InGroup(p, f.groups[a])}

Results(f) == ApplyFilters(f, "nothing")

(* brand_facet_counts and attribute_facet_counts, for one option each.     *)
BrandCount(f, b) == Cardinality({p \in ApplyFilters(f, "brand") : product[p].brand = b})

Carries(p, value) == \E v \in VariantsOf(p) : value \in v.values

(* Mutant: counted among the results.                                      *)
ValueCountOfResults(f, a, s) == Cardinality({p \in Results(f) : Carries(p, <<a, s>>)})

ValueCount(f, a, s) == Cardinality({p \in ApplyFilters(f, a) : Carries(p, <<a, s>>)})

ChooseCategory(c) == filters' = [filters EXCEPT !.category = c] /\ UNCHANGED product
ChooseBrand(b) == filters' = [filters EXCEPT !.brand = b] /\ UNCHANGED product
ChoosePrices(low, high) ==
    /\ filters' = [filters EXCEPT !.price_min = low, !.price_max = high]
    /\ UNCHANGED product
TickValue(a, s) ==
    filters' = [filters EXCEPT !.groups[a] = SymDiff(@, {s})] /\ UNCHANGED product

Next ==
    \/ \E c \in Categories \cup {None} : ChooseCategory(c)
    \/ \E b \in Brands \cup {None} : ChooseBrand(b)
    \/ \E low, high \in Bounds \cup {None} : ChoosePrices(low, high)
    \/ \E a \in Attributes, s \in ValueSlugs : TickValue(a, s)

-----------------------------------------------------------------------------
(* The feeds: of the active variants, the default one when it can be       *)
(* bought, or else the first that can, or else the default one.            *)
Active(p) == {i \in DOMAIN product[p].variants : product[p].variants[i].is_active}

(* Product.default_variant, among those at the given positions: the        *)
(* default one, or the first.                                              *)
DefaultOf(variants, listed) ==
    LET default == {i \in listed : variants[i].is_default}
    IN  variants[Min(IF default = {} THEN listed ELSE default)]

Available(v) == IF v.available > 0 THEN v.available ELSE 0

(* Mutant: the default one.                                                *)
RepresentativeDefault(variants, listed) == DefaultOf(variants, listed)

Representative(variants, listed) ==
    LET buyable == {i \in listed : Available(variants[i]) > 0}
        default == DefaultOf(variants, listed)
    IN  IF Available(default) > 0 \/ buyable = {} THEN default
        ELSE variants[Min(buyable)]

WholeRupees(amount) == (amount + 50) \div 100

Rows == {p \in Published : Active(p) # {}}
Row(p) ==
    LET v == Representative(product[p].variants, Active(p))
    IN  [price |-> WholeRupees(v.price), in_stock |-> Available(v) > 0,
         stock_qty |-> Available(v)]

(* product_json_ld: the default variant, active or not.                    *)
Default(p) == DefaultOf(product[p].variants, DOMAIN product[p].variants)

Offer(p) ==
    LET v == Default(p)
    IN  [price |-> v.price, in_stock |-> v.available > 0]

-----------------------------------------------------------------------------
(* Properties.                                                             *)

(* The number next to a brand or a value is the number of products that a  *)
(* click on it alone shows, with the other filters as they are: unless     *)
(* another attribute has a value of the same slug.                         *)
CountsAreResults ==
    /\ \A b \in Brands :
          BrandCount(filters, b) = Cardinality(Results([filters EXCEPT !.brand = b]))
    /\ \A a \in Attributes, s \in ValueSlugs :
          (\E p \in Published, other \in Attributes \ {a} : Carries(p, <<other, s>>))
          \/ ValueCount(filters, a, s)
                = Cardinality(Results([filters EXCEPT !.groups[a] = {s}]))

(* What the shopper can put into the cart of a product.                    *)
Buyable(p) == {v \in VariantsOf(p) : v.is_active /\ v.available > 0}

(* The feeds have a product in stock when it can be bought, with the price *)
(* and the count of one variant that can; and a page that claims to be in  *)
(* stock is right and of that price, but for an inactive default variant.  *)
AdvertisedAsSold ==
    \A p \in Published :
        /\ p \in Rows /\ Row(p).in_stock <=> Buyable(p) # {}
        /\ p \in Rows /\ Row(p).in_stock =>
              \E v \in Buyable(p) : /\ Row(p).price = WholeRupees(v.price)
                                    /\ Row(p).stock_qty = v.available
        /\ Offer(p).in_stock /\ Default(p).is_active =>
              Buyable(p) # {} /\ Row(p).price = WholeRupees(Offer(p).price)
=============================================================================
