---------------------------- MODULE ProductSlugs ----------------------------
(***************************************************************************)
(* The addresses of products: Product.save() gives slugs and keeps the old *)
(* ones as redirects (catalog/models.py), the product page resolves both   *)
(* (storefront/views.py).                                                  *)
(*                                                                         *)
(* Grain.  save() reads the slug that is stored, without a lock, and only  *)
(* then writes the redirect and the row: a step each for the form.  A      *)
(* status action saves a product that it has loaded before.                *)
(*                                                                         *)
(* Data.  A slug is a value; which free one is generated is left open.     *)
(***************************************************************************)
CONSTANTS
    Products,   \* the products that may exist
    Slugs,      \* the addresses
    Requests,   \* portal requests that may be open at once
    NoProduct,  \* the owner of a slug that redirects nowhere
    NoSlug      \* the slug of a product not yet saved

VARIABLES
    slug,       \* slug[p]: Product.slug
    published,  \* the products whose status is PUBLISHED
    redirect,   \* redirect[s]: the product of the ProductSlugRedirect of s
    slug_req,   \* slug_req[r]: the product that r has in memory
    had,        \* history: had[p]: every slug p was ever saved with
    raced       \* history: raced[p]: the slugs of p that a save replaced
                \* although it had read the one before

vars == <<slug, published, redirect, slug_req, had, raced>>

(* A request that holds nothing.                                           *)
Idle == [op |-> "idle"]
Saving == [op : {"form"}, product : Products, slug : Slugs,
           previous : Slugs \cup {NoSlug}]
          \cup [op : {"status"}, product : Products, slug : Slugs]

Init ==
    /\ slug = [p \in Products |-> NoSlug]
    /\ published = {}
    /\ redirect = [s \in Slugs |-> NoProduct]
    /\ slug_req = [r \in Requests |-> Idle]
    /\ had = [p \in Products |-> {}]
    /\ raced = [p \in Products |-> {}]

Become(r, what) == slug_req' = [slug_req EXCEPT ![r] = what]
Stored(p) == slug[p] # NoSlug
Taken(s, p) == \E q \in Products \ {p} : slug[q] = s

-----------------------------------------------------------------------------
(* unique_slugify, with extra_taken_slugs.                                 *)
Free(p) == {s \in Slugs : ~Taken(s, p) /\ redirect[s] = NoProduct}

(* The product form is submitted with a slug, or a blank one that save()   *)
(* fills in; a new product is in one form only.                            *)
BeginForm(r, p, blank) ==
    /\ slug_req[r] = Idle
    /\ Stored(p) \/ ~\E q \in Requests : slug_req[q] # Idle /\ slug_req[q].product = p
    /\ \E s \in IF blank THEN Free(p) ELSE Slugs :
          Become(r, [op |-> "form", product |-> p, slug |-> s, previous |-> slug[p]])
    /\ UNCHANGED <<slug, published, redirect, had, raced>>

(* publish, unpublish, archive, feature: save(update_fields=...) of a row  *)
(* loaded before, whose slug is not written.                               *)
LoadStatus(r, p) ==
    /\ slug_req[r] = Idle
    /\ Stored(p)
    /\ Become(r, [op |-> "status", product |-> p, slug |-> slug[p]])
    /\ UNCHANGED <<slug, published, redirect, had, raced>>

(* Mutant: a slug that is taken back gives its redirect up, and the one it *)
(* replaces gets none.                                                     *)
RedirectsToOthers(p, previous, s) ==
    IF previous \notin {NoSlug, s} /\ redirect[s] # p /\ redirect[previous] = NoProduct
    THEN [redirect EXCEPT ![previous] = p] ELSE redirect

(* get_or_create: the first owner of an old slug keeps it.                 *)
Redirects(p, previous, s) ==
    IF previous \notin {NoSlug, s} /\ redirect[previous] = NoProduct
    THEN [redirect EXCEPT ![previous] = p] ELSE redirect

(* The form's transaction, which a slug that is taken rolls back.          *)
SaveProduct(r) ==
    /\ slug_req[r].op = "form"
    /\ LET p == slug_req[r].product
           s == slug_req[r].slug
       IN  \/ /\ ~Taken(s, p)
              /\ redirect' = Redirects(p, slug_req[r].previous, s)
              /\ slug' = [slug EXCEPT ![p] = s]
              /\ \E shown \in {{}, {p}} : published' = (published \ {p}) \cup shown
              /\ had' = [had EXCEPT ![p] = @ \cup {s}]
              /\ raced' = IF slug[p] \in {slug_req[r].previous, s} THEN raced
                          ELSE [raced EXCEPT ![p] = @ \cup {slug[p]}]
           \/ Taken(s, p) /\ UNCHANGED <<slug, published, redirect, had, raced>>
    /\ Become(r, Idle)

SaveStatus(r) ==
    /\ slug_req[r].op = "status"
    /\ LET p == slug_req[r].product IN
       /\ redirect' = Redirects(p, slug[p], slug_req[r].slug)
       /\ \E shown \in {{}, {p}} : published' = (published \ {p}) \cup shown
    /\ Become(r, Idle)
    /\ UNCHANGED <<slug, had, raced>>

Next ==
    \E r \in Requests :
        \/ \E p \in Products, blank \in BOOLEAN : BeginForm(r, p, blank)
        \/ \E p \in Products : LoadStatus(r, p)
        \/ SaveProduct(r) \/ SaveStatus(r)

Spec == Init /\ [][Next]_vars

-----------------------------------------------------------------------------
(* ProductDetailView: the published product of this slug, or else the one  *)
(* the slug redirects to; the empty set is "not found".                    *)
Live(s) == {p \in published : slug[p] = s}
Resolve(s) == IF Live(s) # {} THEN Live(s) ELSE {redirect[s]} \cap published

-----------------------------------------------------------------------------
(* Properties.                                                             *)

TypeOK ==
    /\ slug \in [Products -> Slugs \cup {NoSlug}]
    /\ published \subseteq {p \in Products : Stored(p)}
    /\ redirect \in [Slugs -> Products \cup {NoProduct}]
    /\ slug_req \in [Requests -> Saving \cup {Idle}]
    /\ had \in [Products -> SUBSET Slugs]
    /\ raced \in [Products -> SUBSET Slugs]

(* A generated slug takes no link away: what another product ever had is   *)
(* live or redirects, but for the overlapping saves.                       *)
GeneratedSlugsAreNew ==
    \A p, q \in Products : p # q => Free(p) \cap had[q] \subseteq raced[q]

(* Links keep working (ProductSlugRedirect): every slug a published        *)
(* product ever had leads to it, however often it was renamed and by whom, *)
(* unless another product had that slug too, or two saves of the product   *)
(* overlapped; and no slug that is generated takes a link away.            *)
LinksKeepWorking ==
    /\ GeneratedSlugsAreNew
    /\ \A p \in published : \A s \in had[p] :
          \/ Resolve(s) = {p}
          \/ s \in raced[p]
          \/ \E q \in Products \ {p} : s \in had[q]
=============================================================================
