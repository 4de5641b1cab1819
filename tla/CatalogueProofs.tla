--------------------------- MODULE CatalogueProofs ---------------------------
(***************************************************************************)
(* What the addresses of products, and the index, the images and the       *)
(* variants of one, can be relied on for: with any number of products,     *)
(* addresses, images, variants and requests, and any names and values.     *)
(***************************************************************************)
EXTENDS MCCatalogue, FiniteSetTheorems, TLAPS

-----------------------------------------------------------------------------
(* ProductSlugs.  An old address redirects somewhere or was lost in a race *)
(* that is written down, and it redirects only to a product that had it.   *)
(* So the address of one product alone can only lead to that product.      *)

(* An address a product had is its own, redirects or was raced.            *)
OldSlugsAreKnown ==
    \A p \in Products : \A s \in had[p] :
        s = slug[p] \/ redirect[s] # NoProduct \/ s \in raced[p]

(* An address redirects to a product that had it, and whatever a product   *)
(* or a request calls the product's address was one.                       *)
RedirectsAreOld ==
    /\ \A s \in Slugs : redirect[s] # NoProduct => s \in had[redirect[s]]
    /\ \A p \in Products :
          /\ slug[p] # NoSlug => slug[p] \in had[p]
          /\ had[p] # {} => slug[p] # NoSlug
    /\ \A r \in Requests :
          /\ slug_req[r].op = "form" /\ slug_req[r].previous # NoSlug =>
                slug_req[r].previous \in had[slug_req[r].product]
          /\ slug_req[r].op = "status" =>
                slug_req[r].slug \in had[slug_req[r].product]

SlugInv == Slug!TypeOK /\ OldSlugsAreKnown /\ RedirectsAreOld

LEMMA SlugInvSuffices ==
    ASSUME SlugInv
    PROVE  Slug!LinksKeepWorking
  <1>1. Slug!GeneratedSlugsAreNew
    <2> SUFFICES ASSUME NEW p \in Products, NEW q \in Products, p # q,
                        NEW s \in Slug!Free(p) \cap had[q]
                 PROVE  s \in raced[q]
      BY DEF Slug!GeneratedSlugsAreNew
    <2>1. redirect[s] = NoProduct /\ slug[q] # s
      BY DEF Slug!Free, Slug!Taken
    <2> QED
      BY <2>1 DEF SlugInv, OldSlugsAreKnown
  <1>2. ASSUME NEW p \in published, NEW s \in had[p], s \notin raced[p],
               \A q \in Products \ {p} : s \notin had[q]
        PROVE  Slug!Resolve(s) = {p}
    <2>1. p \in Products /\ s \in Slugs /\ published \subseteq Products
      BY <1>2 DEF SlugInv, Slug!TypeOK
    <2>2. Slug!Live(s) \subseteq {p}
      BY <1>2, <2>1, NoneAssumption DEF Slug!Live, SlugInv, RedirectsAreOld
    <2>3. CASE slug[p] = s
      BY <1>2, <2>2, <2>3 DEF Slug!Live, Slug!Resolve
    <2>4. CASE slug[p] # s
      <3>1. redirect[s] # NoProduct
        BY <1>2, <2>1, <2>4 DEF SlugInv, OldSlugsAreKnown
      <3>2. redirect[s] \in Products /\ s \in had[redirect[s]]
        BY <2>1, <3>1 DEF SlugInv, Slug!TypeOK, RedirectsAreOld
      <3>3. redirect[s] = p
        BY <1>2, <3>2
      <3>4. Slug!Live(s) = {}
        BY <2>2, <2>4 DEF Slug!Live
      <3> QED
        BY <1>2, <3>3, <3>4 DEF Slug!Resolve
    <2> QED
      BY <2>3, <2>4
  <1> QED
    BY <1>1, <1>2 DEF Slug!LinksKeepWorking, SlugInv, Slug!TypeOK

LEMMA InitSlugs == Slug!Init => SlugInv
  BY NoneAssumption DEF Slug!Init, SlugInv, Slug!TypeOK, OldSlugsAreKnown,
                        RedirectsAreOld,
                        Slug!Idle, Slug!Stored

(* A request reads the address that is stored.                             *)
LEMMA LoadsKeep ==
    ASSUME SlugInv, NEW r \in Requests, NEW p \in Products,
           (\E blank \in BOOLEAN : Slug!BeginForm(r, p, blank)) \/ Slug!LoadStatus(r, p)
    PROVE  SlugInv'
  <1>1. /\ UNCHANGED <<slug, published, redirect, had, raced>>
        /\ \E new \in Slug!Saving :
              /\ slug_req' = [slug_req EXCEPT ![r] = new]
              /\ new.op = "form" /\ new.previous # NoSlug =>
                    new.previous \in had[new.product]
              /\ new.op = "status" => new.slug \in had[new.product]
    <2>1. slug[p] \in Slugs \cup {NoSlug} /\ (slug[p] # NoSlug => slug[p] \in had[p])
      BY DEF SlugInv, Slug!TypeOK, RedirectsAreOld
    <2>2. CASE \E blank \in BOOLEAN : Slug!BeginForm(r, p, blank)
      <3>1. PICK blank \in BOOLEAN : Slug!BeginForm(r, p, blank)
        BY <2>2
      <3>2. PICK s \in Slugs :
               slug_req' = [slug_req EXCEPT ![r] =
                   [op |-> "form", product |-> p, slug |-> s, previous |-> slug[p]]]
        BY <3>1 DEF Slug!BeginForm, Slug!Become, Slug!Free
      <3> DEFINE new == [op |-> "form", product |-> p, slug |-> s,
                         previous |-> slug[p]]
      <3>3. /\ new \in Slug!Saving /\ new.op = "form" /\ new.product = p
            /\ new.previous = slug[p] /\ slug_req' = [slug_req EXCEPT ![r] = new]
        BY <2>1, <3>2 DEF Slug!Saving
      <3>4. UNCHANGED <<slug, published, redirect, had, raced>>
        BY <3>1 DEF Slug!BeginForm
      <3> HIDE DEF new
      <3> QED
        BY <2>1, <3>3, <3>4
    <2>3. CASE Slug!LoadStatus(r, p)
      <3> DEFINE new == [op |-> "status", product |-> p, slug |-> slug[p]]
      <3>1. slug[p] \in Slugs
        BY <2>1, <2>3 DEF Slug!LoadStatus, Slug!Stored
      <3>2. /\ new \in Slug!Saving /\ new.op = "status" /\ new.product = p
            /\ new.slug = slug[p] /\ slug_req' = [slug_req EXCEPT ![r] = new]
        BY <2>3, <3>1 DEF Slug!Saving, Slug!LoadStatus, Slug!Become
      <3>3. slug[p] \in had[p]
        BY <2>1, <2>3 DEF Slug!LoadStatus, Slug!Stored
      <3>4. UNCHANGED <<slug, published, redirect, had, raced>>
        BY <2>3 DEF Slug!LoadStatus
      <3> HIDE DEF new
      <3> QED
        BY <3>2, <3>3, <3>4
    <2> QED
      BY <2>2, <2>3
  <1>2. PICK new \in Slug!Saving :
              /\ slug_req' = [slug_req EXCEPT ![r] = new]
              /\ new.op = "form" /\ new.previous # NoSlug =>
                    new.previous \in had[new.product]
              /\ new.op = "status" => new.slug \in had[new.product]
    BY <1>1
  <1>3. Slug!TypeOK'
    BY <1>1, <1>2 DEF SlugInv, Slug!TypeOK, Slug!Stored
  <1>4. OldSlugsAreKnown'
    BY <1>1 DEF SlugInv, OldSlugsAreKnown
  <1>5. RedirectsAreOld'
    BY <1>1, <1>2 DEF SlugInv, Slug!TypeOK, RedirectsAreOld
  <1> QED
    BY <1>3, <1>4, <1>5 DEF SlugInv

(* A redirect is added for an address the product had, and never changed.  *)
LEMMA RedirectsGrow ==
    ASSUME SlugInv, NEW p \in Products, NEW s,
           NEW previous \in Slugs \cup {NoSlug},
           previous # NoSlug => previous \in had[p],
           redirect' = Slug!Redirects(p, previous, s)
    PROVE  /\ redirect' \in [Slugs -> Products \cup {NoProduct}]
           /\ \A t \in Slugs : redirect[t] # NoProduct => redirect'[t] = redirect[t]
           /\ \A t \in Slugs : redirect'[t] # NoProduct => t \in had[redirect'[t]]
           /\ previous \notin {NoSlug, s} => redirect'[previous] # NoProduct
  <1>1. redirect \in [Slugs -> Products \cup {NoProduct}]
    BY DEF SlugInv, Slug!TypeOK
  <1>2. \A t \in Slugs : redirect[t] # NoProduct => t \in had[redirect[t]]
    BY DEF SlugInv, RedirectsAreOld
  <1>3. CASE previous \notin {NoSlug, s} /\ redirect[previous] = NoProduct
    <2>1. redirect' = [redirect EXCEPT ![previous] = p] /\ previous \in Slugs
      BY <1>3 DEF Slug!Redirects
    <2> QED
      BY <1>1, <1>2, <1>3, <2>1, NoneAssumption
  <1>4. CASE ~(previous \notin {NoSlug, s} /\ redirect[previous] = NoProduct)
    <2>1. redirect' = redirect
      BY <1>4 DEF Slug!Redirects
    <2> QED
      BY <1>1, <1>2, <1>4, <2>1
  <1> QED
    BY <1>3, <1>4

LEMMA SaveProductKeeps ==
    ASSUME SlugInv, NEW r \in Requests, Slug!SaveProduct(r)
    PROVE  SlugInv'
  <1> DEFINE p == slug_req[r].product
             s == slug_req[r].slug
             previous == slug_req[r].previous
  <1>1. /\ p \in Products /\ s \in Slugs /\ previous \in Slugs \cup {NoSlug}
        /\ previous # NoSlug => previous \in had[p]
    <2>1. slug_req[r] \in Slug!Saving /\ slug_req[r].op = "form"
      BY DEF Slug!SaveProduct, SlugInv, Slug!TypeOK, Slug!Idle
    <2> QED
      BY <2>1 DEF Slug!Saving, SlugInv, RedirectsAreOld
  <1>2. slug_req' = [slug_req EXCEPT ![r] = Slug!Idle]
    BY DEF Slug!SaveProduct, Slug!Become
  <1>3. CASE Slug!Taken(s, p)
    <2>1. UNCHANGED <<slug, published, redirect, had, raced>>
      BY <1>3 DEF Slug!SaveProduct
    <2>2. Slug!TypeOK' /\ OldSlugsAreKnown'
      BY <1>2, <2>1 DEF SlugInv, Slug!TypeOK, OldSlugsAreKnown, Slug!Stored
    <2>3. RedirectsAreOld'
      BY <1>2, <2>1 DEF SlugInv, Slug!TypeOK, RedirectsAreOld, Slug!Idle
    <2> QED
      BY <2>2, <2>3 DEF SlugInv
  <1>4. CASE ~Slug!Taken(s, p)
    <2>1. /\ redirect' = Slug!Redirects(p, previous, s)
          /\ slug' = [slug EXCEPT ![p] = s]
          /\ published' \subseteq published \cup {p}
          /\ had' = [had EXCEPT ![p] = @ \cup {s}]
          /\ raced' = IF slug[p] \in {previous, s} THEN raced
                      ELSE [raced EXCEPT ![p] = @ \cup {slug[p]}]
      BY <1>4 DEF Slug!SaveProduct
    <2> HIDE DEF p, s, previous
    <2>2. /\ redirect' \in [Slugs -> Products \cup {NoProduct}]
          /\ \A t \in Slugs : redirect[t] # NoProduct => redirect'[t] = redirect[t]
          /\ \A t \in Slugs : redirect'[t] # NoProduct => t \in had[redirect'[t]]
          /\ previous \notin {NoSlug, s} => redirect'[previous] # NoProduct
      BY <1>1, <2>1, RedirectsGrow
    <2>3. /\ slug \in [Products -> Slugs \cup {NoSlug}]
          /\ had \in [Products -> SUBSET Slugs] /\ raced \in [Products -> SUBSET Slugs]
      BY DEF SlugInv, Slug!TypeOK
    <2>4. slug[p] # NoSlug => slug[p] \in had[p]
      BY <1>1 DEF SlugInv, RedirectsAreOld
    <2>5. slug[p] = NoSlug => previous = NoSlug
      BY <1>1 DEF SlugInv, RedirectsAreOld
    <2>6. raced' \in [Products -> SUBSET Slugs]
      BY <1>1, <2>1, <2>3, <2>5
    <2>7. Slug!TypeOK'
      <3>1. slug' \in [Products -> Slugs \cup {NoSlug}]
            /\ had' \in [Products -> SUBSET Slugs]
        BY <1>1, <2>1, <2>3
      <3>2. published' \subseteq {q \in Products : slug'[q] # NoSlug}
        BY <1>1, <2>1, <2>3, NoneAssumption DEF SlugInv, Slug!TypeOK, Slug!Stored
      <3>3. slug_req' \in [Requests -> Slug!Saving \cup {Slug!Idle}]
        BY <1>2 DEF SlugInv, Slug!TypeOK
      <3> QED
        BY <2>2, <2>6, <3>1, <3>2, <3>3 DEF Slug!TypeOK, Slug!Stored
    <2>8. OldSlugsAreKnown'
      <3> SUFFICES ASSUME NEW q \in Products, NEW t \in had'[q]
                   PROVE  t = slug'[q] \/ redirect'[t] # NoProduct \/ t \in raced'[q]
        BY DEF OldSlugsAreKnown
      <3>1. t \in Slugs /\ raced[q] \subseteq raced'[q]
        BY <1>1, <2>1, <2>3
      <3>2. t \in had[q] =>
               t = slug[q] \/ redirect[t] # NoProduct \/ t \in raced[q]
        BY DEF SlugInv, OldSlugsAreKnown
      <3>3. CASE q # p
        BY <2>1, <2>2, <2>3, <3>1, <3>2, <3>3
      <3>4. CASE q = p /\ t = s
        BY <1>1, <2>1, <2>3, <3>4
      <3>5. CASE q = p /\ t # s
        <4>1. t \in had[p]
          BY <1>1, <2>1, <2>3, <3>5
        <4>2. CASE t = slug[p]
          <5>1. CASE slug[p] = previous
            BY <2>2, <3>1, <3>5, <4>2, <5>1, NoneAssumption
          <5>2. CASE slug[p] # previous
            BY <1>1, <2>1, <2>3, <3>5, <4>2, <5>2
          <5> QED
            BY <5>1, <5>2
        <4> QED
          BY <2>2, <3>1, <3>2, <3>5, <4>1, <4>2
      <3> QED
        BY <3>3, <3>4, <3>5
    <2>9. RedirectsAreOld'
      <3>1. \A q \in Products : had[q] \subseteq had'[q]
        BY <1>1, <2>1, <2>3
      <3>2. \A t \in Slugs : redirect'[t] # NoProduct => t \in had'[redirect'[t]]
        BY <2>2, <3>1
      <3>3. \A q \in Products : /\ slug'[q] # NoSlug => slug'[q] \in had'[q]
                                /\ had'[q] # {} => slug'[q] # NoSlug
        BY <1>1, <2>1, <2>3, NoneAssumption DEF SlugInv, RedirectsAreOld
      <3>4. ASSUME NEW q \in Requests
            PROVE  /\ slug_req'[q].op = "form" /\ slug_req'[q].previous # NoSlug =>
                         slug_req'[q].previous \in had'[slug_req'[q].product]
                   /\ slug_req'[q].op = "status" =>
                         slug_req'[q].slug \in had'[slug_req'[q].product]
        <4>1. CASE q = r
          BY <1>2, <4>1 DEF Slug!Idle, SlugInv, Slug!TypeOK
        <4>2. CASE q # r
          <5>1. slug_req'[q] = slug_req[q] /\ slug_req[q] \in Slug!Saving \cup {Slug!Idle}
            BY <1>2, <4>2 DEF SlugInv, Slug!TypeOK
          <5>2. slug_req[q].op \in {"form", "status"} =>
                   slug_req[q].product \in Products
            BY <5>1 DEF Slug!Saving, Slug!Idle
          <5> QED
            BY <3>1, <5>1, <5>2 DEF SlugInv, RedirectsAreOld
        <4> QED
          BY <4>1, <4>2
      <3> QED
        BY <3>2, <3>3, <3>4 DEF RedirectsAreOld
    <2> QED
      BY <2>7, <2>8, <2>9 DEF SlugInv
  <1> QED
    BY <1>3, <1>4

LEMMA SaveStatusKeeps ==
    ASSUME SlugInv, NEW r \in Requests, Slug!SaveStatus(r)
    PROVE  SlugInv'
  <1> DEFINE p == slug_req[r].product
  <1>1. p \in Products /\ slug[p] \in Slugs /\ slug[p] \in had[p]
    <2>1. slug_req[r] \in Slug!Saving /\ slug_req[r].op = "status"
      BY DEF Slug!SaveStatus, SlugInv, Slug!TypeOK, Slug!Idle
    <2>2. p \in Products /\ had[p] # {}
      BY <2>1 DEF Slug!Saving, SlugInv, RedirectsAreOld
    <2> QED
      BY <2>2 DEF SlugInv, Slug!TypeOK, RedirectsAreOld
  <1>2. /\ slug_req' = [slug_req EXCEPT ![r] = Slug!Idle]
        /\ redirect' = Slug!Redirects(p, slug[p], slug_req[r].slug)
        /\ published' \subseteq published \cup {p}
        /\ UNCHANGED <<slug, had, raced>>
    BY DEF Slug!SaveStatus, Slug!Become
  <1> HIDE DEF p
  <1>3. /\ redirect' \in [Slugs -> Products \cup {NoProduct}]
        /\ \A t \in Slugs : redirect[t] # NoProduct => redirect'[t] = redirect[t]
        /\ \A t \in Slugs : redirect'[t] # NoProduct => t \in had[redirect'[t]]
    BY <1>1, <1>2, RedirectsGrow
  <1>4. Slug!TypeOK'
    BY <1>1, <1>2, <1>3, NoneAssumption DEF SlugInv, Slug!TypeOK, Slug!Stored
  <1>5. OldSlugsAreKnown'
    <2>1. \A q \in Products : had[q] \subseteq Slugs
      BY DEF SlugInv, Slug!TypeOK
    <2> QED
      BY <1>2, <1>3, <2>1 DEF SlugInv, OldSlugsAreKnown
  <1>6. RedirectsAreOld'
    BY <1>2, <1>3 DEF SlugInv, Slug!TypeOK, RedirectsAreOld, Slug!Idle
  <1> QED
    BY <1>4, <1>5, <1>6 DEF SlugInv

LEMMA SlugsInductive ==
    SlugInv /\ (Slug!Next \/ UNCHANGED slug_vars) => SlugInv'
  <1>1. ASSUME SlugInv, UNCHANGED slug_vars
        PROVE  SlugInv'
    BY <1>1 DEF slug_vars, SlugInv, Slug!TypeOK, OldSlugsAreKnown, RedirectsAreOld,
                Slug!Stored
  <1> QED
    BY <1>1, LoadsKeep, SaveProductKeeps, SaveStatusKeeps DEF Slug!Next
-----------------------------------------------------------------------------
(* SearchIndex.  A request that no change of the product has overtaken     *)
(* still knows what is in the database, so that what it writes, or finds   *)
(* it need not write, is the text of the product as it is.                 *)

(* What request q knows is what is stored.                                 *)
UpToDate(q) ==
    LET r == index_req[q]
    IN  ~r.overtaken =>
        /\ r.op = "form" => r.brand = brand
        /\ r.op = "read" => /\ r.name = name /\ r.text = search_text
                            /\ r.joined \subseteq {brand}
        /\ r.op = "computed" =>
              /\ r.text = search_text
              /\ r.new = Index!Text(name, brand, skus, valued \ r.deleted)

Known == \A q \in Requests : index_req[q] # Index!Idle => UpToDate(q)

Indexed == ~behind => ~Index!Stale

IndexInv == Index!TypeOK /\ Known /\ Indexed

LEMMA TextIsWords ==
    ASSUME Index!TypeOK, NEW n \in ProductNames, NEW b \in BrandNames,
           NEW s \in SUBSET ProductSkus,
           NEW v \in SUBSET ProductValues
    PROVE  Index!Text(n, b, s, v) \in SUBSET Index!Vocabulary
  BY DEF Index!Text, Index!Vocabulary

(* The requests that a change overtakes keep all else they hold.           *)
LEMMA OvertakenKeeps ==
    ASSUME Index!TypeOK, NEW q \in Requests
    PROVE  /\ Index!Overtaken(q) \in Index!Forms \cup Index!Reads
                                     \cup Index!Computed \cup {Index!Idle}
           /\ Index!Overtaken(q) # Index!Idle => Index!Overtaken(q).overtaken = TRUE
  <1>1. index_req[q] \in Index!Forms \cup Index!Reads
                         \cup Index!Computed \cup {Index!Idle}
    BY DEF Index!TypeOK
  <1>2. CASE index_req[q] \in Index!Forms
    BY <1>2 DEF Index!Overtaken, Index!Forms, Index!Idle
  <1>3. CASE index_req[q] \in Index!Reads
    BY <1>3 DEF Index!Overtaken, Index!Reads, Index!Idle
  <1>4. CASE index_req[q] \in Index!Computed
    BY <1>4 DEF Index!Overtaken, Index!Computed, Index!Idle
  <1>5. CASE index_req[q] = Index!Idle
    BY <1>5 DEF Index!Overtaken
  <1> QED
    BY <1>1, <1>2, <1>3, <1>4, <1>5

(* What the others know when request r has written and ends.               *)
LEMMA FinishKeeps ==
    ASSUME Index!TypeOK, Known, NEW r \in Requests, Index!Finish(r),
           UNCHANGED <<brand, filterable>>
    PROVE  /\ index_req' \in [Requests -> Index!Forms \cup Index!Reads
                                          \cup Index!Computed \cup {Index!Idle}]
           /\ Known'
  <1> DEFINE product == <<name, skus, valued, search_text>>
  <1>1. index_req' = [q \in Requests |->
            IF q = r THEN Index!Idle
            ELSE IF product' # product THEN Index!Overtaken(q) ELSE index_req[q]]
    BY DEF Index!Finish
  <1>2. index_req' \in [Requests -> Index!Forms \cup Index!Reads
                                    \cup Index!Computed \cup {Index!Idle}]
    BY <1>1, OvertakenKeeps DEF Index!TypeOK
  <1>3. ASSUME NEW q \in Requests, index_req'[q] # Index!Idle
        PROVE  UpToDate(q)'
    <2>1. q # r
      BY <1>1, <1>3
    <2>2. CASE product' # product
      <3>1. index_req'[q] = Index!Overtaken(q)
        BY <1>1, <2>1, <2>2
      <3> QED
        BY <1>3, <3>1, OvertakenKeeps DEF UpToDate
    <2>3. CASE product' = product
      <3>1. index_req'[q] = index_req[q]
        BY <1>1, <2>1, <2>3
      <3>2. UNCHANGED <<name, brand, skus, valued, filterable, search_text>>
        BY <2>3
      <3> QED
        BY <1>3, <3>1, <3>2 DEF Known, UpToDate, Index!Text
    <2> QED
      BY <2>2, <2>3
  <1> QED
    BY <1>2, <1>3 DEF Known

LEMMA InitIndex == Index!Init => IndexInv
  <1> SUFFICES ASSUME Index!Init
               PROVE  IndexInv
    OBVIOUS
  <1>1. Index!TypeOK
    BY DEF Index!Init, Index!TypeOK, Index!Text, Index!Vocabulary
  <1>2. Known
    BY DEF Index!Init, Known
  <1> QED
    BY <1>1, <1>2 DEF Index!Init, IndexInv, Indexed, Index!Stale

(* A request that reads or computes changes only what it holds.            *)
LEMMA HoldsKeep ==
    ASSUME IndexInv, NEW r \in Requests,
           NEW new \in Index!Forms \cup Index!Reads \cup Index!Computed,
           index_req' = [index_req EXCEPT ![r] = new],
           UNCHANGED <<name, brand, skus, valued, filterable, search_text, behind>>,
           UpToDate(r)'
    PROVE  IndexInv'
  <1>1. Index!TypeOK'
    BY DEF IndexInv, Index!TypeOK, Index!Vocabulary, Index!Forms, Index!Reads,
           Index!Computed
  <1>2. Known'
    <2> SUFFICES ASSUME NEW q \in Requests, index_req'[q] # Index!Idle, q # r
                 PROVE  UpToDate(q)'
      BY DEF Known
    <2>1. index_req'[q] = index_req[q]
      BY DEF IndexInv, Index!TypeOK
    <2> QED
      BY <2>1 DEF IndexInv, Known, UpToDate, Index!Text
  <1>3. Indexed'
    BY DEF IndexInv, Indexed, Index!Stale, Index!Text
  <1> QED
    BY <1>1, <1>2, <1>3 DEF IndexInv

LEMMA LoadFormKeeps ==
    ASSUME IndexInv, NEW r \in Requests, Index!LoadForm(r)
    PROVE  IndexInv'
  <1> DEFINE new == [op |-> "form", brand |-> brand, overtaken |-> FALSE]
  <1>1. /\ new \in Index!Forms /\ new.op = "form" /\ new.brand = brand
        /\ index_req' = [index_req EXCEPT ![r] = new]
        /\ UNCHANGED <<name, brand, skus, valued, filterable, search_text, behind>>
    BY DEF Index!LoadForm, Index!Forms, IndexInv, Index!TypeOK
  <1> HIDE DEF new
  <1>2. index_req'[r] = new
    BY <1>1 DEF IndexInv, Index!TypeOK
  <1>3. UpToDate(r)'
    BY <1>1, <1>2 DEF UpToDate
  <1> QED
    BY <1>1, <1>3, HoldsKeep

LEMMA ReadKeeps ==
    ASSUME IndexInv, NEW r \in Requests, NEW deleted \in SUBSET ProductValues,
           NEW joined \in SUBSET {brand}, Index!Read(r, deleted, joined)
    PROVE  IndexInv'
  <1> DEFINE new == [op |-> "read", name |-> name, text |-> search_text,
                     deleted |-> deleted, joined |-> joined, overtaken |-> FALSE]
  <1>1. /\ new \in Index!Reads /\ new.op = "read"
        /\ new.name = name /\ new.text = search_text /\ new.joined = joined
    BY DEF Index!Reads, IndexInv, Index!TypeOK
  <1>2. /\ index_req' = [index_req EXCEPT ![r] = new]
        /\ UNCHANGED <<name, brand, skus, valued, filterable, search_text, behind>>
    BY DEF Index!Read
  <1> HIDE DEF new
  <1>3. index_req'[r] = new
    BY <1>2 DEF IndexInv, Index!TypeOK
  <1>4. UpToDate(r)'
    BY <1>1, <1>2, <1>3 DEF UpToDate
  <1> QED
    BY <1>1, <1>2, <1>4, HoldsKeep

LEMMA ComputeKeeps ==
    ASSUME IndexInv, NEW r \in Requests, Index!Compute(r)
    PROVE  IndexInv'
  <1>1. /\ index_req[r] \in Index!Reads
        /\ ~index_req[r].overtaken =>
              /\ index_req[r].name = name /\ index_req[r].text = search_text
              /\ index_req[r].joined \subseteq {brand}
    <2>1. index_req[r].op = "read"
      BY DEF Index!Compute
    <2>2. index_req[r] \in Index!Reads /\ index_req[r] # Index!Idle
      BY <2>1 DEF IndexInv, Index!TypeOK, Index!Forms, Index!Computed, Index!Reads,
                  Index!Idle
    <2>3. UpToDate(r)
      BY <2>2 DEF IndexInv, Known
    <2> QED
      BY <2>1, <2>2, <2>3 DEF UpToDate
  <1>2. PICK b \in IF index_req[r].joined = {} THEN {brand} ELSE index_req[r].joined :
          index_req' = [index_req EXCEPT ![r] =
              [op |-> "computed", text |-> index_req[r].text,
               deleted |-> index_req[r].deleted, overtaken |-> index_req[r].overtaken,
               new |-> Index!Text(index_req[r].name, b, skus, valued \ index_req[r].deleted)]]
    BY DEF Index!Compute
  <1> DEFINE new == [op |-> "computed", text |-> index_req[r].text,
               deleted |-> index_req[r].deleted, overtaken |-> index_req[r].overtaken,
               new |-> Index!Text(index_req[r].name, b, skus, valued \ index_req[r].deleted)]
  <1>3. b \in BrandNames /\ (~index_req[r].overtaken => b = brand)
    BY <1>1, <1>2 DEF Index!Reads, IndexInv, Index!TypeOK
  <1>4. Index!Text(index_req[r].name, b, skus, valued \ index_req[r].deleted)
          \in SUBSET Index!Vocabulary
    BY <1>1, <1>3, TextIsWords DEF Index!Reads, IndexInv, Index!TypeOK
  <1>5. new \in Index!Computed
    BY <1>1, <1>4 DEF Index!Reads, Index!Computed
  <1>6. /\ new.op = "computed" /\ new.overtaken = index_req[r].overtaken
        /\ new.text = index_req[r].text /\ new.deleted = index_req[r].deleted
        /\ new.new = Index!Text(index_req[r].name, b, skus, valued \ index_req[r].deleted)
    OBVIOUS
  <1>7. index_req' = [index_req EXCEPT ![r] = new]
    BY <1>2
  <1>8. UNCHANGED <<name, brand, skus, valued, filterable, search_text, behind>>
    BY DEF Index!Compute
  <1> HIDE DEF new
  <1>9. index_req'[r] = new
    BY <1>7 DEF IndexInv, Index!TypeOK
  <1>10. UpToDate(r)'
    BY <1>1, <1>3, <1>6, <1>8, <1>9 DEF UpToDate, Index!Text
  <1> QED
    BY <1>5, <1>7, <1>8, <1>10, HoldsKeep

(* The form writes the text of what it saves, with the brand as it is      *)
(* unless that was edited since.                                           *)
LEMMA SaveKeeps ==
    ASSUME IndexInv, NEW r \in Requests, NEW n \in ProductNames,
           NEW s \in SUBSET ProductSkus,
           NEW v \in SUBSET ProductValues, Index!SaveForm(r, n, s, v)
    PROVE  IndexInv'
  <1>1. /\ index_req[r] \in Index!Forms
        /\ ~index_req[r].overtaken => index_req[r].brand = brand
    <2>1. index_req[r].op = "form"
      BY DEF Index!SaveForm
    <2>2. index_req[r] \in Index!Forms /\ index_req[r] # Index!Idle
      BY <2>1 DEF IndexInv, Index!TypeOK, Index!Forms, Index!Computed, Index!Reads,
                  Index!Idle
    <2>3. UpToDate(r)
      BY <2>2 DEF IndexInv, Known
    <2> QED
      BY <2>1, <2>2, <2>3 DEF UpToDate
  <1>2. PICK b \in {index_req[r].brand, brand} : search_text' = Index!Text(n, b, s, v)
    BY DEF Index!SaveForm
  <1>3. b \in BrandNames
    BY <1>1, <1>2 DEF Index!Forms, IndexInv, Index!TypeOK
  <1>4. search_text' \in SUBSET Index!Vocabulary
    BY <1>2, <1>3, TextIsWords DEF IndexInv
  <1>5. /\ name' = n /\ skus' = s /\ valued' = v
        /\ UNCHANGED <<brand, filterable>>
        /\ behind' = (Index!Stale' /\ index_req[r].overtaken)
        /\ Index!Finish(r)
    BY DEF Index!SaveForm
  <1>6. index_req' \in [Requests -> Index!Forms \cup Index!Reads
                                    \cup Index!Computed \cup {Index!Idle}] /\ Known'
    BY <1>5, FinishKeeps DEF IndexInv
  <1>7. Index!TypeOK'
    BY <1>4, <1>5, <1>6 DEF IndexInv, Index!TypeOK, Index!Vocabulary, Index!Forms,
                            Index!Reads, Index!Computed
  <1>8. ~index_req[r].overtaken => ~Index!Stale'
    BY <1>1, <1>2, <1>5 DEF Index!Stale, Index!Text
  <1> QED
    BY <1>5, <1>6, <1>7, <1>8 DEF IndexInv, Indexed

(* A rebuild that nothing has overtaken puts the text right.               *)
LEMMA WriteKeeps ==
    ASSUME IndexInv, NEW r \in Requests, Index!Write(r)
    PROVE  IndexInv'
  <1>1. /\ index_req[r] \in Index!Computed
        /\ ~index_req[r].overtaken =>
              /\ index_req[r].text = search_text
              /\ index_req[r].new =
                    Index!Text(name, brand, skus, valued \ index_req[r].deleted)
    BY DEF Index!Write, IndexInv, Index!TypeOK, Known, UpToDate, Index!Forms,
           Index!Reads, Index!Computed, Index!Idle
  <1>2. /\ UNCHANGED <<name, brand, skus, filterable>>
        /\ valued' = valued \ index_req[r].deleted
        /\ search_text' = IF index_req[r].new = index_req[r].text THEN search_text
                          ELSE index_req[r].new
        /\ behind' = (Index!Stale' /\ index_req[r].overtaken)
        /\ Index!Finish(r)
    BY DEF Index!Write
  <1>3. index_req' \in [Requests -> Index!Forms \cup Index!Reads
                                    \cup Index!Computed \cup {Index!Idle}] /\ Known'
    BY <1>2, FinishKeeps DEF IndexInv
  <1>4. search_text' \in SUBSET Index!Vocabulary
    BY <1>1, <1>2 DEF Index!Computed, IndexInv, Index!TypeOK
  <1>5. Index!TypeOK'
    BY <1>2, <1>3, <1>4 DEF IndexInv, Index!TypeOK, Index!Vocabulary, Index!Forms,
                            Index!Reads, Index!Computed
  <1>6. ~index_req[r].overtaken => ~Index!Stale'
    BY <1>1, <1>2 DEF Index!Stale, Index!Text
  <1> QED
    BY <1>2, <1>3, <1>5, <1>6 DEF IndexInv, Indexed

LEMMA VocabularyKeeps ==
    ASSUME IndexInv, NEW b \in BrandNames, NEW f \in BOOLEAN, Index!EditVocabulary(b, f)
    PROVE  IndexInv'
  <1>1. /\ UNCHANGED <<name, skus, valued, search_text>>
        /\ brand' = b /\ filterable' = f /\ behind' = Index!Stale'
        /\ index_req' = [r \in Requests |-> Index!Overtaken(r)]
    BY DEF Index!EditVocabulary
  <1>2. index_req' \in [Requests -> Index!Forms \cup Index!Reads
                                    \cup Index!Computed \cup {Index!Idle}]
    BY <1>1, OvertakenKeeps DEF IndexInv
  <1>3. Known'
    BY <1>1, OvertakenKeeps DEF IndexInv, Known, UpToDate
  <1>4. Index!TypeOK'
    BY <1>1, <1>2 DEF IndexInv, Index!TypeOK, Index!Vocabulary, Index!Forms,
                      Index!Reads, Index!Computed, Index!Stale
  <1> QED
    BY <1>1, <1>3, <1>4 DEF IndexInv, Indexed

LEMMA IndexInductive == IndexInv /\ (Index!Next \/ UNCHANGED index_vars) => IndexInv'
  <1> SUFFICES ASSUME IndexInv, (Index!Next \/ UNCHANGED index_vars)
               PROVE  IndexInv'
    OBVIOUS
  <1>1. ASSUME NEW r \in Requests, Index!Touch(r) \/ Index!Resync(r)
        PROVE  IndexInv'
    BY <1>1, ReadKeeps DEF Index!Touch, Index!Resync
  <1>2. ASSUME NEW r \in Requests, NEW x \in ProductValues, Index!DeleteValue(r, x)
        PROVE  IndexInv'
    BY <1>2, ReadKeeps DEF Index!DeleteValue
  <1>3. CASE UNCHANGED index_vars
    <2>1. Index!TypeOK'
      BY <1>3 DEF index_vars, IndexInv, Index!TypeOK, Index!Vocabulary, Index!Forms,
                  Index!Reads, Index!Computed
    <2>2. Known' /\ Indexed'
      BY <1>3 DEF index_vars, IndexInv, Known, UpToDate, Indexed, Index!Stale,
                  Index!Text
    <2> QED
      BY <2>1, <2>2 DEF IndexInv
  <1> QED
    BY <1>1, <1>2, <1>3, LoadFormKeeps, ComputeKeeps, SaveKeeps, WriteKeeps,
       VocabularyKeeps DEF Index!Next

-----------------------------------------------------------------------------
(* ProductImages.  A write that was checked and that no other has crossed  *)
(* still passes its check; and while a product with images has no primary  *)
(* one, a request is about to give it one.                                 *)

(* The rows that a request names were uploaded; one that sets no flag      *)
(* clears none.                                                            *)
NamesUploads ==
    \A r \in Requests :
        /\ image_req[r].op \in {"upload", "replace"} => image_req[r].image \in uploaded
        /\ image_req[r].op = "commit" =>
              /\ image_req[r].on \cup image_req[r].plain \subseteq uploaded
              /\ image_req[r].on = {} => image_req[r].off = {}

StillAllowed ==
    \A r \in Requests :
        image_req[r].op = "commit" /\ ~image_req[r].crossed
            => Image!TriggerAllows(image_req[r].on, image_req[r].off)

(* Request r is going to set a flag.                                       *)
Promoting(r) ==
    \/ image_req[r].op = "promote"
    \/ image_req[r].op = "commit" /\ image_req[r].on # {}

PrimaryIsComing ==
    images # {} /\ primaries = {} => outdated \/ \E r \in Requests : Promoting(r)

ImagesInv ==
    /\ Image!TypeOK /\ NamesUploads /\ StillAllowed /\ PrimaryIsComing
    /\ Image!AtMostOnePrimary

ImageRequests ==
    {Image!Idle} \cup Image!UploadRequest \cup Image!RowRequest
    \cup Image!ReorderRequest \cup Image!PromoteRequest \cup Image!Written

(* Which of them request r is, and the images it names.                    *)
LEMMA RequestKinds ==
    ASSUME ImagesInv, NEW r \in Requests
    PROVE  /\ image_req[r] \in ImageRequests
           /\ image_req[r].op = "upload" => image_req[r] \in Image!UploadRequest
           /\ image_req[r].op \in {"replace", "delete"} => image_req[r] \in Image!RowRequest
           /\ image_req[r].op = "reorder" => image_req[r] \in Image!ReorderRequest
           /\ image_req[r].op = "promote" => image_req[r] \in Image!PromoteRequest
           /\ image_req[r].op = "commit" => image_req[r] \in Image!Written
  BY DEF ImagesInv, Image!TypeOK, ImageRequests, Image!Idle, Image!UploadRequest,
         Image!RowRequest, Image!ReorderRequest, Image!PromoteRequest, Image!Written

(* Fewer images, no more of them.                                          *)
LEMMA FewerImages ==
    ASSUME NEW T \in SUBSET Images, NEW S \in SUBSET T
    PROVE  /\ Image!Cardinality(S) \in Nat
           /\ Image!Cardinality(S) <= Image!Cardinality(T)
  <1>1. \A U : Image!Cardinality(U) = Cardinality(U)
    BY DEF Cardinality, Image!Cardinality
  <1>2. IsFiniteSet(T)
    BY FiniteAssumption, FS_Subset
  <1>3. IsFiniteSet(S) /\ Cardinality(S) <= Cardinality(T)
    BY <1>2, FS_Subset
  <1>4. Cardinality(S) \in Nat
    BY <1>3, FS_CardinalityType
  <1> QED
    BY <1>1, <1>3, <1>4

(* A check that was passed is passed with fewer primary images.            *)
LEMMA StillPasses ==
    ASSUME ImagesInv, NEW fewer \in SUBSET primaries,
           NEW on \in SUBSET Images, NEW off, Image!TriggerAllows(on, off)
    PROVE  on # {} => Image!Cardinality((fewer \ off) \cup on) <= 1
  <1> SUFFICES ASSUME on # {}
               PROVE  Image!Cardinality((fewer \ off) \cup on) <= 1
    OBVIOUS
  <1> DEFINE S == (fewer \ off) \cup on
             T == (primaries \ off) \cup on
  <1>1. T \in SUBSET Images /\ S \in SUBSET T
    BY DEF ImagesInv, Image!TypeOK
  <1>2. Image!Cardinality(T) <= 1
    BY DEF Image!TriggerAllows
  <1> HIDE DEF S, T
  <1>3. /\ Image!Cardinality(S) \in Nat /\ Image!Cardinality(T) \in Nat
        /\ Image!Cardinality(S) <= Image!Cardinality(T)
    BY <1>1, FewerImages
  <1>4. Image!Cardinality(S) <= 1
    BY <1>2, <1>3
  <1> QED
    BY <1>4 DEF S

LEMMA InitImages == Image!Init => ImagesInv
  <1> SUFFICES ASSUME Image!Init PROVE ImagesInv
    OBVIOUS
  <1>1. Image!Cardinality({}) = 0
    BY FS_EmptySet DEF Cardinality, Image!Cardinality
  <1>2. images = {} /\ primaries = {} /\ \A r \in Requests : image_req[r].op = "idle"
    BY DEF Image!Init, Image!Idle
  <1>3. Image!TypeOK
    BY DEF Image!Init, Image!TypeOK
  <1>4. NamesUploads /\ StillAllowed /\ PrimaryIsComing
    BY <1>2 DEF NamesUploads, StillAllowed, PrimaryIsComing
  <1>5. Image!AtMostOnePrimary
    BY <1>1, <1>2 DEF Image!AtMostOnePrimary
  <1> QED
    BY <1>3, <1>4, <1>5 DEF ImagesInv

(* A request reads, or writes what nobody else sees yet.                   *)
LEMMA RequestKeeps ==
    ASSUME ImagesInv, NEW r \in Requests, NEW new \in ImageRequests,
           image_req' = [image_req EXCEPT ![r] = new],
           uploaded \subseteq uploaded', uploaded' \subseteq Images,
           UNCHANGED <<images, primaries, skewed>>,
           new.op \in {"upload", "replace"} => new.image \in uploaded',
           new.op = "commit" =>
              /\ new.on \cup new.plain \subseteq uploaded'
              /\ new.on = {} => new.off = {}
              /\ Image!TriggerAllows(new.on, new.off),
           outdated' \in BOOLEAN,
           images # {} /\ primaries = {} =>
              /\ outdated => outdated'
              /\ \/ ~Promoting(r) \/ outdated' \/ new.op = "promote"
                 \/ new.op = "commit" /\ new.on # {}
    PROVE  ImagesInv'
  <1>1. /\ image_req \in [Requests -> ImageRequests]
        /\ image_req' \in [Requests -> ImageRequests]
        /\ image_req'[r] = new
        /\ \A q \in Requests \ {r} : image_req'[q] = image_req[q]
    BY DEF ImagesInv, Image!TypeOK, ImageRequests
  <1>2. Image!TypeOK'
    BY <1>1 DEF ImagesInv, Image!TypeOK, ImageRequests
  <1>3. NamesUploads'
    <2> SUFFICES ASSUME NEW q \in Requests
                 PROVE  /\ image_req'[q].op \in {"upload", "replace"} =>
                              image_req'[q].image \in uploaded'
                        /\ image_req'[q].op = "commit" =>
                              /\ image_req'[q].on \cup image_req'[q].plain
                                    \subseteq uploaded'
                              /\ image_req'[q].on = {} => image_req'[q].off = {}
      BY DEF NamesUploads
    <2>1. CASE q = r
      BY <1>1, <2>1
    <2>2. CASE q # r
      BY <1>1, <2>2 DEF ImagesInv, NamesUploads
    <2> QED
      BY <2>1, <2>2
  <1>4. StillAllowed'
    <2> SUFFICES ASSUME NEW q \in Requests, image_req'[q].op = "commit",
                        ~image_req'[q].crossed
                 PROVE  Image!TriggerAllows(image_req'[q].on, image_req'[q].off)
      BY DEF StillAllowed, Image!TriggerAllows
    <2> QED
      BY <1>1 DEF ImagesInv, StillAllowed
  <1>5. PrimaryIsComing'
    <2> SUFFICES ASSUME images # {}, primaries = {}, ~outdated'
                 PROVE  \E q \in Requests : Promoting(q)'
      BY DEF PrimaryIsComing
    <2>1. PICK q \in Requests : Promoting(q)
      BY DEF ImagesInv, PrimaryIsComing, Image!TypeOK
    <2> QED
      BY <1>1, <2>1 DEF Promoting
  <1>6. Image!AtMostOnePrimary'
    BY DEF ImagesInv, Image!AtMostOnePrimary
  <1> QED
    BY <1>2, <1>3, <1>4, <1>5, <1>6 DEF ImagesInv

(* What a request writes passes the check, or the request is at its end;   *)
(* where there is no primary image, one passes it.                         *)
LEMMA FlagWriteKeeps ==
    ASSUME ImagesInv, NEW r \in Requests, NEW on \in SUBSET uploaded,
           NEW off \in SUBSET Images, NEW plain \in SUBSET uploaded,
           NEW touched \in SUBSET Images, on = {} => off = {},
           Image!Write(r, on, off, plain, touched),
           ~Promoting(r) \/ \E i \in Images : on = {i}
    PROVE  ImagesInv'
  <1> DEFINE written == [op |-> "commit", on |-> on, off |-> off, plain |-> plain,
                         touched |-> touched, crossed |-> FALSE]
             allowed == Image!TriggerAllows(on, off)
             new == IF allowed THEN written ELSE Image!Idle
  <1>1. /\ uploaded \subseteq Images /\ outdated \in BOOLEAN
    BY DEF ImagesInv, Image!TypeOK
  <1>2. written \in Image!Written
    BY <1>1 DEF Image!Written
  <1>3. new \in ImageRequests /\ Image!Idle.op = "idle"
    BY <1>2 DEF ImageRequests, Image!Idle
  <1>4. /\ image_req' = [image_req EXCEPT ![r] = new]
        /\ UNCHANGED <<images, primaries, uploaded, skewed, outdated>>
    BY DEF Image!Write, Image!Become
  <1>5. primaries = {} /\ Promoting(r) => allowed /\ on # {}
    <2> SUFFICES ASSUME primaries = {}, NEW i \in Images, on = {i}
                 PROVE  allowed
      OBVIOUS
    <2>1. (primaries \ off) \cup on = {i}
      OBVIOUS
    <2>2. Image!Cardinality({i}) = 1
      BY FS_Singleton DEF Cardinality, Image!Cardinality
    <2> QED
      BY <2>1, <2>2 DEF Image!TriggerAllows
  <1>6. /\ new.op = "commit" => allowed /\ new.on = on /\ new.off = off /\ new.plain = plain
        /\ new.op \notin {"upload", "replace"}
        /\ allowed => new.op = "commit"
    BY <1>3
  <1> HIDE DEF new, written, allowed
  <1>7. new.op = "commit" =>
              /\ new.on \cup new.plain \subseteq uploaded'
              /\ new.on = {} => new.off = {}
              /\ Image!TriggerAllows(new.on, new.off)
    BY <1>4, <1>6 DEF allowed
  <1>8. images # {} /\ primaries = {} =>
              /\ outdated => outdated'
              /\ \/ ~Promoting(r) \/ outdated' \/ new.op = "promote"
                 \/ new.op = "commit" /\ new.on # {}
    BY <1>4, <1>5, <1>6
  <1> QED
    BY <1>1, <1>3, <1>4, <1>6, <1>7, <1>8, RequestKeeps

LEMMA UploadKeeps ==
    ASSUME ImagesInv, NEW r \in Requests, Image!ReadUpload(r) \/ Image!Upload(r)
    PROVE  ImagesInv'
  <1>1. CASE Image!ReadUpload(r)
    <2>1. PICK i \in Images \ uploaded :
              /\ image_req' = [image_req EXCEPT ![r] =
                     [op |-> "upload", image |-> i, primary |-> images = {}]]
              /\ uploaded' = uploaded \cup {i}
      BY <1>1 DEF Image!ReadUpload, Image!Become
    <2> DEFINE new == [op |-> "upload", image |-> i, primary |-> images = {}]
    <2>2. new \in ImageRequests /\ new.op = "upload" /\ new.image = i
      BY DEF ImageRequests, Image!UploadRequest
    <2>3. /\ UNCHANGED <<images, primaries, skewed, outdated>>
          /\ image_req[r] = Image!Idle /\ outdated \in BOOLEAN /\ uploaded \subseteq Images
      BY <1>1 DEF Image!ReadUpload, ImagesInv, Image!TypeOK
    <2>4. ~Promoting(r)
      BY <2>3 DEF Promoting, Image!Idle
    <2> HIDE DEF new
    <2>5. image_req' = [image_req EXCEPT ![r] = new]
      BY <2>1 DEF new
    <2>6. /\ uploaded \subseteq uploaded' /\ uploaded' \subseteq Images
          /\ new.image \in uploaded' /\ outdated' \in BOOLEAN
      BY <2>1, <2>2, <2>3
    <2> QED
      BY <2>2, <2>3, <2>4, <2>5, <2>6, RequestKeeps
  <1>2. CASE Image!Upload(r)
    <2>1. image_req[r].op = "upload" /\ image_req[r].image \in uploaded
      BY <1>2 DEF Image!Upload, Image!Open, ImagesInv, NamesUploads
    <2>2. ~Promoting(r) /\ uploaded \subseteq Images
      BY <2>1 DEF Promoting, ImagesInv, Image!TypeOK
    <2> DEFINE i == image_req[r].image
    <2>3. \/ Image!Write(r, {i}, {}, {}, {i}) \/ Image!Write(r, {}, {}, {i}, {i})
      BY <1>2 DEF Image!Upload
    <2>4. {i} \in SUBSET uploaded /\ {i} \in SUBSET Images
      BY <2>1, <2>2
    <2> HIDE DEF i
    <2> QED
      BY <2>2, <2>3, <2>4, FlagWriteKeeps
  <1> QED
    BY <1>1, <1>2

LEMMA LoadRowKeeps ==
    ASSUME ImagesInv, NEW r \in Requests, NEW op \in {"replace", "delete"},
           Image!LoadRow(r, op)
    PROVE  ImagesInv'
  <1>1. PICK i \in images :
            image_req' = [image_req EXCEPT ![r] =
                [op |-> op, image |-> i, primary |-> i \in primaries]]
    BY DEF Image!LoadRow, Image!Become
  <1>2. /\ UNCHANGED <<images, primaries, uploaded, skewed, outdated>>
        /\ image_req[r] = Image!Idle /\ outdated \in BOOLEAN /\ uploaded \subseteq Images
        /\ i \in uploaded /\ i \in Images
    BY DEF Image!LoadRow, ImagesInv, Image!TypeOK
  <1> DEFINE new == [op |-> op, image |-> i, primary |-> i \in primaries]
  <1>3. new \in ImageRequests /\ new.op \in {"replace", "delete"} /\ new.image = i
    BY <1>2 DEF ImageRequests, Image!RowRequest
  <1>4. ~Promoting(r)
    BY <1>2 DEF Promoting, Image!Idle
  <1>5. image_req' = [image_req EXCEPT ![r] = new]
    BY <1>1
  <1> HIDE DEF new
  <1>6. /\ uploaded \subseteq uploaded' /\ uploaded' \subseteq Images
        /\ new.image \in uploaded' /\ outdated' \in BOOLEAN /\ new.op # "commit"
    BY <1>2, <1>3
  <1> QED
    BY <1>2, <1>3, <1>4, <1>5, <1>6, RequestKeeps

LEMMA ReplaceKeeps ==
    ASSUME ImagesInv, NEW r \in Requests, Image!Replace(r)
    PROVE  ImagesInv'
  <1> DEFINE i == image_req[r].image
  <1>1. image_req[r].op = "replace" /\ i \in uploaded
    BY DEF Image!Replace, Image!Open, ImagesInv, NamesUploads
  <1>2. ~Promoting(r) /\ uploaded \subseteq Images
    BY <1>1 DEF Promoting, ImagesInv, Image!TypeOK
  <1>3. \/ Image!Write(r, {i}, {}, {}, {i}) \/ Image!Write(r, {}, {}, {i}, {i})
    BY DEF Image!Replace
  <1>4. {i} \in SUBSET uploaded /\ {i} \in SUBSET Images
    BY <1>1, <1>2
  <1> HIDE DEF i
  <1> QED
    BY <1>2, <1>3, <1>4, FlagWriteKeeps

(* A request that ends without a write: no harm if it was to set no flag,  *)
(* if it is written down, or if there is a primary image or none at all.   *)
LEMMA EndKeeps ==
    ASSUME ImagesInv, NEW r \in Requests,
           image_req' = [image_req EXCEPT ![r] = Image!Idle],
           UNCHANGED <<images, primaries, uploaded, skewed>>,
           outdated' \in BOOLEAN,
           images # {} /\ primaries = {} =>
              (outdated => outdated') /\ (~Promoting(r) \/ outdated')
    PROVE  ImagesInv'
  <1>1. Image!Idle \in ImageRequests /\ Image!Idle.op = "idle"
    BY DEF ImageRequests, Image!Idle
  <1>2. uploaded \subseteq uploaded' /\ uploaded' \subseteq Images
    BY DEF ImagesInv, Image!TypeOK
  <1> QED
    BY <1>1, <1>2, RequestKeeps

LEMMA ReorderKeeps ==
    ASSUME ImagesInv, NEW r \in Requests, Image!LoadReorder(r) \/ Image!Reorder(r)
    PROVE  ImagesInv'
  <1>1. /\ images \subseteq uploaded /\ uploaded \subseteq Images
        /\ primaries \subseteq images /\ outdated \in BOOLEAN
    BY DEF ImagesInv, Image!TypeOK
  <1>2. CASE Image!LoadReorder(r)
    <2>1. PICK i \in images \ primaries :
              image_req' = [image_req EXCEPT ![r] =
                  [op |-> "reorder", rows |-> images, primaries |-> primaries,
                   primary |-> i]]
      BY <1>2 DEF Image!LoadReorder, Image!Become
    <2> DEFINE new == [op |-> "reorder", rows |-> images, primaries |-> primaries,
                       primary |-> i]
    <2>2. new \in ImageRequests /\ new.op = "reorder"
      BY <1>1 DEF ImageRequests, Image!ReorderRequest
    <2>3. /\ UNCHANGED <<images, primaries, uploaded, skewed, outdated>>
          /\ image_req[r] = Image!Idle
      BY <1>2 DEF Image!LoadReorder
    <2>4. ~Promoting(r)
      BY <2>3 DEF Promoting, Image!Idle
    <2>5. image_req' = [image_req EXCEPT ![r] = new]
      BY <2>1
    <2> HIDE DEF new
    <2>6. /\ uploaded \subseteq uploaded' /\ uploaded' \subseteq Images
          /\ outdated' \in BOOLEAN
      BY <1>1, <2>3
    <2> QED
      BY <2>2, <2>3, <2>4, <2>5, <2>6, RequestKeeps
  <1>3. CASE Image!Reorder(r)
    <2> DEFINE i == image_req[r].primary
               off == Image!Cleared(r)
               touched(moved) == moved \cup off \cup {i}
    <2>1. image_req[r].op = "reorder" /\ image_req[r] \in Image!ReorderRequest
      BY <1>3, RequestKinds DEF Image!Reorder, Image!Open
    <2>2. ~Promoting(r) /\ off \in SUBSET Images
      BY <2>1 DEF Promoting, Image!ReorderRequest, Image!Cleared
    <2>3. PICK moved \in SUBSET image_req[r].rows :
              \/ /\ touched(moved) \subseteq images
                 /\ Image!Write(r, {i}, off, {}, touched(moved))
              \/ /\ Image!Become(r, Image!Idle)
                 /\ UNCHANGED <<images, primaries, uploaded, skewed, outdated>>
      BY <1>3 DEF Image!Reorder
    <2>4. CASE /\ touched(moved) \subseteq images
               /\ Image!Write(r, {i}, off, {}, touched(moved))
      <3>1. {i} \in SUBSET uploaded /\ touched(moved) \in SUBSET Images
        BY <1>1, <2>4
      <3> HIDE DEF i, off, touched
      <3> QED
        BY <2>2, <2>4, <3>1, FlagWriteKeeps
    <2>5. CASE /\ Image!Become(r, Image!Idle)
               /\ UNCHANGED <<images, primaries, uploaded, skewed, outdated>>
      BY <1>1, <2>2, <2>5, EndKeeps DEF Image!Become
    <2> QED
      BY <2>3, <2>4, <2>5
  <1> QED
    BY <1>2, <1>3

(* Promote and Die write down what they leave behind.                      *)
LEMMA PromoteKeeps ==
    ASSUME ImagesInv, NEW r \in Requests,
           Image!ReadSuccessor(r) \/ Image!Promote(r) \/ Image!Die(r)
    PROVE  ImagesInv'
  <1>1. /\ images \subseteq uploaded /\ uploaded \subseteq Images
        /\ primaries \subseteq images /\ outdated \in BOOLEAN
    BY DEF ImagesInv, Image!TypeOK
  <1>2. CASE Image!ReadSuccessor(r)
    <2>1. UNCHANGED <<images, primaries, uploaded, skewed, outdated>>
      BY <1>2 DEF Image!ReadSuccessor
    <2>2. CASE \E i \in Image!Successors :
                   Image!Become(r, [op |-> "promote", image |-> i])
      <3>1. PICK i \in Image!Successors :
                image_req' = [image_req EXCEPT ![r] = [op |-> "promote", image |-> i]]
        BY <2>2 DEF Image!Become
      <3>2. i \in Images
        BY <1>1, <3>1 DEF Image!Successors
      <3> DEFINE new == [op |-> "promote", image |-> i]
      <3>3. new \in ImageRequests /\ new.op = "promote"
        BY <3>2 DEF ImageRequests, Image!PromoteRequest
      <3>4. image_req' = [image_req EXCEPT ![r] = new]
        BY <3>1
      <3> HIDE DEF new
      <3> QED
        BY <1>1, <2>1, <3>3, <3>4, RequestKeeps
    <2>3. CASE Image!Successors = {} /\ Image!Become(r, Image!Idle)
      <3>1. ~(images # {} /\ primaries = {})
        BY <2>3 DEF Image!Successors
      <3> QED
        BY <1>1, <2>1, <2>3, <3>1, EndKeeps DEF Image!Become
    <2> QED
      BY <1>2, <2>2, <2>3 DEF Image!ReadSuccessor
  <1>3. CASE /\ Image!Become(r, Image!Idle)
             /\ UNCHANGED <<images, primaries, uploaded, skewed>>
             /\ Image!Lost(TRUE)
    <2>1. outdated' = (images # {} /\ primaries = {})
      BY <1>3 DEF Image!Lost
    <2>2. outdated' \in BOOLEAN /\ (images # {} /\ primaries = {} => outdated')
      BY <2>1
    <2> QED
      BY <1>3, <2>2, EndKeeps DEF Image!Become
  <1>4. CASE Image!Promote(r)
    <2> DEFINE i == image_req[r].image
    <2>1. \/ i \in images /\ Image!Write(r, {i}, {}, {}, {i})
          \/ /\ Image!Become(r, Image!Idle)
             /\ UNCHANGED <<images, primaries, uploaded, skewed>>
             /\ Image!Lost(TRUE)
      BY <1>4 DEF Image!Promote
    <2>2. CASE i \in images /\ Image!Write(r, {i}, {}, {}, {i})
      <3>1. {i} \in SUBSET uploaded /\ {i} \in SUBSET Images /\ \E j \in Images : {i} = {j}
        BY <1>1, <2>2
      <3> HIDE DEF i
      <3> QED
        BY <2>2, <3>1, FlagWriteKeeps
    <2> QED
      BY <1>3, <2>1, <2>2
  <1>5. CASE Image!Die(r)
    BY <1>3, <1>5 DEF Image!Die
  <1> QED
    BY <1>2, <1>4, <1>5

(* The row goes; if it was read as the primary one, another is to follow.  *)
LEMMA DeleteKeeps ==
    ASSUME ImagesInv, NEW r \in Requests, Image!Delete(r)
    PROVE  ImagesInv'
  <1> DEFINE i == image_req[r].image
             new == IF image_req[r].primary THEN [op |-> "promote", image |-> Image!Idle]
                    ELSE Image!Idle
  <1>1. /\ image_req[r].op = "delete" /\ image_req[r] \in Image!RowRequest
        /\ images' = images \ {i} /\ primaries' = primaries \ {i}
        /\ uploaded' = uploaded
        /\ skewed' = (skewed /\ Image!Cardinality(primaries') > 1)
        /\ outdated' = (/\ images' # {} /\ primaries' = {}
                        /\ outdated \/ (i \in primaries /\ ~image_req[r].primary))
    BY RequestKinds DEF Image!Delete, Image!Open, Image!Lost
  <1>2. image_req' = [image_req EXCEPT ![r] = new]
    BY DEF Image!Delete, Image!Become
  <1>3. /\ new \in ImageRequests /\ new.op \in {"promote", "idle"}
        /\ image_req[r].primary => new.op = "promote"
        /\ image_req[r].primary \in BOOLEAN
    BY <1>1 DEF ImageRequests, Image!PromoteRequest, Image!Idle, Image!RowRequest
  <1> HIDE DEF new
  <1>4. /\ image_req \in [Requests -> ImageRequests]
        /\ image_req' \in [Requests -> ImageRequests]
        /\ image_req'[r] = new
        /\ \A q \in Requests \ {r} : image_req'[q] = image_req[q]
    BY <1>2, <1>3 DEF ImagesInv, Image!TypeOK, ImageRequests
  <1>5. Image!TypeOK'
    BY <1>1, <1>4 DEF ImagesInv, Image!TypeOK, ImageRequests
  <1>6. NamesUploads'
    <2> SUFFICES ASSUME NEW q \in Requests
                 PROVE  /\ image_req'[q].op \in {"upload", "replace"} =>
                              image_req'[q].image \in uploaded'
                        /\ image_req'[q].op = "commit" =>
                              /\ image_req'[q].on \cup image_req'[q].plain
                                    \subseteq uploaded'
                              /\ image_req'[q].on = {} => image_req'[q].off = {}
      BY DEF NamesUploads
    <2>1. CASE q = r
      BY <1>3, <1>4, <2>1
    <2>2. CASE q # r
      BY <1>1, <1>4, <2>2 DEF ImagesInv, NamesUploads
    <2> QED
      BY <2>1, <2>2
  <1>7. StillAllowed'
    <2> SUFFICES ASSUME NEW q \in Requests, image_req'[q].op = "commit",
                        ~image_req'[q].crossed, image_req'[q].on # {}
                 PROVE  Image!Cardinality((primaries' \ image_req'[q].off)
                            \cup image_req'[q].on) <= 1
      BY DEF StillAllowed, Image!TriggerAllows
    <2>1. q # r /\ image_req'[q] = image_req[q]
      BY <1>3, <1>4
    <2>2. /\ Image!TriggerAllows(image_req[q].on, image_req[q].off)
          /\ image_req[q].on \in SUBSET Images
      BY <2>1, RequestKinds DEF ImagesInv, StillAllowed, Image!Written
    <2>3. primaries' \in SUBSET primaries
      BY <1>1
    <2> QED
      BY <2>1, <2>2, <2>3, StillPasses
  <1>8. PrimaryIsComing'
    <2> SUFFICES ASSUME images' # {}, primaries' = {}, ~outdated'
                 PROVE  \E q \in Requests : Promoting(q)'
      BY DEF PrimaryIsComing
    <2>1. ~outdated /\ (i \notin primaries \/ image_req[r].primary)
      BY <1>1
    <2>2. CASE image_req[r].primary
      BY <1>3, <1>4, <2>2 DEF Promoting
    <2>3. CASE i \notin primaries
      <3>1. images # {} /\ primaries = {}
        BY <1>1, <2>3
      <3>2. PICK q \in Requests : Promoting(q)
        BY <2>1, <3>1 DEF ImagesInv, PrimaryIsComing
      <3>3. q # r
        BY <1>1, <3>2 DEF Promoting
      <3> QED
        BY <1>4, <3>2, <3>3 DEF Promoting
    <2> QED
      BY <2>1, <2>2, <2>3
  <1>9. Image!AtMostOnePrimary'
    <2>1. primaries \in SUBSET Images /\ primaries' \in SUBSET primaries
      BY <1>1 DEF ImagesInv, Image!TypeOK
    <2>2. /\ Image!Cardinality(primaries) \in Nat /\ Image!Cardinality(primaries') \in Nat
          /\ Image!Cardinality(primaries') <= Image!Cardinality(primaries)
      BY <2>1, FewerImages
    <2>3. Image!Cardinality(primaries) > 1 => skewed
      BY DEF ImagesInv, Image!AtMostOnePrimary
    <2> SUFFICES ASSUME Image!Cardinality(primaries') > 1
                 PROVE  skewed'
      BY DEF Image!AtMostOnePrimary
    <2>4. Image!Cardinality(primaries) > 1
      BY <2>2
    <2> QED
      BY <1>1, <2>3, <2>4
  <1> QED
    BY <1>5, <1>6, <1>7, <1>8, <1>9 DEF ImagesInv

(* The commit: the others' checks are crossed when it sets a flag, and     *)
(* when it only clears some they still pass.                               *)
LEMMA CommitKeeps ==
    ASSUME ImagesInv, NEW r \in Requests, Image!Commit(r)
    PROVE  ImagesInv'
  <1> DEFINE w == image_req[r]
             req(q) == IF q = r THEN Image!Idle
                       ELSE IF image_req[q].op = "commit" /\ w.on # {}
                            THEN [image_req[q] EXCEPT !.crossed = TRUE]
                            ELSE image_req[q]
  <1>1. /\ w.op = "commit" /\ w \in Image!Written
        /\ images' = images \cup w.on \cup w.plain
        /\ primaries' = (primaries \ (w.off \cup w.plain)) \cup w.on
        /\ uploaded' = uploaded
        /\ skewed' = (Image!Cardinality(primaries') > 1 /\ (skewed \/ w.crossed))
        /\ outdated' = (/\ images' # {} /\ primaries' = {}
                        /\ outdated \/ (images = {} \/ \E i \in w.plain : i \in primaries))
    BY RequestKinds DEF Image!Commit, Image!Open, Image!Lost
  <1>2. image_req' = [q \in Requests |-> req(q)]
    BY DEF Image!Commit, Image!Open
  <1>3. /\ w.on \in SUBSET Images /\ w.off \in SUBSET Images /\ w.plain \in SUBSET Images
        /\ w.on \cup w.plain \subseteq uploaded /\ (w.on = {} => w.off = {})
        /\ w.crossed \in BOOLEAN
    BY <1>1 DEF Image!Written, ImagesInv, NamesUploads
  <1>4. ASSUME NEW q \in Requests
        PROVE  /\ image_req'[q] \in ImageRequests
               /\ image_req'[r].op = "idle"
               /\ q # r => image_req'[q].op = image_req[q].op
               /\ q # r /\ (image_req[q].op # "commit" \/ w.on = {})
                     => image_req'[q] = image_req[q]
               /\ q # r /\ image_req[q].op = "commit" =>
                     /\ image_req'[q].on = image_req[q].on
                     /\ image_req'[q].off = image_req[q].off
                     /\ image_req'[q].plain = image_req[q].plain
                     /\ w.on # {} => image_req'[q].crossed
    <2>1. image_req'[q] = req(q) /\ image_req'[r] = Image!Idle
      BY <1>2
    <2>2. Image!Idle \in ImageRequests /\ Image!Idle.op = "idle"
      BY DEF ImageRequests, Image!Idle
    <2>3. image_req[q] \in ImageRequests
      BY RequestKinds
    <2>4. CASE q = r
      BY <2>1, <2>2, <2>4
    <2>5. CASE q # r /\ image_req[q].op = "commit" /\ w.on # {}
      <3>1. image_req[q] \in Image!Written
        BY <2>5, RequestKinds
      <3>2. image_req'[q] = [image_req[q] EXCEPT !.crossed = TRUE]
        BY <2>1, <2>5
      <3>3. /\ image_req'[q] \in Image!Written
            /\ image_req'[q].on = image_req[q].on /\ image_req'[q].off = image_req[q].off
            /\ image_req'[q].plain = image_req[q].plain /\ image_req'[q].crossed = TRUE
            /\ image_req'[q].op = image_req[q].op
        BY <3>1, <3>2 DEF Image!Written
      <3> QED
        BY <2>1, <2>2, <2>5, <3>3 DEF ImageRequests
    <2>6. CASE q # r /\ (image_req[q].op # "commit" \/ w.on = {})
      <3>1. image_req'[q] = image_req[q]
        BY <2>1, <2>6
      <3> HIDE DEF w, req
      <3> QED
        BY <2>1, <2>2, <2>3, <2>6, <3>1
    <2> QED
      BY <2>4, <2>5, <2>6
  <1> HIDE DEF w, req
  <1>5. Image!TypeOK'
    <2>1. image_req' \in [Requests -> ImageRequests]
      BY <1>2, <1>4
    <2>2. images' \subseteq uploaded' /\ uploaded' \subseteq Images /\ primaries' \subseteq images'
      BY <1>1, <1>3 DEF ImagesInv, Image!TypeOK
    <2> QED
      BY <1>1, <2>1, <2>2 DEF ImagesInv, Image!TypeOK, ImageRequests
  <1>6. NamesUploads'
    <2> SUFFICES ASSUME NEW q \in Requests
                 PROVE  /\ image_req'[q].op \in {"upload", "replace"} =>
                              image_req'[q].image \in uploaded'
                        /\ image_req'[q].op = "commit" =>
                              /\ image_req'[q].on \cup image_req'[q].plain
                                    \subseteq uploaded'
                              /\ image_req'[q].on = {} => image_req'[q].off = {}
      BY DEF NamesUploads
    <2>1. CASE q = r
      BY <1>4, <2>1
    <2>2. CASE q # r
      BY <1>1, <1>4, <2>2 DEF ImagesInv, NamesUploads
    <2> QED
      BY <2>1, <2>2
  <1>7. StillAllowed'
    <2> SUFFICES ASSUME NEW q \in Requests, image_req'[q].op = "commit",
                        ~image_req'[q].crossed, image_req'[q].on # {}
                 PROVE  Image!Cardinality((primaries' \ image_req'[q].off)
                            \cup image_req'[q].on) <= 1
      BY DEF StillAllowed, Image!TriggerAllows
    <2>1. q # r /\ image_req[q].op = "commit"
      BY <1>4
    <2>2. w.on = {} /\ image_req'[q] = image_req[q]
      BY <1>4, <2>1
    <2>3. /\ Image!TriggerAllows(image_req[q].on, image_req[q].off)
          /\ image_req[q].on \in SUBSET Images
      BY <2>1, <2>2, RequestKinds DEF ImagesInv, StillAllowed, Image!Written
    <2>4. primaries' \in SUBSET primaries
      BY <1>1, <2>2
    <2> QED
      BY <2>2, <2>3, <2>4, StillPasses
  <1>8. PrimaryIsComing'
    <2> SUFFICES ASSUME images' # {}, primaries' = {}, ~outdated'
                 PROVE  \E q \in Requests : Promoting(q)'
      BY DEF PrimaryIsComing
    <2>1. /\ ~outdated /\ images # {} /\ \A i \in w.plain : i \notin primaries
          /\ w.on = {} /\ w.off = {}
      BY <1>1, <1>3
    <2>2. primaries = {}
      BY <1>1, <2>1
    <2>3. PICK q \in Requests : Promoting(q)
      BY <2>1, <2>2 DEF ImagesInv, PrimaryIsComing
    <2>4. q # r
      BY <1>1, <2>1, <2>3 DEF Promoting, w
    <2>5. image_req'[q] = image_req[q]
      BY <1>4, <2>1, <2>4
    <2> QED
      BY <2>3, <2>5 DEF Promoting
  <1>9. Image!AtMostOnePrimary'
    <2>1. primaries' \in SUBSET Images /\ primaries \in SUBSET Images
      BY <1>1, <1>3 DEF ImagesInv, Image!TypeOK
    <2> SUFFICES ASSUME Image!Cardinality(primaries') > 1, ~w.crossed
                 PROVE  skewed
      BY <1>1 DEF Image!AtMostOnePrimary
    <2>2. CASE w.on = {}
      <3>1. primaries' \in SUBSET primaries
        BY <1>1, <2>2
      <3>2. /\ Image!Cardinality(primaries) \in Nat /\ Image!Cardinality(primaries') \in Nat
            /\ Image!Cardinality(primaries') <= Image!Cardinality(primaries)
        BY <2>1, <3>1, FewerImages
      <3> QED
        BY <3>2 DEF ImagesInv, Image!AtMostOnePrimary
    <2>3. CASE w.on # {}
      <3> DEFINE T == (primaries \ w.off) \cup w.on
      <3>1. T \in SUBSET Images /\ primaries' \in SUBSET T
        BY <1>1, <1>3, <2>1
      <3>2. Image!Cardinality(T) <= 1
        <4>1. Image!TriggerAllows(w.on, w.off)
          BY <1>1 DEF ImagesInv, StillAllowed, w
        <4> QED
          BY <2>3, <4>1 DEF Image!TriggerAllows
      <3> HIDE DEF T
      <3>3. /\ Image!Cardinality(T) \in Nat /\ Image!Cardinality(primaries') \in Nat
            /\ Image!Cardinality(primaries') <= Image!Cardinality(T)
        BY <3>1, FewerImages
      <3> QED
        BY <3>2, <3>3
    <2> QED
      BY <2>2, <2>3
  <1> QED
    BY <1>5, <1>6, <1>7, <1>8, <1>9 DEF ImagesInv

LEMMA ImagesStep ==
    ASSUME ImagesInv, Image!Next \/ UNCHANGED Image!vars
    PROVE  ImagesInv'
  <1>1. CASE Image!Next
    <2>1. PICK r \in Requests : Image!RequestStep(r)
      BY <1>1 DEF Image!Next
    <2> QED
      BY <2>1, UploadKeeps, LoadRowKeeps, ReplaceKeeps, DeleteKeeps, PromoteKeeps,
         ReorderKeeps, CommitKeeps DEF Image!RequestStep
  <1>2. CASE UNCHANGED Image!vars
    BY <1>2 DEF Image!vars, ImagesInv, Image!TypeOK, NamesUploads, StillAllowed,
       Image!TriggerAllows, PrimaryIsComing, Promoting, Image!AtMostOnePrimary
  <1> QED
    BY <1>1, <1>2

(* While all are idle nobody is about to set a flag.                       *)
LEMMA ImagesMean == ImagesInv => Image!TypeOK /\ AtMostOnePrimary /\ PrimaryStays
  <1> SUFFICES ASSUME ImagesInv PROVE Image!TypeOK /\ AtMostOnePrimary /\ PrimaryStays
    OBVIOUS
  <1>1. AtMostOnePrimary
    BY DEF ImagesInv, AtMostOnePrimary
  <1>2. PrimaryStays
    BY DEF ImagesInv, PrimaryIsComing, Promoting, PrimaryStays, Image!PrimaryStays,
       Image!Idle
  <1> QED
    BY <1>1, <1>2 DEF ImagesInv

-----------------------------------------------------------------------------
(* ProductVariants.                                                        *)

(* A signature is that of the values, or the variant is written down; no   *)
(* two signatures are equal, but for those of no value.                    *)
SignaturesFollow ==
    /\ \A v \in variants : attribute_signature[v] # values[v] => v \in drifted
    /\ \A u, v \in variants :
          u # v /\ attribute_signature[u] = attribute_signature[v]
             => attribute_signature[v] = {}

(* Of an id that was not given out nothing is stored, nor loaded.          *)
NothingUnborn ==
    /\ \A v \in Variants \ created : values[v] = {} /\ attribute_signature[v] = {}
    /\ \A r \in Requests : form_req[r].op = "posted" =>
          \A v \in Variants \ created : form_req[r].attribute_signature[v] = {}

VariantsInv ==
    /\ Variant!TypeOK /\ Variant!OneDefault /\ SignaturesFollow /\ NothingUnborn

LEMMA InitVariants == Variant!Init => VariantsInv
  <1> SUFFICES ASSUME Variant!Init PROVE VariantsInv
    OBVIOUS
  <1>1. PICK v \in Variants : variants = {v}
    BY FiniteAssumption DEF Variant!Init
  <1>2. Variant!TypeOK
    BY <1>1 DEF Variant!Init, Variant!TypeOK
  <1>3. Variant!OneDefault
    <2>1. Variant!Cardinality({v}) = Cardinality({v})
      BY DEF Cardinality, Variant!Cardinality
    <2>2. Cardinality({v}) = 1
      BY FS_Singleton
    <2> QED
      BY <1>1, <2>1, <2>2 DEF Variant!Init, Variant!OneDefault
  <1>4. SignaturesFollow /\ NothingUnborn
    BY <1>1 DEF Variant!Init, SignaturesFollow, NothingUnborn, Variant!Idle
  <1> QED
    BY <1>2, <1>3, <1>4 DEF VariantsInv

(* A form that is rendered, loaded or left changes no row.                 *)
LEMMA FormKeeps ==
    ASSUME VariantsInv, NEW r \in Requests,
           Variant!Render(r) \/ Variant!Load(r) \/ Variant!LeaveForm(r)
    PROVE  VariantsInv'
  <1>1. /\ UNCHANGED <<variants, is_default, values, attribute_signature, value_rows,
                       created, drifted>>
        /\ \E new \in Variant!Form \cup Variant!Post \cup {Variant!Idle} :
              /\ form_req' = [form_req EXCEPT ![r] = new]
              /\ new.op = "posted" => new.attribute_signature = attribute_signature
    <2>1. variants \in SUBSET Variants /\ attribute_signature \in [Variants -> SUBSET Values]
      BY DEF VariantsInv, Variant!TypeOK
    <2>2. CASE Variant!Render(r)
      <3> DEFINE new == [op |-> "rendered", known |-> variants]
      <3>1. new \in Variant!Form /\ new.op # "posted"
        BY <2>1 DEF Variant!Form
      <3> QED
        BY <2>2, <3>1 DEF Variant!Render
    <2>3. CASE Variant!Load(r)
      <3> DEFINE posted == [op |-> "posted", known |-> form_req[r].known,
                            attribute_signature |-> attribute_signature]
      <3>1. form_req[r].op = "rendered"
        BY <2>3 DEF Variant!Load
      <3>2. form_req[r] \in Variant!Form
        BY <3>1 DEF VariantsInv, Variant!TypeOK, Variant!Form, Variant!Post, Variant!Idle
      <3>3. posted \in Variant!Post /\ posted.attribute_signature = attribute_signature
        BY <2>1, <3>2 DEF Variant!Form, Variant!Post
      <3>4. Variant!Idle.op # "posted"
        BY DEF Variant!Idle
      <3> QED
        BY <2>3, <3>3, <3>4 DEF Variant!Load
    <2>4. CASE Variant!LeaveForm(r)
      <3>1. Variant!Idle.op # "posted"
        BY DEF Variant!Idle
      <3> QED
        BY <2>4, <3>1 DEF Variant!LeaveForm
    <2> QED
      BY <2>2, <2>3, <2>4
  <1>2. PICK new \in Variant!Form \cup Variant!Post \cup {Variant!Idle} :
              /\ form_req' = [form_req EXCEPT ![r] = new]
              /\ new.op = "posted" => new.attribute_signature = attribute_signature
    BY <1>1
  <1>3. /\ form_req \in [Requests -> Variant!Form \cup Variant!Post \cup {Variant!Idle}]
        /\ form_req' \in [Requests -> Variant!Form \cup Variant!Post \cup {Variant!Idle}]
        /\ form_req'[r] = new /\ \A q \in Requests \ {r} : form_req'[q] = form_req[q]
    BY <1>2 DEF VariantsInv, Variant!TypeOK
  <1>4. Variant!TypeOK'
    BY <1>1, <1>3 DEF VariantsInv, Variant!TypeOK
  <1>5. Variant!OneDefault' /\ SignaturesFollow'
    BY <1>1 DEF VariantsInv, Variant!OneDefault, SignaturesFollow
  <1>6. NothingUnborn'
    <2>1. ASSUME NEW q \in Requests, form_req'[q].op = "posted", NEW v \in Variants \ created
          PROVE  form_req'[q].attribute_signature[v] = {}
      <3>1. CASE q = r
        BY <1>2, <1>3, <2>1, <3>1 DEF VariantsInv, NothingUnborn
      <3>2. CASE q # r
        BY <1>3, <2>1, <3>2 DEF VariantsInv, NothingUnborn
      <3> QED
        BY <3>1, <3>2
    <2> QED
      BY <1>1, <2>1 DEF VariantsInv, NothingUnborn
  <1> QED
    BY <1>4, <1>5, <1>6 DEF VariantsInv

(* _sync_attribute_values: a signature that was up to date when it was     *)
(* loaded becomes that of the values wanted.                               *)
LEMMA SyncIsExact ==
    ASSUME NEW existing, NEW desired
    PROVE  Variant!SyncedSignature(existing, existing, desired) = desired
  <1>1. CASE desired \ existing = {}
    BY <1>1 DEF Variant!SyncedSignature
  <1>2. CASE desired \ existing # {}
    <2>1. desired # existing
      BY <1>2
    <2> QED
      BY <1>2, <2>1 DEF Variant!SyncedSignature
  <1> QED
    BY <1>1, <1>2

LEMMA SyncTypes ==
    ASSUME NEW loaded \in SUBSET Values, NEW existing, NEW desired \in SUBSET Values
    PROVE  Variant!SyncedSignature(loaded, existing, desired) \in SUBSET Values
  BY DEF Variant!SyncedSignature

(* Save: a survivor is the default, so that nobody is promoted.            *)
LEMMA SaveFormKeeps ==
    ASSUME VariantsInv, NEW r \in Requests, Variant!SaveForm(r)
    PROVE  VariantsInv'
  <1>1. PICK survivors \in SUBSET Variants :
            /\ survivors # {}
            /\ \E flagged \in {{}} \cup {{v} : v \in survivors},
                  chosen \in [survivors -> SUBSET value_rows] :
                  Variant!Save(r, survivors, flagged, chosen)
    BY DEF Variant!SaveForm
  <1>2. PICK flagged \in {{}} \cup {{v} : v \in survivors},
             chosen \in [survivors -> SUBSET value_rows] :
            Variant!Save(r, survivors, flagged, chosen)
    BY <1>1
  <1> DEFINE gone == form_req[r].known \ survivors
             left == (variants \cup survivors) \ gone
             loaded == form_req[r].attribute_signature
             synced(v) == Variant!SyncedSignature(loaded[v], values[v], chosen[v])
             signature == [v \in Variants |->
                 IF v \in survivors THEN synced(v)
                 ELSE IF v \in gone THEN {} ELSE attribute_signature[v]]
             outdated_rows == {v \in survivors \cap created :
                 v \notin variants \/ loaded[v] # attribute_signature[v]}
  <1>3. PICK defaults \in Variant!Defaults(flagged, survivors) :
              is_default' \in Variant!Promoted(
                  ((is_default \ survivors) \cup defaults) \ gone, gone, left)
    BY <1>2 DEF Variant!Save
  <1>4. /\ Variant!DefaultTrigger(is_default')
        /\ Variant!SignatureTrigger(signature, survivors, left)
        /\ variants' = left
        /\ attribute_signature' = signature
        /\ values' = [v \in Variants |-> IF v \in survivors THEN chosen[v]
                                         ELSE IF v \in gone THEN {} ELSE values[v]]
        /\ created' = created \cup survivors
        /\ drifted' = {v \in left : /\ attribute_signature'[v] # values'[v]
                                    /\ v \in drifted \cup outdated_rows}
        /\ value_rows' = value_rows
        /\ form_req[r].op = "posted"
        /\ form_req' = [form_req EXCEPT ![r] = Variant!Idle]
    BY <1>2 DEF Variant!Save, Variant!SaveForm
  <1>5. /\ variants \in SUBSET created /\ created \in SUBSET Variants
        /\ is_default \in SUBSET variants /\ value_rows \in SUBSET Values
        /\ values \in [Variants -> SUBSET value_rows]
        /\ attribute_signature \in [Variants -> SUBSET Values]
        /\ form_req \in [Requests -> Variant!Form \cup Variant!Post \cup {Variant!Idle}]
        /\ drifted \in SUBSET variants
    BY DEF VariantsInv, Variant!TypeOK
  <1>6. loaded \in [Variants -> SUBSET Values]
    <2>1. form_req[r] \in Variant!Post
      BY <1>4, <1>5 DEF Variant!Form, Variant!Post, Variant!Idle
    <2> QED
      BY <2>1 DEF Variant!Post
  <1>7. ASSUME NEW v \in survivors
        PROVE  synced(v) \in SUBSET Values
    BY <1>1, <1>5, <1>6, <1>7, SyncTypes
  <1>8. /\ defaults # {} /\ defaults \in SUBSET survivors
    BY <1>1, <1>2, <1>3 DEF Variant!Defaults
  <1>9. is_default' = ((is_default \ survivors) \cup defaults) \ gone /\ is_default' # {}
    <2>1. ((is_default \ survivors) \cup defaults) \ gone # {}
      BY <1>8
    <2> QED
      BY <1>3, <2>1 DEF Variant!Promoted
  <1>10. \A v \in survivors : attribute_signature'[v] = synced(v) /\ values'[v] = chosen[v]
    BY <1>1, <1>4
  <1>11. \A v \in left \ survivors :
             attribute_signature'[v] = attribute_signature[v] /\ values'[v] = values[v]
    BY <1>1, <1>4, <1>5
  <1>12. \A v \in Variants \ created' :
             attribute_signature'[v] = {} /\ values'[v] = {}
    <2>1. \A v \in Variants \ created : attribute_signature[v] = {} /\ values[v] = {}
      BY DEF VariantsInv, NothingUnborn
    <2> QED
      BY <1>4, <2>1
  <1>13. attribute_signature' \in [Variants -> SUBSET Values]
    BY <1>4, <1>5, <1>7
  <1>14. values' \in [Variants -> SUBSET value_rows]
    BY <1>2, <1>4, <1>5
  <1>15. Variant!TypeOK'
    <2>1. variants' \subseteq created' /\ created' \subseteq Variants
          /\ is_default' \subseteq variants' /\ drifted' \subseteq variants'
      BY <1>1, <1>4, <1>5, <1>8, <1>9
    <2>2. form_req' \in [Requests -> Variant!Form \cup Variant!Post \cup {Variant!Idle}]
      BY <1>4, <1>5
    <2> QED
      BY <1>4, <1>5, <1>13, <1>14, <2>1, <2>2 DEF Variant!TypeOK
  <1>16. Variant!OneDefault'
    <2>1. IsFiniteSet(is_default')
      <3>1. is_default' \in SUBSET Variants
        BY <1>15 DEF Variant!TypeOK
      <3> QED
        BY <3>1, FiniteAssumption, FS_Subset
    <2>2. Cardinality(is_default') \in Nat /\ Cardinality(is_default') # 0
      BY <1>9, <2>1, FS_CardinalityType, FS_EmptySet
    <2>3. Variant!Cardinality(is_default') = Cardinality(is_default')
      BY DEF Cardinality, Variant!Cardinality
    <2>4. Variant!Cardinality(is_default') <= 1
      BY <1>4 DEF Variant!DefaultTrigger
    <2>5. Variant!Cardinality(is_default') = 1
      BY <2>2, <2>3, <2>4
    <2> QED
      BY <2>5 DEF Variant!OneDefault
  <1>17. SignaturesFollow'
    <2>1. ASSUME NEW v \in left, v \notin drifted \cup outdated_rows
          PROVE  attribute_signature'[v] = values'[v]
      <3>1. CASE v \in survivors
        <4>1. loaded[v] = values[v]
          <5>1. CASE v \in created
            BY <2>1, <3>1, <5>1 DEF VariantsInv, SignaturesFollow
          <5>2. CASE v \notin created
            BY <1>1, <1>4, <3>1, <5>2 DEF VariantsInv, NothingUnborn
          <5> QED
            BY <5>1, <5>2
        <4>2. synced(v) = chosen[v]
          BY <4>1, SyncIsExact
        <4> QED
          BY <1>10, <3>1, <4>2
      <3>2. CASE v \notin survivors
        <4>1. v \in variants /\ v \notin drifted
          BY <2>1, <3>2
        <4> QED
          BY <1>11, <2>1, <3>2, <4>1 DEF VariantsInv, SignaturesFollow
      <3> QED
        BY <3>1, <3>2
    <2>2. ASSUME NEW u \in left, NEW v \in left, u # v,
                 attribute_signature'[u] = attribute_signature'[v]
          PROVE  attribute_signature'[v] = {}
      <3>1. CASE u \in survivors \/ v \in survivors
        <4> HIDE DEF signature, left
        <4> QED
          BY <1>4, <2>2, <3>1 DEF Variant!SignatureTrigger
      <3>2. CASE u \notin survivors /\ v \notin survivors
        <4>1. u \in variants /\ v \in variants
          BY <2>2, <3>2
        <4>2. /\ attribute_signature'[u] = attribute_signature[u]
              /\ attribute_signature'[v] = attribute_signature[v]
          BY <1>11, <2>2, <3>2
        <4> QED
          BY <2>2, <4>1, <4>2 DEF VariantsInv, SignaturesFollow
      <3> QED
        BY <3>1, <3>2
    <2>3. \A v \in variants' : attribute_signature'[v] # values'[v] => v \in drifted'
      BY <1>4, <2>1
    <2>4. \A u, v \in variants' : u # v /\ attribute_signature'[u] = attribute_signature'[v]
              => attribute_signature'[v] = {}
      BY <1>4, <2>2
    <2> QED
      BY <2>3, <2>4 DEF SignaturesFollow
  <1>18. NothingUnborn'
    <2>1. ASSUME NEW q \in Requests, form_req'[q].op = "posted",
                 NEW v \in Variants \ created'
          PROVE  form_req'[q].attribute_signature[v] = {}
      <3>1. q # r /\ form_req'[q] = form_req[q]
        BY <1>4, <1>5, <2>1 DEF Variant!Idle
      <3>2. v \in Variants \ created
        BY <1>4, <2>1
      <3> QED
        BY <2>1, <3>1, <3>2 DEF VariantsInv, NothingUnborn
    <2> QED
      BY <1>12, <2>1 DEF NothingUnborn
  <1> QED
    BY <1>15, <1>16, <1>17, <1>18 DEF VariantsInv

(* Whoever loses a value to its deletion is written down.                  *)
LEMMA DeleteValueKeeps ==
    ASSUME VariantsInv, NEW a \in Values, Variant!DeleteValue(a)
    PROVE  VariantsInv'
  <1>1. /\ value_rows' = value_rows \ {a}
        /\ values' = [v \in Variants |-> values[v] \ {a}]
        /\ drifted' = {v \in variants : /\ attribute_signature[v] # values'[v]
                                        /\ v \in drifted \/ a \in values[v]}
        /\ UNCHANGED <<variants, is_default, attribute_signature, created, form_req>>
    BY DEF Variant!DeleteValue
  <1>2. /\ variants \in SUBSET Variants /\ values \in [Variants -> SUBSET value_rows]
    BY DEF VariantsInv, Variant!TypeOK
  <1>3. Variant!TypeOK'
    <2>1. values' \in [Variants -> SUBSET value_rows']
      BY <1>1, <1>2
    <2> QED
      BY <1>1, <2>1 DEF VariantsInv, Variant!TypeOK
  <1>4. Variant!OneDefault'
    BY <1>1 DEF VariantsInv, Variant!OneDefault
  <1>5. SignaturesFollow'
    <2>1. ASSUME NEW v \in variants, attribute_signature[v] # values'[v]
          PROVE  v \in drifted'
      <3>1. CASE attribute_signature[v] = values[v]
        BY <1>1, <1>2, <2>1, <3>1
      <3>2. CASE attribute_signature[v] # values[v]
        BY <1>1, <2>1, <3>2 DEF VariantsInv, SignaturesFollow
      <3> QED
        BY <3>1, <3>2
    <2> QED
      BY <1>1, <2>1 DEF VariantsInv, SignaturesFollow
  <1>6. NothingUnborn'
    BY <1>1 DEF VariantsInv, NothingUnborn
  <1> QED
    BY <1>3, <1>4, <1>5, <1>6 DEF VariantsInv

LEMMA VariantsStep ==
    ASSUME VariantsInv, Variant!Next \/ UNCHANGED Variant!vars
    PROVE  VariantsInv'
  <1>1. CASE Variant!Next
    BY <1>1, FormKeeps, SaveFormKeeps, DeleteValueKeeps DEF Variant!Next
  <1>2. CASE UNCHANGED Variant!vars
    BY <1>2 DEF Variant!vars, VariantsInv, Variant!TypeOK, Variant!OneDefault,
       SignaturesFollow, NothingUnborn
  <1> QED
    BY <1>1, <1>2

(* Two variants with the same values would have the same signature.        *)
LEMMA VariantsMean == VariantsInv => Variant!TypeOK /\ OneDefault /\ NoTwins
  BY DEF VariantsInv, SignaturesFollow, OneDefault, NoTwins, Variant!NoTwins

-----------------------------------------------------------------------------
(* The whole.  A behaviour is one of one part, and the others rest.        *)
Inv ==
    /\ part = "slugs" => SlugInv
    /\ part = "index" => IndexInv
    /\ part = "images" => ImagesInv
    /\ part = "variants" => VariantsInv

LEMMA InitInv == Init => Inv
  BY InitSlugs, InitIndex, InitImages, InitVariants DEF Init, Inv

LEMMA StepInv == Inv /\ [Next]_vars => Inv'
  <1> SUFFICES ASSUME Inv, [Next]_vars PROVE Inv'
    OBVIOUS
  <1>1. part' = part
    BY DEF Next, vars
  <1>2. Slug!Next \/ UNCHANGED slug_vars
    BY DEF Next, vars
  <1>3. Index!Next \/ UNCHANGED index_vars
    BY DEF Next, vars
  <1>4. part = "images" => Image!Next \/ UNCHANGED Image!vars
    BY DEF Next, vars, image_vars, Image!vars
  <1>5. part = "variants" => Variant!Next \/ UNCHANGED Variant!vars
    BY DEF Next, vars, variant_vars, Variant!vars
  <1> QED
    BY <1>1, <1>2, <1>3, <1>4, <1>5, SlugsInductive, IndexInductive, ImagesStep,
       VariantsStep DEF Inv

(* Only products that are stored are published, and every redirect leads   *)
(* to a product; a text is made of names, SKUs and values, and so is what  *)
(* is computed; a primary image exists, and so does a default variant; and *)
(* a variant has only values that exist.                                   *)
THEOREM CatalogueTypes ==
    Spec => [](/\ part = "slugs" => Slug!TypeOK
               /\ part = "index" => Index!TypeOK
               /\ part = "images" => Image!TypeOK
               /\ part = "variants" => Variant!TypeOK)
  <1>1. Inv => /\ part = "slugs" => Slug!TypeOK
               /\ part = "index" => Index!TypeOK
               /\ part = "images" => Image!TypeOK
               /\ part = "variants" => Variant!TypeOK
    BY DEF Inv, SlugInv, IndexInv, ImagesInv, VariantsInv
  <1> QED
    BY InitInv, StepInv, <1>1, PTL DEF Spec

(* ProductSlugs: every address a published product ever had leads to it,   *)
(* and no address that is generated takes one away: but for addresses that *)
(* two products had and for saves of one product that overlapped.          *)
THEOREM LinksWork == Spec => []LinksKeepWorking
  <1>1. Inv => LinksKeepWorking
    BY SlugInvSuffices DEF Inv, LinksKeepWorking
  <1> QED
    BY InitInv, StepInv, <1>1, PTL DEF Spec

(* SearchIndex: a product is found by its name, brand, SKUs and values and *)
(* by nothing else, unless the brand or the attribute was edited or a      *)
(* rebuild was overtaken, and no rebuild has gone through since.           *)
THEOREM ProductIsFound == Spec => []FoundByWhatItIs
  <1>1. IndexInv => Index!FoundByWhatItIs
    BY DEF IndexInv, Indexed, Index!Stale, Index!FoundByWhatItIs, Index!Suggested
  <1>2. Inv => FoundByWhatItIs
    BY <1>1 DEF Inv, FoundByWhatItIs
  <1> QED
    BY InitInv, StepInv, <1>2, PTL DEF Spec

(* ProductImages: no upload, replacement, re-ordering, deletion or death   *)
(* of a worker leaves two primary images, however outdated what it wrote   *)
(* was: only two transactions that were both checked before either         *)
(* committed.                                                              *)
THEOREM OnePrimaryImage == Spec => []AtMostOnePrimary
  <1>1. Inv => AtMostOnePrimary
    BY ImagesMean DEF Inv, AtMostOnePrimary
  <1> QED
    BY InitInv, StepInv, <1>1, PTL DEF Spec

(* ProductImages: once no request is open, a product with images has a     *)
(* primary one, unless a request acted on an outdated flag or died.        *)
THEOREM PrimaryIsKept == Spec => []PrimaryStays
  <1>1. Inv => PrimaryStays
    BY ImagesMean DEF Inv, PrimaryStays
  <1> QED
    BY InitInv, StepInv, <1>1, PTL DEF Spec

(* ProductVariants: a product has exactly one default variant after any    *)
(* number of forms that were rendered, loaded and saved in any order.      *)
THEOREM DefaultIsOne == Spec => []OneDefault
  <1>1. Inv => OneDefault
    BY VariantsMean DEF Inv, OneDefault
  <1> QED
    BY InitInv, StepInv, <1>1, PTL DEF Spec

(* ProductVariants: two variants with the same values are the work of an   *)
(* outdated form or of the deletion of a value.                            *)
THEOREM VariantsDiffer == Spec => []NoTwins
  <1>1. Inv => NoTwins
    BY VariantsMean DEF Inv, NoTwins
  <1> QED
    BY InitInv, StepInv, <1>1, PTL DEF Spec
=============================================================================
