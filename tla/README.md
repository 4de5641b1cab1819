# A verified model of the shop

This directory holds TLA+ modules about the Scent & Style shop (Django,
PostgreSQL): what its transactions, requests and jobs may do to stock, orders,
carts, the catalogue, the mapping with the point of sale, and to the caches,
limits and backups around them, when customers, the merchant, cron and the point
of sale act at the same time.  `PROJECT.json` lists the components, the runs, the
mutants that show each property can fail, the source lines of each definition,
the findings, the hazards and the theorems.

## The system

Requests run in parallel worker processes against one PostgreSQL database at
READ COMMITTED.  Services are decorated with `transaction.atomic` and most of
them lock the rows they write with `SELECT ... FOR UPDATE`; a few take no lock at
all.  Cron runs the reservation sweeper and the nightly backup.

| Component | State it keeps | Operations | What makes it correct |
|---|---|---|---|
| Inventory (`inventory/`) | `stock_quantity`, `StockReservation` rows with an expiry, `InventoryAdjustment` rows | reserve, release, commit, consume, restore, adjust, sweep | no unit is promised twice; nothing goes below zero; every change is explained |
| Orders (`orders/`) | status, lines, totals, status and edit events | checkout, transitions, four line edits | an order holds the units of its lines; totals match lines; the trail tells them |
| Cart (`cart/`) | one item per variant and session | add, increment, decrement, remove, clear | a cart becomes one order |
| Catalogue (`catalog/`, product pages of `portal/`) | products, variants, attribute values, images, slugs, redirects, `search_text` | product form, image views, status actions, taxonomy pages, index signals | one default variant, one primary image, no twins, links keep working, products are found |
| POS sync (`possync/`) | SKU mapping, `not_online`, audit events, last snapshot time, acknowledgements, cutoff | snapshots, web orders, mapping pages, bulk reviews, CSV import | old counts never win; decisions stay and are told; orders are subtracted until the POS has them |
| Rate limiter (`core/ratelimit.py`, `orders/tracking.py`) | attempt rows | check before the work, record after | a bounded number of attempts in a window |
| Store settings (`store/`) | one row, one cache entry without expiry | load, save | an edit is seen by the next request |
| Noor (`noor/`) | tablet backups; feeds of the catalogue | upload, latest, feeds | the newest N are kept; what is told can be bought |
| Nightly backup (`core/backup.py`) | dumps on the box and in the bucket, mirror | dump, retention, upload, mirror | a failure deletes nothing that is needed |
| Shipping (`shipping/`) | settings, zones | three calculators | more never costs more delivery |
| Storefront (`storefront/`), notifications | none | listing, facets, structured data; order message | counts are what a click shows; messages fit |

How they interact: checkout reads the cart, locks variants, reserves through
inventory and empties the cart; the status machine and the line editor call
inventory; the product form, the line editor and the snapshot write the same
`stock_quantity`; the product form and the mapping pages write the same
`pos_sku`; the formula of POS sync reads orders and acknowledgements; every page
reads the settings through the cache.

What is hard to test here, and what the properties aim at:

- a view loads a row without a lock and hands the object to a service that locks
  something else (line edits, product form, image views, cart, mapping pages);
- a whole row is written back by a form that was rendered minutes ago;
- reservations expire by the clock, are deleted later by cron, and the order stays;
- snapshots arrive late, twice, at two workers, or are cut short by a crash;
- deferred triggers and unique constraints look only at what is committed;
- check-then-act on caches, attempts and lists of what to keep;
- arithmetic at a boundary: thresholds, rounding, penalties, a message's cap.

The full list, each at its line, is under `hazards` in `PROJECT.json`.

## The modules

| Module | Role | Proofs | Run by |
|---|---|---|---|
| `OrderStock` | stock, reservations, orders, line editor, stock counts, sweeper | `OrderStockProofs` | `MCOrderStock` |
| `SnapshotFeed` | abstract: what POS sync promises about counts | - | as a property |
| `PosSync` | snapshots, acknowledgements, the stock formula; composed with `OrderStock` (`Shop`), mapped to `SnapshotFeed` (`Feed`) | `PosSyncProofs` | `MCPosSync` |
| `PosMapping` | which variant carries which SKU: mapping pages, bulk actions, import, product form, snapshot | `PosMappingProofs` | `MCPosMapping` |
| `PosMatching` | scores, suggestions and the two reviews | `MatchingProofs` | `MCCatalogue` |
| `ProductImages` | the primary image | `CatalogueProofs` | `MCCatalogue` |
| `ProductVariants` | default variant and attribute signatures | `CatalogueProofs` | `MCCatalogue` |
| `ProductSlugs` | slugs and redirects | `CatalogueProofs` | `MCCatalogue` |
| `SearchIndex` | `search_text`, its signals and its rebuilds | `CatalogueProofs` | `MCCatalogue` |
| `CartCheckout` | the cart in several tabs, and the checkout | `ShoppingProofs` | `MCShopping` |
| `OrderTotals` | prices, delivery, sums and the edit trail | `ShoppingProofs` | `MCShopping` |
| `ProductListing` | filters, facet counts, feeds, structured data | `ShoppingProofs` | `MCShopping` |
| `OrderMessage` | the order message and its cap | `ShoppingProofs` | `MCShopping` |
| `SettingsCache` | settings row and cache entry | `HousekeepingProofs` | `MCHousekeeping` |
| `RateLimit` | attempts and lockout | `HousekeepingProofs` | `MCHousekeeping` |
| `KioskBackups` | tablet backups | `HousekeepingProofs` | `MCHousekeeping` |
| `NightlyBackup` | the nightly job | `HousekeepingProofs` | `MCHousekeeping` |
| `Sums` | lemmas: the folds of the community modules over finite sets, and least numbers | (itself) | - |

`MCCatalogue`, `MCShopping` and `MCHousekeeping` put components that share no state
into one run each: a behaviour is of one part, which `part` names, and the
others rest with no state.  So their states add up instead of multiplying.
The first line of each module says which files it translates, *Grain* what one
step is, *Data* what is left out.

### Grain

A service is one transaction that locks the rows it writes and commits or rolls
back: one action, and a transaction that raises is none.  Where the code reads
before it locks, or writes without a lock, the reads and writes are actions of
their own:

- `OrderStock`, `OrderTotals`: `LoadItem` and `LoadVariant` (`get_object_or_404`,
  `clean_sku`) before the edit; the rendering of a product form before its POST.
- `PosSync`: `BeginSnapshot` (the advisory lock, the staleness check), one
  `ApplyVariant` per variant, `FinishSnapshot` (the state row, the unlock).  `Crash`
  ends a worker between two of them: PostgreSQL frees the session's lock, what
  was committed stays.
- `PosMapping`: what a view loads, each row of a bulk action, the check and the
  write of `set_not_online`, and for a snapshot the read of the SKU table, each
  item, and the products it did not know.
- `CartCheckout`: the read and the write of every cart operation; a checkout reads
  the items, locks the cart, and does the rest.
- `ProductImages`: load, write with the deferred trigger, commit, and the
  promotion of a successor as a second transaction; `Die` between any two.
- `ProductVariants`: rendering, loading, saving.  The form's first write locks the
  product row, so two savings do not overlap.
- `ProductSlugs`: `save()` reads the stored slug and then writes.
- `SearchIndex`: read the row, compute from the rest, write if it differs from
  the text in memory.
- `SettingsCache`: look-up, read, fill; a save updates, deletes the entry it sees and
  commits.  `RateLimit`: two counts and the record.  `KioskBackups`: insert, list,
  delete, commit.  `NightlyBackup`: five steps, any of which may fail.
- `PosMatching`, `ProductListing`, `OrderMessage`: pure code; a step is a click, a
  ticked row, or a turn of the loop.

### State and history

Variables carry the names of the code's columns (`stock`, `pos_sku`, `is_default`,
`attribute_signature`, `redirect`, `search_text`, ...); their comments name the
column.  `held`, `form`, `req`, `cart_req`, `edit`, `image_req`, `form_req`, `slug_req`,
`index_req`, `reader`, `worker`, `upload` and `run` are what requests and workers have
in memory.

History variables record why a rule has an exception; no guard reads them,
except for the two bounds of `OrderStock`.  Every exception is a race or a
shortcut in the code, and the property that names it says that there is no other:

| History | Module | Set when |
|---|---|---|
| `misread` | `OrderStock`, `OrderTotals` | an edit used an item that was no longer as loaded |
| `swept` | `OrderStock` | the sweeper took a reservation of an order that stays pending |
| `ConfirmedLate` (of a step) | `OrderStock` | an order was confirmed on reservations that had run out |
| `crossed` | `PosMapping` | one request mapped and another hid a product, neither knowing |
| `formed` | `PosMapping` | the product form wrote `pos_sku` |
| `muddled` | `CartCheckout` | an item or order was written from a quantity no longer in the cart |
| `skewed` | `ProductImages` | two transactions were checked before either committed |
| `outdated` | `ProductImages` | a request acted on an old flag, or died before promoting |
| `drifted` | `ProductVariants` | a signature came from an old one, or a value was deleted |
| `raced` | `ProductSlugs` | a save replaced a slug after reading the one before |
| `behind` | `SearchIndex` | the vocabulary was edited, or a rebuild was overtaken |
| `overtaken` | `SettingsCache` | the entry was filled from a row a save was replacing |
| `overlooked` | `KioskBackups` | a backup was deleted by an upload that had not listed it |
| `undisturbed`, `skipped` | `PosMatching` | only the review itself mapped; one of its pairs was refused |

## The runs

Passing:

| Run | Instance | What it shows |
|---|---|---|
| `edits` | 1 order, 2 variants, 2 edit requests, quantities up to 2 | `OrderHoldsItsLines`: an order neither swept nor misread holds its lines, as reservations before confirmation and as taken stock after it; `NeverHoldsMoreThanOrdered` even if swept; `LinesFinalOncePicked`; `ExpiredRowsGo` (liveness); `TypeOK` |
| `counts` | 2 orders, 1 variant, 1 request, 1 form, 2 units | `PromisesKept`: what is promised to pending orders stays on the shelf, but for a typed count or a late confirmation; `ReservedOnlyWhilePending`; `OnlyFormsGoUnaudited` |
| `feed` | 2 variants, 2 workers, 2 snapshots, 2 crashes | `FeedSpec`: the protocol implements `SnapshotFeed`; `NoOldCountWins`; `LockIsFreed` (liveness) |
| `formula` | 1 order, 1 variant, 1 edit request, 1 snapshot, 2 moments | `OrdersMoveStockAsFormula`: between snapshots stock moves as the formula's web-order term does, but for orders outside it, swept or misread; `TypeOK`: and never below zero |
| `mapping` | 2 SKUs, 2 variants, 2 requests, bulk of 2 | `HiddenIsUnmapped`, `UnmappedCountIsItsTab`, `TrailTellsMapping`, `RemovedBeforeRemapped`, `DecisionsSurviveReports`; no snapshot runs here (with snapshots the run exceeds its time), the theorems have any |
| `effect` | 2 SKUs, 2 variants, 1 request, snapshots of one or both SKUs | `MappingTakesEffect` (liveness): a mapping that stays gets its own SKU's counts and no other's |
| `catalogue` | 3 images; 2 variants with 2 values; 2 products with 3 slugs; 2 requests; 1 or 2 POS products against as many variants; 2 names, 2 brands and 1 value | `AtMostOnePrimary`, `PrimaryStays`, `OneDefault`, `NoTwins`, `LinksKeepWorking`, `FoundByWhatItIs`; of the matcher `PruningHidesNothing`, `ReviewsGoThrough`, `OtherSizesAreShown` |
| `shopping` | 2 variants, 2 tabs or requests, quantities up to 2; 2 products of up to 2 variants; orders of 1 to 12 items | `TabsAddUp`, `TotalsAddUp`, `LinesAreWhatTheyCost`, `MoreNeverCostsDelivery`, `CountsAreResults`, `AdvertisedAsSold`, `MessageFits` |
| `housekeeping` | 3 settings and 3 readers; 3 workers with 2 attempts; 3 uploads of 5 with 2 kept; 3 days of retention | `CacheFollowsRow`, `BurstsAreBounded`, `LockoutEnds` (liveness), `NewestAreKept`, `LastDumpStays` |

Violated, each with the sentence it contradicts (details under `findings`):

| Run | Property | What happens |
|---|---|---|
| `stale_edit` | `EditsKeepStockInStep` | two requests load a line at 2; both lower it to 1; two reserved units are released for one |
| `late_retry` | `LateRetryRollsNothingBack` | a worker dies between two variants; an older snapshot is accepted and overwrites the newer count |
| `dumps` | `DumpsExpire` | a night on which every step was done, both retention passes too, and the mirror, which copies the dumps in the bucket, still holds one older than the retention; with a mirror that were trimmed like `backups/db/` the run passes |

Divergences from the documents that the named exceptions stand for, without a
run of their own:

- An order confirmed after the sweep takes nothing; cancelled, it gives back units
  it never took (`swept`).  The swept order stays pending, where
  `specs/REQUIREMENTS.md:139` moves it to Expired.
- Expired rows are committed although their units were available to others
  (`ConfirmedLate`): against "neither leaks stock nor oversells",
  `specs/REQUIREMENTS.md:143`.
- The product form changes stock without the audit row that `inventory/models.py:54`
  promises for "every real change" (`OnlyFormsGoUnaudited`), and mappings without
  the event that `docs/pos-sync.md:127` promises (`formed`).
- A snapshot taken before the POS recorded an order, and applied after the
  acknowledgement, subtracts the order nowhere until the next one:
  `docs/pos-sync.md:54-55`.
- Two checkouts can order one cart twice (`muddled`); `orders/services.py:91-96` says
  that the lock is only a partial guard.
- The signature that keeps variants apart can leave the values it stands for
  (`drifted`): `catalog/models.py:741-744` says it is kept in sync.
- Three overlapping uploads can delete each other's tablet backups (`overlooked`):
  `noor/models.py:17`.
- A facet's count differs from what its click shows when two attributes have a
  value of the same slug: the filter compares slugs (`storefront/filtering.py:117`),
  the count compares values (`:152`).
- A page's structured data may say InStock of an inactive default variant
  (`AdvertisedAsSold` leaves that case out).
- The mapping page need not show the same perfume in another size:
  `possync/config.py:35-38` says that "those are still shown", but `suggest` cuts the
  list to `SUGGESTION_COUNT` before the page filters it.  Such a size scores 0.36, so
  the same brand's perfumes of the right size rank before it, even those that score
  below 0.50 and are then filtered out: the page may show nothing.  `catalogue` has
  such states, and `OtherSizesAreShown` says what may push a size off.
- A message whose header and footer alone exceed the cap exceeds it.
- `rebuild_search_index` may overwrite the text of a product that was renamed
  while it ran (`behind`).

### Bounds

- `MaxQty`, the units of a variant on a line, is 2 where an edit must raise, lower
  and remove a line; 1 where only the order of events matters.
- `MaxStock` caps what giving back can add to the shelf; it binds only after a stale
  edit or a late confirmation has conjured up units.  In `CartCheckout` it is
  what may be for sale.
- `MaxDrift` caps by how much more an order may give back than it took: 1 where that
  is the question, 0 elsewhere.
- `lapsed <= MaxQty` in `ReservationExpires` binds only for an order that reserved more
  than its line.  `SaveProductForm` keeps the shelf within `MaxStock` of its trail.
- `MaxTime`, `MaxSent`, `MaxCrashes`: two moments and two snapshots give an older and a
  newer one, delivered any number of times.
- `MaxBulk`: rows ticked for one bulk action; two give a part that went through and a
  part that did not.
- `MaxReceived` uploads are two more than overlap, with two to keep.
- `SUGGESTION_COUNT` is 1 in `catalogue`, where the code has 3: two variants then
  compete for the row's place as four do in the code.  The theorem has any number.
- `Likenesses`, how alike two brands are in thousandths, are 599, just below the
  floor of a matching brand (600), and 715, between it and equality; words, sizes and labels are the few that the rules tell
  apart (brand in the name, gift set, a label's word, no size, two sizes).
- `SearchIndex` runs with one value and without SKUs (`ProductSkus` is empty), which
  enter the text through the form's signals, as names do; the theorem has any
  number of either.
- `Orders` of `MCShopping` have 1 to 3 and 8 to 12 items, so that the notice's number
  goes from two digits to one and from plural to singular; `MaxChars` passes every
  length at which something changes.

Two requests make a stale read; a third adds no new relation between what was
loaded and what is stored.  Where three matter (uploads that see each other,
workers that pass one limit, readers of one entry) there are three.

Model values are interchangeable in the runs without liveness, which then use
symmetry.

Deadlock is checked in `mapping` and `effect`.  Elsewhere an instance really stops:
when all orders are closed, the message is built, or the bounds are used up.

`TypeOK` is stated in every module with a state of its own.  Two runs check it
(`edits`, and `formula` for the composition with the point of sale), and it is proved
of every module.

### Fairness

- `OrderStock`: the clock goes on (`TimePasses`) and cron runs the sweeper, whose
  `DELETE` depends on nothing else.  Nothing is assumed of people.
- `PosSync`: a worker that holds the advisory lock goes on to the next variant or the
  end.  It may also die, which is not assumed and is what `LockIsFreed` survives.
- `PosMapping`: a snapshot that began goes on, and the point of sale, which is
  external, reports every SKU it has time and again.  Without that no mapping
  could ever take effect.  Nothing is assumed of the portal's users.
- `RateLimit`: the clock goes on.  Clients need not stop trying.

### Mutants

Every property of a passing run comes with a mutant: a definition of the model
replaced by one with a plausible bug (the operators marked *Mutant* in the
modules), under which the same run must fail.

## What is proved

Every invariant the passing runs check, and every action property and refinement
that is not liveness, is a theorem of its specification, for every value of the
constants that the named assumptions allow.  `PROJECT.json` lists the theorems
beside the properties they state.

A property is seldom inductive; each proof has an invariant that is, and one
lemma per action under it.  What the invariants add, and why:

- `OrderStockProofs`: `IInv == TypeOK /\ LinesInv`.  `LinesInv` speaks of one line
  of one order and joins the three line-wise invariants, which support each other
  (leaving pending moves reserved units into taken ones), and adds that an order
  that does not exist yet has taken nothing.  From it `TypeCorrect`,
  `NoReservationAfterPending`, `OnlySweeperOrMisreadUnbalances`,
  `SweeperNeverOverholds`, and the steps: `FinalOncePicked`, as a step that touches
  a line is an edit, which needs an editable status, or the order's creation;
  `PromisesAreKept`, as whoever takes units that are not his own checks the shelf
  less the sum of all reservations under the same lock; `AuditedButForForms`, as
  every service moves shelf and trail by one number.  `MovesOnly` says what a step
  does to one variant: one order's units move, and the shelf by as much the other
  way.
- `PosSyncProofs`: `ImplementsFeed`, `PosSync` implements `SnapshotFeed`.
  `ProtocolInv` says that a worker that applies a snapshot holds the lock, that no
  newer one was finished since it began, and that the variants it is done with have
  their counts from it.  So an applied variant is an `Adopt` that is recent enough,
  and the saved state row a `Settle`.  `OldCountsLose` and `FinishedCountsStick`
  carry the feed's two promises over.  `SyncInv` adds the types, `IInv` of
  `OrderStock` (its proofs are instantiated, not repeated), and that a worker's list
  is part of its snapshot, or stock would get a count that is none:
  `SyncTypeCorrect`.  `StockFollowsFormula` adds `MovesOnly` to the sum over all
  orders: one addend changes by what the shelf does.
- `PosMappingProofs`: `TypeCorrect`, `TrailHolds`, `HiddenHolds`, `RemovedFirst`,
  `DecisionsSurvive`, `CountIsItsTab`.  `DecisionsSurvive` speaks of both the
  products and the variants: no step of a snapshot or an import changes the SKU of
  a variant or the mark of an existing product.  `MappingInv` adds that a SKU has one carrier
  (the unique constraint), and that what a request is about to hide was not mapped
  when it looked: without the first the trail could name one of two carriers,
  without the second hiding would need no crossing.  `RowsExist` adds that only
  existing products are mapped, without which the dashboard's differences would not
  be cardinalities.
- `HousekeepingProofs`: `CacheIsCurrent` adds that a save that found no entry to
  delete leaves none behind unless a reader filled one since.  `BurstsBounded`
  counts: the attempts in the window and the workers still to record theirs are
  within the limit and those that were let through together (`AttemptsBounded`,
  `FailuresBounded`, sums over ages).  `NewestKept`: an upload deletes only what it
  saw behind enough newer ones, and a newer one goes only behind newer ones still,
  or is overlooked (`ListedRight`, `DoomedRight`).  `LastDumpIsKept` adds that
  tonight's dump is where the job is about to trim.
- `ShoppingProofs`: `CartAddsUp` adds `Room`, that what a request has read leaves
  room for what it will write.  `OrderAddsUp` and `LinesAreRight` share `TotalsInv`:
  the line an edit holds is still there, or is misread.  `MoreIsNeverDearer` rests
  on the calculators alone, which are monotone.  `CountsAreShown` and
  `ShopAdvertisesAsSold` rest on what a catalogue may hold; a count is a cardinality
  of the very set its click shows.  `MessageIsFullest` (`MessageInv`): what the
  loop has included fits, and a message with more lines is longer, so it may stop at
  the first that does not.
- `CatalogueProofs`: `LinksWork` (`SlugInv`): an old slug is live, redirects or was
  raced, and redirects only to a product that had it.  `ProductIsFound`: a request
  that nothing has overtaken still knows what is stored, so what it writes, or need
  not write, is the text of the product as it is.  `OnePrimaryImage` and
  `PrimaryIsKept` (`ImagesInv`): the deferred trigger still allows a transaction it
  let pass that no other crossed (`StillAllowed`), and where no image is primary a
  request is on its way to name one (`PrimaryIsComing`).  `DefaultIsOne` and
  `VariantsDiffer` (`VariantsInv`): a signature is that of the variant's values or
  the variant has drifted, and no two are equal (`SignaturesFollow`); nothing is
  stored or loaded of an id not given out yet (`NothingUnborn`).
- `MatchingProofs`: `NothingIsHidden`: the score is a rounded quotient; the lemmas
  bound it and show that a score that reaches a threshold cannot come from a brand
  that is skipped (`ScoreMeans`).  `ReviewsAreSound`: of two ticked pairs neither
  shares its product or its variant (`Inseparable`), so no row of a review can
  refuse another.  `OtherSizesShow`: the score of the same perfume in another size
  is computed, so it is among the qualified; what the cut puts before it is
  qualified as well, hence of the same kind and of no other brand, and as many.
- `Sums`: what folding a finite set gives does not depend on the order, so sums
  split, change by one addend, grow with their addends, and can be counted along
  another set.  The folds are defined by a recursive function over sets, and the
  lemmas go by a smallest set on which they would fail.

### Assumed

Only named assumptions, which TLC evaluates on every run:

- Tables are finite where something is summed or counted: `OrdersAssumption`,
  `RowsAssumption`, `VariantsAssumption`, `FiniteAssumption`, `WorkersAssumption`.
- Variants are numbers where a tie is broken by their ids, and a page suggests at
  least one of them (`SuggestionAssumption`).
- Marks for "none" are no values: `NoneAssumption`, `NoItemAssumption` and so on.
- Numbers are numbers, and limits naturals: `BoundsAssumption`, `CountsAssumption`,
  `MoneyAssumption`, `PolicyAssumption`, `KeepAssumption`, `RetentionAssumption`, ...;
  the default settings are settings (`SettingsAssumption`).
- `SlugsAssumption`: no attribute has the slug of a parameter of the page itself, and
  there are attributes and values.
- `LikenessAssumption`: two brands are not alike by 713 or 714 thousandths, which are
  just below 5/7, where the bound on the score is 0.9 exactly, and where rounding
  could lift a score over it.  A likeness is a ratio of letters: of brands with fewer
  than 101 letters together it is 5/7 itself or further away.

What an instance fixes by a definition is fixed in its theorems as well: of `MCShopping`
the catalogues (two products of up to two variants, of any attributes, values, brands
and categories), and the numbers of items of an order and their lengths; of
`MCCatalogue` the words, brands and sizes of the names that are matched.  The
invariants there speak of any catalogue, any order and any names of these kinds; what
the definitions fix is where a behaviour starts.

### Only model-checked

`ExpiredRowsGo`, `LockIsFreed`, `MappingTakesEffect` and `LockoutEnds` are liveness under
fairness, beyond the prover.  The three violations are TLC's counterexamples.

## What is not modelled

- Statements inside a locked transaction: the order in which rows are locked,
  deadlocks between transactions over several variants, a sweep between the
  listing and the commit of reservations (two hazards without a property).
  Transactions are atomic actions here.
- A variant that is deleted while an order refers to it (`SET_NULL`).
- Customers: a get-or-create decided by a unique constraint; nothing depends on it.
- How a text becomes words in the matcher and the index, PostgreSQL's ranking and
  similarity, sorting and pagination.
- Brands, categories and tags beyond their part in the index: plain rows.
- Tracking pages and reviews beyond their limiter, links and texts of messages
  beyond the order message, image derivatives, authentication and permissions,
  navigation, sitemaps, settings files: reading, formatting or Django's own.
- `StoreSettings.delete()`, which clears the cache as `save()` does: nothing calls it,
  and the admin refuses it (`store/admin.py:16`).
- Payments: an enumeration and a protocol without an implementation.

## Plan

Done, in this order: `OrderStock` and `PosSync` with `SnapshotFeed`; `PosMapping`;
`CartCheckout`; `OrderTotals`; `SettingsCache`, `RateLimit`, `KioskBackups`,
`NightlyBackup`; the catalogue's images, variants, slugs and index; `PosMatching`;
`ProductListing` and `OrderMessage`; the proofs above.

Left: `OrderTxn`, confirmation, checkout, restoring and the sweeper statement by
statement with row locks, shown to implement the atomic actions of `OrderStock`, and
the lock orders that deadlock; the deletion of variants under orders;
a snapshot whose count was taken before the point of sale recorded an order that was
acknowledged since (the hazard at `possync/services.py:685`).
