----------------------------- MODULE PosMapping -----------------------------
(***************************************************************************)
(* Which website variant carries which POS SKU: the mapping pages of the   *)
(* portal, the POS product import, the product form that writes the same   *)
(* rows, and the snapshot that follows the mapping (possync/services.py,   *)
(* possync/portal_views.py).                                               *)
(*                                                                         *)
(* Grain.  A service is one transaction, but most of them act on a row the *)
(* view has loaded before it: what a request loads is a step of its own,   *)
(* and so is every read that no lock protects.  A bulk confirmation is one *)
(* transaction per ticked row.                                             *)
(*                                                                         *)
(* Data.  A PosProduct row is absent, shown, or hidden (not_online); its   *)
(* brand, name, category and price are left out, and so is the note of an  *)
(* audit row.  Of PosMappingEvent the last MAPPED or UNMAPPED event of a   *)
(* SKU is kept.  The variants are those of one product.                    *)
(***************************************************************************)
EXTENDS Integers, FiniteSets

CONSTANTS
    Skus,       \* the SKUs of the point of sale
    Variants,   \* the website's variants
    Reports,    \* the sets of SKUs that a snapshot may list
    Requests,   \* portal requests that may be open at once
    NoSku,      \* pos_sku of a variant that is not mapped
    NoVariant,  \* the variant of a SKU that no variant carries
    Idle,       \* a request that holds nothing, a sync that is not running
    MaxBulk     \* bound: rows ticked for one bulk action, rows of one import

ASSUME NoSkuAssumption == NoSku \notin Skus
ASSUME NoVariantAssumption == NoVariant \notin Variants
ASSUME ReportsAssumption == Reports \subseteq SUBSET Skus
ASSUME MaxBulkAssumption == MaxBulk \in Nat
ASSUME RowsAssumption == IsFiniteSet(Skus) /\ IsFiniteSet(Variants)

VARIABLES
    product,  \* product[s]: the PosProduct row of s
    rows,     \* the variants that exist
    pos_sku,  \* pos_sku[v]: ProductVariant.pos_sku
    trail,    \* trail[s]: the variant the last mapping event of s names,
              \* NoVariant when it is an UNMAPPED event or there is none
    req,      \* req[r]: what portal request r has loaded and has left to do
    sync,     \* the snapshot being applied: what it has read and has left
    from,     \* history: from[v]: the SKU whose count last reached v
    crossed,  \* history: the SKUs mapped or hidden by a request that did
              \* not know of the other, until that is undone
    formed    \* history: the SKUs whose mapping the product form changed,
              \* until they are mapped or unmapped again

vars == <<product, rows, pos_sku, trail, req, sync, from, crossed, formed>>

ProductRow == {"absent", "shown", "hidden"}
Existing == {s \in Skus : product[s] # "absent"}
Carriers(s) == {v \in Variants : pos_sku[v] = s}
Mapped(s) == Carriers(s) # {}

ConfirmRequest == [op : {"confirm"}, row : [Skus -> ProductRow],
                   todo : SUBSET (Skus \X Variants)]
HideRequest == [op : {"hide", "show"}, row : [Skus -> ProductRow],
                todo : SUBSET Skus,
                checked : SUBSET (Skus \X BOOLEAN)]  \* and was it mapped?
FormRequest == [op : {"form"}, variant : Variants, pos_sku : Skus \cup {NoSku}]
ImportRequest == [op : {"import"}, row : [Skus -> ProductRow], todo : SUBSET Skus]
Request == ConfirmRequest \cup HideRequest \cup FormRequest \cup ImportRequest
Sync == [todo : SUBSET Skus, by_sku : [Skus -> Variants \cup {NoVariant}],
         unknown : SUBSET Skus]
ASSUME IdleAssumption == Idle \notin Request \cup Sync

Init ==
    /\ product \in [Skus -> ProductRow]
    /\ rows = Variants
    /\ pos_sku = [v \in Variants |-> NoSku]
    /\ trail = [s \in Skus |-> NoVariant]
    /\ req = [r \in Requests |-> Idle]
    /\ sync = Idle
    /\ from = [v \in Variants |-> NoSku]
    /\ crossed = {}
    /\ formed = {}

(* The rows of the given products, as a request loads them.                *)
Loaded(skus) == [s \in Skus |-> IF s \in skus THEN product[s] ELSE "absent"]

Close(r) == req' = [req EXCEPT ![r] = Idle]

(* The request goes on with what is left of it, if anything is.            *)
Proceed(r, left) ==
    req' = [req EXCEPT ![r] =
        IF left.todo = {} /\ (left.op = "confirm" \/ left.checked = {})
        THEN Idle ELSE left]

-----------------------------------------------------------------------------
(* confirm_mapping and confirm_mappings.  The views load the POS products, *)
(* confirm_mapping locks the variant and goes by the product it was given. *)

LoadConfirm(r, pairs) ==
    /\ req[r] = Idle
    /\ pairs # {} /\ Cardinality(pairs) <= MaxBulk
    /\ \A p \in pairs : p[1] \in Existing
    /\ req' = [req EXCEPT ![r] = [op |-> "confirm",
                  row |-> Loaded({p[1] : p \in pairs}), todo |-> pairs]]
    /\ UNCHANGED <<product, rows, pos_sku, trail, sync, from, crossed, formed>>

(* Mutant: a variant that carries another SKU is not refused.              *)
ConfirmableAnyVariant(s, v) == v \in rows /\ ~Mapped(s)

(* The variant is free, and the unique constraint finds no other one.      *)
Confirmable(s, v) ==
    /\ v \in rows
    /\ pos_sku[v] = NoSku
    /\ ~Mapped(s)

(* not_online is cleared when the loaded product has it.                   *)
Unhidden(r, s) == IF req[r].row[s] = "hidden" THEN "shown" ELSE product[s]

ConfirmPair(r, s, v) ==
    /\ req[r] # Idle /\ req[r].op = "confirm"
    /\ <<s, v>> \in req[r].todo
    /\ \/ /\ Confirmable(s, v)
          /\ pos_sku' = [pos_sku EXCEPT ![v] = s]
          /\ product' = [product EXCEPT ![s] = Unhidden(r, s)]
          /\ trail' = [trail EXCEPT ![s] = v]
          /\ Proceed(r, [req[r] EXCEPT !.todo = @ \ {<<s, v>>},
                                        !.row[s] = "shown"])
          /\ crossed' = IF req[r].row[s] # product[s]
                        THEN crossed \cup {s} ELSE crossed
          /\ formed' = formed \ {s}
       \/ (* MappingError, or mapped so already: skipped, the rest goes on *)
          /\ ~Confirmable(s, v)
          /\ Proceed(r, [req[r] EXCEPT !.todo = @ \ {<<s, v>>}])
          /\ UNCHANGED <<pos_sku, product, trail, crossed, formed>>
    /\ UNCHANGED <<rows, sync, from>>

(* Mutant: the removal is not recorded.                                    *)
RemoveUnrecorded(s) ==
    \E v \in Carriers(s) :
        /\ pos_sku' = [pos_sku EXCEPT ![v] = NoSku]
        /\ UNCHANGED <<product, rows, trail, req, sync, from, crossed, formed>>

(* The variant is found by its SKU and locked in one statement.            *)
RemoveMapping(s) ==
    \E v \in Carriers(s) :
        /\ pos_sku' = [pos_sku EXCEPT ![v] = NoSku]
        /\ trail' = [trail EXCEPT ![s] = NoVariant]
        /\ crossed' = crossed \ {s}
        /\ formed' = formed \ {s}
        /\ UNCHANGED <<product, rows, req, sync, from>>

-----------------------------------------------------------------------------
(* set_not_online and set_not_online_many.                                 *)

LoadNotOnline(r, skus, op) ==
    /\ req[r] = Idle
    /\ skus # {} /\ skus \subseteq Existing /\ Cardinality(skus) <= MaxBulk
    /\ op = "show" => Cardinality(skus) = 1
    /\ req' = [req EXCEPT ![r] = [op |-> op, row |-> Loaded(skus),
                                  todo |-> skus, checked |-> {}]]
    /\ UNCHANGED <<product, rows, pos_sku, trail, sync, from, crossed, formed>>

(* Mutant: a mapped product is not refused.                                *)
RefusedNever(r, s) == FALSE

(* The check for a mapping takes no lock.                                  *)
Refused(r, s) == req[r].op = "hide" /\ Mapped(s)

CheckNotOnline(r, s) ==
    /\ req[r] # Idle /\ req[r].op \in {"hide", "show"}
    /\ s \in req[r].todo /\ req[r].checked = {}
    /\ LET same == req[r].row[s] = IF req[r].op = "hide" THEN "hidden" ELSE "shown"
       IN  Proceed(r, [req[r] EXCEPT
              !.todo = @ \ {s},
              !.checked = IF Refused(r, s) \/ same THEN {}
                          ELSE {<<s, Mapped(s)>>}])
    /\ UNCHANGED <<product, rows, pos_sku, trail, sync, from, crossed, formed>>

WriteNotOnline(r) ==
    /\ req[r] # Idle /\ req[r].op \in {"hide", "show"}
    /\ \E s \in Skus, was_mapped \in BOOLEAN :
          /\ <<s, was_mapped>> \in req[r].checked
          /\ product' = [product EXCEPT ![s] =
                            IF req[r].op = "hide" THEN "hidden" ELSE "shown"]
          /\ crossed' = IF req[r].op = "show" THEN crossed \ {s}
                        ELSE IF Mapped(s) /\ ~was_mapped THEN crossed \cup {s}
                        ELSE crossed
    /\ Proceed(r, [req[r] EXCEPT !.checked = {}])
    /\ UNCHANGED <<rows, pos_sku, trail, sync, from, formed>>

-----------------------------------------------------------------------------
(* The product form: ProductVariant.save() without update_fields writes    *)
(* every column of the row it loaded, pos_sku among them, and inserts the  *)
(* row again when it was deleted meanwhile.                                *)

LoadForm(r, v) ==
    /\ req[r] = Idle
    /\ v \in rows
    /\ req' = [req EXCEPT ![r] =
                  [op |-> "form", variant |-> v, pos_sku |-> pos_sku[v]]]
    /\ UNCHANGED <<product, rows, pos_sku, trail, sync, from, crossed, formed>>

(* A mapping the form writes or wipes out leaves no event.  If another     *)
(* variant has the SKU by now, the form's transaction rolls back.          *)
SaveForm(r) ==
    /\ req[r] # Idle /\ req[r].op = "form"
    /\ LET v == req[r].variant
           s == req[r].pos_sku
       IN  \/ /\ s # NoSku => Carriers(s) \subseteq {v}
              /\ pos_sku' = [pos_sku EXCEPT ![v] = s]
              /\ rows' = rows \cup {v}
              /\ formed' = IF s = pos_sku[v] THEN formed
                           ELSE formed \cup ({s, pos_sku[v]} \ {NoSku})
           \/ /\ s # NoSku /\ ~(Carriers(s) \subseteq {v})
              /\ UNCHANGED <<pos_sku, rows, formed>>
    /\ Close(r)
    /\ UNCHANGED <<product, trail, sync, from, crossed>>

(* A row ticked for deletion; a product keeps at least one variant.        *)
DeleteByForm(r) ==
    /\ req[r] # Idle /\ req[r].op = "form"
    /\ LET v == req[r].variant
       IN  /\ rows \ {v} # {}
           /\ rows' = rows \ {v}
           /\ pos_sku' = [pos_sku EXCEPT ![v] = NoSku]
           /\ from' = [from EXCEPT ![v] = NoSku]
           /\ formed' = formed \cup ({pos_sku[v]} \ {NoSku})
    /\ Close(r)
    /\ UNCHANGED <<product, trail, sync, crossed>>

-----------------------------------------------------------------------------
(* import_pos_csv: rows that parse are created or updated in one           *)
(* transaction; a row that another transaction created in between breaks   *)
(* the unique SKU and the whole import rolls back.                         *)

LoadImport(r, skus) ==
    /\ req[r] = Idle
    /\ skus # {} /\ Cardinality(skus) <= MaxBulk
    /\ req' = [req EXCEPT ![r] =
                  [op |-> "import", row |-> Loaded(skus), todo |-> skus]]
    /\ UNCHANGED <<product, rows, pos_sku, trail, sync, from, crossed, formed>>

Created(r) == {s \in req[r].todo : req[r].row[s] = "absent"}

(* Mutant: the update writes not_online too, as it was loaded.             *)
ImportedWithFlag(r, s) ==
    IF s \in Created(r) THEN "shown"
    ELSE IF s \in req[r].todo THEN req[r].row[s] ELSE product[s]

(* The updated columns do not include not_online.                          *)
Imported(r, s) == IF s \in Created(r) THEN "shown" ELSE product[s]

SaveImport(r) ==
    /\ req[r] # Idle /\ req[r].op = "import"
    /\ IF Created(r) \cap Existing = {}
       THEN product' = [s \in Skus |-> Imported(r, s)]
       ELSE UNCHANGED product
    /\ Close(r)
    /\ UNCHANGED <<rows, pos_sku, trail, sync, from, crossed, formed>>

-----------------------------------------------------------------------------
(* apply_snapshot, as far as it reads the mapping: the table of variants   *)
(* and the known products are read once, before any variant is locked.     *)

TheCarrier(s) == IF Mapped(s) THEN CHOOSE v \in Carriers(s) : TRUE ELSE NoVariant

BeginSync(skus) ==
    /\ sync = Idle
    /\ sync' = [todo |-> skus, by_sku |-> [s \in Skus |->
                    IF s \in skus THEN TheCarrier(s) ELSE NoVariant],
                unknown |-> skus \ Existing]
    /\ UNCHANGED <<product, rows, pos_sku, trail, req, from, crossed, formed>>

(* The count goes to the variant of the table, if it still exists.         *)
ApplyItem(s) ==
    /\ sync # Idle
    /\ s \in sync.todo
    /\ sync' = [sync EXCEPT !.todo = @ \ {s}]
    /\ from' = IF sync.by_sku[s] \in rows
               THEN [from EXCEPT ![sync.by_sku[s]] = s] ELSE from
    /\ UNCHANGED <<product, rows, pos_sku, trail, req, crossed, formed>>

(* Mutant: the error leaves the advisory lock behind.                      *)
EndSyncStuck ==
    /\ sync # Idle
    /\ sync.todo = {}
    /\ sync.unknown \cap Existing = {}
    /\ product' = [s \in Skus |-> IF s \in sync.unknown THEN "shown" ELSE product[s]]
    /\ sync' = Idle
    /\ UNCHANGED <<rows, pos_sku, trail, req, from, crossed, formed>>

(* _remember_pos_products: a SKU that was imported meanwhile breaks the    *)
(* insert, after every count has been committed.                           *)
EndSync ==
    /\ sync # Idle
    /\ sync.todo = {}
    /\ product' = [s \in Skus |->
           IF s \in sync.unknown /\ sync.unknown \cap Existing = {}
           THEN "shown" ELSE product[s]]
    /\ sync' = Idle
    /\ UNCHANGED <<rows, pos_sku, trail, req, from, crossed, formed>>

-----------------------------------------------------------------------------
RequestStep(r) ==
    \/ \E pairs \in SUBSET (Skus \X Variants) : LoadConfirm(r, pairs)
    \/ \E s \in Skus, v \in Variants : ConfirmPair(r, s, v)
    \/ \E skus \in SUBSET Skus, op \in {"hide", "show"} : LoadNotOnline(r, skus, op)
    \/ \E s \in Skus : CheckNotOnline(r, s)
    \/ WriteNotOnline(r)
    \/ \E v \in Variants : LoadForm(r, v)
    \/ SaveForm(r)
    \/ DeleteByForm(r)
    \/ \E skus \in SUBSET Skus : LoadImport(r, skus)
    \/ SaveImport(r)

SyncStep == (\E s \in Skus : ApplyItem(s)) \/ EndSync

Next ==
    \/ \E r \in Requests : RequestStep(r)
    \/ \E s \in Skus : RemoveMapping(s)
    \/ \E skus \in Reports : BeginSync(skus)
    \/ SyncStep

Spec == Init /\ [][Next]_vars

(* A worker that applies a snapshot goes on with it; the point of sale,    *)
(* which is external, is assumed to report every SKU it has time and again.*)
Fairness ==
    /\ WF_vars(SyncStep)
    /\ \A s \in Skus :
          SF_vars(\E skus \in Reports : s \in skus /\ BeginSync(skus))

FairSpec == Spec /\ Fairness

-----------------------------------------------------------------------------
(* The tabs of the mapping page and the counts above them.                 *)

UnmappedTab == {s \in Existing : ~Mapped(s) /\ product[s] = "shown"}
MappedTab == {s \in Existing : Mapped(s)}
NotOnlineTab == {s \in Existing : product[s] = "hidden"}

(* Mutant: mapped products are not taken off.                              *)
UnmappedCountWithMapped == Cardinality(Existing) - Cardinality(NotOnlineTab)

(* The page does not count the tab: it subtracts one total from another.   *)
UnmappedCount ==
    LET count == Cardinality(Existing)
                   - Cardinality({v \in Variants : pos_sku[v] # NoSku})
                   - Cardinality(NotOnlineTab)
    IN  IF count > 0 THEN count ELSE 0

-----------------------------------------------------------------------------
(* Properties.                                                             *)

TypeOK ==
    /\ product \in [Skus -> ProductRow]
    /\ rows \subseteq Variants
    /\ pos_sku \in [Variants -> Skus \cup {NoSku}]
    /\ trail \in [Skus -> Variants \cup {NoVariant}]
    /\ req \in [Requests -> Request \cup {Idle}]
    /\ sync \in Sync \cup {Idle}
    /\ from \in [Variants -> Skus \cup {NoSku}]
    /\ crossed \subseteq Skus
    /\ formed \subseteq Skus

(* set_not_online refuses a mapped product and confirm_mapping clears the  *)
(* flag, so no product is mapped and hidden at once: but for one that was  *)
(* hidden and mapped by two requests that did not see each other, or whose *)
(* mapping the product form brought back.                                  *)
HiddenIsUnmapped ==
    \A s \in Skus : product[s] = "hidden" /\ Mapped(s) => s \in crossed \cup formed

(* While no product is mapped and hidden at once, the number the mapping   *)
(* page computes by subtraction is the length of its Unmapped list.        *)
UnmappedCountIsItsTab ==
    MappedTab \cap NotOnlineTab = {} => UnmappedCount = Cardinality(UnmappedTab)

(* The last MAPPED or UNMAPPED event of a SKU names the variant that       *)
(* carries it, except where the product form changed a mapping.            *)
TrailTellsMapping ==
    \A s \in Skus \ formed : Carriers(s) = {trail[s]} \ {NoVariant}

FormStep == \E r \in Requests : SaveForm(r) \/ DeleteByForm(r)

(* Two people who map at once never move a variant or a SKU from one       *)
(* mapping to another: it is removed first.                                *)
RemovedBeforeRemapped ==
    [][\A v \in Variants :
          \/ pos_sku'[v] = pos_sku[v]
          \/ pos_sku[v] = NoSku /\ ~Mapped(pos_sku'[v])
          \/ pos_sku'[v] = NoSku
          \/ FormStep]_vars

(* An import or a snapshot that read its rows before a product was hidden  *)
(* or mapped leaves that decision alone (docs/pos-sync.md:114): what a     *)
(* product is marked as is changed by the mapping pages alone, and the SKU *)
(* of a variant by them and the product form.                              *)
DecisionsSurviveReports ==
    [][/\ \A s \in Skus :
             product[s] # product'[s] =>
                 \/ product[s] = "absent"
                 \/ \E r \in Requests :
                       \/ WriteNotOnline(r)
                       \/ \E v \in Variants : ConfirmPair(r, s, v)
       /\ \A v \in Variants :
             pos_sku[v] # pos_sku'[v] =>
                 \/ \E r \in Requests, s \in Skus : ConfirmPair(r, s, v)
                 \/ \E s \in Skus : RemoveMapping(s)
                 \/ FormStep]_vars

(* A mapping that stays takes effect: however snapshots, removals and      *)
(* edits interleaved before, the variant ends up with its own SKU's count  *)
(* and no other SKU's count reaches it again.                              *)
MappingTakesEffect ==
    \A v \in Variants, s \in Skus :
        <>[](pos_sku[v] = s) => <>[](from[v] = s)
=============================================================================
