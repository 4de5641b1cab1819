----------------------------- MODULE SearchIndex -----------------------------
(***************************************************************************)
(* Product.search_text, the words a product is found by: the signals that  *)
(* rebuild it (catalog/signals.py, search_indexing.py), the pages that     *)
(* change what it is made of, and the command that rebuilds it.            *)
(*                                                                         *)
(* Grain.  A rebuild reads the product row, reads the rest and compares    *)
(* what it computed with the text it has in memory, and writes: a step     *)
(* each.  The product form locks the row with its first write, so that its *)
(* transaction is one step after its POST has loaded the row.  A deletion  *)
(* of an attribute value takes effect with the rebuild it caused.          *)
(*                                                                         *)
(* Data.  One product.  A text is the set of its words.  The brand stands  *)
(* for the category and the subcategory too, one attribute for them all.   *)
(***************************************************************************)
CONSTANTS
    Names,       \* what the product may be called
    BrandNames,  \* what its brand may be called
    Skus,        \* the SKUs that its variants may have
    Values,      \* the attribute values that they may have
    Requests     \* requests and commands that may be open at once

VARIABLES
    name,         \* Product.name
    brand,        \* the name of its brand
    skus,         \* the SKUs of its variants
    values,       \* the values of their VariantAttributeValue rows
    filterable,   \* AttributeDefinition.is_filterable
    search_text,  \* Product.search_text
    index_req,    \* index_req[r]: what r has in memory
    behind        \* history: the text is not the product's since its brand
                  \* or the attribute was edited, or since a rebuild that
                  \* another change got into

vars == <<name, brand, skus, values, filterable, search_text, index_req, behind>>

(* compute_search_text, with what is in the database now.                  *)
Text(n, b, s, v) == {n, b} \cup s \cup {x \in v : filterable}

(* A request that holds nothing.                                           *)
Idle == [op |-> "idle"]

Init ==
    /\ name \in Names /\ brand \in BrandNames
    /\ skus = {} /\ values = {} /\ filterable = TRUE
    /\ search_text = Text(name, brand, skus, values)
    /\ index_req = [r \in Requests |-> Idle]
    /\ behind = FALSE

(* What a request has read or computed, when the product changes.          *)
Overtaken(q) ==
    IF index_req[q] = Idle THEN Idle ELSE [index_req[q] EXCEPT !.overtaken = TRUE]

Finish(r) ==
    LET product == <<name, skus, values, search_text>>
        changed == product' # product
    IN  index_req' = [q \in Requests |->
            IF q = r THEN Idle ELSE IF changed THEN Overtaken(q) ELSE index_req[q]]

Stale == search_text # Text(name, brand, skus, values)

Deleting == UNION {index_req[r].deleted :
                     r \in {q \in Requests : index_req[q].op \in {"read", "computed"}}}

-----------------------------------------------------------------------------
(* The product form.                                                       *)
LoadForm(r) ==
    /\ index_req[r] = Idle
    /\ index_req' = [index_req EXCEPT ![r] =
          [op |-> "form", brand |-> brand, overtaken |-> FALSE]]
    /\ UNCHANGED <<name, brand, skus, values, filterable, search_text, behind>>

(* product.save() writes the row whole, with the text that was loaded; the *)
(* signals of the product, of its variants and of their values follow with *)
(* the product in memory, or with one loaded afresh when a value is        *)
(* removed.  A value that is being deleted cannot be added or removed.     *)
SaveForm(r, n, s, v) ==
    /\ index_req[r].op = "form"
    /\ UNCHANGED <<brand, filterable>>
    /\ \A x \in Deleting : x \in v <=> x \in values
    /\ name' = n /\ skus' = s /\ values' = v
    /\ \E b \in {index_req[r].brand, brand} : search_text' = Text(n, b, s, v)
    /\ behind' = (Stale' /\ index_req[r].overtaken)
    /\ Finish(r)

-----------------------------------------------------------------------------
(* rebuild_search_text, after a save of the product's status or of a       *)
(* variant ("deleted" is empty), after the deletion of a value, or by the  *)
(* command, which has joined the brand to the product.                     *)
Read(r, deleted, joined) ==
    /\ index_req[r] = Idle
    /\ deleted \cap Deleting = {}
    /\ index_req' = [index_req EXCEPT ![r] =
          [op |-> "read", name |-> name, text |-> search_text, deleted |-> deleted,
           joined |-> joined, overtaken |-> FALSE]]
    /\ UNCHANGED <<name, brand, skus, values, filterable, search_text, behind>>

Touch(r) == Read(r, {}, {})
Resync(r) == Read(r, {}, {brand})

(* Mutant: the deletion of a value is not wired to a rebuild.              *)
DeleteValueUnwired(r, x) ==
    /\ x \in values /\ x \notin Deleting
    /\ UNCHANGED <<name, brand, skus, filterable, search_text, behind>>
    /\ values' = values \ {x}
    /\ Finish(r)

(* AttributeValueDeleteView: the cascade, and post_delete of each row.     *)
DeleteValue(r, x) == x \in values /\ Read(r, {x}, {})

Compute(r) ==
    /\ index_req[r].op = "read"
    /\ \E b \in IF index_req[r].joined = {} THEN {brand} ELSE index_req[r].joined :
          index_req' = [index_req EXCEPT ![r] =
              [op |-> "computed", text |-> index_req[r].text,
               deleted |-> index_req[r].deleted, overtaken |-> index_req[r].overtaken,
               new |-> Text(index_req[r].name, b, skus, values \ index_req[r].deleted)]]
    /\ UNCHANGED <<name, brand, skus, values, filterable, search_text, behind>>

(* Nothing is written when the product in memory has that text already.    *)
Write(r) ==
    /\ index_req[r].op = "computed"
    /\ UNCHANGED <<name, brand, skus, filterable>>
    /\ values' = values \ index_req[r].deleted
    /\ search_text' = IF index_req[r].new = index_req[r].text THEN search_text
                      ELSE index_req[r].new
    /\ behind' = (Stale' /\ index_req[r].overtaken)
    /\ Finish(r)

-----------------------------------------------------------------------------
(* BrandUpdateView, CategoryUpdateView, AttributeDefinitionUpdateView: no  *)
(* signal is wired to them.                                                *)
EditVocabulary(b, f) ==
    /\ <<b, f>> # <<brand, filterable>>
    /\ UNCHANGED <<name, skus, values, search_text>>
    /\ brand' = b /\ filterable' = f
    /\ behind' = Stale'
    /\ index_req' = [r \in Requests |-> Overtaken(r)]

Next ==
    \/ \E r \in Requests :
          \/ LoadForm(r) \/ Touch(r) \/ Resync(r) \/ Compute(r) \/ Write(r)
          \/ \E n \in Names, s \in SUBSET Skus, v \in SUBSET Values :
                SaveForm(r, n, s, v)
          \/ \E x \in Values : DeleteValue(r, x)
    \/ \E b \in BrandNames, f \in BOOLEAN : EditVocabulary(b, f)

Spec == Init /\ [][Next]_vars

-----------------------------------------------------------------------------
(* Properties.                                                             *)

Vocabulary == Names \cup BrandNames \cup Skus \cup Values
Forms == [op : {"form"}, brand : BrandNames, overtaken : BOOLEAN]
Reads == [op : {"read"}, name : Names, text : SUBSET Vocabulary,
          deleted : SUBSET Values, joined : SUBSET BrandNames, overtaken : BOOLEAN]
Computed == [op : {"computed"}, text : SUBSET Vocabulary, deleted : SUBSET Values,
             overtaken : BOOLEAN, new : SUBSET Vocabulary]

TypeOK ==
    /\ name \in Names /\ brand \in BrandNames
    /\ skus \subseteq Skus /\ values \subseteq Values
    /\ filterable \in BOOLEAN
    /\ search_text \subseteq Vocabulary
    /\ index_req \in [Requests -> Forms \cup Reads \cup Computed \cup {Idle}]
    /\ behind \in BOOLEAN

(* PostgresSearchBackend.suggest: a published product whose text has it.   *)
Suggested(word) == word \in search_text

(* A shopper finds the product by its name, brand, SKUs and attributes as  *)
(* they are, and by nothing else, unless the brand or the attribute was    *)
(* edited, or a rebuild was overtaken by another change: and the next      *)
(* rebuild that nothing overtakes puts it right.                           *)
FoundByWhatItIs ==
    behind \/ \A word \in Names \cup BrandNames \cup Skus \cup Values :
                 Suggested(word) <=> word \in Text(name, brand, skus, values)
=============================================================================
