--------------------------- MODULE ProductVariants ---------------------------
(***************************************************************************)
(* The variants of one product: which one is the default, and which        *)
(* attribute values each has (portal/product_views.py, product_forms.py,   *)
(* ProductVariant and VariantAttributeValue of catalog/models.py).         *)
(*                                                                         *)
(* Grain.  The product form is rendered, its POST loads the variant rows   *)
(* and validates, and one transaction saves.  That transaction updates the *)
(* product row first, so two of them never overlap; the triggers at its    *)
(* commit therefore see everything.                                        *)
(*                                                                         *)
(* Data.  A signature is the set of values it was computed from.  What the *)
(* merchant fills in is chosen when it is saved: of what validation reads, *)
(* only the rows and their signatures are kept until then.                 *)
(***************************************************************************)
EXTENDS FiniteSets, Naturals

CONSTANTS
    Variants,  \* the variants the product may get
    Values,    \* the attribute values that tell variants apart
    Requests   \* product forms that may be open at once

VARIABLES
    variants,             \* the ProductVariant rows
    is_default,           \* those with is_default
    values,               \* values[v]: its VariantAttributeValue rows
    attribute_signature,  \* as stored, a set of values
    value_rows,           \* the AttributeValue rows that exist
    created,              \* the ids that have been given out
    form_req,             \* form_req[r]: the form that r has open
    drifted               \* history: the variants whose signature was
                          \* written from an outdated one, or that lost a
                          \* value to its deletion

vars == <<variants, is_default, values, attribute_signature, value_rows, created,
          form_req, drifted>>

(* A request that holds nothing.                                           *)
Idle == [op |-> "idle"]
Form == [op : {"rendered"}, known : SUBSET Variants]
Post == [op : {"posted"}, known : SUBSET Variants,
         attribute_signature : [Variants -> SUBSET Values]]

(* create_product(): one default variant without values.                   *)
Init ==
    /\ variants = {CHOOSE v \in Variants : TRUE}
    /\ is_default = variants
    /\ values = [v \in Variants |-> {}]
    /\ attribute_signature = [v \in Variants |-> {}]
    /\ value_rows = Values
    /\ created = variants
    /\ form_req = [r \in Requests |-> Idle]
    /\ drifted = {}

Render(r) ==
    /\ form_req[r] = Idle
    /\ form_req' = [form_req EXCEPT ![r] = [op |-> "rendered", known |-> variants]]
    /\ UNCHANGED <<variants, is_default, values, attribute_signature, value_rows,
                   created, drifted>>

(* A form that names a row which has gone is invalid.                      *)
Load(r) ==
    /\ form_req[r].op = "rendered"
    /\ form_req' = [form_req EXCEPT ![r] =
          IF form_req[r].known \subseteq variants
          THEN [op |-> "posted", known |-> form_req[r].known,
                attribute_signature |-> attribute_signature]
          ELSE Idle]
    /\ UNCHANGED <<variants, is_default, values, attribute_signature, value_rows,
                   created, drifted>>

-----------------------------------------------------------------------------
(* _sync_attribute_values.  A value that is removed goes through a variant *)
(* loaded afresh, one that is added through the form's own variant, which  *)
(* saves its signature only if it differs from the one it has in memory.   *)
SyncedSignature(loaded, existing, desired) ==
    LET removed == IF existing \subseteq desired THEN loaded
                   ELSE existing \cap desired
        added == desired \ existing
    IN  IF added = {} \/ (Cardinality(added) = 1 /\ desired = loaded)
        THEN removed ELSE desired

(* Mutant: no survivor is promoted.                                        *)
DefaultsAsSubmitted(flagged, survivors) == {flagged}

(* clean(): when no survivor is flagged, the first one is.                 *)
Defaults(flagged, survivors) ==
    IF flagged = {} THEN {{v} : v \in survivors} ELSE {flagged}

(* ProductVariant.delete(): when the deleted row was ticked as the default *)
(* and no other one is the default, another one is promoted.               *)
Promoted(defaults, gone, left) ==
    {defaults} \cup IF defaults = {} /\ gone # {} THEN {{v} : v \in left} ELSE {}

(* clean(): no two survivors are given the same values.                    *)
Distinct(chosen, survivors) ==
    \A u, v \in survivors : u # v /\ chosen[u] = chosen[v] => chosen[u] = {}

(* The deferred triggers.                                                  *)
DefaultTrigger(defaults) == Cardinality(defaults) <= 1

(* Mutant: without the trigger on attribute_signature.                     *)
SignatureTriggerOff(signature, survivors, left) == TRUE

SignatureTrigger(signature, survivors, left) ==
    \A v \in survivors, u \in left :
        u # v /\ signature[u] = signature[v] => signature[v] = {}

(* One transaction: every survivor is written whole (and inserted again if *)
(* it was deleted meanwhile), with its values; then the rows ticked for    *)
(* deletion go.  Rows the form does not know are left alone.               *)
Save(r, survivors, flagged, chosen) ==
    LET gone == form_req[r].known \ survivors
        left == (variants \cup survivors) \ gone
        signature == [v \in Variants |->
            IF v \in survivors
            THEN SyncedSignature(form_req[r].attribute_signature[v], values[v], chosen[v])
            ELSE IF v \in gone THEN {} ELSE attribute_signature[v]]
        outdated == {v \in survivors \cap created :
                       v \notin variants \/
                       form_req[r].attribute_signature[v] # attribute_signature[v]}
    IN  /\ \E defaults \in Defaults(flagged, survivors) :
             is_default' \in Promoted(
                 ((is_default \ survivors) \cup defaults) \ gone, gone, left)
        /\ DefaultTrigger(is_default')
        /\ SignatureTrigger(signature, survivors, left)
        /\ variants' = left
        /\ attribute_signature' = signature
        /\ values' = [v \in Variants |-> IF v \in survivors THEN chosen[v]
                                         ELSE IF v \in gone THEN {} ELSE values[v]]
        /\ created' = created \cup survivors
        /\ drifted' = {v \in left : /\ attribute_signature'[v] # values'[v]
                                    /\ v \in drifted \cup outdated}

(* What the merchant submits: some of the known rows survive, at most one  *)
(* new row, at most one default.                                           *)
SaveForm(r) ==
    /\ form_req[r].op = "posted"
    /\ \E survivors \in SUBSET Variants :
          /\ survivors # {}
          /\ survivors \ form_req[r].known \subseteq Variants \ created
          /\ Cardinality(survivors \ form_req[r].known) <= 1
          /\ \E flagged \in {{}} \cup {{v} : v \in survivors},
                chosen \in [survivors -> SUBSET value_rows] :
                Distinct(chosen, survivors) /\ Save(r, survivors, flagged, chosen)
    /\ form_req' = [form_req EXCEPT ![r] = Idle]
    /\ UNCHANGED value_rows

(* The form is left, or its transaction rolls back.                        *)
LeaveForm(r) ==
    /\ form_req[r] # Idle
    /\ form_req' = [form_req EXCEPT ![r] = Idle]
    /\ UNCHANGED <<variants, is_default, values, attribute_signature, value_rows,
                   created, drifted>>

(* AttributeValueDeleteView: the cascade deletes the VariantAttributeValue *)
(* rows without VariantAttributeValue.delete().                            *)
DeleteValue(a) ==
    /\ a \in value_rows
    /\ value_rows' = value_rows \ {a}
    /\ values' = [v \in Variants |-> values[v] \ {a}]
    /\ drifted' = {v \in variants : /\ attribute_signature[v] # values'[v]
                                    /\ v \in drifted \/ a \in values[v]}
    /\ UNCHANGED <<variants, is_default, attribute_signature, created, form_req>>

Next ==
    \/ \E r \in Requests : Render(r) \/ Load(r) \/ SaveForm(r) \/ LeaveForm(r)
    \/ \E a \in Values : DeleteValue(a)

Spec == Init /\ [][Next]_vars

-----------------------------------------------------------------------------
(* Properties.                                                             *)

TypeOK ==
    /\ variants \subseteq created /\ created \subseteq Variants
    /\ is_default \subseteq variants
    /\ values \in [Variants -> SUBSET value_rows]
    /\ attribute_signature \in [Variants -> SUBSET Values]
    /\ value_rows \subseteq Values
    /\ form_req \in [Requests -> Form \cup Post \cup {Idle}]
    /\ drifted \subseteq variants

(* Whatever forms were open at once, a product has one default variant:    *)
(* the shop sells and shows that one (ProductVariant, migration 0003).     *)
OneDefault == Cardinality(is_default) = 1

(* Two variants are told apart by their values, unless one's signature was *)
(* written from an outdated one, or it lost a value to its deletion.       *)
NoTwins ==
    \A u, v \in variants :
        u # v /\ values[u] = values[v] /\ values[u] # {}
            => u \in drifted \/ v \in drifted
=============================================================================
