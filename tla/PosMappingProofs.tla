-------------------------- MODULE PosMappingProofs --------------------------
(***************************************************************************)
(* Proofs about PosMapping for every number of SKUs, variants and          *)
(* requests: what the mapping pages promise whoever interleaves with them. *)
(***************************************************************************)
EXTENDS PosMapping, FiniteSetTheorems, TLAPS

(* At most one variant carries a SKU (the unique constraint on pos_sku).   *)
Injective ==
    \A v, w \in Variants : pos_sku[v] = pos_sku[w] /\ pos_sku[v] # NoSku => v = w

(* What a request is about to hide was not mapped when it looked.          *)
CheckedUnmapped ==
    \A r \in Requests :
        req[r] # Idle /\ req[r].op = "hide" =>
            \A s \in Skus : <<s, TRUE>> \notin req[r].checked

MappingInv ==
    /\ TypeOK
    /\ Injective
    /\ CheckedUnmapped
    /\ TrailTellsMapping
    /\ HiddenIsUnmapped

(* What the mapping is made of.                                            *)
mapping == <<product, pos_sku, trail, crossed, formed>>

-----------------------------------------------------------------------------
(* Requests.                                                               *)

LEMMA IdleNotRequest == Idle \notin Request /\ Idle \notin Sync
  BY IdleAssumption

LEMMA LoadedType ==
    ASSUME product \in [Skus -> ProductRow], NEW skus
    PROVE  Loaded(skus) \in [Skus -> ProductRow]
  BY DEF Loaded, ProductRow

(* The kinds of request are told apart by op.                              *)
LEMMA RequestKinds ==
    ASSUME NEW q \in Request
    PROVE  /\ q.op = "confirm" => q \in ConfirmRequest
           /\ q.op \in {"hide", "show"} => q \in HideRequest
           /\ q.op = "form" => q \in FormRequest
           /\ q.op = "import" => q \in ImportRequest
  BY DEF Request, ConfirmRequest, HideRequest, FormRequest, ImportRequest

(* A request that goes on is a request of its kind, or nothing.            *)
LEMMA ProceedType ==
    ASSUME req \in [Requests -> Request \cup {Idle}], NEW r \in Requests,
           NEW left \in Request, Proceed(r, left)
    PROVE  /\ req' \in [Requests -> Request \cup {Idle}]
           /\ req'[r] \in {Idle, left}
           /\ \A q \in Requests \ {r} : req'[q] = req[q]
  BY DEF Proceed

LEMMA CloseType ==
    ASSUME req \in [Requests -> Request \cup {Idle}], NEW r \in Requests, Close(r)
    PROVE  /\ req' \in [Requests -> Request \cup {Idle}]
           /\ req'[r] = Idle
           /\ \A q \in Requests \ {r} : req'[q] = req[q]
  BY DEF Close

-----------------------------------------------------------------------------
LEMMA InitMapping == Init => MappingInv
  <1>. SUFFICES ASSUME Init PROVE MappingInv
    OBVIOUS
  <1>1. TypeOK
    BY DEF Init, TypeOK
  <1>2. Injective /\ CheckedUnmapped
    BY DEF Init, Injective, CheckedUnmapped
  <1>3. TrailTellsMapping
    BY NoSkuAssumption DEF Init, TrailTellsMapping, Carriers
  <1>4. HiddenIsUnmapped
    BY NoSkuAssumption DEF Init, HiddenIsUnmapped, Mapped, Carriers
  <1>5. QED
    BY <1>1, <1>2, <1>3, <1>4 DEF MappingInv

(* A request that only reads leaves the mapping as it is.                  *)
LEMMA LoadKeeps ==
    ASSUME MappingInv, NEW r \in Requests, NEW q \in Request,
           req' = [req EXCEPT ![r] = q],
           q.op = "hide" => q.checked = {},
           UNCHANGED <<product, rows, pos_sku, trail, sync, from, crossed, formed>>
    PROVE  MappingInv'
  <1>1. TypeOK'
    BY DEF MappingInv, TypeOK
  <1>2. Injective' /\ TrailTellsMapping' /\ HiddenIsUnmapped'
    BY DEF MappingInv, Injective, TrailTellsMapping, HiddenIsUnmapped, Mapped, Carriers
  <1>3. CheckedUnmapped'
    BY DEF MappingInv, TypeOK, CheckedUnmapped
  <1>4. QED
    BY <1>1, <1>2, <1>3 DEF MappingInv

LEMMA ConfirmKeeps ==
    ASSUME MappingInv, NEW r \in Requests, NEW s \in Skus, NEW v \in Variants,
           ConfirmPair(r, s, v)
    PROVE  MappingInv'
  <1>1. req[r] \in ConfirmRequest
    BY RequestKinds DEF ConfirmPair, MappingInv, TypeOK
  <1>2. CASE ~Confirmable(s, v)
    <2>. DEFINE left == [req[r] EXCEPT !.todo = @ \ {<<s, v>>}]
    <2>1. left \in ConfirmRequest /\ left \in Request
      BY <1>1 DEF ConfirmRequest, Request
    <2>2. Proceed(r, left) /\ UNCHANGED mapping /\ UNCHANGED <<rows, sync, from>>
      BY <1>2 DEF ConfirmPair, mapping
    <2>. HIDE DEF left
    <2>3. /\ req' \in [Requests -> Request \cup {Idle}]
          /\ req'[r] \in {Idle, left}
          /\ \A q \in Requests \ {r} : req'[q] = req[q]
      BY <2>1, <2>2, ProceedType DEF MappingInv, TypeOK
    <2>4. TypeOK'
      BY <2>2, <2>3 DEF MappingInv, TypeOK, mapping
    <2>5. CheckedUnmapped'
      BY <2>1, <2>3 DEF MappingInv, CheckedUnmapped, ConfirmRequest
    <2>6. Injective' /\ TrailTellsMapping' /\ HiddenIsUnmapped'
      BY <2>2 DEF MappingInv, mapping, Injective, TrailTellsMapping,
                  HiddenIsUnmapped, Mapped, Carriers
    <2>7. QED
      BY <2>4, <2>5, <2>6 DEF MappingInv
  <1>3. CASE Confirmable(s, v)
    <2>. DEFINE left == [req[r] EXCEPT !.todo = @ \ {<<s, v>>}, !.row[s] = "shown"]
    <2>1. left \in ConfirmRequest /\ left \in Request
      BY <1>1 DEF ConfirmRequest, Request, ProductRow
    <2>2. /\ Proceed(r, left)
          /\ pos_sku' = [pos_sku EXCEPT ![v] = s]
          /\ product' = [product EXCEPT ![s] = Unhidden(r, s)]
          /\ trail' = [trail EXCEPT ![s] = v]
          /\ crossed' = IF req[r].row[s] # product[s]
                        THEN crossed \cup {s} ELSE crossed
          /\ formed' = formed \ {s}
          /\ UNCHANGED <<rows, sync, from>>
      BY <1>3 DEF ConfirmPair
    <2>. HIDE DEF left
    <2>3. /\ req' \in [Requests -> Request \cup {Idle}]
          /\ req'[r] \in {Idle, left}
          /\ \A q \in Requests \ {r} : req'[q] = req[q]
      BY <2>1, <2>2, ProceedType DEF MappingInv, TypeOK
    <2>4. TypeOK'
      BY <1>1, <2>2, <2>3 DEF MappingInv, TypeOK, Unhidden, ProductRow, ConfirmRequest
    <2>5. CheckedUnmapped'
      BY <2>1, <2>3 DEF MappingInv, CheckedUnmapped, ConfirmRequest
    <2>6. pos_sku[v] = NoSku /\ Carriers(s) = {}
      BY <1>3 DEF Confirmable, Mapped
    <2>7. Injective'
      BY <2>2, <2>6 DEF MappingInv, TypeOK, Injective, Carriers
    <2>8. TrailTellsMapping'
      <3>. SUFFICES ASSUME NEW t \in Skus, t \notin formed'
                    PROVE  Carriers(t)' = {trail'[t]} \ {NoVariant}
        BY DEF TrailTellsMapping
      <3>1. CASE t = s
        <4>1. Carriers(s)' = {v}
          BY <2>2, <2>6 DEF Carriers, MappingInv, TypeOK
        <4>2. trail'[s] = v
          BY <2>2 DEF MappingInv, TypeOK
        <4>3. QED
          BY <4>1, <4>2, <3>1, NoVariantAssumption
      <3>2. CASE t # s
        <4>1. Carriers(t)' = Carriers(t)
          BY <2>2, <2>6, <3>2, NoSkuAssumption DEF Carriers, MappingInv, TypeOK
        <4>2. trail'[t] = trail[t] /\ t \notin formed
          BY <2>2, <3>2 DEF MappingInv, TypeOK
        <4>3. QED
          BY <4>1, <4>2 DEF MappingInv, TrailTellsMapping
      <3>3. QED
        BY <3>1, <3>2
    <2>9. HiddenIsUnmapped'
      <3>. SUFFICES ASSUME NEW t \in Skus, product'[t] = "hidden", Mapped(t)'
                    PROVE  t \in crossed' \cup formed'
        BY DEF HiddenIsUnmapped
      <3>1. CASE t = s
        BY <2>2, <3>1 DEF MappingInv, TypeOK, Unhidden
      <3>2. CASE t # s
        <4>1. Mapped(t) /\ product[t] = "hidden"
          BY <2>2, <2>6, <3>2 DEF Mapped, Carriers, MappingInv, TypeOK
        <4>2. QED
          BY <2>2, <3>2, <4>1 DEF MappingInv, HiddenIsUnmapped
      <3>3. QED
        BY <3>1, <3>2
    <2>10. QED
      BY <2>4, <2>5, <2>7, <2>8, <2>9 DEF MappingInv
  <1>4. QED
    BY <1>2, <1>3

LEMMA RemoveKeeps ==
    ASSUME MappingInv, NEW s \in Skus, RemoveMapping(s)
    PROVE  MappingInv'
  <1>1. PICK v \in Variants :
            /\ pos_sku[v] = s
            /\ pos_sku' = [pos_sku EXCEPT ![v] = NoSku]
            /\ trail' = [trail EXCEPT ![s] = NoVariant]
            /\ crossed' = crossed \ {s}
            /\ formed' = formed \ {s}
            /\ UNCHANGED <<product, rows, req, sync, from>>
    BY DEF RemoveMapping, Carriers
  <1>2. Carriers(s)' = {}
    BY <1>1, NoSkuAssumption DEF MappingInv, TypeOK, Injective, Carriers
  <1>3. \A t \in Skus \ {s} : Carriers(t)' = Carriers(t)
    BY <1>1, NoSkuAssumption DEF MappingInv, TypeOK, Carriers
  <1>4. TypeOK'
    BY <1>1 DEF MappingInv, TypeOK
  <1>5. Injective' /\ CheckedUnmapped'
    BY <1>1 DEF MappingInv, TypeOK, Injective, CheckedUnmapped
  <1>6. TrailTellsMapping'
    <2>1. {trail'[s]} \ {NoVariant} = {}
      BY <1>1 DEF MappingInv, TypeOK
    <2>2. \A t \in Skus \ {s} : trail'[t] = trail[t] /\ (t \in formed' <=> t \in formed)
      BY <1>1 DEF MappingInv, TypeOK
    <2>3. QED
      BY <2>1, <2>2, <1>2, <1>3 DEF MappingInv, TrailTellsMapping
  <1>7. HiddenIsUnmapped'
    BY <1>1, <1>2, <1>3 DEF MappingInv, HiddenIsUnmapped, Mapped
  <1>8. QED
    BY <1>4, <1>5, <1>6, <1>7 DEF MappingInv

LEMMA CheckKeeps ==
    ASSUME MappingInv, NEW r \in Requests, NEW s \in Skus, CheckNotOnline(r, s)
    PROVE  MappingInv'
  <1>1. req[r] \in HideRequest
    BY RequestKinds DEF CheckNotOnline, MappingInv, TypeOK
  <1>. DEFINE checked == IF Refused(r, s) \/ req[r].row[s] =
                            (IF req[r].op = "hide" THEN "hidden" ELSE "shown")
                         THEN {} ELSE {<<s, Mapped(s)>>}
              left == [req[r] EXCEPT !.todo = @ \ {s}, !.checked = checked]
  <1>2. Proceed(r, left) /\ UNCHANGED mapping /\ UNCHANGED <<rows, sync, from>>
    BY DEF CheckNotOnline, mapping
  <1>3. checked \in SUBSET (Skus \X BOOLEAN)
    <2>1. Mapped(s) \in BOOLEAN
      BY DEF Mapped
    <2>2. <<s, Mapped(s)>> \in Skus \X BOOLEAN
      BY <2>1
    <2>3. QED
      BY <2>2
  <1>4. req[r].op = "hide" => \A t \in Skus : <<t, TRUE>> \notin checked
    BY DEF Refused
  <1>. HIDE DEF checked
  <1>5. /\ left \in HideRequest /\ left \in Request
        /\ left.op = req[r].op /\ left.checked = checked
    BY <1>1, <1>3 DEF HideRequest, Request
  <1>. HIDE DEF left
  <1>6. /\ req' \in [Requests -> Request \cup {Idle}]
        /\ req'[r] \in {Idle, left}
        /\ \A q \in Requests \ {r} : req'[q] = req[q]
    BY <1>2, <1>5, ProceedType DEF MappingInv, TypeOK
  <1>7. TypeOK'
    BY <1>2, <1>6 DEF MappingInv, TypeOK, mapping
  <1>8. CheckedUnmapped'
    BY <1>4, <1>5, <1>6 DEF MappingInv, CheckedUnmapped
  <1>9. Injective' /\ TrailTellsMapping' /\ HiddenIsUnmapped'
    BY <1>2 DEF MappingInv, mapping, Injective, TrailTellsMapping,
                HiddenIsUnmapped, Mapped, Carriers
  <1>10. QED
    BY <1>7, <1>8, <1>9 DEF MappingInv

LEMMA WriteKeeps ==
    ASSUME MappingInv, NEW r \in Requests, WriteNotOnline(r)
    PROVE  MappingInv'
  <1>1. req[r] \in HideRequest
    BY RequestKinds DEF WriteNotOnline, MappingInv, TypeOK
  <1>. DEFINE left == [req[r] EXCEPT !.checked = {}]
  <1>2. PICK s \in Skus, was_mapped \in BOOLEAN :
            /\ <<s, was_mapped>> \in req[r].checked
            /\ product' = [product EXCEPT ![s] =
                              IF req[r].op = "hide" THEN "hidden" ELSE "shown"]
            /\ crossed' = IF req[r].op = "show" THEN crossed \ {s}
                          ELSE IF Mapped(s) /\ ~was_mapped THEN crossed \cup {s}
                          ELSE crossed
    BY DEF WriteNotOnline
  <1>3. Proceed(r, left) /\ UNCHANGED <<rows, pos_sku, trail, sync, from, formed>>
    BY DEF WriteNotOnline
  <1>4. left \in HideRequest /\ left \in Request /\ left.checked = {}
    BY <1>1 DEF HideRequest, Request
  <1>. HIDE DEF left
  <1>5. /\ req' \in [Requests -> Request \cup {Idle}]
        /\ req'[r] \in {Idle, left}
        /\ \A q \in Requests \ {r} : req'[q] = req[q]
    BY <1>3, <1>4, ProceedType DEF MappingInv, TypeOK
  <1>6. TypeOK'
    BY <1>2, <1>3, <1>5 DEF MappingInv, TypeOK, ProductRow
  <1>7. CheckedUnmapped'
    BY <1>4, <1>5 DEF MappingInv, CheckedUnmapped
  <1>8. Injective' /\ TrailTellsMapping'
    BY <1>3 DEF MappingInv, Injective, TrailTellsMapping, Carriers
  <1>9. HiddenIsUnmapped'
    <2>1. \A t \in Skus : Mapped(t)' = Mapped(t)
      BY <1>3 DEF Mapped, Carriers
    <2>2. CASE req[r].op = "show"
      BY <2>1, <2>2, <1>2, <1>3 DEF MappingInv, TypeOK, HiddenIsUnmapped
    <2>3. CASE req[r].op = "hide"
      <3>1. was_mapped = FALSE
        BY <2>3, <1>2 DEF MappingInv, CheckedUnmapped, WriteNotOnline
      <3>2. s \in crossed' \/ ~Mapped(s)
        BY <3>1, <2>3, <1>2
      <3>3. crossed \subseteq crossed'
        BY <2>3, <1>2
      <3>4. QED
        BY <3>2, <3>3, <2>1, <1>2, <1>3 DEF MappingInv, TypeOK, HiddenIsUnmapped
    <2>4. QED
      BY <2>2, <2>3 DEF WriteNotOnline
  <1>10. QED
    BY <1>6, <1>7, <1>8, <1>9 DEF MappingInv

LEMMA SaveFormKeeps ==
    ASSUME MappingInv, NEW r \in Requests, SaveForm(r)
    PROVE  MappingInv'
  <1>. DEFINE v == req[r].variant
              s == req[r].pos_sku
  <1>1. req[r] \in FormRequest
    BY RequestKinds DEF SaveForm, MappingInv, TypeOK
  <1>2. v \in Variants /\ s \in Skus \cup {NoSku}
    BY <1>1 DEF FormRequest
  <1>3. Close(r) /\ UNCHANGED <<product, trail, sync, from, crossed>>
    BY DEF SaveForm
  <1>4. /\ req' \in [Requests -> Request \cup {Idle}]
        /\ req'[r] = Idle
        /\ \A q \in Requests \ {r} : req'[q] = req[q]
    BY <1>3, CloseType DEF MappingInv, TypeOK
  <1>5. CheckedUnmapped'
    BY <1>4 DEF MappingInv, CheckedUnmapped
  <1>6. CASE UNCHANGED <<pos_sku, rows, formed>>
    <2>1. TypeOK'
      BY <1>3, <1>4, <1>6 DEF MappingInv, TypeOK
    <2>2. Injective' /\ TrailTellsMapping' /\ HiddenIsUnmapped'
      BY <1>3, <1>6 DEF MappingInv, Injective, TrailTellsMapping,
                        HiddenIsUnmapped, Mapped, Carriers
    <2>3. QED
      BY <2>1, <2>2, <1>5 DEF MappingInv
  <1>7. CASE /\ s # NoSku => Carriers(s) \subseteq {v}
             /\ pos_sku' = [pos_sku EXCEPT ![v] = s]
             /\ rows' = rows \cup {v}
             /\ formed' = IF s = pos_sku[v] THEN formed
                          ELSE formed \cup ({s, pos_sku[v]} \ {NoSku})
    <2>. HIDE DEF v, s
    <2>1. TypeOK'
      BY <1>2, <1>3, <1>4, <1>7 DEF MappingInv, TypeOK
    <2>2. Injective'
      BY <1>2, <1>7, NoSkuAssumption DEF MappingInv, TypeOK, Injective, Carriers
    <2>3. \A t \in Skus \ formed' :
              Carriers(t)' = Carriers(t) /\ t \notin formed
      BY <1>2, <1>7, NoSkuAssumption DEF MappingInv, TypeOK, Carriers
    <2>4. TrailTellsMapping'
      BY <2>3, <1>3 DEF MappingInv, TrailTellsMapping
    <2>5. HiddenIsUnmapped'
      BY <2>3, <1>3 DEF MappingInv, HiddenIsUnmapped, Mapped
    <2>6. QED
      BY <2>1, <2>2, <2>4, <2>5, <1>5 DEF MappingInv
  <1>8. QED
    BY <1>6, <1>7 DEF SaveForm

LEMMA DeleteKeeps ==
    ASSUME MappingInv, NEW r \in Requests, DeleteByForm(r)
    PROVE  MappingInv'
  <1>. DEFINE v == req[r].variant
  <1>1. req[r] \in FormRequest
    BY RequestKinds DEF DeleteByForm, MappingInv, TypeOK
  <1>2. v \in Variants
    BY <1>1 DEF FormRequest
  <1>3. /\ Close(r)
        /\ rows' = rows \ {v}
        /\ pos_sku' = [pos_sku EXCEPT ![v] = NoSku]
        /\ from' = [from EXCEPT ![v] = NoSku]
        /\ formed' = formed \cup ({pos_sku[v]} \ {NoSku})
        /\ UNCHANGED <<product, trail, sync, crossed>>
    BY DEF DeleteByForm
  <1>. HIDE DEF v
  <1>4. /\ req' \in [Requests -> Request \cup {Idle}]
        /\ req'[r] = Idle
        /\ \A q \in Requests \ {r} : req'[q] = req[q]
    BY <1>3, CloseType DEF MappingInv, TypeOK
  <1>5. CheckedUnmapped'
    BY <1>4 DEF MappingInv, CheckedUnmapped
  <1>6. TypeOK'
    BY <1>2, <1>3, <1>4 DEF MappingInv, TypeOK
  <1>7. Injective'
    BY <1>2, <1>3 DEF MappingInv, TypeOK, Injective
  <1>8. \A t \in Skus \ formed' : Carriers(t)' = Carriers(t) /\ t \notin formed
    BY <1>2, <1>3, NoSkuAssumption DEF MappingInv, TypeOK, Carriers
  <1>9. TrailTellsMapping' /\ HiddenIsUnmapped'
    BY <1>8, <1>3 DEF MappingInv, TrailTellsMapping, HiddenIsUnmapped, Mapped
  <1>10. QED
    BY <1>5, <1>6, <1>7, <1>9 DEF MappingInv

(* Rows of products that did not exist are created as shown.               *)
LEMMA CreateKeeps ==
    ASSUME MappingInv, product' \in [Skus -> ProductRow],
           \A s \in Skus : product'[s] # product[s] => product'[s] # "hidden",
           req' \in [Requests -> Request \cup {Idle}],
           \A r \in Requests : req'[r] \in {Idle, req[r]},
           sync' \in Sync \cup {Idle},
           from' \in [Variants -> Skus \cup {NoSku}],
           UNCHANGED <<rows, pos_sku, trail, crossed, formed>>
    PROVE  MappingInv'
  <1>1. TypeOK'
    BY DEF MappingInv, TypeOK
  <1>2. Injective' /\ TrailTellsMapping'
    BY DEF MappingInv, Injective, TrailTellsMapping, Carriers
  <1>3. CheckedUnmapped'
    BY DEF MappingInv, CheckedUnmapped
  <1>4. HiddenIsUnmapped'
    BY DEF MappingInv, HiddenIsUnmapped, Mapped, Carriers
  <1>5. QED
    BY <1>1, <1>2, <1>3, <1>4 DEF MappingInv

LEMMA ImportKeeps ==
    ASSUME MappingInv, NEW r \in Requests, SaveImport(r)
    PROVE  MappingInv'
  <1>1. Close(r) /\ UNCHANGED <<rows, pos_sku, trail, sync, from, crossed, formed>>
    BY DEF SaveImport
  <1>2. /\ req' \in [Requests -> Request \cup {Idle}]
        /\ \A q \in Requests : req'[q] \in {Idle, req[q]}
    BY <1>1, CloseType DEF MappingInv, TypeOK
  <1>3. /\ product' \in [Skus -> ProductRow]
        /\ \A s \in Skus : product'[s] # product[s] => product'[s] # "hidden"
    BY DEF SaveImport, Imported, MappingInv, TypeOK, ProductRow
  <1>4. sync' \in Sync \cup {Idle} /\ from' \in [Variants -> Skus \cup {NoSku}]
    BY <1>1 DEF MappingInv, TypeOK
  <1>5. QED
    BY <1>1, <1>2, <1>3, <1>4, CreateKeeps

LEMMA SyncKeeps ==
    ASSUME MappingInv, SyncStep \/ \E skus \in Reports : BeginSync(skus)
    PROVE  MappingInv'
  <1>1. req' = req /\ UNCHANGED <<rows, pos_sku, trail, crossed, formed>>
    BY DEF SyncStep, ApplyItem, EndSync, BeginSync
  <1>2. /\ req' \in [Requests -> Request \cup {Idle}]
        /\ \A q \in Requests : req'[q] \in {Idle, req[q]}
    BY <1>1 DEF MappingInv, TypeOK
  <1>3. CASE \E skus \in Reports : BeginSync(skus)
    <2>1. PICK skus \in Reports : BeginSync(skus)
      BY <1>3
    <2>2. sync' \in Sync
      <3>1. \A s \in Skus : TheCarrier(s) \in Variants \cup {NoVariant}
        BY DEF TheCarrier, Mapped, Carriers
      <3>2. skus \in SUBSET Skus
        BY ReportsAssumption
      <3>3. QED
        BY <2>1, <3>1, <3>2 DEF BeginSync, Sync
    <2>3. QED
      BY <1>1, <1>2, <2>1, <2>2, CreateKeeps DEF BeginSync, MappingInv, TypeOK
  <1>4. ASSUME NEW s \in Skus, ApplyItem(s) PROVE MappingInv'
    <2>1. sync \in Sync
      BY <1>4 DEF ApplyItem, MappingInv, TypeOK
    <2>2. sync' \in Sync
      BY <1>4, <2>1 DEF ApplyItem, Sync
    <2>3. from' \in [Variants -> Skus \cup {NoSku}]
      BY <1>4 DEF ApplyItem, MappingInv, TypeOK
    <2>4. product' = product
      BY <1>4 DEF ApplyItem
    <2>5. QED
      BY <1>1, <1>2, <2>2, <2>3, <2>4, CreateKeeps DEF MappingInv, TypeOK
  <1>5. CASE EndSync
    <2>1. /\ product' \in [Skus -> ProductRow]
          /\ \A s \in Skus : product'[s] # product[s] => product'[s] # "hidden"
      BY <1>5 DEF EndSync, MappingInv, TypeOK, ProductRow
    <2>2. sync' \in Sync \cup {Idle} /\ from' \in [Variants -> Skus \cup {NoSku}]
      BY <1>5 DEF EndSync, MappingInv, TypeOK
    <2>3. QED
      BY <1>1, <1>2, <2>1, <2>2, CreateKeeps
  <1>6. QED
    BY <1>3, <1>4, <1>5 DEF SyncStep

(* What a portal request does.                                             *)
LEMMA RequestKeeps ==
    ASSUME MappingInv, NEW r \in Requests, RequestStep(r)
    PROVE  MappingInv'
  <1>1. ASSUME NEW pairs \in SUBSET (Skus \X Variants), LoadConfirm(r, pairs)
        PROVE  MappingInv'
    <2>. DEFINE q == [op |-> "confirm", row |-> Loaded({p[1] : p \in pairs}),
                      todo |-> pairs]
    <2>1. q \in Request /\ q.op # "hide"
      BY LoadedType DEF Request, ConfirmRequest, MappingInv, TypeOK
    <2>2. QED
      BY <1>1, <2>1, LoadKeeps DEF LoadConfirm
  <1>2. ASSUME NEW skus \in SUBSET Skus, NEW op \in {"hide", "show"},
               LoadNotOnline(r, skus, op)
        PROVE  MappingInv'
    <2>. DEFINE q == [op |-> op, row |-> Loaded(skus), todo |-> skus, checked |-> {}]
    <2>1. q \in Request /\ q.checked = {}
      BY LoadedType DEF Request, HideRequest, MappingInv, TypeOK
    <2>2. QED
      BY <1>2, <2>1, LoadKeeps DEF LoadNotOnline
  <1>3. ASSUME NEW v \in Variants, LoadForm(r, v) PROVE MappingInv'
    <2>. DEFINE q == [op |-> "form", variant |-> v, pos_sku |-> pos_sku[v]]
    <2>1. q \in Request /\ q.op # "hide"
      BY DEF Request, FormRequest, MappingInv, TypeOK
    <2>2. QED
      BY <1>3, <2>1, LoadKeeps DEF LoadForm
  <1>4. ASSUME NEW skus \in SUBSET Skus, LoadImport(r, skus) PROVE MappingInv'
    <2>. DEFINE q == [op |-> "import", row |-> Loaded(skus), todo |-> skus]
    <2>1. q \in Request /\ q.op # "hide"
      BY LoadedType DEF Request, ImportRequest, MappingInv, TypeOK
    <2>2. QED
      BY <1>4, <2>1, LoadKeeps DEF LoadImport
  <1>5. QED
    BY <1>1, <1>2, <1>3, <1>4, ConfirmKeeps, CheckKeeps, WriteKeeps, SaveFormKeeps,
       DeleteKeeps, ImportKeeps DEF RequestStep

LEMMA StepMapping == MappingInv /\ [Next]_vars => MappingInv'
  <1>. SUFFICES ASSUME MappingInv, [Next]_vars PROVE MappingInv'
    OBVIOUS
  <1>1. CASE Next
    BY <1>1, RequestKeeps, RemoveKeeps, SyncKeeps DEF Next
  <1>2. CASE UNCHANGED vars
    BY <1>2 DEF vars, MappingInv, TypeOK, Injective, CheckedUnmapped,
                TrailTellsMapping, HiddenIsUnmapped, Mapped, Carriers
  <1>3. QED
    BY <1>1, <1>2

(* Every state has the types it should have.                               *)
THEOREM TypeCorrect == Spec => []TypeOK
  <1>1. MappingInv => TypeOK
    BY DEF MappingInv
  <1>2. QED
    BY <1>1, InitMapping, StepMapping, PTL DEF Spec

(* The audit trail tells which variant carries a SKU, however many people  *)
(* map at once, unless the product form has changed a mapping since.       *)
THEOREM TrailHolds == Spec => []TrailTellsMapping
  <1>1. MappingInv => TrailTellsMapping
    BY DEF MappingInv
  <1>2. QED
    BY <1>1, InitMapping, StepMapping, PTL DEF Spec

(* A product is mapped and hidden at once only after two requests crossed  *)
(* or the product form brought a mapping back.                             *)
THEOREM HiddenHolds == Spec => []HiddenIsUnmapped
  <1>1. MappingInv => HiddenIsUnmapped
    BY DEF MappingInv
  <1>2. QED
    BY <1>1, InitMapping, StepMapping, PTL DEF Spec

-----------------------------------------------------------------------------
(* Action properties.                                                      *)

LEMMA RemappedStep ==
    ASSUME MappingInv, [Next]_vars, NEW v \in Variants
    PROVE  \/ pos_sku'[v] = pos_sku[v]
           \/ pos_sku[v] = NoSku /\ ~Mapped(pos_sku'[v])
           \/ pos_sku'[v] = NoSku
           \/ FormStep
  <1>. DEFINE Kept == \/ pos_sku'[v] = pos_sku[v]
                      \/ pos_sku[v] = NoSku /\ ~Mapped(pos_sku'[v])
                      \/ pos_sku'[v] = NoSku
                      \/ FormStep
  <1>1. ASSUME NEW r \in Requests, NEW s \in Skus, NEW w \in Variants,
               ConfirmPair(r, s, w)
        PROVE  Kept
    BY <1>1 DEF ConfirmPair, Confirmable, MappingInv, TypeOK
  <1>2. ASSUME NEW s \in Skus, RemoveMapping(s) PROVE Kept
    BY <1>2 DEF RemoveMapping, Carriers, MappingInv, TypeOK
  <1>3. ASSUME NEW r \in Requests, RequestStep(r) PROVE Kept
    <2>1. CASE SaveForm(r) \/ DeleteByForm(r)
      BY <2>1 DEF FormStep
    <2>2. CASE UNCHANGED pos_sku
      BY <2>2
    <2>3. QED
      BY <1>1, <1>3, <2>1, <2>2 DEF RequestStep, LoadConfirm, LoadNotOnline,
         CheckNotOnline, WriteNotOnline, LoadForm, LoadImport, SaveImport
  <1>4. CASE UNCHANGED pos_sku
    BY <1>4
  <1>5. QED
    BY <1>2, <1>3, <1>4 DEF Next, SyncStep, BeginSync, ApplyItem, EndSync, vars

(* Nobody moves a SKU or a variant from one mapping to another.            *)
THEOREM RemovedFirst == Spec => RemovedBeforeRemapped
  <1>1. MappingInv /\ [Next]_vars =>
            [\A v \in Variants :
                \/ pos_sku'[v] = pos_sku[v]
                \/ pos_sku[v] = NoSku /\ ~Mapped(pos_sku'[v])
                \/ pos_sku'[v] = NoSku
                \/ FormStep]_vars
    BY RemappedStep
  <1>2. QED
    BY <1>1, InitMapping, StepMapping, PTL DEF Spec, RemovedBeforeRemapped
-----------------------------------------------------------------------------
(* No product is ever taken off again: what carries a SKU, and what a      *)
(* request is about to map, is the SKU of a product.                       *)

RowsExist ==
    /\ \A s \in Skus : Mapped(s) => s \in Existing
    /\ \A r \in Requests : req[r] # Idle =>
          /\ req[r].op = "confirm" => \A p \in req[r].todo : p[1] \in Existing
          /\ req[r].op = "form" => req[r].pos_sku \in Existing \cup {NoSku}

(* What a step may do to a product: add it, or decide in a request.        *)
LEMMA ProductStep ==
    ASSUME MappingInv, [Next]_vars, NEW s \in Skus, product[s] # product'[s]
    PROVE  /\ \/ product[s] = "absent"
              \/ \E r \in Requests :
                    \/ WriteNotOnline(r)
                    \/ \E v \in Variants : ConfirmPair(r, s, v)
           /\ product'[s] # "absent"
  <1>. DEFINE Decided == /\ \/ product[s] = "absent"
                            \/ \E r \in Requests :
                                  \/ WriteNotOnline(r)
                                  \/ \E v \in Variants : ConfirmPair(r, s, v)
                         /\ product'[s] # "absent"
  <1>1. ASSUME NEW r \in Requests, NEW t \in Skus, NEW v \in Variants,
               ConfirmPair(r, t, v)
        PROVE  Decided
    BY <1>1 DEF ConfirmPair, Unhidden, MappingInv, TypeOK
  <1>2. ASSUME NEW r \in Requests, WriteNotOnline(r)
        PROVE  Decided
    BY <1>2 DEF WriteNotOnline, MappingInv, TypeOK
  <1>3. ASSUME NEW r \in Requests, SaveImport(r)
        PROVE  Decided
    <2>1. s \in Created(r) /\ Created(r) \cap Existing = {}
      BY <1>3 DEF SaveImport, Imported
    <2>2. product[s] = "absent"
      BY <2>1 DEF Existing
    <2>3. product'[s] = "shown"
      BY <1>3, <2>1 DEF SaveImport, Imported
    <2>4. QED
      BY <2>2, <2>3
  <1>4. CASE EndSync
    <2>1. /\ s \in sync.unknown /\ sync.unknown \cap Existing = {}
          /\ product'[s] = "shown"
      BY <1>4 DEF EndSync
    <2>2. QED
      BY <2>1 DEF Existing
  <1>5. ~UNCHANGED product
    OBVIOUS
  <1>6. ASSUME NEW r \in Requests, RequestStep(r)
        PROVE  Decided
    BY <1>1, <1>2, <1>3, <1>5, <1>6 DEF RequestStep, LoadConfirm, LoadNotOnline,
       CheckNotOnline, LoadForm, LoadImport, SaveForm, DeleteByForm
  <1>7. QED
    BY <1>4, <1>5, <1>6 DEF Next, SyncStep, BeginSync, ApplyItem, RemoveMapping, vars

(* Who may change the SKU of a variant.                                    *)
LEMMA VariantStep ==
    ASSUME MappingInv, [Next]_vars, NEW v \in Variants, pos_sku[v] # pos_sku'[v]
    PROVE  \/ \E r \in Requests, s \in Skus : ConfirmPair(r, s, v)
           \/ \E s \in Skus : RemoveMapping(s)
           \/ FormStep
  <1>. DEFINE Decided == \/ \E r \in Requests, s \in Skus : ConfirmPair(r, s, v)
                         \/ \E s \in Skus : RemoveMapping(s)
                         \/ FormStep
  <1>1. ~UNCHANGED pos_sku
    OBVIOUS
  <1>2. ASSUME NEW r \in Requests, NEW s \in Skus, NEW w \in Variants,
               ConfirmPair(r, s, w)
        PROVE  Decided
    <2>1. w # v => pos_sku'[v] = pos_sku[v]
      BY <1>2 DEF ConfirmPair, MappingInv, TypeOK
    <2>2. QED
      BY <1>2, <2>1
  <1>3. ASSUME NEW r \in Requests, RequestStep(r)
        PROVE  Decided
    <2>1. CASE SaveForm(r) \/ DeleteByForm(r)
      BY <2>1 DEF FormStep
    <2>2. CASE ~(SaveForm(r) \/ DeleteByForm(r))
      BY <1>1, <1>2, <1>3, <2>2 DEF RequestStep, LoadConfirm, LoadNotOnline,
         CheckNotOnline, WriteNotOnline, LoadForm, LoadImport, SaveImport
    <2>3. QED
      BY <2>1, <2>2
  <1>4. QED
    BY <1>1, <1>3 DEF Next, SyncStep, BeginSync, ApplyItem, EndSync, vars

(* Importing and synchronising leave the decisions of the mapping pages:   *)
(* what a product is marked as, and which variant carries which SKU.       *)
THEOREM DecisionsSurvive == Spec => DecisionsSurviveReports
  <1>1. MappingInv /\ [Next]_vars =>
            [/\ \A s \in Skus :
                   product[s] # product'[s] =>
                       \/ product[s] = "absent"
                       \/ \E r \in Requests :
                             \/ WriteNotOnline(r)
                             \/ \E v \in Variants : ConfirmPair(r, s, v)
             /\ \A v \in Variants :
                   pos_sku[v] # pos_sku'[v] =>
                       \/ \E r \in Requests, s \in Skus : ConfirmPair(r, s, v)
                       \/ \E s \in Skus : RemoveMapping(s)
                       \/ FormStep]_vars
    BY ProductStep, VariantStep
  <1>2. QED
    BY <1>1, InitMapping, StepMapping, PTL DEF Spec, DecisionsSurviveReports

LEMMA InitRows == Init => RowsExist
  BY NoSkuAssumption DEF Init, RowsExist, Mapped, Carriers

(* What a step makes of a request: nothing, less of the same, or one that  *)
(* has just been loaded.                                                   *)
LEMMA RequestsLoadRows ==
    ASSUME MappingInv, RowsExist, [Next]_vars, NEW r \in Requests, req'[r] # Idle
    PROVE  /\ req'[r].op = "confirm" => \A p \in req'[r].todo : p[1] \in Existing
           /\ req'[r].op = "form" => req'[r].pos_sku \in Existing \cup {NoSku}
  <1>. DEFINE Loads == req'[r] # Idle =>
                /\ req'[r].op = "confirm" => \A p \in req'[r].todo : p[1] \in Existing
                /\ req'[r].op = "form" => req'[r].pos_sku \in Existing \cup {NoSku}
  <1>1. CASE req'[r] = req[r]
    BY <1>1 DEF RowsExist
  <1>2. ASSUME NEW q \in Requests, RequestStep(q), q # r
        PROVE  Loads
    <2>1. req'[r] = req[r]
      BY <1>2 DEF RequestStep, LoadConfirm, ConfirmPair, LoadNotOnline, CheckNotOnline,
         WriteNotOnline, LoadForm, SaveForm, DeleteByForm, LoadImport, SaveImport,
         Proceed, Close, MappingInv, TypeOK
    <2>2. QED
      BY <1>1, <2>1
  <1>3. CASE RequestStep(r)
    <2>1. ASSUME NEW pairs \in SUBSET (Skus \X Variants), LoadConfirm(r, pairs)
          PROVE  Loads
      BY <2>1 DEF LoadConfirm, MappingInv, TypeOK
    <2>2. ASSUME NEW s \in Skus, NEW v \in Variants, ConfirmPair(r, s, v)
          PROVE  Loads
      <3>. DEFINE skipped == [req[r] EXCEPT !.todo = @ \ {<<s, v>>}]
                  done == [req[r] EXCEPT !.todo = @ \ {<<s, v>>}, !.row[s] = "shown"]
      <3>1. req[r] \in ConfirmRequest
        BY <2>2, RequestKinds DEF ConfirmPair, MappingInv, TypeOK
      <3>2. /\ skipped.todo \subseteq req[r].todo /\ skipped.op = "confirm"
            /\ done.todo \subseteq req[r].todo /\ done.op = "confirm"
        BY <3>1 DEF ConfirmRequest
      <3>3. Proceed(r, done) \/ Proceed(r, skipped)
        BY <2>2 DEF ConfirmPair
      <3>. HIDE DEF skipped, done
      <3>4. req'[r] \in {Idle, skipped, done}
        BY <3>3 DEF Proceed, MappingInv, TypeOK
      <3>5. \A p \in req[r].todo : p[1] \in Existing
        BY <2>2 DEF RowsExist, ConfirmPair
      <3>6. QED
        BY <3>2, <3>4, <3>5
    <2>3. ASSUME NEW skus \in SUBSET Skus, NEW op \in {"hide", "show"},
                 LoadNotOnline(r, skus, op)
          PROVE  Loads
      BY <2>3 DEF LoadNotOnline, MappingInv, TypeOK
    <2>4. CASE WriteNotOnline(r) \/ \E s \in Skus : CheckNotOnline(r, s)
      <3>1. req[r] \in HideRequest
        BY <2>4, RequestKinds DEF WriteNotOnline, CheckNotOnline, MappingInv, TypeOK
      <3>2. PICK left : Proceed(r, left) /\ left.op = req[r].op
        <4>1. CASE WriteNotOnline(r)
          BY <4>1, <3>1 DEF WriteNotOnline, HideRequest
        <4>2. ASSUME NEW s \in Skus, CheckNotOnline(r, s)
              PROVE  \E left : Proceed(r, left) /\ left.op = req[r].op
          <5>. DEFINE same == req[r].row[s] =
                                 IF req[r].op = "hide" THEN "hidden" ELSE "shown"
                      left == [req[r] EXCEPT
                                 !.todo = @ \ {s},
                                 !.checked = IF Refused(r, s) \/ same THEN {}
                                             ELSE {<<s, Mapped(s)>>}]
          <5>1. Proceed(r, left)
            BY <4>2 DEF CheckNotOnline
          <5>2. left.op = req[r].op
            BY <3>1 DEF HideRequest
          <5>3. QED
            BY <5>1, <5>2
        <4>3. QED
          BY <2>4, <4>1, <4>2
      <3>3. req'[r] = Idle \/ req'[r].op \in {"hide", "show"}
        BY <2>4, <3>2 DEF WriteNotOnline, CheckNotOnline, Proceed, MappingInv, TypeOK
      <3>4. QED
        BY <3>3
    <2>5. ASSUME NEW v \in Variants, LoadForm(r, v)
          PROVE  Loads
      <3>1. req'[r] = [op |-> "form", variant |-> v, pos_sku |-> pos_sku[v]]
        BY <2>5 DEF LoadForm, MappingInv, TypeOK
      <3>2. pos_sku[v] \in Existing \cup {NoSku}
        BY DEF RowsExist, Mapped, Carriers, MappingInv, TypeOK
      <3>3. QED
        BY <3>1, <3>2
    <2>6. CASE SaveForm(r) \/ DeleteByForm(r) \/ SaveImport(r)
      BY <2>6 DEF SaveForm, DeleteByForm, SaveImport, Close, MappingInv, TypeOK
    <2>7. ASSUME NEW skus \in SUBSET Skus, LoadImport(r, skus)
          PROVE  Loads
      BY <2>7 DEF LoadImport, MappingInv, TypeOK
    <2>8. QED
      BY <1>3, <2>1, <2>2, <2>3, <2>4, <2>5, <2>6, <2>7 DEF RequestStep
  <1>4. QED
    BY <1>1, <1>2, <1>3 DEF Next, SyncStep, BeginSync, ApplyItem, EndSync,
       RemoveMapping, vars

(* What a step maps: what was mapped, or what the request had loaded.      *)
LEMMA MapsRows ==
    ASSUME MappingInv, RowsExist, [Next]_vars, NEW s \in Skus, Mapped(s)'
    PROVE  s \in Existing
  <1>1. PICK v \in Variants : pos_sku'[v] = s
    BY DEF Mapped, Carriers
  <1>2. CASE pos_sku[v] = s
    BY <1>2 DEF RowsExist, Mapped, Carriers
  <1>3. ASSUME NEW r \in Requests, NEW t \in Skus, NEW w \in Variants,
               ConfirmPair(r, t, w), pos_sku[v] # s
        PROVE  s \in Existing
    <2>1. t = s /\ <<s, w>> \in req[r].todo
      BY <1>1, <1>3 DEF ConfirmPair, MappingInv, TypeOK
    <2>2. QED
      BY <1>3, <2>1 DEF ConfirmPair, RowsExist
  <1>4. ASSUME NEW r \in Requests, SaveForm(r), pos_sku[v] # s
        PROVE  s \in Existing
    <2>1. s = req[r].pos_sku
      BY <1>1, <1>4 DEF SaveForm, MappingInv, TypeOK
    <2>2. QED
      BY <1>4, <2>1, NoSkuAssumption DEF SaveForm, RowsExist
  <1>5. ASSUME NEW r \in Requests, DeleteByForm(r)
        PROVE  pos_sku[v] = s
    BY <1>1, <1>5, NoSkuAssumption DEF DeleteByForm, MappingInv, TypeOK
  <1>6. ASSUME NEW t \in Skus, RemoveMapping(t)
        PROVE  pos_sku[v] = s
    BY <1>1, <1>6, NoSkuAssumption DEF RemoveMapping, Carriers, MappingInv, TypeOK
  <1>7. ASSUME NEW r \in Requests, RequestStep(r)
        PROVE  s \in Existing
    BY <1>1, <1>2, <1>3, <1>4, <1>5, <1>7 DEF RequestStep, LoadConfirm, LoadNotOnline,
       CheckNotOnline, WriteNotOnline, LoadForm, LoadImport, SaveImport
  <1>8. QED
    BY <1>1, <1>2, <1>6, <1>7 DEF Next, SyncStep, BeginSync, ApplyItem, EndSync, vars

LEMMA StepRows == MappingInv /\ RowsExist /\ [Next]_vars => RowsExist'
  <1>. SUFFICES ASSUME MappingInv, RowsExist, [Next]_vars PROVE RowsExist'
    OBVIOUS
  <1>1. \A s \in Skus : s \in Existing => s \in Existing'
    BY ProductStep DEF Existing
  <1>2. \A s \in Skus : Mapped(s)' => s \in Existing'
    BY <1>1, MapsRows
  <1>3. Existing \subseteq Existing'
    BY <1>1 DEF Existing
  <1>4. \A r \in Requests : req'[r] # Idle =>
            /\ req'[r].op = "confirm" => \A p \in req'[r].todo : p[1] \in Existing'
            /\ req'[r].op = "form" => req'[r].pos_sku \in Existing' \cup {NoSku}
    BY <1>3, RequestsLoadRows
  <1>5. QED
    BY <1>2, <1>4 DEF RowsExist

(* The mapped variants are as many as the mapped products: each carries    *)
(* the SKU of one, and no two of them the same.                            *)
LEMMA OneVariantPerSku ==
    ASSUME MappingInv, RowsExist
    PROVE  /\ IsFiniteSet(MappedTab)
           /\ Cardinality(MappedTab) = Cardinality({v \in Variants : pos_sku[v] # NoSku})
  <1>. DEFINE Carrying == {v \in Variants : pos_sku[v] # NoSku}
              Sku == [v \in Carrying |-> pos_sku[v]]
  <1>1. IsFiniteSet(Carrying)
    BY FS_Subset, RowsAssumption
  <1>2. Sku \in [Carrying -> MappedTab]
    BY DEF MappedTab, RowsExist, Mapped, Carriers, MappingInv, TypeOK
  <1>3. \A v, w \in Carrying : Sku[v] = Sku[w] => v = w
    BY DEF MappingInv, Injective
  <1>4. \A s \in MappedTab : \E v \in Carrying : Sku[v] = s
    BY NoSkuAssumption DEF MappedTab, Existing, Mapped, Carriers
  <1>. HIDE DEF Sku
  <1>5. Sku \in Bijection(Carrying, MappedTab)
    BY <1>2, <1>3, <1>4 DEF Bijection, Injection, IsInjective, Surjection
  <1>. HIDE DEF Carrying
  <1>6. ExistsBijection(Carrying, MappedTab)
    BY <1>5 DEF ExistsBijection
  <1>7. IsFiniteSet(MappedTab) /\ Cardinality(MappedTab) = Cardinality(Carrying)
    BY <1>1, <1>6, FS_Bijection
  <1>8. QED
    BY <1>7 DEF Carrying

LEMMA TabsAddUp ==
    ASSUME MappingInv, RowsExist
    PROVE  UnmappedCountIsItsTab
  <1>. SUFFICES ASSUME MappedTab \cap NotOnlineTab = {}
                PROVE  UnmappedCount = Cardinality(UnmappedTab)
    BY DEF UnmappedCountIsItsTab
  <1>1. IsFiniteSet(Existing) /\ IsFiniteSet(NotOnlineTab) /\ IsFiniteSet(UnmappedTab)
    <2>1. IsFiniteSet(Existing)
      BY FS_Subset, RowsAssumption DEF Existing
    <2>2. NotOnlineTab \in SUBSET Existing /\ UnmappedTab \in SUBSET Existing
      BY DEF NotOnlineTab, UnmappedTab
    <2>3. QED
      BY <2>1, <2>2, FS_Subset
  <1>2. IsFiniteSet(MappedTab)
    BY OneVariantPerSku
  <1>3. /\ IsFiniteSet(MappedTab \cup NotOnlineTab)
        /\ Cardinality(MappedTab \cup NotOnlineTab) =
              Cardinality(MappedTab) + Cardinality(NotOnlineTab)
    <2>1. Cardinality({}) = 0
      BY FS_EmptySet
    <2>2. Cardinality(MappedTab) \in Nat /\ Cardinality(NotOnlineTab) \in Nat
      BY <1>1, <1>2, FS_CardinalityType
    <2>3. /\ IsFiniteSet(MappedTab \cup NotOnlineTab)
          /\ Cardinality(MappedTab \cup NotOnlineTab) = Cardinality(MappedTab)
                + Cardinality(NotOnlineTab) - Cardinality(MappedTab \cap NotOnlineTab)
      BY <1>1, <1>2, FS_Union
    <2>4. MappedTab \cap NotOnlineTab = {}
      OBVIOUS
    <2>5. Cardinality(MappedTab \cap NotOnlineTab) = 0
      BY <2>1, <2>4
    <2>6. QED
      BY <2>2, <2>3, <2>5
  <1>4. UnmappedTab = Existing \ (MappedTab \cup NotOnlineTab)
    BY DEF UnmappedTab, MappedTab, NotOnlineTab, Existing, MappingInv, TypeOK, ProductRow
  <1>5. Existing \cap (MappedTab \cup NotOnlineTab) = MappedTab \cup NotOnlineTab
    BY DEF MappedTab, NotOnlineTab
  <1>6. Cardinality(UnmappedTab) = Cardinality(Existing)
            - (Cardinality(MappedTab) + Cardinality(NotOnlineTab))
    <2>1. Cardinality(Existing \ (MappedTab \cup NotOnlineTab)) = Cardinality(Existing)
              - Cardinality(Existing \cap (MappedTab \cup NotOnlineTab))
      BY <1>1, FS_Difference
    <2>2. QED
      BY <1>3, <1>4, <1>5, <2>1
  <1>7. /\ Cardinality(Existing) \in Nat /\ Cardinality(UnmappedTab) \in Nat
        /\ Cardinality(MappedTab) \in Nat /\ Cardinality(NotOnlineTab) \in Nat
    BY <1>1, <1>2, FS_CardinalityType
  <1>8. Cardinality({v \in Variants : pos_sku[v] # NoSku}) = Cardinality(MappedTab)
    BY OneVariantPerSku
  <1>9. QED
    BY <1>6, <1>7, <1>8 DEF UnmappedCount

(* The number above the Unmapped list is its length, whatever is mapped,   *)
(* hidden or edited, while nothing is mapped and hidden at once.           *)
THEOREM CountIsItsTab == Spec => []UnmappedCountIsItsTab
  <1>1. MappingInv /\ RowsExist => UnmappedCountIsItsTab
    BY TabsAddUp
  <1>2. QED
    BY <1>1, InitMapping, InitRows, StepMapping, StepRows, PTL DEF Spec
=============================================================================
