----------------------------- MODULE OrderTotals -----------------------------
(***************************************************************************)
(* The prices of one order while the merchant edits it: line totals, the   *)
(* delivery charge and the sums (orders/editing.py, its views, and the     *)
(* calculators of shipping/calculators.py), with the trail of              *)
(* OrderEditEvents.  OrderStock has the quantities and the stock.          *)
(*                                                                         *)
(* Grain.  A view loads the line without a lock; the edit is one           *)
(* transaction under the lock of the order row.                            *)
(*                                                                         *)
(* Data.  A line is known by its variant (its SKU, in the trail).  The     *)
(* store's settings, its delivery zones and the variants' prices change at *)
(* any time, so each is whatever it is when it is read.  Stock that does   *)
(* not suffice ends an edit as any other failure does.                     *)
(***************************************************************************)
EXTENDS Integers, FiniteSets, Functions

CONSTANTS
    Variants,    \* the variants that may be lines of the order
    Requests,    \* portal requests that may be open at once
    Prices,      \* unit prices
    Quantities,  \* quantities a merchant or shopper enters
    Rates,       \* delivery charges
    Thresholds,  \* free_delivery_threshold
    None         \* no line, no threshold, no zone

VARIABLES
    line,      \* line[v]: the OrderItem of v
    order,     \* the sums of the Order row
    editable,  \* Order.status is one of EDITABLE_STATUSES
    edit,      \* edit[r]: what the view r has loaded
    told,      \* told[v]: the line of v as the trail of events tells it
    misread    \* history: the variants whose line, or what is told of it,
               \* was written from one that had changed since

vars == <<line, order, editable, edit, told, misread>>

(* A request that holds nothing.                                           *)
Idle == [op |-> "idle"]
Line(price, n) == [unit_price |-> price, quantity |-> n, line_total |-> price * n]
Lines == {v \in Variants : line[v] # None}
Sum(lines) == SumFunction([v \in {u \in Variants : lines[u] # None} |->
                              lines[v].line_total])

-----------------------------------------------------------------------------
(* get_delivery_calculator() and its three strategies; zone is the charge  *)
(* of the DeliveryZone of the order's city.                                *)

Settings == [delivery_strategy : {"flat", "free_above_threshold", "city_based"},
             flat_delivery_rate : Rates, city_fallback_delivery_rate : Rates,
             free_delivery_threshold : Thresholds \cup {None}, zone : Rates \cup {None}]

(* Mutant: free below the threshold.                                       *)
FreeBelow(s, subtotal) ==
    /\ s.delivery_strategy # "flat"
    /\ s.free_delivery_threshold # None
    /\ subtotal < s.free_delivery_threshold

Free(s, subtotal) ==
    /\ s.delivery_strategy # "flat"
    /\ s.free_delivery_threshold # None
    /\ subtotal >= s.free_delivery_threshold

DeliveryCharge(s, subtotal) ==
    CASE Free(s, subtotal) -> 0
      [] ~Free(s, subtotal) /\ s.delivery_strategy # "city_based" -> s.flat_delivery_rate
      [] OTHER -> IF s.zone # None THEN s.zone ELSE s.city_fallback_delivery_rate

(* create_order gives no discount, and nothing else does.                  *)
Totals(lines, s) ==
    LET charge == DeliveryCharge(s, Sum(lines))
    IN  [subtotal |-> Sum(lines), delivery_charge |-> charge,
         total |-> Sum(lines) + charge]

(* create_order: every number from the locked read of the variants.        *)
Init ==
    /\ line \in [Variants -> {None} \cup {Line(p, n) : p \in Prices, n \in Quantities}]
    /\ Lines # {}
    /\ order \in {Totals(line, s) : s \in Settings}
    /\ editable = TRUE
    /\ edit = [r \in Requests |-> Idle]
    /\ told = line
    /\ misread = {}

-----------------------------------------------------------------------------
(* OrderLineQuantityView, OrderLinePriceView and OrderLineRemoveView load  *)
(* the item, OrderLineAddForm the variant.                                 *)
LoadItem(r, v, op) ==
    /\ edit[r] = Idle
    /\ line[v] # None
    /\ edit' = [edit EXCEPT ![r] = [op |-> op, variant |-> v, item |-> line[v],
                                    gone |-> FALSE]]
    /\ UNCHANGED <<line, order, editable, told, misread>>

LoadVariant(r, v, price) ==
    /\ edit[r] = Idle
    /\ edit' = [edit EXCEPT ![r] = [op |-> "add", variant |-> v, price |-> price]]
    /\ UNCHANGED <<line, order, editable, told, misread>>

(* The request ends with its transaction committed; an item that was       *)
(* deleted is gone for whoever has loaded it.                              *)
End(r, dropped) ==
    edit' = [q \in Requests |->
        IF q = r THEN Idle
        ELSE IF edit[q].op \in {"quantity", "price", "remove"}
                /\ edit[q].variant \in dropped
             THEN [edit[q] EXCEPT !.gone = TRUE] ELSE edit[q]]

(* Mutant: the sums of the lines as they were before the edit.             *)
RecalculateEarly(lines) ==
    /\ line' = lines
    /\ \E s \in Settings : order' = Totals(line, s)

(* _recalculate_totals: what the lines are in the table.                   *)
Recalculate(lines) ==
    /\ line' = lines
    /\ \E s \in Settings : order' = Totals(lines, s)

(* The event about v says "after"; "changed" is whether v was written from *)
(* what it no longer was.  A line that is put right again is not misread.  *)
Tell(v, after, changed) ==
    /\ told' = [told EXCEPT ![v] = after]
    /\ misread' = {u \in misread \cup (IF changed THEN {v} ELSE {}) :
          \/ told'[u] # line'[u]
          \/ line'[u] # None /\ line'[u].line_total # line'[u].unit_price * line'[u].quantity}

(* _lock_editable_order; a row that is gone cannot be saved.               *)
Writes(r, op) ==
    /\ edit[r].op = op
    /\ editable
    /\ op \in {"quantity", "price"} => ~edit[r].gone

(* Mutant: the line total is left to the next edit.                        *)
QuantityOnly(r, n) == [quantity |-> n, line_total |-> line[edit[r].variant].line_total]

(* What change_line_quantity saves, computed from the loaded price.        *)
Quantity(r, n) == [quantity |-> n, line_total |-> edit[r].item.unit_price * n]

ChangeLineQuantity(r, n) ==
    /\ Writes(r, "quantity")
    /\ n # edit[r].item.quantity
    /\ LET v == edit[r].variant IN
       /\ Recalculate([line EXCEPT ![v].quantity = Quantity(r, n).quantity,
                                   ![v].line_total = Quantity(r, n).line_total])
       /\ Tell(v, [edit[r].item EXCEPT !.quantity = n,
                                       !.line_total = Quantity(r, n).line_total],
               edit[r].item # line[v])
    /\ End(r, {})
    /\ UNCHANGED editable

(* Of a price the event tells no quantity.                                 *)
PriceTold(r, price) ==
    LET before == told[edit[r].variant]
        total == price * edit[r].item.quantity
    IN  IF before = None THEN [edit[r].item EXCEPT !.unit_price = price, !.line_total = total]
        ELSE [before EXCEPT !.unit_price = price, !.line_total = total]

OverrideLinePrice(r, price) ==
    /\ Writes(r, "price")
    /\ LET v == edit[r].variant IN
       /\ Recalculate([line EXCEPT ![v].unit_price = price,
                                   ![v].line_total = price * edit[r].item.quantity])
       /\ Tell(v, PriceTold(r, price), edit[r].item # line[v])
    /\ End(r, {})
    /\ UNCHANGED editable

(* remove_line: deleting a row that is gone is silent, its event is not.   *)
RemoveLine(r) ==
    /\ Writes(r, "remove")
    /\ Cardinality(Lines) > 1
    /\ LET v == edit[r].variant IN
       /\ Recalculate(IF edit[r].gone THEN line ELSE [line EXCEPT ![v] = None])
       /\ Tell(v, None, edit[r].gone)
       /\ End(r, IF edit[r].gone THEN {} ELSE {v})
    /\ UNCHANGED editable

AddLine(r, n) ==
    /\ Writes(r, "add")
    /\ LET v == edit[r].variant IN
       /\ line[v] = None
       /\ Recalculate([line EXCEPT ![v] = Line(edit[r].price, n)])
       /\ Tell(v, Line(edit[r].price, n), FALSE)
    /\ End(r, {})
    /\ UNCHANGED editable

(* Refused, not enough stock, nothing to change, or an error: the          *)
(* transaction leaves nothing behind.                                      *)
EditFails(r) ==
    /\ edit[r] # Idle
    /\ End(r, {})
    /\ UNCHANGED <<line, order, editable, told, misread>>

(* transition_status moves the order on.                                   *)
StatusMoves ==
    /\ editable
    /\ editable' = FALSE
    /\ UNCHANGED <<line, order, edit, told, misread>>

Next ==
    \/ \E r \in Requests :
          \/ \E v \in Variants, op \in {"quantity", "price", "remove"} :
                LoadItem(r, v, op)
          \/ \E v \in Variants, p \in Prices : LoadVariant(r, v, p)
          \/ \E n \in Quantities : ChangeLineQuantity(r, n) \/ AddLine(r, n)
          \/ \E p \in Prices : OverrideLinePrice(r, p)
          \/ RemoveLine(r) \/ EditFails(r)
    \/ StatusMoves

Spec == Init /\ [][Next]_vars

-----------------------------------------------------------------------------
(* Properties.                                                             *)

TypeOK ==
    /\ \A v \in Variants : line[v] # None =>
          line[v].unit_price \in Prices /\ line[v].quantity \in Quantities
          /\ line[v].line_total \in Nat
    /\ order.total \in Nat /\ editable \in BOOLEAN /\ misread \subseteq Variants

(* What the customer is asked to pay is the sum of the lines and the       *)
(* delivery, after every edit and whatever the edit was computed from.     *)
TotalsAddUp ==
    /\ order.subtotal = Sum(line)
    /\ order.total = order.subtotal + order.delivery_charge

(* Each line is its price times its quantity, and the trail of the edits   *)
(* tells what the line is, however edits of the price and of the quantity  *)
(* overlap; except a line that was written from an outdated one.           *)
LinesAreWhatTheyCost ==
    \A v \in Variants \ misread :
        /\ told[v] = line[v]
        /\ line[v] # None => line[v].line_total = line[v].unit_price * line[v].quantity

(* A customer who orders more never pays more for the delivery.            *)
MoreNeverCostsDelivery ==
    \A s \in Settings, more \in Quantities :
        DeliveryCharge(s, order.subtotal + more) <= DeliveryCharge(s, order.subtotal)
=============================================================================
