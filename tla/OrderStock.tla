----------------------------- MODULE OrderStock -----------------------------
(***************************************************************************)
(* Stock, reservations and orders of the shop: inventory/services.py, the  *)
(* status machine, the checkout and the line editor of orders/, and the    *)
(* merchant's two ways of typing a stock count.                            *)
(*                                                                         *)
(* Grain.  Every service runs in one database transaction and locks the    *)
(* order row and the variant rows it writes, so a transaction is one       *)
(* action, and a transaction that raises is no action at all (it rolls     *)
(* back).  What is read BEFORE the lock is a step of its own: a portal     *)
(* view loads the OrderItem, then calls the editing service with that      *)
(* object, and anything may commit in between; so may anything between     *)
(* the rendering of the product form and its submission.                   *)
(*                                                                         *)
(* Data.  An order has at most one line per variant (a cart has one item   *)
(* per variant, add_line refuses a second line), so an order's lines are a *)
(* quantity per variant, 0 where there is no line.  The reservation rows   *)
(* of one line are summed: live is the quantity of the rows that have not  *)
(* expired, lapsed that of the rows that have but are still in the table.  *)
(* Rows of one line do not expire together (each edit inserts one), so any *)
(* part of live may lapse.                                                 *)
(***************************************************************************)
EXTENDS Integers, FiniteSets, Functions

CONSTANTS
    Variants,  \* product variants
    Orders,    \* order rows that may ever be created
    Editors,   \* portal requests that may be editing order lines at once
    Forms,     \* product edit forms that may be open at once
    Counts,    \* stock counts a merchant may type
    Opening,   \* stock counts the shop may open with
    NoItem,    \* the value of a request that holds no line
    NoForm,    \* the value of a form that is closed
    MaxQty,    \* bound: units of a variant on one line
    MaxStock,  \* bound: units of a variant on the shelf
    MaxDrift   \* bound: units an edit may give back beyond those taken

Item == [order : Orders, variant : Variants, quantity : Nat, gone : BOOLEAN]
FormData == [variant : Variants, stock_quantity : Nat]

ASSUME OrdersAssumption == IsFiniteSet(Orders)
ASSUME BoundsAssumption == MaxQty \in Nat \ {0} /\ MaxStock \in Nat /\ MaxDrift \in Nat
ASSUME CountsAssumption == Counts \subseteq Nat /\ Opening \subseteq Nat
ASSUME NoItemAssumption == NoItem \notin Item
ASSUME NoFormAssumption == NoForm \notin FormData

-----------------------------------------------------------------------------
(* The status machine.                                                     *)

NoOrder == "no_order"       \* the order row does not exist yet

Status == {"pending_confirmation", "confirmed", "processing",
           "ready_to_dispatch", "dispatched", "out_for_delivery",
           "delivered", "cancelled", "failed_delivery", "returned", "expired"}

ALLOWED_TRANSITIONS == [s \in Status |->
    CASE s = "pending_confirmation" -> {"confirmed", "cancelled", "expired"}
      [] s = "confirmed"            -> {"processing", "cancelled"}
      [] s = "processing"           -> {"ready_to_dispatch", "cancelled"}
      [] s = "ready_to_dispatch"    -> {"dispatched", "cancelled"}
      [] s = "dispatched"           -> {"out_for_delivery", "failed_delivery"}
      [] s = "out_for_delivery"     -> {"delivered", "failed_delivery"}
      [] s = "failed_delivery"      -> {"out_for_delivery", "cancelled"}
      [] s = "delivered"            -> {"returned"}
      [] OTHER                      -> {}]

EDITABLE_STATUSES == {"pending_confirmation", "confirmed"}

(* The statuses of an order whose units have left the shelf for good.      *)
Holding == {"confirmed", "processing", "ready_to_dispatch", "dispatched",
            "out_for_delivery", "delivered", "failed_delivery"}

-----------------------------------------------------------------------------
VARIABLES
    status,  \* status[o]: Order.status
    line,    \* line[o][v]: OrderItem.quantity, 0 when there is no such line
    live,    \* live[o][v]: units in o's unexpired reservations of v
    lapsed,  \* lapsed[o][v]: units in o's expired reservations, not yet swept
    stock,   \* stock[v]: ProductVariant.stock_quantity
    active,  \* the variants with is_active
    held,    \* held[e]: the OrderItem request e has loaded
    form,    \* form[f]: the variant row form f was rendered from
             \* history, which no guard reads but those of the named bounds:
    ledger,  \* ledger[v]: opening stock plus every InventoryAdjustment.delta
    taken,   \* taken[o][v]: units taken from stock for o less those given back
    swept,   \* the orders the sweeper took a reservation from
    misread  \* the orders edited through an item that was no longer current

rows == <<status, line, live, lapsed, stock, active>>
history == <<ledger, taken, swept, misread>>
vars == <<status, line, live, lapsed, stock, active, held, form,
          ledger, taken, swept, misread>>

Nothing == [o \in Orders |-> [v \in Variants |-> 0]]

Init ==
    /\ status = [o \in Orders |-> NoOrder]
    /\ line = Nothing
    /\ live = Nothing
    /\ lapsed = Nothing
    /\ stock \in [Variants -> Opening]
    /\ active = Variants
    /\ held = [e \in Editors |-> NoItem]
    /\ form = [f \in Forms |-> NoForm]
    /\ ledger = stock
    /\ taken = Nothing
    /\ swept = {}
    /\ misread = {}

-----------------------------------------------------------------------------
(* inventory/services.py.  Each operator is the effect of one service on   *)
(* the rows of one order and one variant, under the variant's row lock.    *)

(* The units of v in every unexpired reservation.                          *)
ActiveReserved(v) == SumFunction([o \in Orders |-> live[o][v]])

Available(v) == stock[v] - ActiveReserved(v)

Reserve(o, v, q) ==
    /\ Available(v) >= q
    /\ live' = [live EXCEPT ![o][v] = @ + q]
    /\ UNCHANGED <<stock, ledger, taken>>

(* Mutant: more than the order holds can be given back.                    *)
ReleaseUnchecked(o, v, q) ==
    /\ live' = [live EXCEPT ![o][v] = @ - q]
    /\ UNCHANGED <<stock, ledger, taken>>

(* Only unexpired rows can be given back, oldest first.                    *)
ReleaseReserved(o, v, q) ==
    /\ live[o][v] >= q
    /\ live' = [live EXCEPT ![o][v] = @ - q]
    /\ UNCHANGED <<stock, ledger, taken>>

(* Mutant: the edit looks at the shelf and not at what others were promised.*)
ConsumeFromShelf(o, v, q) ==
    /\ stock[v] >= q
    /\ stock' = [stock EXCEPT ![v] = @ - q]
    /\ ledger' = [ledger EXCEPT ![v] = @ - q]
    /\ taken' = [taken EXCEPT ![o][v] = @ + q]
    /\ UNCHANGED live

(* stock_quantity is a PositiveIntegerField: the column refuses less than 0.*)
Consume(o, v, q) ==
    /\ Available(v) >= q
    /\ stock[v] >= q
    /\ stock' = [stock EXCEPT ![v] = @ - q]
    /\ ledger' = [ledger EXCEPT ![v] = @ - q]
    /\ taken' = [taken EXCEPT ![o][v] = @ + q]
    /\ UNCHANGED live

(* Mutant: given back without an adjustment row.                           *)
RestoreUnaudited(o, v, q) ==
    /\ stock[v] + q <= MaxStock
    /\ taken[o][v] - q >= -MaxDrift
    /\ stock' = [stock EXCEPT ![v] = @ + q]
    /\ taken' = [taken EXCEPT ![o][v] = @ - q]
    /\ UNCHANGED <<live, ledger>>

(* The two caps bound the units that giving back more than was taken can   *)
(* conjure up.                                                             *)
Restore(o, v, q) ==
    /\ stock[v] + q <= MaxStock
    /\ taken[o][v] - q >= -MaxDrift
    /\ stock' = [stock EXCEPT ![v] = @ + q]
    /\ ledger' = [ledger EXCEPT ![v] = @ + q]
    /\ taken' = [taken EXCEPT ![o][v] = @ - q]
    /\ UNCHANGED live

(* Mutant: the rows that have expired are left for the sweeper.            *)
CommitUnexpired(o) ==
    /\ \A v \in Variants : stock[v] >= live[o][v]
    /\ stock' = [v \in Variants |-> stock[v] - live[o][v]]
    /\ ledger' = [v \in Variants |-> ledger[v] - live[o][v]]
    /\ taken' = [taken EXCEPT ![o] = [v \in Variants |-> @[v] + live[o][v]]]
    /\ live' = [live EXCEPT ![o] = [v \in Variants |-> 0]]
    /\ UNCHANGED lapsed

(* Every reservation row of the order, expired or not, is committed.       *)
(* Nothing compares them with what others were promised.                   *)
CommitAllForOrder(o) ==
    LET rowsOf(v) == live[o][v] + lapsed[o][v] IN
    /\ \A v \in Variants : stock[v] >= rowsOf(v)
    /\ stock' = [v \in Variants |-> stock[v] - rowsOf(v)]
    /\ ledger' = [v \in Variants |-> ledger[v] - rowsOf(v)]
    /\ taken' = [taken EXCEPT ![o] = [v \in Variants |-> @[v] + rowsOf(v)]]
    /\ live' = [live EXCEPT ![o] = [v \in Variants |-> 0]]
    /\ lapsed' = [lapsed EXCEPT ![o] = [v \in Variants |-> 0]]

ReleaseAllForOrder(o) ==
    /\ live' = [live EXCEPT ![o] = [v \in Variants |-> 0]]
    /\ lapsed' = [lapsed EXCEPT ![o] = [v \in Variants |-> 0]]
    /\ UNCHANGED <<stock, ledger, taken>>

RestoreAllForOrder(o) ==
    /\ \A v \in Variants : stock[v] + line[o][v] <= MaxStock
    /\ stock' = [v \in Variants |-> stock[v] + line[o][v]]
    /\ ledger' = [v \in Variants |-> ledger[v] + line[o][v]]
    /\ taken' = [taken EXCEPT ![o] = [v \in Variants |-> @[v] - line[o][v]]]
    /\ UNCHANGED <<live, lapsed>>

(* The merchant's stock count; a count equal to the stock writes nothing.  *)
Adjust(v, n) ==
    /\ n # stock[v]
    /\ stock' = [stock EXCEPT ![v] = n]
    /\ ledger' = [ledger EXCEPT ![v] = @ + (n - stock[v])]
    /\ UNCHANGED <<status, line, live, lapsed, active, held, form,
                   taken, swept, misread>>

(* Mutant: the comparison with the clock is the wrong way round.           *)
ReleaseUnexpiredReservations ==
    /\ \E o \in Orders, v \in Variants : live[o][v] > 0
    /\ live' = Nothing
    /\ swept' = swept \cup {o \in Orders : \E v \in Variants : live[o][v] > 0}
    /\ UNCHANGED <<status, line, lapsed, stock, active, held, form,
                   ledger, taken, misread>>

(* The cron job: one DELETE of the expired rows.  The orders stay as they are.*)
ReleaseExpiredReservations ==
    /\ \E o \in Orders, v \in Variants : lapsed[o][v] > 0
    /\ lapsed' = Nothing
    /\ swept' = swept \cup {o \in Orders : \E v \in Variants : lapsed[o][v] > 0}
    /\ UNCHANGED <<status, line, live, stock, active, held, form,
                   ledger, taken, misread>>

(* expires_at passes for reservations of k units.  The cap binds only for  *)
(* an order that reserved more than its line says.                         *)
ReservationExpires(o, v, k) ==
    /\ live[o][v] >= k
    /\ lapsed[o][v] + k <= MaxQty
    /\ live' = [live EXCEPT ![o][v] = @ - k]
    /\ lapsed' = [lapsed EXCEPT ![o][v] = @ + k]
    /\ UNCHANGED <<status, line, stock, active, held, form, history>>

-----------------------------------------------------------------------------
(* orders/services.py and orders/state_machine.py.                         *)

(* create_order on a cart with these quantities, under the variants' locks.*)
CreateOrder(o, cart) ==
    /\ status[o] = NoOrder
    /\ \E v \in Variants : cart[v] > 0
    /\ \A v \in Variants : cart[v] > 0 => v \in active /\ Available(v) >= cart[v]
    /\ status' = [status EXCEPT ![o] = "pending_confirmation"]
    /\ line' = [line EXCEPT ![o] = cart]
    /\ live' = [live EXCEPT ![o] = cart]
    /\ UNCHANGED <<lapsed, stock, active, held, form, history>>

(* Which edges of the status machine touch stock, and how.                 *)
Commits(from, to) == to = "confirmed"

Releases(from, to) ==
    from = "pending_confirmation" /\ to \in {"cancelled", "expired"}

(* Mutant: only the Confirmed -> Cancelled edge gives stock back.          *)
RestoresFromConfirmedOnly(from, to) ==
    \/ from = "confirmed" /\ to = "cancelled"
    \/ to = "returned"

Restores(from, to) ==
    from # "pending_confirmation" /\ to \in {"cancelled", "returned"}

(* transition_status, under the lock of the order row.                     *)
TransitionStatus(o, to_status) ==
    /\ status[o] # NoOrder
    /\ to_status \in ALLOWED_TRANSITIONS[status[o]]
    /\ \/ Commits(status[o], to_status) /\ CommitAllForOrder(o)
       \/ Releases(status[o], to_status) /\ ReleaseAllForOrder(o)
       \/ Restores(status[o], to_status) /\ RestoreAllForOrder(o)
       \/ /\ ~Commits(status[o], to_status)
          /\ ~Releases(status[o], to_status)
          /\ ~Restores(status[o], to_status)
          /\ UNCHANGED <<live, lapsed, stock, ledger, taken>>
    /\ status' = [status EXCEPT ![o] = to_status]
    /\ UNCHANGED <<line, active, held, form, swept, misread>>

-----------------------------------------------------------------------------
(* The portal's line editor: portal/order_views.py and orders/editing.py.  *)

(* get_object_or_404(OrderItem): no lock, outside the transaction.         *)
LoadItem(e, o, v) ==
    /\ held[e] = NoItem
    /\ line[o][v] > 0
    /\ held' = [held EXCEPT ![e] =
           [order |-> o, variant |-> v, quantity |-> line[o][v], gone |-> FALSE]]
    /\ UNCHANGED <<rows, form, history>>

(* clean_sku loads the variant of a line to add, is_active with it.  A     *)
(* quantity of 0 tells the request from one that loaded a line.            *)
LoadVariant(e, o, v) ==
    /\ held[e] = NoItem
    /\ status[o] # NoOrder
    /\ v \in active
    /\ held' = [held EXCEPT ![e] =
           [order |-> o, variant |-> v, quantity |-> 0, gone |-> FALSE]]
    /\ UNCHANGED <<rows, form, history>>

(* Every way a request ends without a write: an invalid form, a rejected   *)
(* edit (400), an exception that rolls back (500), a quantity that is the  *)
(* same.                                                                   *)
RequestEnds(e) ==
    /\ held[e] # NoItem
    /\ held' = [held EXCEPT ![e] = NoItem]
    /\ UNCHANGED <<rows, form, history>>

(* Mutant: the status is not read again once the order is locked.          *)
LockOrderOnly(o) == status[o] # NoOrder

(* _lock_editable_order: the status is read again, under the order's lock. *)
LockEditableOrder(o) == status[o] \in EDITABLE_STATUSES

(* The stock effect of q more units of v: a promise while the order is     *)
(* pending, stock once it is confirmed.                                    *)
TakeMore(o, v, q) ==
    \/ status[o] = "pending_confirmation" /\ Reserve(o, v, q)
    \/ status[o] # "pending_confirmation" /\ Consume(o, v, q)

GiveBack(o, v, q) ==
    \/ status[o] = "pending_confirmation" /\ ReleaseReserved(o, v, q)
    \/ status[o] # "pending_confirmation" /\ Restore(o, v, q)

(* The item was deleted, or its quantity is no longer the one loaded.      *)
Outdated(item) == item.gone \/ line[item.order][item.variant] # item.quantity

MarkMisread(item) ==
    misread' = IF Outdated(item) THEN misread \cup {item.order} ELSE misread

(* Mutant: the edit moves the whole new quantity instead of the difference.*)
WholeQuantity(item, new_quantity) == new_quantity

Delta(item, new_quantity) == new_quantity - item.quantity

(* change_line_quantity: the delta comes from the item as it was loaded.   *)
(* save(update_fields) of a deleted row raises, and rolls back.            *)
ChangeLineQuantity(e, new_quantity) ==
    LET item == held[e]
        o == item.order
        v == item.variant
        delta == Delta(item, new_quantity)
    IN  /\ item # NoItem
        /\ item.quantity > 0
        /\ LockEditableOrder(o)
        /\ ~item.gone
        /\ \/ delta > 0 /\ TakeMore(o, v, delta)
           \/ delta < 0 /\ GiveBack(o, v, -delta)
        /\ line' = [line EXCEPT ![o][v] = new_quantity]
        /\ held' = [held EXCEPT ![e] = NoItem]
        /\ MarkMisread(item)
        /\ UNCHANGED <<status, lapsed, active, form, swept>>

(* Whoever else has loaded the line that is deleted holds a deleted row.   *)
Deleted(e, o, v) ==
    [d \in Editors |->
        IF d = e THEN NoItem
        ELSE IF held[d] = NoItem THEN NoItem
        ELSE IF held[d].order = o /\ held[d].variant = v /\ held[d].quantity > 0
             THEN [held[d] EXCEPT !.gone = TRUE]
             ELSE held[d]]

(* remove_line: item.delete() of a deleted row deletes nothing and is fine.*)
RemoveLine(e) ==
    LET item == held[e]
        o == item.order
        v == item.variant
    IN  /\ item # NoItem
        /\ item.quantity > 0
        /\ LockEditableOrder(o)
        /\ Cardinality({w \in Variants : line[o][w] > 0}) > 1
        /\ GiveBack(o, v, item.quantity)
        /\ IF item.gone
           THEN /\ held' = [held EXCEPT ![e] = NoItem]
                /\ UNCHANGED line
           ELSE /\ held' = Deleted(e, o, v)
                /\ line' = [line EXCEPT ![o][v] = 0]
        /\ MarkMisread(item)
        /\ UNCHANGED <<status, lapsed, active, form, swept>>

(* add_line: items.filter(variant=variant).exists() is read under the lock.*)
AddLine(e, quantity) ==
    LET item == held[e]
        o == item.order
        v == item.variant
    IN  /\ item # NoItem
        /\ item.quantity = 0
        /\ LockEditableOrder(o)
        /\ line[o][v] = 0
        /\ TakeMore(o, v, quantity)
        /\ line' = [line EXCEPT ![o][v] = quantity]
        /\ held' = [held EXCEPT ![e] = NoItem]
        /\ UNCHANGED <<status, lapsed, active, form, swept, misread>>

-----------------------------------------------------------------------------
(* The portal's product form writes stock_quantity and is_active with the  *)
(* rest of the row: whatever was rendered, or typed over it.               *)

OpenProductForm(f, v) ==
    /\ form[f] = NoForm
    /\ form' = [form EXCEPT ![f] = [variant |-> v, stock_quantity |-> stock[v]]]
    /\ UNCHANGED <<rows, held, history>>

(* The cap bounds how far the shelf may drift from its audit trail.        *)
SaveProductForm(f, stock_quantity, is_active) ==
    LET v == form[f].variant IN
    /\ form[f] # NoForm
    /\ ledger[v] - stock_quantity \in -MaxStock .. MaxStock
    /\ stock' = [stock EXCEPT ![v] = stock_quantity]
    /\ active' = IF is_active THEN active \cup {v} ELSE active \ {v}
    /\ form' = [form EXCEPT ![f] = NoForm]
    /\ UNCHANGED <<status, line, live, lapsed, held, history>>

-----------------------------------------------------------------------------
Quantity == 1 .. MaxQty
Carts == [Variants -> 0 .. MaxQty]

Edit(e) ==
    \/ \E o \in Orders, v \in Variants : LoadItem(e, o, v) \/ LoadVariant(e, o, v)
    \/ RequestEnds(e)
    \/ \E q \in Quantity : ChangeLineQuantity(e, q) \/ AddLine(e, q)
    \/ RemoveLine(e)

FormStep(f) ==
    \/ \E v \in Variants : OpenProductForm(f, v)
    \/ \E n \in Counts, a \in BOOLEAN : SaveProductForm(f, n, a)
    \/ \E a \in BOOLEAN :
          form[f] # NoForm /\ SaveProductForm(f, form[f].stock_quantity, a)

TimePasses == \E o \in Orders, v \in Variants, k \in Quantity :
                 ReservationExpires(o, v, k)

Next ==
    \/ \E o \in Orders, cart \in Carts : CreateOrder(o, cart)
    \/ \E o \in Orders, to \in Status : TransitionStatus(o, to)
    \/ \E e \in Editors : Edit(e)
    \/ \E f \in Forms : FormStep(f)
    \/ \E v \in Variants, n \in Counts : Adjust(v, n)
    \/ TimePasses
    \/ ReleaseExpiredReservations

Spec == Init /\ [][Next]_vars

(* What happens without a person: the clock and the cron job.              *)
Fairness == WF_vars(TimePasses) /\ WF_vars(ReleaseExpiredReservations)
FairSpec == Spec /\ Fairness

-----------------------------------------------------------------------------
(* Properties that hold.                                                   *)

Quantities == [Orders -> [Variants -> Nat]]

(* Quantities never go below zero, in the columns and in the reservations  *)
(* of every order, whatever transactions run.                              *)
TypeOK ==
    /\ status \in [Orders -> Status \cup {NoOrder}]
    /\ line \in Quantities
    /\ live \in Quantities
    /\ lapsed \in Quantities
    /\ stock \in [Variants -> Nat]
    /\ active \subseteq Variants
    /\ held \in [Editors -> Item \cup {NoItem}]
    /\ form \in [Forms -> FormData \cup {NoForm}]
    /\ ledger \in [Variants -> Int]
    /\ taken \in [Orders -> [Variants -> Int]]
    /\ swept \subseteq Orders
    /\ misread \subseteq Orders

(* A reservation exists only for an order that is pending: confirming,     *)
(* cancelling or expiring an order leaves none behind, expired rows        *)
(* included, and an edit of a confirmed order adds none.                   *)
ReservedOnlyWhilePending ==
    \A o \in Orders, v \in Variants :
        live[o][v] + lapsed[o][v] > 0 => status[o] = "pending_confirmation"

(* What order o has in the reservations and out of stock is what its lines *)
(* say, line by line.                                                      *)
Balanced(o) ==
    \A v \in Variants :
        /\ status[o] = "pending_confirmation" =>
               live[o][v] + lapsed[o][v] = line[o][v] /\ taken[o][v] = 0
        /\ status[o] \in Holding => taken[o][v] = line[o][v]
        /\ status[o] \notin Holding \cup {"pending_confirmation"} => taken[o][v] = 0

(* Through every edit, confirmation, cancellation, return and expiry an    *)
(* order holds exactly the units of its lines, and gives back exactly      *)
(* those.  Only two things ever break this: the sweeper taking a           *)
(* reservation of a pending order, and an edit made through an item that   *)
(* is no longer current.                                                   *)
OrderHoldsItsLines ==
    \A o \in Orders : o \notin swept \cup misread => Balanced(o)

(* Even an order the sweeper has taken reservations from never holds more  *)
(* than its lines say, unless it was edited through an outdated item.      *)
NeverHoldsMoreThanOrdered ==
    \A o \in Orders \ misread, v \in Variants :
        status[o] \in Holding \cup {"pending_confirmation"} =>
            live[o][v] + lapsed[o][v] + taken[o][v] <= line[o][v]

(* The units of v promised to pending orders are on the shelf.             *)
Covered(v) == ActiveReserved(v) <= stock[v]

(* In this step a product form with v was saved.                           *)
FormSaved(v) ==
    \E f \in Forms : form[f] # NoForm /\ form'[f] = NoForm /\ form[f].variant = v

(* In this step the merchant typed a stock count of v.                     *)
CountedByHand(v) == FormSaved(v) \/ \E n \in Counts : Adjust(v, n)

(* In this step an order was confirmed on reservations that had expired.   *)
ConfirmedLate(v) ==
    \E o \in Orders :
        /\ status[o] = "pending_confirmation"
        /\ status'[o] = "confirmed"
        /\ lapsed[o][v] > 0

(* Every unit promised to a customer stays on the shelf through whatever   *)
(* checkouts, edits, confirmations and cancellations of all the orders.    *)
(* Only a stock count typed by the merchant, or the confirmation of an     *)
(* order whose reservation had run out, can take away what was promised.   *)
PromisesKept ==
    [][\A v \in Variants :
          Covered(v) => Covered(v)' \/ CountedByHand(v) \/ ConfirmedLate(v)]_vars

(* Once an order is past Confirmed its lines are final, and its units move *)
(* only together with its status, however long a request that edits it has *)
(* been under way.                                                         *)
LinesFinalOncePicked ==
    [][\A o \in Orders :
          status[o] \notin EDITABLE_STATUSES \cup {NoOrder} =>
              /\ line'[o] = line[o]
              /\ status'[o] = status[o] => taken'[o] = taken[o]]_vars

(* Stock never changes without an audit row for the same difference, as    *)
(* inventory/models.py:54 says, but when a product form is saved.          *)
OnlyFormsGoUnaudited ==
    [][\A v \in Variants :
          stock'[v] - stock[v] = ledger'[v] - ledger[v] \/ FormSaved(v)]_vars

(* An expired reservation does not stay in the table: the sweeper removes  *)
(* it unless the merchant closes the order first.                          *)
ExpiredRowsGo ==
    \A o \in Orders, v \in Variants : lapsed[o][v] > 0 ~> lapsed[o][v] = 0

-----------------------------------------------------------------------------
(* What the documentation says and the code does not do.                   *)

(* orders/editing.py:18-21: an edit moves the delta, "so a partial edit    *)
(* can't accidentally over- or under-adjust stock relative to what's       *)
(* already held".                                                          *)
EditsKeepStockInStep == \A o \in Orders : o \notin swept => Balanced(o)
=============================================================================
