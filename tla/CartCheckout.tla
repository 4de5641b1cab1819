---------------------------- MODULE CartCheckout ----------------------------
(***************************************************************************)
(* One shopper's cart, in several browser tabs, and the checkout that      *)
(* turns it into an order (cart/services.py, cart/views.py, create_order   *)
(* of orders/services.py, CheckoutView of orders/views.py).                *)
(*                                                                         *)
(* Grain.  The cart takes no locks: what a request reads and what it       *)
(* writes are two steps.  Checkout reads the items, then locks the cart,   *)
(* then locks the variants and does all the rest: three steps.             *)
(*                                                                         *)
(* Data.  A CartItem is its variant and its quantity.  What a shopper may  *)
(* buy of a variant is one number, zero when the variant is inactive;      *)
(* other shoppers and the merchant change it at any time.  Prices, the     *)
(* form and the customer row are left out.                                 *)
(***************************************************************************)
EXTENDS Integers, FiniteSets

CONSTANTS
    Variants,  \* the variants
    Requests,  \* requests of the shopper that may be open at once
    MaxQty,    \* bound: units of one variant the shopper ever adds
    MaxStock   \* bound: units that are available

VARIABLES
    available,  \* available[v]: units that may be bought
    item,       \* item[v]: CartItem.quantity, 0 when there is no such row
    cart_req,   \* cart_req[r]: what request r has read
    locker,     \* the checkout that has locked the cart row
    added,      \* history: added[v]: units that were added less those taken
                \* out, as the shopper was told
    ordered,    \* history: ordered[v]: units in orders from this cart
    muddled     \* history: the variants whose item or order was written
                \* from a quantity that was no longer in the cart

vars == <<available, item, cart_req, locker, added, ordered, muddled>>

Qty == 0 .. MaxStock
(* A request that holds nothing; the locker of a cart nobody has locked.   *)
Idle == [op |-> "idle"]
(* An item row that is deleted is gone for whoever has loaded it, even if  *)
(* a new row for its variant follows.                                      *)
Held == [op : {"add", "increment", "decrement", "remove"}, variant : Variants,
         quantity : Qty, gone : BOOLEAN]
Checkout == [op : {"checkout"}, items : [Variants -> Qty]]

Init ==
    /\ available \in [Variants -> Qty]
    /\ item = [v \in Variants |-> 0]
    /\ cart_req = [r \in Requests |-> Idle]
    /\ locker = Idle
    /\ added = [v \in Variants |-> 0]
    /\ ordered = [v \in Variants |-> 0]
    /\ muddled = {}

Open(r, op) == cart_req[r].op = op

(* Request r ends, and the items of the given variants are deleted.        *)
EndDeleting(r, dropped) ==
    cart_req' = [q \in Requests |->
        IF q = r THEN Idle
        ELSE IF cart_req[q].op \notin {"idle", "checkout"}
                /\ cart_req[q].variant \in dropped
             THEN [cart_req[q] EXCEPT !.gone = TRUE] ELSE cart_req[q]]

(* Other shoppers' orders, the merchant, expiring reservations.            *)
AvailabilityChanges(v, n) ==
    /\ n # available[v]
    /\ available' = [available EXCEPT ![v] = n]
    /\ UNCHANGED <<item, cart_req, locker, added, ordered, muddled>>

-----------------------------------------------------------------------------
(* CartAddView and add_item, a unit at a time.                             *)

ReadAdd(r, v) ==
    /\ cart_req[r] = Idle
    /\ item[v] + 1 <= available[v]
    /\ added[v] < MaxQty
    /\ cart_req' = [cart_req EXCEPT ![r] =
          [op |-> "add", variant |-> v, quantity |-> item[v], gone |-> FALSE]]
    /\ UNCHANGED <<available, item, locker, added, ordered, muddled>>

(* CartIncrementView, CartDecrementView, CartRemoveView: the item is       *)
(* loaded by the view, incrementing reads the availability.                *)
ReadItem(r, v, op) ==
    /\ cart_req[r] = Idle
    /\ item[v] > 0
    /\ op = "increment" => item[v] + 1 <= available[v] /\ added[v] < MaxQty
    /\ cart_req' = [cart_req EXCEPT ![r] =
          [op |-> op, variant |-> v, quantity |-> item[v], gone |-> FALSE]]
    /\ UNCHANGED <<available, item, locker, added, ordered, muddled>>

(* What was loaded is no longer what the cart holds.                       *)
Outdated(r) == item[cart_req[r].variant] # cart_req[r].quantity

(* The account of a muddled variant is closed.                             *)
Tell(told) == added' = [v \in Variants |-> IF v \in muddled THEN added[v] ELSE told[v]]

(* The new quantity: of what was loaded, not of what is stored.            *)
Stored(r) == cart_req[r].quantity + 1

(* A row that was not there is inserted: the unique constraint refuses it  *)
(* if it is by now.  A row that was there is updated: the save fails if it *)
(* is gone.                                                                *)
WriteMore(r) ==
    /\ Open(r, "add") \/ Open(r, "increment")
    /\ LET v == cart_req[r].variant
           insert == cart_req[r].quantity = 0
       IN  IF (insert /\ item[v] = 0) \/ (~insert /\ ~cart_req[r].gone)
           THEN /\ item' = [item EXCEPT ![v] = Stored(r)]
                /\ Tell([added EXCEPT ![v] = @ + 1])
                /\ muddled' = IF Outdated(r) THEN muddled \cup {v} ELSE muddled
           ELSE UNCHANGED <<item, added, muddled>>
    /\ EndDeleting(r, {})
    /\ UNCHANGED <<available, locker, ordered>>

(* The last unit goes with its row; deleting a row that is gone is silent. *)
WriteLess(r) ==
    /\ Open(r, "decrement") \/ Open(r, "remove")
    /\ LET v == cart_req[r].variant
           left == IF cart_req[r].op = "remove" THEN 0 ELSE cart_req[r].quantity - 1
       IN  IF cart_req[r].gone
           THEN /\ UNCHANGED <<item, added, muddled>>
                /\ EndDeleting(r, {})
           ELSE /\ item' = [item EXCEPT ![v] = left]
                /\ Tell([added EXCEPT ![v] = @ - (cart_req[r].quantity - left)])
                /\ muddled' = IF Outdated(r) THEN muddled \cup {v} ELSE muddled
                /\ EndDeleting(r, IF left = 0 THEN {v} ELSE {})
    /\ UNCHANGED <<available, locker, ordered>>

(* clear_cart: whatever is there goes.                                     *)
ClearCart(r) ==
    /\ cart_req[r] = Idle
    /\ \E v \in Variants : item[v] > 0
    /\ Tell([v \in Variants |-> added[v] - item[v]])
    /\ item' = [v \in Variants |-> 0]
    /\ EndDeleting(r, Variants)
    /\ UNCHANGED <<available, locker, ordered, muddled>>

-----------------------------------------------------------------------------
(* CheckoutView and create_order.                                          *)

(* An empty cart is an EmptyCartError.                                     *)
ReadCart(r) ==
    /\ cart_req[r] = Idle
    /\ \E v \in Variants : item[v] > 0
    /\ cart_req' = [cart_req EXCEPT ![r] = [op |-> "checkout", items |-> item]]
    /\ UNCHANGED <<available, item, locker, added, ordered, muddled>>

LockCart(r) ==
    /\ Open(r, "checkout")
    /\ locker = Idle
    /\ locker' = r
    /\ UNCHANGED <<available, item, cart_req, added, ordered, muddled>>

AllAvailable(items) == \A v \in Variants : items[v] <= available[v]

(* Mutant: the cart keeps what was ordered.                                *)
AfterOrderKept == item

(* clear_cart(cart), at the end of create_order.                           *)
AfterOrder == [v \in Variants |-> 0]

(* The order, its lines and reservations, and the emptied cart.            *)
PlaceOrder(r) ==
    /\ Open(r, "checkout") /\ locker = r
    /\ locker' = Idle
    /\ LET items == cart_req[r].items IN
       IF AllAvailable(items)
       THEN /\ available' = [v \in Variants |-> available[v] - items[v]]
            /\ ordered' = [v \in Variants |->
                  IF v \in muddled THEN ordered[v] ELSE ordered[v] + items[v]]
            /\ item' = AfterOrder
            /\ muddled' = muddled \cup {v \in Variants : item[v] # items[v]}
            /\ EndDeleting(r, {v \in Variants : item[v] # item'[v]})
       ELSE /\ EndDeleting(r, {})
            /\ UNCHANGED <<available, item, ordered, muddled>>
    /\ UNCHANGED added

(* The worker dies or raises: nothing of the transaction stays.            *)
Die(r) ==
    /\ cart_req[r] # Idle
    /\ locker' = IF locker = r THEN Idle ELSE locker
    /\ EndDeleting(r, {})
    /\ UNCHANGED <<available, item, added, ordered, muddled>>

-----------------------------------------------------------------------------
RequestStep(r) ==
    \/ \E v \in Variants : ReadAdd(r, v)
    \/ \E v \in Variants, op \in {"increment", "decrement", "remove"} :
          ReadItem(r, v, op)
    \/ WriteMore(r) \/ WriteLess(r) \/ ClearCart(r)
    \/ ReadCart(r) \/ LockCart(r) \/ PlaceOrder(r) \/ Die(r)

Next ==
    \/ \E r \in Requests : RequestStep(r)
    \/ \E v \in Variants, n \in Qty : AvailabilityChanges(v, n)

Spec == Init /\ [][Next]_vars

-----------------------------------------------------------------------------
(* Properties.                                                             *)

TypeOK ==
    /\ available \in [Variants -> Qty]
    /\ item \in [Variants -> Qty]
    /\ cart_req \in [Requests -> Held \cup Checkout \cup {Idle}]
    /\ locker \in Requests \cup {Idle}
    /\ added \in [Variants -> Int]
    /\ ordered \in [Variants -> Nat]
    /\ muddled \subseteq Variants

(* What the shopper was told is in the cart is in it or was ordered, once: *)
(* additions from two tabs add up, a failed or lost checkout changes       *)
(* nothing, an order empties the cart.  Except a variant that was written  *)
(* from a quantity another tab or checkout had changed.                    *)
TabsAddUp ==
    \A v \in Variants \ muddled : item[v] + ordered[v] = added[v]
=============================================================================
