---------------------------- MODULE ShoppingProofs ----------------------------
(***************************************************************************)
(* What a shopper and an order can rely on, for any number of variants, of *)
(* requests and of units, any prices and settings.  Each part has its      *)
(* invariant, and a step of the whole is one of a single part.             *)
(***************************************************************************)
EXTENDS MCShopping, Sums, SequenceTheorems

-----------------------------------------------------------------------------
(* CartCheckout.  An action that writes a variant's quantity either writes *)
(* it from the quantity that is stored, and then item, order and account   *)
(* move together, or it writes the variant down as muddled.                *)

(* What a request has read leaves room for what it is going to write.      *)
Room == \A r \in Requests :
    /\ cart_req[r].op \in {"add", "increment"} => cart_req[r].quantity + 1 \in Cart!Qty
    /\ cart_req[r].op \in {"decrement", "remove"} => cart_req[r].quantity - 1 \in Cart!Qty

CartInv == Cart!TypeOK /\ Room /\ Cart!TabsAddUp

(* The operations on an item that a view has loaded.                       *)
LEMMA HeldKinds ==
    ASSUME Cart!TypeOK, NEW r \in Requests,
           cart_req[r].op \in {"add", "increment", "decrement", "remove"}
    PROVE  /\ cart_req[r] \in Cart!Held
           /\ cart_req[r].variant \in Variants /\ cart_req[r].quantity \in Cart!Qty
  BY DEF Cart!TypeOK, Cart!Held, Cart!Checkout, Cart!Idle

(* The end of a request leaves the others what they had, but for "gone".   *)
LEMMA EndKeeps ==
    ASSUME Cart!TypeOK, Room, NEW r \in Requests, NEW dropped, Cart!EndDeleting(r, dropped)
    PROVE  /\ cart_req' \in [Requests -> Cart!Held \cup Cart!Checkout \cup {Cart!Idle}]
           /\ Room'
  <1> DEFINE Ended(q) ==
        IF q = r THEN Cart!Idle
        ELSE IF cart_req[q].op \notin {"idle", "checkout"}
                /\ cart_req[q].variant \in dropped
             THEN [cart_req[q] EXCEPT !.gone = TRUE] ELSE cart_req[q]
  <1>1. cart_req' = [q \in Requests |-> Ended(q)]
    BY DEF Cart!EndDeleting
  <1>2. ASSUME NEW q \in Requests
        PROVE  /\ Ended(q) \in Cart!Held \cup Cart!Checkout \cup {Cart!Idle}
               /\ Ended(q).op \in {"add", "increment", "decrement", "remove"} =>
                     /\ Ended(q).op = cart_req[q].op
                     /\ Ended(q).quantity = cart_req[q].quantity
    <2>1. cart_req[q] \in Cart!Held \cup Cart!Checkout \cup {Cart!Idle}
      BY <1>2 DEF Cart!TypeOK
    <2>2. CASE cart_req[q] \in Cart!Held
      BY <2>2 DEF Cart!Held, Cart!Idle
    <2>3. CASE cart_req[q] \in Cart!Checkout \cup {Cart!Idle}
      BY <2>3 DEF Cart!Checkout, Cart!Idle
    <2> QED
      BY <2>1, <2>2, <2>3
  <1> HIDE DEF Ended
  <1>3. cart_req' \in [Requests -> Cart!Held \cup Cart!Checkout \cup {Cart!Idle}]
    BY <1>1, <1>2
  <1>4. Room'
    BY <1>1, <1>2 DEF Room, Cart!Qty
  <1> QED
    BY <1>3, <1>4

LEMMA InitCart ==
    Cart!Init => CartInv
  BY StockAssumption DEF Cart!Init, CartInv, Cart!TypeOK, Room, Cart!TabsAddUp, Cart!Qty, Cart!Idle

(* The reads: only the request changes.                                    *)
LEMMA ReadsKeep ==
    ASSUME CartInv, NEW r \in Requests,
           \/ \E v \in Variants : Cart!ReadAdd(r, v)
           \/ \E v \in Variants, op \in {"increment", "decrement", "remove"} :
                 Cart!ReadItem(r, v, op)
           \/ Cart!ReadCart(r)
    PROVE  CartInv'
  <1>1. /\ UNCHANGED <<available, item, locker, added, ordered, muddled>>
        /\ \E new \in Cart!Held \cup Cart!Checkout :
              /\ cart_req' = [cart_req EXCEPT ![r] = new]
              /\ new.op \in {"add", "increment"} => new.quantity + 1 \in Cart!Qty
              /\ new.op \in {"decrement", "remove"} => new.quantity - 1 \in Cart!Qty
    <2>1. CASE \E v \in Variants : Cart!ReadAdd(r, v)
      <3>1. PICK v \in Variants : Cart!ReadAdd(r, v)
        BY <2>1
      <3>2. item[v] \in Cart!Qty /\ available[v] \in Cart!Qty
        BY DEF CartInv, Cart!TypeOK
      <3> DEFINE new == [op |-> "add", variant |-> v, quantity |-> item[v],
                         gone |-> FALSE]
      <3>3. /\ new \in Cart!Held /\ new.op = "add" /\ new.quantity + 1 \in Cart!Qty
            /\ cart_req' = [cart_req EXCEPT ![r] = new]
        BY <3>1, <3>2, StockAssumption DEF Cart!ReadAdd, Cart!Held, Cart!Qty
      <3>4. UNCHANGED <<available, item, locker, added, ordered, muddled>>
        BY <3>1 DEF Cart!ReadAdd
      <3> HIDE DEF new
      <3> QED
        BY <3>3, <3>4
    <2>2. CASE \E v \in Variants, op \in {"increment", "decrement", "remove"} :
                  Cart!ReadItem(r, v, op)
      <3>1. PICK v \in Variants, op \in {"increment", "decrement", "remove"} :
                  Cart!ReadItem(r, v, op)
        BY <2>2
      <3>2. item[v] \in Cart!Qty /\ available[v] \in Cart!Qty
        BY DEF CartInv, Cart!TypeOK
      <3> DEFINE new == [op |-> op, variant |-> v, quantity |-> item[v],
                         gone |-> FALSE]
      <3>3. /\ new \in Cart!Held /\ new.op = op
            /\ op = "increment" => new.quantity + 1 \in Cart!Qty
            /\ new.quantity - 1 \in Cart!Qty
            /\ cart_req' = [cart_req EXCEPT ![r] = new]
        BY <3>1, <3>2, StockAssumption DEF Cart!ReadItem, Cart!Held, Cart!Qty
      <3>4. UNCHANGED <<available, item, locker, added, ordered, muddled>>
        BY <3>1 DEF Cart!ReadItem
      <3> HIDE DEF new
      <3> QED
        BY <3>3, <3>4
    <2>3. CASE Cart!ReadCart(r)
      <3> DEFINE new == [op |-> "checkout", items |-> item]
      <3>1. /\ new \in Cart!Checkout /\ new.op = "checkout"
            /\ cart_req' = [cart_req EXCEPT ![r] = new]
            /\ UNCHANGED <<available, item, locker, added, ordered, muddled>>
        BY <2>3 DEF Cart!ReadCart, Cart!Checkout, CartInv, Cart!TypeOK
      <3> HIDE DEF new
      <3> QED
        BY <3>1
    <2> QED
      BY <2>1, <2>2, <2>3
  <1>2. PICK new \in Cart!Held \cup Cart!Checkout :
              /\ cart_req' = [cart_req EXCEPT ![r] = new]
              /\ new.op \in {"add", "increment"} => new.quantity + 1 \in Cart!Qty
              /\ new.op \in {"decrement", "remove"} => new.quantity - 1 \in Cart!Qty
    BY <1>1
  <1>3. Cart!TypeOK'
    BY <1>1, <1>2 DEF CartInv, Cart!TypeOK, Cart!Qty
  <1>4. Room'
    BY <1>2 DEF CartInv, Cart!TypeOK, Room, Cart!Qty
  <1> QED
    BY <1>1, <1>3, <1>4 DEF CartInv, Cart!TabsAddUp

(* The account, when a variant's item becomes n from what was read.        *)
LEMMA ToldKeeps ==
    ASSUME CartInv, NEW v \in Variants, NEW n \in Cart!Qty, NEW read \in Cart!Qty,
           item' = [item EXCEPT ![v] = n],
           \E m : m = added[v] + n - read /\ Cart!Tell([added EXCEPT ![v] = m]),
           muddled' = IF item[v] # read THEN muddled \cup {v} ELSE muddled,
           ordered' = ordered
    PROVE  /\ item' \in [Variants -> Cart!Qty] /\ added' \in [Variants -> Int]
           /\ muddled' \subseteq Variants
           /\ Cart!TabsAddUp'
  <1>1. /\ item \in [Variants -> Cart!Qty] /\ added \in [Variants -> Int]
        /\ ordered \in [Variants -> Nat] /\ muddled \subseteq Variants
        /\ Cart!Qty \subseteq Int
    BY DEF CartInv, Cart!TypeOK, Cart!Qty
  <1>2. added' \in [Variants -> Int]
    BY <1>1 DEF Cart!Tell
  <1>3. Cart!TabsAddUp'
    <2> SUFFICES ASSUME NEW u \in Variants \ muddled'
                 PROVE  item'[u] + ordered'[u] = added'[u]
      BY DEF Cart!TabsAddUp
    <2>1. u \notin muddled /\ item[u] + ordered[u] = added[u]
      BY DEF CartInv, Cart!TabsAddUp
    <2>2. CASE u = v
      <3>1. item[v] = read /\ item'[u] = n
        BY <1>1, <2>2
      <3>2. added'[u] = added[u] + n - read
        BY <1>1, <2>1, <2>2 DEF Cart!Tell
      <3> QED
        BY <1>1, <2>1, <2>2, <3>1, <3>2
    <2>3. CASE u # v
      BY <1>1, <2>1, <2>3 DEF Cart!Tell
    <2> QED
      BY <2>2, <2>3
  <1> QED
    BY <1>1, <1>2, <1>3

LEMMA WritesKeep ==
    ASSUME CartInv, NEW r \in Requests, Cart!WriteMore(r) \/ Cart!WriteLess(r)
    PROVE  CartInv'
  <1> DEFINE v == cart_req[r].variant
             read == cart_req[r].quantity
  <1>1. Cart!TypeOK /\ Room /\ cart_req[r] \in Cart!Held /\ v \in Variants /\ read \in Cart!Qty
    BY HeldKinds DEF CartInv, Cart!WriteMore, Cart!WriteLess, Cart!Open
  <1>2. \E dropped : Cart!EndDeleting(r, dropped)
    BY DEF Cart!WriteMore, Cart!WriteLess
  <1>3. cart_req' \in [Requests -> Cart!Held \cup Cart!Checkout \cup {Cart!Idle}] /\ Room'
    BY <1>1, <1>2, EndKeeps
  <1>4. UNCHANGED <<available, locker, ordered>>
    BY DEF Cart!WriteMore, Cart!WriteLess
  <1>5. CASE UNCHANGED <<item, added, muddled>>
    BY <1>3, <1>4, <1>5 DEF CartInv, Cart!TypeOK, Cart!TabsAddUp, Cart!Qty
  <1>6. added[v] \in Int /\ \A n \in Cart!Qty : n \in Int
    BY <1>1 DEF Cart!TypeOK, Cart!Qty
  <1>7. CASE \E n \in Cart!Qty, m \in Int :
               /\ item' = [item EXCEPT ![v] = n]
               /\ m = added[v] + n - read /\ Cart!Tell([added EXCEPT ![v] = m])
               /\ muddled' = IF item[v] # read THEN muddled \cup {v} ELSE muddled
    <2>1. /\ item' \in [Variants -> Cart!Qty] /\ added' \in [Variants -> Int]
          /\ muddled' \subseteq Variants /\ Cart!TabsAddUp'
      BY <1>1, <1>4, <1>7, ToldKeeps
    <2> QED
      BY <1>3, <1>4, <2>1 DEF CartInv, Cart!TypeOK, Cart!Qty
  <1>8. CASE Cart!WriteMore(r)
    <2>1. CASE ~UNCHANGED <<item, added, muddled>>
      <3>1. /\ item' = [item EXCEPT ![v] = read + 1]
            /\ Cart!Tell([added EXCEPT ![v] = added[v] + 1])
            /\ muddled' = IF item[v] # read THEN muddled \cup {v} ELSE muddled
        BY <1>8, <2>1 DEF Cart!WriteMore, Cart!Stored, Cart!Outdated
      <3>2. read + 1 \in Cart!Qty /\ added[v] + 1 = added[v] + (read + 1) - read
        BY <1>1, <1>6, <1>8 DEF Cart!WriteMore, Room, Cart!Open
      <3>3. added[v] + 1 \in Int
        BY <1>6
      <3> HIDE DEF v, read
      <3> QED
        BY <1>7, <3>1, <3>2, <3>3
    <2> QED
      BY <1>5, <2>1
  <1>9. CASE Cart!WriteLess(r)
    <2>1. CASE ~UNCHANGED <<item, added, muddled>>
      <3> DEFINE left == IF cart_req[r].op = "remove" THEN 0 ELSE read - 1
      <3>1. /\ item' = [item EXCEPT ![v] = left]
            /\ Cart!Tell([added EXCEPT ![v] = added[v] - (read - left)])
            /\ muddled' = IF item[v] # read THEN muddled \cup {v} ELSE muddled
        BY <1>9, <2>1 DEF Cart!WriteLess, Cart!Outdated
      <3>2. left \in Cart!Qty
        BY <1>1, <1>9, StockAssumption DEF Cart!WriteLess, Room, Cart!Open, Cart!Qty
      <3> HIDE DEF left, v, read
      <3>3. added[v] - (read - left) = added[v] + left - read
        BY <1>1, <1>6, <3>2
      <3>4. added[v] + left - read \in Int
        BY <1>1, <1>6, <3>2
      <3> QED
        BY <1>7, <3>1, <3>2, <3>3, <3>4
    <2> QED
      BY <1>5, <2>1
  <1> QED
    BY <1>8, <1>9

LEMMA ClearKeeps ==
    ASSUME CartInv, NEW r \in Requests, Cart!ClearCart(r)
    PROVE  CartInv'
  <1>1. cart_req' \in [Requests -> Cart!Held \cup Cart!Checkout \cup {Cart!Idle}] /\ Room'
    <2>1. \E dropped : Cart!EndDeleting(r, dropped)
      BY DEF Cart!ClearCart
    <2> QED
      BY <2>1, EndKeeps DEF CartInv
  <1>2. /\ item \in [Variants -> Cart!Qty] /\ added \in [Variants -> Int]
        /\ ordered \in [Variants -> Nat] /\ Cart!Qty \subseteq Int /\ 0 \in Cart!Qty
    <2>1. Cart!Qty \subseteq Int /\ 0 \in Cart!Qty
      BY StockAssumption DEF Cart!Qty
    <2> QED
      BY <2>1 DEF CartInv, Cart!TypeOK
  <1>3. /\ item' = [v \in Variants |-> 0]
        /\ added' = [v \in Variants |->
              IF v \in muddled THEN added[v] ELSE added[v] - item[v]]
        /\ UNCHANGED <<available, locker, ordered, muddled>>
    <2>1. Cart!Tell([v \in Variants |-> added[v] - item[v]])
      BY DEF Cart!ClearCart
    <2>2. added' = [v \in Variants |->
              IF v \in muddled THEN added[v] ELSE added[v] - item[v]]
      BY <2>1 DEF Cart!Tell
    <2> QED
      BY <2>2 DEF Cart!ClearCart
  <1>4. Cart!TypeOK'
    BY <1>1, <1>2, <1>3 DEF CartInv, Cart!TypeOK, Cart!Qty
  <1>5. Cart!TabsAddUp'
    <2> SUFFICES ASSUME NEW v \in Variants \ muddled'
                 PROVE  item'[v] + ordered'[v] = added'[v]
      BY DEF Cart!TabsAddUp
    <2>1. item[v] + ordered[v] = added[v] /\ v \notin muddled
      BY <1>3 DEF CartInv, Cart!TabsAddUp
    <2>2. item[v] \in Int /\ ordered[v] \in Int
      <3>1. v \in Variants
        OBVIOUS
      <3>2. item[v] \in Cart!Qty /\ ordered[v] \in Nat
        BY <1>2, <3>1
      <3> QED
        BY <3>2 DEF Cart!Qty
    <2>3. item'[v] = 0 /\ ordered'[v] = ordered[v] /\ added'[v] = added[v] - item[v]
      BY <1>3, <2>1
    <2> QED
      BY <2>1, <2>2, <2>3
  <1> QED
    BY <1>1, <1>4, <1>5 DEF CartInv

(* Checkout: what is ordered was in the cart, or its variant is muddled.   *)
LEMMA OrderKeeps ==
    ASSUME CartInv, NEW r \in Requests, Cart!PlaceOrder(r)
    PROVE  CartInv'
  <1> DEFINE items == cart_req[r].items
  <1>1. items \in [Variants -> Cart!Qty]
    <2>1. cart_req[r].op = "checkout"
      BY DEF Cart!PlaceOrder, Cart!Open
    <2>2. cart_req[r] \in Cart!Checkout
      BY <2>1 DEF CartInv, Cart!TypeOK, Cart!Held, Cart!Checkout, Cart!Idle
    <2> QED
      BY <2>2 DEF Cart!Checkout
  <1>2. /\ item \in [Variants -> Cart!Qty] /\ added \in [Variants -> Int]
        /\ ordered \in [Variants -> Nat] /\ available \in [Variants -> Cart!Qty]
        /\ muddled \subseteq Variants
    BY DEF CartInv, Cart!TypeOK
  <1>3. cart_req' \in [Requests -> Cart!Held \cup Cart!Checkout \cup {Cart!Idle}] /\ Room'
    <2>1. \E dropped : Cart!EndDeleting(r, dropped)
      BY DEF Cart!PlaceOrder
    <2> QED
      BY <2>1, EndKeeps DEF CartInv
  <1>4. locker' = Cart!Idle /\ added' = added
    BY DEF Cart!PlaceOrder
  <1>5. CASE ~Cart!AllAvailable(items)
    <2>1. UNCHANGED <<available, item, ordered, muddled>>
      BY <1>5 DEF Cart!PlaceOrder
    <2> QED
      BY <1>3, <1>4, <2>1 DEF CartInv, Cart!TypeOK, Cart!TabsAddUp, Cart!Qty
  <1>6. CASE Cart!AllAvailable(items)
    <2>1. /\ available' = [v \in Variants |-> available[v] - items[v]]
          /\ ordered' = [v \in Variants |->
                IF v \in muddled THEN ordered[v] ELSE ordered[v] + items[v]]
          /\ item' = [v \in Variants |-> 0]
          /\ muddled' = muddled \cup {v \in Variants : item[v] # items[v]}
      BY <1>6 DEF Cart!PlaceOrder, Cart!AfterOrder
    <2>2. available' \in [Variants -> Cart!Qty]
      BY <1>1, <1>2, <1>6, <2>1, StockAssumption DEF Cart!AllAvailable, Cart!Qty
    <2>3. ordered' \in [Variants -> Nat] /\ item' \in [Variants -> Cart!Qty]
      BY <1>1, <1>2, <2>1, StockAssumption DEF Cart!Qty
    <2>4. Cart!TypeOK'
      BY <1>2, <1>3, <1>4, <2>1, <2>2, <2>3 DEF Cart!TypeOK, Cart!Qty
    <2>5. Cart!TabsAddUp'
      <3> SUFFICES ASSUME NEW v \in Variants \ muddled'
                   PROVE  item'[v] + ordered'[v] = added'[v]
        BY DEF Cart!TabsAddUp
      <3>1. v \notin muddled /\ item[v] = items[v]
        BY <2>1
      <3>2. item[v] + ordered[v] = added[v] /\ item[v] \in Int /\ ordered[v] \in Int
        BY <1>2, <3>1 DEF CartInv, Cart!TabsAddUp, Cart!Qty
      <3> QED
        BY <1>4, <2>1, <3>1, <3>2
    <2> QED
      BY <1>3, <2>4, <2>5 DEF CartInv
  <1> QED
    BY <1>5, <1>6

LEMMA CartInductive ==
    CartInv /\ (Cart!Next \/ UNCHANGED cart_vars) => CartInv'
  <1> SUFFICES ASSUME CartInv, Cart!Next \/ UNCHANGED cart_vars
               PROVE  CartInv'
    OBVIOUS
  <1>1. ASSUME NEW r \in Requests, Cart!LockCart(r)
        PROVE  CartInv'
    BY <1>1 DEF Cart!LockCart, CartInv, Cart!TypeOK, Room, Cart!TabsAddUp, Cart!Qty
  <1>2. ASSUME NEW r \in Requests, Cart!Die(r)
        PROVE  CartInv'
    <2>1. cart_req' \in [Requests -> Cart!Held \cup Cart!Checkout \cup {Cart!Idle}] /\ Room'
      BY <1>2, EndKeeps DEF Cart!Die, CartInv
    <2> QED
      BY <1>2, <2>1 DEF Cart!Die, CartInv, Cart!TypeOK, Cart!TabsAddUp, Cart!Qty
  <1>3. ASSUME NEW v \in Variants, NEW n \in Cart!Qty, Cart!AvailabilityChanges(v, n)
        PROVE  CartInv'
    BY <1>3 DEF Cart!AvailabilityChanges, CartInv, Cart!TypeOK, Room, Cart!TabsAddUp, Cart!Qty
  <1>4. CASE UNCHANGED cart_vars
    BY <1>4 DEF cart_vars, CartInv, Cart!TypeOK, Room, Cart!TabsAddUp, Cart!Qty
  <1> QED
    BY <1>1, <1>2, <1>3, <1>4, ReadsKeep, WritesKeep, ClearKeeps, OrderKeeps
       DEF Cart!Next, Cart!RequestStep
-----------------------------------------------------------------------------
(* OrderTotals.  The sums are those of the lines that are written with     *)
(* them.  An edit that was loaded from the line as it is leaves it right,  *)
(* and the trail with it; and an item that was not deleted is still there. *)

LineRow == [unit_price : Prices, quantity : Quantities, line_total : Nat]
LineOrNone == LineRow \cup {None}

Edits == {Totals!Idle}
         \cup [op : {"quantity", "price", "remove"}, variant : Variants,
               item : LineRow, gone : BOOLEAN]
         \cup [op : {"add"}, variant : Variants, price : Prices]

TotalsTypes ==
    /\ line \in [Variants -> LineOrNone] /\ told \in [Variants -> LineOrNone]
    /\ edit \in [Requests -> Edits]

StillThere ==
    \A r \in Requests :
        edit[r].op \in {"quantity", "price"} /\ ~edit[r].gone =>
            line[edit[r].variant] # None

TotalsInv ==
    /\ TotalsTypes /\ StillThere
    /\ Totals!TotalsAddUp /\ Totals!LinesAreWhatTheyCost

LEMMA NewLine ==
    ASSUME NEW p \in Prices, NEW n \in Quantities
    PROVE  /\ Totals!Line(p, n) \in LineRow /\ Totals!Line(p, n) # None
           /\ Totals!Line(p, n).line_total
                = Totals!Line(p, n).unit_price * Totals!Line(p, n).quantity
  <1>1. p \in Nat /\ n \in Nat
    BY MoneyAssumption
  <1>2. p * n \in Nat
    BY <1>1
  <1>3. Totals!Line(p, n) \in LineRow
    BY <1>2 DEF Totals!Line, LineRow
  <1> QED
    BY <1>3, NoneAssumption DEF Totals!Line, LineRow

(* The sums of some lines are right, whatever the settings say.            *)
LEMMA TotalsAreSums ==
    ASSUME NEW lines, NEW s
    PROVE  LET t == Totals!Totals(lines, s)
           IN  /\ t.subtotal = Totals!Sum(lines)
               /\ t.total = t.subtotal + t.delivery_charge
  BY DEF Totals!Totals

LEMMA InitTotals == Totals!Init => TotalsInv
  <1> SUFFICES ASSUME Totals!Init PROVE TotalsInv
    OBVIOUS
  <1>1. \A p \in Prices, n \in Quantities :
            /\ Totals!Line(p, n) \in LineRow
            /\ Totals!Line(p, n).line_total
                = Totals!Line(p, n).unit_price * Totals!Line(p, n).quantity
    BY NewLine
  <1>2. TotalsTypes /\ StillThere
    BY <1>1 DEF Totals!Init, Totals!Idle, TotalsTypes, StillThere, Edits, LineOrNone
  <1>3. Totals!TotalsAddUp
    BY TotalsAreSums DEF Totals!Init, Totals!TotalsAddUp
  <1>4. Totals!LinesAreWhatTheyCost
    BY <1>1 DEF Totals!Init, Totals!LinesAreWhatTheyCost
  <1> QED
    BY <1>2, <1>3, <1>4 DEF TotalsInv

(* What the end of a request leaves of the others.                         *)
LEMMA OthersGoOn ==
    ASSUME TotalsTypes, NEW r \in Requests, NEW dropped, Totals!End(r, dropped)
    PROVE  /\ edit' \in [Requests -> Edits]
           /\ \A q \in Requests :
                 edit'[q].op \in {"quantity", "price"} /\ ~edit'[q].gone =>
                     /\ q # r /\ edit[q].op = edit'[q].op /\ ~edit[q].gone
                     /\ edit[q].variant = edit'[q].variant
                     /\ edit[q].variant \notin dropped
  <1> DEFINE Ended(q) ==
        IF q = r THEN Totals!Idle
        ELSE IF edit[q].op \in {"quantity", "price", "remove"}
                /\ edit[q].variant \in dropped
             THEN [edit[q] EXCEPT !.gone = TRUE] ELSE edit[q]
  <1>1. edit' = [q \in Requests |-> Ended(q)]
    BY DEF Totals!End
  <1>2. ASSUME NEW q \in Requests
        PROVE  /\ Ended(q) \in Edits
               /\ Ended(q).op \in {"quantity", "price"} /\ ~Ended(q).gone =>
                     /\ q # r /\ edit[q].op = Ended(q).op /\ ~edit[q].gone
                     /\ edit[q].variant = Ended(q).variant
                     /\ edit[q].variant \notin dropped
    <2>1. CASE q = r
      BY <2>1 DEF Totals!Idle, Edits
    <2>2. CASE q # r /\ Ended(q) = edit[q]
      <3>1. edit[q] \in Edits
        BY DEF TotalsTypes
      <3>2. edit[q].op \in {"quantity", "price"} /\ ~edit[q].gone
                => edit[q].variant \notin dropped
        <4>1. SUFFICES ASSUME edit[q].op \in {"quantity", "price"},
                              edit[q].variant \in dropped
                       PROVE  edit[q].gone
          OBVIOUS
        <4>2. edit[q] \in [op : {"quantity", "price", "remove"}, variant : Variants,
                           item : LineRow, gone : BOOLEAN]
          BY <3>1, <4>1 DEF Edits, Totals!Idle
        <4>3. [edit[q] EXCEPT !.gone = TRUE].gone = TRUE
          BY <4>2
        <4> QED
          BY <2>2, <4>1, <4>3
      <3> QED
        BY <2>2, <3>1, <3>2
    <2>3. CASE q # r /\ Ended(q) # edit[q]
      <3>1. /\ edit[q].op \in {"quantity", "price", "remove"}
            /\ Ended(q) = [edit[q] EXCEPT !.gone = TRUE]
        BY <2>3
      <3>2. edit[q] \in [op : {"quantity", "price", "remove"}, variant : Variants,
                         item : LineRow, gone : BOOLEAN]
        BY <3>1 DEF TotalsTypes, Edits, Totals!Idle
      <3> HIDE DEF Ended
      <3>3. Ended(q) \in Edits /\ Ended(q).gone = TRUE
        BY <3>1, <3>2 DEF Edits
      <3> QED
        BY <3>3
    <2> QED
      BY <2>1, <2>2, <2>3
  <1> HIDE DEF Ended
  <1>3. \A q \in Requests : edit'[q] = Ended(q)
    BY <1>1
  <1>4. edit' \in [Requests -> Edits]
    BY <1>1, <1>2
  <1> QED
    BY <1>2, <1>3, <1>4

(* The other variants are told as they were; of the one that is written it *)
(* is enough that it is right unless it was misread or has changed.        *)
LEMMA ToldRight ==
    ASSUME TotalsInv, NEW v \in Variants, NEW lines \in [Variants -> LineOrNone],
           NEW after \in LineOrNone, NEW changed \in BOOLEAN,
           line' = lines, Totals!Tell(v, after, changed),
           \A u \in Variants \ {v} : lines[u] = line[u],
           v \notin misread /\ ~changed =>
               /\ after = lines[v]
               /\ lines[v] # None =>
                     lines[v].line_total = lines[v].unit_price * lines[v].quantity
    PROVE  /\ told' \in [Variants -> LineOrNone]
           /\ Totals!LinesAreWhatTheyCost'
  <1>1. told' = [told EXCEPT ![v] = after]
    BY DEF Totals!Tell
  <1>2. told' \in [Variants -> LineOrNone]
    BY <1>1 DEF TotalsInv, TotalsTypes
  <1>3. ASSUME NEW u \in Variants \ misread'
        PROVE  /\ told'[u] = line'[u]
               /\ line'[u] # None =>
                     line'[u].line_total = line'[u].unit_price * line'[u].quantity
    <2>1. CASE u \in misread \cup (IF changed THEN {v} ELSE {})
      BY <1>3, <2>1 DEF Totals!Tell
    <2>2. CASE u \notin misread \cup (IF changed THEN {v} ELSE {})
      <3>1. CASE u = v
        <4>1. told'[v] = after
          BY <1>1 DEF TotalsInv, TotalsTypes
        <4> QED
          BY <2>2, <3>1, <4>1
      <3>2. CASE u # v
        <4>1. told'[u] = told[u] /\ line'[u] = line[u]
          BY <1>1, <3>2 DEF TotalsInv, TotalsTypes
        <4> QED
          BY <2>2, <4>1 DEF TotalsInv, Totals!LinesAreWhatTheyCost
      <3> QED
        BY <3>1, <3>2
    <2> QED
      BY <2>1, <2>2
  <1>4. Totals!LinesAreWhatTheyCost'
    BY <1>3 DEF Totals!LinesAreWhatTheyCost
  <1> QED
    BY <1>2, <1>4

(* An edit of the line of v.                                               *)
LEMMA EditKeeps ==
    ASSUME TotalsInv, NEW r \in Requests, NEW dropped, Totals!End(r, dropped),
           NEW v \in Variants, NEW lines \in [Variants -> LineOrNone],
           NEW after \in LineOrNone, NEW changed \in BOOLEAN,
           Totals!Recalculate(lines), Totals!Tell(v, after, changed),
           \A u \in Variants \ {v} : lines[u] = line[u],
           lines[v] = None => line[v] = None \/ v \in dropped,
           v \notin misread /\ ~changed =>
               /\ after = lines[v]
               /\ lines[v] # None =>
                     lines[v].line_total = lines[v].unit_price * lines[v].quantity
    PROVE  TotalsInv'
  <1>1. line' = lines
    BY DEF Totals!Recalculate
  <1>2. told' \in [Variants -> LineOrNone] /\ Totals!LinesAreWhatTheyCost'
    BY <1>1, ToldRight
  <1>3. /\ edit' \in [Requests -> Edits]
        /\ \A q \in Requests :
              edit'[q].op \in {"quantity", "price"} /\ ~edit'[q].gone =>
                  /\ q # r /\ edit[q].op = edit'[q].op /\ ~edit[q].gone
                  /\ edit[q].variant = edit'[q].variant
                  /\ edit[q].variant \notin dropped
    BY OthersGoOn DEF TotalsInv
  <1>4. TotalsTypes'
    BY <1>1, <1>2, <1>3 DEF TotalsTypes
  <1>5. StillThere'
    <2> SUFFICES ASSUME NEW q \in Requests, edit'[q].op \in {"quantity", "price"},
                        ~edit'[q].gone
                 PROVE  line'[edit'[q].variant] # None
      BY DEF StillThere
    <2>1. /\ edit[q].op \in {"quantity", "price"} /\ ~edit[q].gone
          /\ edit[q].variant = edit'[q].variant /\ edit[q].variant \notin dropped
      BY <1>3
    <2>2. line[edit[q].variant] # None
      BY <2>1 DEF TotalsInv, StillThere
    <2>3. edit[q].variant \in Variants
      BY <2>1 DEF TotalsInv, TotalsTypes, Edits, Totals!Idle
    <2> QED
      BY <1>1, <2>1, <2>2, <2>3
  <1>6. Totals!TotalsAddUp'
    <2>1. \E s \in Totals!Settings : order' = Totals!Totals(lines, s)
      BY DEF Totals!Recalculate
    <2> QED
      BY <1>1, <2>1, TotalsAreSums DEF Totals!TotalsAddUp, Totals!Sum
  <1> QED
    BY <1>2, <1>4, <1>5, <1>6 DEF TotalsInv
LEMMA ItemEdits ==
    ASSUME TotalsTypes, NEW r \in Requests,
           edit[r].op \in {"quantity", "price", "remove"}
    PROVE  /\ edit[r].variant \in Variants /\ edit[r].item \in LineRow
           /\ edit[r].gone \in BOOLEAN
           /\ edit[r].item.unit_price \in Nat /\ edit[r].item.quantity \in Nat
  <1>1. edit[r] \in [op : {"quantity", "price", "remove"}, variant : Variants,
                     item : LineRow, gone : BOOLEAN]
    BY DEF TotalsTypes, Edits, Totals!Idle
  <1> QED
    BY <1>1, MoneyAssumption DEF LineRow

LEMMA QuantityKeeps ==
    ASSUME TotalsInv, NEW r \in Requests, NEW n \in Quantities,
           Totals!ChangeLineQuantity(r, n)
    PROVE  TotalsInv'
  <1> DEFINE v == edit[r].variant
             loaded == edit[r].item
             total == loaded.unit_price * n
             lines == [line EXCEPT ![v].quantity = Totals!Quantity(r, n).quantity,
                                   ![v].line_total = Totals!Quantity(r, n).line_total]
             after == [loaded EXCEPT !.quantity = n,
                                     !.line_total = Totals!Quantity(r, n).line_total]
  <1>1. /\ TotalsTypes /\ v \in Variants /\ loaded \in LineRow
        /\ loaded.unit_price \in Nat /\ n \in Nat /\ edit[r].op = "quantity"
        /\ ~edit[r].gone
    BY ItemEdits, MoneyAssumption
       DEF TotalsInv, Totals!ChangeLineQuantity, Totals!Writes
  <1>2. line[v] # None /\ line[v] \in LineRow
    BY <1>1 DEF TotalsInv, StillThere, TotalsTypes, LineOrNone
  <1>3. total \in Nat
    BY <1>1
  <1>4. /\ Totals!Quantity(r, n).quantity = n
        /\ Totals!Quantity(r, n).line_total = total
    BY DEF Totals!Quantity
  <1>5. lines = [line EXCEPT ![v] = [line[v] EXCEPT !.quantity = n, !.line_total = total]]
    BY <1>1, <1>4 DEF TotalsTypes
  <1>6. /\ lines \in [Variants -> LineOrNone]
        /\ lines[v] = [line[v] EXCEPT !.quantity = n, !.line_total = total]
        /\ lines[v] \in LineRow
        /\ \A u \in Variants \ {v} : lines[u] = line[u]
    <2>1. [line[v] EXCEPT !.quantity = n, !.line_total = total] \in LineRow
      BY <1>2, <1>3 DEF LineRow
    <2> QED
      BY <1>1, <1>5, <2>1 DEF TotalsTypes, LineOrNone
  <1>7. after \in LineRow
    BY <1>1, <1>3, <1>4 DEF LineRow
  <1>8. loaded = line[v] =>
            after = lines[v] /\ lines[v].line_total = lines[v].unit_price * lines[v].quantity
    BY <1>1, <1>2, <1>4, <1>6 DEF LineRow
  <1>9. /\ Totals!End(r, {}) /\ Totals!Recalculate(lines)
        /\ Totals!Tell(v, after, loaded # line[v])
    BY DEF Totals!ChangeLineQuantity
  <1> HIDE DEF lines, after, total, loaded, v
  <1>10. lines[v] # None
    BY <1>6, NoneAssumption DEF LineRow
  <1>11. after \in LineOrNone /\ (loaded # line[v]) \in BOOLEAN
    BY <1>7 DEF LineOrNone
  <1> QED
    BY <1>1, <1>6, <1>8, <1>9, <1>10, <1>11, EditKeeps

LEMMA PriceKeeps ==
    ASSUME TotalsInv, NEW r \in Requests, NEW p \in Prices,
           Totals!OverrideLinePrice(r, p)
    PROVE  TotalsInv'
  <1> DEFINE v == edit[r].variant
             loaded == edit[r].item
             total == p * loaded.quantity
             lines == [line EXCEPT ![v].unit_price = p,
                                   ![v].line_total = p * loaded.quantity]
             after == Totals!PriceTold(r, p)
  <1>1. /\ TotalsTypes /\ v \in Variants /\ loaded \in LineRow
        /\ loaded.quantity \in Nat /\ p \in Nat /\ edit[r].op = "price"
        /\ ~edit[r].gone
    BY ItemEdits, MoneyAssumption
       DEF TotalsInv, Totals!OverrideLinePrice, Totals!Writes
  <1>2. line[v] # None /\ line[v] \in LineRow
    BY <1>1 DEF TotalsInv, StillThere, TotalsTypes, LineOrNone
  <1>3. total \in Nat
    BY <1>1
  <1>4. lines = [line EXCEPT ![v] = [line[v] EXCEPT !.unit_price = p, !.line_total = total]]
    BY <1>1 DEF TotalsTypes
  <1>5. /\ lines \in [Variants -> LineOrNone]
        /\ lines[v] = [line[v] EXCEPT !.unit_price = p, !.line_total = total]
        /\ lines[v] \in LineRow
        /\ \A u \in Variants \ {v} : lines[u] = line[u]
    <2>1. [line[v] EXCEPT !.unit_price = p, !.line_total = total] \in LineRow
      BY <1>2, <1>3 DEF LineRow
    <2> QED
      BY <1>1, <1>4, <2>1 DEF TotalsTypes, LineOrNone
  <1>6. after = IF told[v] = None
                THEN [loaded EXCEPT !.unit_price = p, !.line_total = total]
                ELSE [told[v] EXCEPT !.unit_price = p, !.line_total = total]
    BY DEF Totals!PriceTold
  <1>7. after \in LineRow
    <2>1. told[v] = None \/ told[v] \in LineRow
      BY <1>1 DEF TotalsTypes, LineOrNone
    <2> QED
      BY <1>1, <1>3, <1>6, <2>1 DEF LineRow
  <1>8. v \notin misread /\ loaded = line[v] =>
            after = lines[v] /\ lines[v].line_total = lines[v].unit_price * lines[v].quantity
    <2> SUFFICES ASSUME v \notin misread, loaded = line[v]
                 PROVE  /\ after = lines[v]
                        /\ lines[v].line_total = lines[v].unit_price * lines[v].quantity
      OBVIOUS
    <2>1. told[v] = line[v]
      BY <1>1 DEF TotalsInv, Totals!LinesAreWhatTheyCost
    <2> QED
      BY <1>1, <1>2, <1>5, <1>6, <2>1 DEF LineRow
  <1>9. /\ Totals!End(r, {}) /\ Totals!Recalculate(lines)
        /\ Totals!Tell(v, after, loaded # line[v])
    BY DEF Totals!OverrideLinePrice
  <1> HIDE DEF lines, after, total, loaded, v
  <1>10. lines[v] # None
    BY <1>5, NoneAssumption DEF LineRow
  <1>11. after \in LineOrNone /\ (loaded # line[v]) \in BOOLEAN
    BY <1>7 DEF LineOrNone
  <1> QED
    BY <1>1, <1>5, <1>8, <1>9, <1>10, <1>11, EditKeeps

LEMMA RemoveKeeps ==
    ASSUME TotalsInv, NEW r \in Requests, Totals!RemoveLine(r)
    PROVE  TotalsInv'
  <1> DEFINE v == edit[r].variant
             lines == IF edit[r].gone THEN line ELSE [line EXCEPT ![v] = None]
             dropped == IF edit[r].gone THEN {} ELSE {v}
  <1>1. TotalsTypes /\ v \in Variants /\ edit[r].gone \in BOOLEAN
    BY ItemEdits DEF TotalsInv, Totals!RemoveLine, Totals!Writes
  <1>2. /\ lines \in [Variants -> LineOrNone]
        /\ \A u \in Variants \ {v} : lines[u] = line[u]
        /\ lines[v] = None => line[v] = None \/ v \in dropped
        /\ ~edit[r].gone => lines[v] = None
    BY <1>1 DEF TotalsTypes, LineOrNone
  <1>3. /\ Totals!End(r, dropped) /\ Totals!Recalculate(lines)
        /\ Totals!Tell(v, None, edit[r].gone)
    BY DEF Totals!RemoveLine
  <1>4. None \in LineOrNone
    BY DEF LineOrNone
  <1> HIDE DEF lines, dropped, v
  <1> QED
    BY <1>1, <1>2, <1>3, <1>4, EditKeeps

LEMMA AddKeeps ==
    ASSUME TotalsInv, NEW r \in Requests, NEW n \in Quantities, Totals!AddLine(r, n)
    PROVE  TotalsInv'
  <1> DEFINE v == edit[r].variant
             new == Totals!Line(edit[r].price, n)
             lines == [line EXCEPT ![v] = new]
  <1>1. TotalsTypes /\ v \in Variants /\ edit[r].price \in Prices
    <2>1. edit[r].op = "add" /\ edit[r] \in Edits
      BY DEF TotalsInv, TotalsTypes, Totals!AddLine, Totals!Writes
    <2> QED
      BY <2>1 DEF TotalsInv, Edits, Totals!Idle
  <1>2. /\ new \in LineRow /\ new # None
        /\ new.line_total = new.unit_price * new.quantity
    BY <1>1, NewLine
  <1>3. /\ Totals!End(r, {}) /\ Totals!Recalculate(lines) /\ Totals!Tell(v, new, FALSE)
    BY DEF Totals!AddLine
  <1> HIDE DEF new, v
  <1>4. /\ lines \in [Variants -> LineOrNone] /\ lines[v] = new
        /\ \A u \in Variants \ {v} : lines[u] = line[u]
        /\ new \in LineOrNone
    BY <1>1, <1>2 DEF TotalsTypes, LineOrNone
  <1> HIDE DEF lines
  <1> QED
    BY <1>1, <1>2, <1>3, <1>4, EditKeeps

(* The steps that write no line.                                           *)
LEMMA LinesStay ==
    ASSUME TotalsInv, UNCHANGED <<line, order, told, misread>>,
           edit' \in [Requests -> Edits],
           \A q \in Requests :
              edit'[q].op \in {"quantity", "price"} /\ ~edit'[q].gone =>
                  line[edit'[q].variant] # None
    PROVE  TotalsInv'
  <1>1. TotalsTypes' /\ StillThere'
    BY DEF TotalsInv, TotalsTypes, StillThere
  <1>2. Totals!TotalsAddUp' /\ Totals!LinesAreWhatTheyCost'
    BY DEF TotalsInv, Totals!TotalsAddUp, Totals!LinesAreWhatTheyCost, Totals!Sum
  <1> QED
    BY <1>1, <1>2 DEF TotalsInv

LEMMA TotalsStep == TotalsInv /\ (Totals!Next \/ UNCHANGED total_vars) => TotalsInv'
  <1> SUFFICES ASSUME TotalsInv, Totals!Next \/ UNCHANGED total_vars PROVE TotalsInv'
    OBVIOUS
  <1>1. /\ TotalsTypes /\ edit \in [Requests -> Edits]
        /\ \A q \in Requests :
              edit[q].op \in {"quantity", "price"} /\ ~edit[q].gone =>
                  line[edit[q].variant] # None
    BY DEF TotalsInv, TotalsTypes, StillThere
  <1>2. ASSUME NEW r \in Requests, NEW v \in Variants,
               NEW op \in {"quantity", "price", "remove"}, Totals!LoadItem(r, v, op)
        PROVE  TotalsInv'
    <2> DEFINE new == [op |-> op, variant |-> v, item |-> line[v], gone |-> FALSE]
    <2>1. line[v] # None /\ line[v] \in LineRow
      BY <1>1, <1>2 DEF Totals!LoadItem, TotalsTypes, LineOrNone
    <2>2. new \in Edits /\ new.variant = v
      BY <2>1 DEF Edits
    <2>3. edit' = [edit EXCEPT ![r] = new] /\ UNCHANGED <<line, order, told, misread>>
      BY <1>2 DEF Totals!LoadItem
    <2> HIDE DEF new
    <2>4. edit' \in [Requests -> Edits] /\ edit'[r] = new
          /\ \A q \in Requests \ {r} : edit'[q] = edit[q]
      BY <1>1, <2>2, <2>3
    <2> QED
      BY <1>1, <2>1, <2>2, <2>3, <2>4, LinesStay
  <1>3. ASSUME NEW r \in Requests, NEW v \in Variants, NEW p \in Prices,
               Totals!LoadVariant(r, v, p)
        PROVE  TotalsInv'
    <2> DEFINE new == [op |-> "add", variant |-> v, price |-> p]
    <2>1. new \in Edits /\ new.op = "add"
      BY DEF Edits
    <2>2. edit' = [edit EXCEPT ![r] = new] /\ UNCHANGED <<line, order, told, misread>>
      BY <1>3 DEF Totals!LoadVariant
    <2> HIDE DEF new
    <2>3. edit' \in [Requests -> Edits] /\ edit'[r] = new
          /\ \A q \in Requests \ {r} : edit'[q] = edit[q]
      BY <1>1, <2>1, <2>2
    <2> QED
      BY <1>1, <2>1, <2>2, <2>3, LinesStay
  <1>4. ASSUME NEW r \in Requests, Totals!EditFails(r) PROVE TotalsInv'
    <2>1. Totals!End(r, {}) /\ UNCHANGED <<line, order, told, misread>>
      BY <1>4 DEF Totals!EditFails
    <2>2. /\ edit' \in [Requests -> Edits]
          /\ \A q \in Requests :
                edit'[q].op \in {"quantity", "price"} /\ ~edit'[q].gone =>
                    /\ q # r /\ edit[q].op = edit'[q].op /\ ~edit[q].gone
                    /\ edit[q].variant = edit'[q].variant
                    /\ edit[q].variant \notin {}
      BY <1>1, <2>1, OthersGoOn
    <2> QED
      BY <1>1, <2>1, <2>2, LinesStay
  <1>5. CASE Totals!StatusMoves \/ UNCHANGED total_vars
    BY <1>1, <1>5, LinesStay DEF Totals!StatusMoves, total_vars
  <1> QED
    BY <1>2, <1>3, <1>4, <1>5, QuantityKeeps, PriceKeeps, RemoveKeeps, AddKeeps
       DEF Totals!Next

(* The sum of the lines of an order is an amount of money.                 *)
LEMMA SumType ==
    ASSUME TotalsTypes
    PROVE  Totals!Sum(line) \in Nat
  <1> DEFINE rows == {u \in Variants : line[u] # None}
             f == [v \in rows |-> line[v].line_total]
  <1>1. IsFiniteSet(rows)
    BY VariantsAssumption, FS_Subset
  <1>2. \A v \in rows : f[v] \in Nat
    BY DEF TotalsTypes, LineOrNone, LineRow
  <1>3. \A g : /\ Totals!SumFunction(g) = SumFunctionOnSet(g, DOMAIN g)
    BY DEF Totals!SumFunction, Totals!SumFunctionOnSet, SumFunctionOnSet,
           Totals!FoldFunctionOnSet, FoldFunctionOnSet,
           Totals!MapThenFoldSet, MapThenFoldSet
  <1>4. Totals!Sum(line) = SumFunctionOnSet(f, rows)
    BY <1>3 DEF Totals!Sum
  <1> HIDE DEF rows, f
  <1> QED
    BY <1>1, <1>2, <1>4, SumNat

(* A larger order is free where a smaller one is, and costs the same where *)
(* neither is.                                                             *)
LEMMA MoreIsNotDearer ==
    ASSUME TotalsInv
    PROVE  Totals!MoreNeverCostsDelivery
  <1> SUFFICES ASSUME NEW s \in Totals!Settings, NEW more \in Quantities
               PROVE  Totals!DeliveryCharge(s, order.subtotal + more)
                        <= Totals!DeliveryCharge(s, order.subtotal)
    BY DEF Totals!MoreNeverCostsDelivery
  <1>1. order.subtotal \in Nat /\ more \in Nat
    BY SumType, MoneyAssumption DEF TotalsInv, Totals!TotalsAddUp
  <1>2. /\ s.free_delivery_threshold # None => s.free_delivery_threshold \in Nat
        /\ s.flat_delivery_rate \in Nat /\ s.city_fallback_delivery_rate \in Nat
        /\ s.zone # None => s.zone \in Nat
    BY MoneyAssumption DEF Totals!Settings
  <1>3. Totals!Free(s, order.subtotal) => Totals!Free(s, order.subtotal + more)
    BY <1>1, <1>2 DEF Totals!Free
  <1>4. ASSUME NEW subtotal
        PROVE  /\ Totals!DeliveryCharge(s, subtotal) \in Nat
               /\ Totals!Free(s, subtotal) => Totals!DeliveryCharge(s, subtotal) = 0
               /\ ~Totals!Free(s, subtotal) =>
                     Totals!DeliveryCharge(s, subtotal) =
                        IF s.delivery_strategy # "city_based" THEN s.flat_delivery_rate
                        ELSE IF s.zone # None THEN s.zone
                        ELSE s.city_fallback_delivery_rate
    BY <1>2 DEF Totals!DeliveryCharge
  <1>5. /\ Totals!DeliveryCharge(s, order.subtotal) \in Nat
        /\ Totals!DeliveryCharge(s, order.subtotal + more) \in Nat
    BY <1>4
  <1>6. CASE Totals!Free(s, order.subtotal + more)
    <2>1. Totals!DeliveryCharge(s, order.subtotal + more) = 0
      BY <1>4, <1>6
    <2> QED
      BY <1>5, <2>1
  <1>7. CASE ~Totals!Free(s, order.subtotal + more)
    <2>1. Totals!DeliveryCharge(s, order.subtotal + more)
            = Totals!DeliveryCharge(s, order.subtotal)
      BY <1>3, <1>4, <1>7
    <2> QED
      BY <1>5, <2>1
  <1> QED
    BY <1>6, <1>7
-----------------------------------------------------------------------------
(* OrderMessage.  A line is longer than the notice can shrink by when it   *)
(* is told, so a message with more lines is longer: the loop stops at the  *)
(* first that does not fit, and no later one would.                        *)

(* Any order whose lines have four characters or more, any settings.       *)
MessageTypes ==
    /\ item_lines \in Seq(Nat \ 0..3) /\ item_lines # <<>>
    /\ frame \in Nat /\ max_chars \in Nat
    /\ included \in 0..Len(item_lines)

MessageInv ==
    /\ MessageTypes
    /\ included > 0 => Notice!Cut /\ Notice!Candidate(included) <= max_chars
    /\ Notice!MessageFits

LEMMA OrdersAreLines ==
    ASSUME NEW o \in Orders
    PROVE  o \in Seq(Nat \ 0..3) /\ o # <<>>
  <1>1. ASSUME NEW n \in Nat \ {0}, NEW f \in [1..n -> {20, 24}]
        PROVE  f \in Seq(Nat \ 0..3) /\ f # <<>>
    <2>1. f \in [1..n -> Nat \ 0..3]
      OBVIOUS
    <2>2. f \in Seq(Nat \ 0..3)
      BY <2>1, SeqDef
    <2>3. 1 \in DOMAIN f
      OBVIOUS
    <2>4. f # <<>>
      BY <2>3
    <2> QED
      BY <2>2, <2>4
  <1>2. CASE o \in UNION {[1..n -> {20, 24}] : n \in 1..3}
    <2>1. PICK n \in 1..3 : o \in [1..n -> {20, 24}]
      BY <1>2
    <2>2. n \in Nat \ {0}
      OBVIOUS
    <2> QED
      BY <1>1, <2>1, <2>2
  <1>3. CASE o \in {[i \in 1..n |-> m] : n \in 8..12, m \in {20, 24}}
    <2>1. PICK n \in 8..12, m \in {20, 24} : o = [i \in 1..n |-> m]
      BY <1>3
    <2>2. o \in [1..n -> {20, 24}] /\ n \in Nat \ {0}
      BY <2>1
    <2> QED
      BY <1>1, <2>2
  <1>4. o \in (UNION {[1..n -> {20, 24}] : n \in 1..3})
              \cup {[i \in 1..n |-> m] : n \in 8..12, m \in {20, 24}}
    BY DEF Orders
  <1> QED
    BY <1>2, <1>3, <1>4

LEMMA NoticeIsShort ==
    ASSUME NEW n \in Nat
    PROVE  Notice!Notice(n) \in 17..20
  BY DEF Notice!Notice, Notice!Digits

(* The text of the lines as a sum over their positions.                    *)
LEMMA JoinedIsSum ==
    ASSUME NEW n
    PROVE  /\ Notice!Joined(n) = SumFunctionOnSet(item_lines, 1..n)
                                     + IF n = 0 THEN 0 ELSE n - 1
           /\ Notice!Joined(n)' = SumFunctionOnSet(item_lines', 1..n)
                                     + IF n = 0 THEN 0 ELSE n - 1
  BY DEF Notice!Joined, SumFunctionOnSet, Notice!FoldFunctionOnSet, FoldFunctionOnSet,
         Notice!MapThenFoldSet, MapThenFoldSet

(* The reckoning is about the order and the settings alone.                *)
LEMMA ReckoningStays ==
    ASSUME UNCHANGED <<item_lines, frame, max_chars>>
    PROVE  /\ Notice!Cut' = Notice!Cut
           /\ \A n : /\ Notice!Candidate(n)' = Notice!Candidate(n)
                     /\ Notice!LengthOf(n)' = Notice!LengthOf(n)
  <1>1. ASSUME NEW n
        PROVE  Notice!Joined(n)' = Notice!Joined(n)
    BY JoinedIsSum
  <1>2. ASSUME NEW n
        PROVE  Notice!Notice(n)' = Notice!Notice(n)
    BY DEF Notice!Notice
  <1>3. Len(item_lines)' = Len(item_lines)
    OBVIOUS
  <1> QED
    BY <1>1, <1>2, <1>3 DEF Notice!Cut, Notice!Candidate, Notice!LengthOf

(* One line more makes the text longer by at least five.                   *)
LEMMA JoinedGrows ==
    ASSUME MessageTypes, NEW n \in 0..Len(item_lines), NEW m \in 0..Len(item_lines)
    PROVE  /\ Notice!Joined(n) \in Nat
           /\ n < m => Notice!Joined(n) + 4 <= Notice!Joined(m)
  <1>1. ASSUME NEW k \in 0..Len(item_lines)
        PROVE  /\ k \in Nat /\ IsFiniteSet(1..k)
               /\ \A i \in 1..k : item_lines[i] \in Nat /\ item_lines[i] > 3
    <2>1. Len(item_lines) \in Nat /\ k \in Nat
      BY DEF MessageTypes
    <2>2. ASSUME NEW i \in 1..k
          PROVE  item_lines[i] \in Nat \ 0..3
      BY <2>1 DEF MessageTypes
    <2>3. IsFiniteSet(1..k)
      BY <2>1, FS_Interval
    <2> QED
      BY <2>1, <2>2, <2>3
  <1>2. \A k \in 0..Len(item_lines) : SumFunctionOnSet(item_lines, 1..k) \in Nat
    BY <1>1, SumNat
  <1>3. \A k \in 0..Len(item_lines) : Notice!Joined(k) \in Nat
    BY <1>2, JoinedIsSum
  <1>4. ASSUME n < m
        PROVE  Notice!Joined(n) + 4 <= Notice!Joined(m)
    <2>1. m \in 1..m /\ (1..n) \subseteq (1..m) \ {m} /\ m # 0
      BY <1>4
    <2>2. SumFunctionOnSet(item_lines, 1..m)
            = item_lines[m] + SumFunctionOnSet(item_lines, (1..m) \ {m})
      <3>1. IsFiniteSet(1..m) /\ \A i \in 1..m : item_lines[i] \in Int
        BY <1>1
      <3> QED
        BY <2>1, <3>1, SumRemove
    <2>3. IsFiniteSet((1..m) \ {m})
      BY <1>1, FS_Subset
    <2>4. \A i \in (1..m) \ {m} : item_lines[i] \in Nat
      BY <1>1
    <2>5. /\ SumFunctionOnSet(item_lines, 1..n)
               <= SumFunctionOnSet(item_lines, (1..m) \ {m})
          /\ SumFunctionOnSet(item_lines, (1..m) \ {m}) \in Nat
      BY <2>1, <2>3, <2>4, SumSubset, SumNat
    <2>6. /\ m \in Nat /\ n \in Nat
          /\ item_lines[m] \in Nat /\ item_lines[m] > 3
          /\ SumFunctionOnSet(item_lines, 1..n) \in Nat
      BY <1>1, <1>2, <2>1
    <2>7. /\ Notice!Joined(n) = SumFunctionOnSet(item_lines, 1..n)
                                  + IF n = 0 THEN 0 ELSE n - 1
          /\ Notice!Joined(m) = SumFunctionOnSet(item_lines, 1..m) + m - 1
      BY <2>1, <2>6, JoinedIsSum
    <2> QED
      BY <1>4, <2>2, <2>5, <2>6, <2>7
  <1> QED
    BY <1>3, <1>4

LEMMA CandidateGrows ==
    ASSUME MessageTypes, NEW n \in 0..Len(item_lines), NEW m \in 0..Len(item_lines)
    PROVE  /\ Notice!Candidate(n) \in Nat
           /\ n <= m => Notice!Candidate(n) <= Notice!Candidate(m)
  <1>1. ASSUME NEW k \in 0..Len(item_lines)
        PROVE  /\ Notice!Joined(k) \in Nat
               /\ Notice!Notice(Len(item_lines) - k) \in Nat
               /\ Notice!Notice(Len(item_lines) - k) >= 17
               /\ Notice!Notice(Len(item_lines) - k) <= 20
    <2>1. Len(item_lines) - k \in Nat
      BY DEF MessageTypes
    <2>2. Notice!Notice(Len(item_lines) - k) \in 17..20
      BY <2>1, NoticeIsShort
    <2> QED
      BY <2>2, JoinedGrows
  <1>2. frame \in Nat /\ Len(item_lines) \in Nat /\ n \in Nat /\ m \in Nat
    BY DEF MessageTypes
  <1>3. n < m => Notice!Joined(n) + 4 <= Notice!Joined(m)
    BY JoinedGrows
  <1>4. ASSUME NEW k \in 0..Len(item_lines)
        PROVE  /\ Notice!Candidate(k) \in Nat
               /\ frame + Notice!Joined(k) + 17 <= Notice!Candidate(k)
               /\ Notice!Candidate(k) <= frame + Notice!Joined(k) + 20
    <2> DEFINE j == Notice!Joined(k)
               t == Notice!Notice(Len(item_lines) - k)
    <2>1. Notice!Candidate(k) = frame + j + t
      BY DEF Notice!Candidate
    <2>2. /\ j \in Nat /\ t \in Nat /\ 17 <= t /\ t <= 20 /\ frame \in Nat
      BY <1>1, <1>2
    <2> HIDE DEF j, t
    <2>3. /\ frame + j + t \in Nat
          /\ frame + j + 17 <= frame + j + t /\ frame + j + t <= frame + j + 20
      BY <2>2
    <2> QED
      BY <2>1, <2>3 DEF j
  <1>5. ASSUME n < m
        PROVE  Notice!Candidate(n) <= Notice!Candidate(m)
    <2> DEFINE a == Notice!Joined(n)
               b == Notice!Joined(m)
               c == Notice!Candidate(n)
               d == Notice!Candidate(m)
    <2>1. /\ a \in Nat /\ b \in Nat /\ c \in Nat /\ d \in Nat /\ frame \in Nat
          /\ a + 4 <= b /\ c <= frame + a + 20 /\ frame + b + 17 <= d
      BY <1>1, <1>2, <1>3, <1>4, <1>5
    <2> HIDE DEF a, b, c, d
    <2>2. c <= d
      BY <2>1
    <2> QED
      BY <2>2 DEF c, d
  <1> QED
    BY <1>1, <1>2, <1>4, <1>5

(* The length of a message is what the loop reckons with, but for the      *)
(* message of every item, which has no notice.                             *)
LEMMA LengthIsCandidate ==
    ASSUME MessageTypes, NEW n \in 0..Len(item_lines)
    PROVE  IF n = Len(item_lines)
           THEN Notice!LengthOf(n) = frame + Notice!Joined(Len(item_lines))
           ELSE Notice!LengthOf(n) = Notice!Candidate(n)
  <1>1. Notice!Joined(n) \in Nat /\ frame \in Nat
    BY JoinedGrows DEF MessageTypes
  <1> QED
    BY <1>1 DEF Notice!LengthOf, Notice!Candidate

LEMMA InitMessage == Notice!Init => MessageInv
  <1> SUFFICES ASSUME Notice!Init PROVE MessageInv
    OBVIOUS
  <1>1. frame \in Nat /\ max_chars \in Nat
    BY DEF Notice!Init, Frames, MaxChars
  <1>2. MessageTypes
    BY <1>1, OrdersAreLines DEF Notice!Init, MessageTypes
  <1> QED
    BY <1>2 DEF Notice!Init, MessageInv, Notice!MessageFits

LEMMA WholeKeeps ==
    ASSUME MessageInv, Notice!Whole
    PROVE  MessageInv'
  <1> DEFINE N == Len(item_lines)
  <1>1. N \in Nat /\ N \in 0..N
    BY DEF MessageInv, MessageTypes
  <1>2. MessageTypes' /\ included' = 0
    BY DEF Notice!Whole, MessageInv, MessageTypes
  <1>3. /\ message'.length = frame + Notice!Joined(N) /\ message'.omitted = 0
        /\ frame + Notice!Joined(N) <= max_chars
    BY DEF Notice!Whole
  <1>4. Notice!LengthOf(N) = frame + Notice!Joined(N)
    BY <1>1, LengthIsCandidate DEF MessageInv
  <1>5. \A n \in 0..N : Notice!LengthOf(n)' = Notice!LengthOf(n)
    BY ReckoningStays DEF Notice!Whole
  <1>6. N' = N /\ max_chars' = max_chars
    BY DEF Notice!Whole
  <1> HIDE DEF N
  <1>7. LET shown == N - message'.omitted
            fitting == {n \in 0..N : Notice!LengthOf(n) <= max_chars}
        IN  /\ message'.length = Notice!LengthOf(shown)
            /\ shown \in fitting /\ \A n \in fitting : n <= shown
    BY <1>1, <1>3, <1>4
  <1>8. Notice!MessageFits'
    BY <1>5, <1>6, <1>7 DEF Notice!MessageFits, N
  <1> QED
    BY <1>2, <1>8 DEF MessageInv

LEMMA IncludeKeeps ==
    ASSUME MessageInv, Notice!Include
    PROVE  MessageInv'
  <1>1. MessageTypes'
    BY DEF MessageInv, MessageTypes, Notice!Include, Notice!Fits
  <1>2. Notice!Cut /\ Notice!Candidate(included') <= max_chars
    BY DEF Notice!Include, Notice!Fits
  <1>3. Notice!Cut' /\ Notice!Candidate(included)' <= max_chars'
    <2>1. UNCHANGED <<item_lines, frame, max_chars>>
      BY DEF Notice!Include
    <2>2. Notice!Cut' /\ Notice!Candidate(included)' = Notice!Candidate(included')
      BY <1>2, <2>1, ReckoningStays DEF Notice!Candidate, Notice!Joined, Notice!Notice
    <2> QED
      BY <1>2, <2>1, <2>2
  <1>4. Notice!MessageFits'
    BY DEF Notice!Include, Notice!MessageFits, Notice!Building
  <1> QED
    BY <1>1, <1>3, <1>4 DEF MessageInv

(* Where the loop stops, no message within the limit has a later item.     *)
LEMMA FinishKeeps ==
    ASSUME MessageInv, Notice!Finish
    PROVE  MessageInv'
  <1> DEFINE N == Len(item_lines)
             Length(n) == Notice!LengthOf(n)
             Reckoned(n) == Notice!Candidate(n)
             fitting == {n \in 0..N : Length(n) <= max_chars}
  <1>1. /\ N \in Nat /\ N # 0 /\ included \in 0..N /\ max_chars \in Nat
        /\ MessageTypes
    BY DEF MessageInv, MessageTypes
  <1>2. \A n, m \in 0..N : /\ Reckoned(n) \in Nat
                           /\ n <= m => Reckoned(n) <= Reckoned(m)
    BY <1>1, CandidateGrows
  <1>3. /\ Length(N) = frame + Notice!Joined(N) /\ Length(N) \in Int
        /\ \A n \in 0..N : n # N => Length(n) = Reckoned(n)
    BY <1>1, LengthIsCandidate, JoinedGrows DEF MessageTypes
  <1>4. Length(N) > max_chars
    BY <1>3 DEF Notice!Finish, Notice!Cut
  <1>5. included # N
    <2>1. Reckoned(N) = frame + Notice!Joined(N) + Notice!Notice(N - N)
      BY DEF Notice!Candidate
    <2>2. Notice!Notice(N - N) \in 17..20
      BY <1>1, NoticeIsShort
    <2>3. Reckoned(N) > max_chars
      BY <1>1, <1>3, <1>4, <2>1, <2>2
    <2> QED
      BY <1>1, <1>2, <2>3 DEF MessageInv
  <1>6. Reckoned(included + 1) > max_chars
    BY <1>1, <1>2, <1>5 DEF Notice!Finish, Notice!Fits
  <1>7. included > 0 => Reckoned(included) <= max_chars
    BY DEF MessageInv
  <1>8. /\ message'.omitted = N - included
        /\ message'.length = Length(included)
    BY <1>1, <1>5 DEF Notice!Finish, Notice!LengthOf
  <1>9. /\ \A n \in 0..N : Length(n)' = Length(n)
        /\ N' = N /\ max_chars' = max_chars
    BY ReckoningStays DEF Notice!Finish
  <1>10. MessageTypes' /\ (included > 0 => Notice!Cut /\ Reckoned(included) <= max_chars)'
    <2>1. MessageTypes'
      BY <1>1 DEF Notice!Finish, MessageTypes
    <2>2. /\ UNCHANGED <<included, max_chars, frame, item_lines>>
          /\ Notice!Cut' = Notice!Cut
          /\ Reckoned(included)' = Reckoned(included)
      BY ReckoningStays DEF Notice!Finish, Notice!Candidate
    <2> QED
      BY <2>1, <2>2 DEF MessageInv
  <1> HIDE DEF N, Length, Reckoned, fitting
  <1>11. \A n \in fitting : n <= included
    <2> SUFFICES ASSUME NEW n \in 0..N, Length(n) <= max_chars, n > included
                 PROVE  FALSE
      BY <1>1 DEF fitting
    <2>1. n # N
      BY <1>1, <1>3, <1>4
    <2>2. included + 1 \in 0..N /\ included + 1 <= n
      BY <1>1
    <2>3. Reckoned(included + 1) <= Reckoned(n)
      BY <1>2, <2>2
    <2>4. Length(n) = Reckoned(n)
      BY <1>3, <2>1
    <2>5. Reckoned(n) \in Nat /\ Reckoned(included + 1) \in Nat
      BY <1>2, <2>2
    <2> QED
      BY <1>1, <1>6, <2>3, <2>4, <2>5
  <1>12. fitting # {} => included \in fitting
    <2>1. CASE included > 0
      BY <1>1, <1>3, <1>5, <1>7, <2>1 DEF fitting
    <2>2. CASE included = 0
      <3>1. \A n \in fitting : n \in 0..N
        BY DEF fitting
      <3>2. \A n \in fitting : n = included
        BY <1>1, <1>11, <2>2, <3>1
      <3> QED
        BY <3>2
    <2> QED
      BY <1>1, <2>1, <2>2
  <1>13. N - message'.omitted = included
    BY <1>1, <1>8
  <1>14. LET shown == N - message'.omitted
         IN  /\ message'.length = Length(shown)
             /\ IF fitting = {} THEN shown = 0
                ELSE shown \in fitting /\ \A n \in fitting : n <= shown
    <2>1. fitting = {} => included = 0
      <3> SUFFICES ASSUME included > 0 PROVE included \in fitting
        BY <1>1
      <3> QED
        BY <1>1, <1>3, <1>5, <1>7 DEF fitting
    <2> QED
      BY <1>8, <1>11, <1>12, <1>13, <2>1
  <1>15. Notice!MessageFits'
    BY <1>9, <1>14 DEF Notice!MessageFits, N, Length, fitting
  <1> QED
    BY <1>10, <1>15 DEF MessageInv, Reckoned

LEMMA MessageStep == MessageInv /\ (Notice!Next \/ UNCHANGED message_vars) => MessageInv'
  <1> SUFFICES ASSUME MessageInv, Notice!Next \/ UNCHANGED message_vars
               PROVE  MessageInv'
    OBVIOUS
  <1>1. CASE UNCHANGED message_vars
    <2>1. MessageTypes'
      BY <1>1 DEF message_vars, MessageInv, MessageTypes
    <2>2. /\ Notice!Cut' = Notice!Cut
          /\ \A n : /\ Notice!Candidate(n)' = Notice!Candidate(n)
                    /\ Notice!LengthOf(n)' = Notice!LengthOf(n)
      BY <1>1, ReckoningStays DEF message_vars
    <2>3. Notice!MessageFits'
      BY <1>1, <2>2 DEF message_vars, MessageInv, Notice!MessageFits, Notice!Building
    <2> QED
      BY <1>1, <2>1, <2>2, <2>3 DEF message_vars, MessageInv
  <1> QED
    BY <1>1, WholeKeeps, IncludeKeeps, FinishKeeps DEF Notice!Next
-----------------------------------------------------------------------------
(* ProductListing.  The pages read one catalogue.  Every product of it has *)
(* a variant, and the values of a variant are those of the attributes.     *)
VariantRows == [price : Nat, available : Int, is_active : BOOLEAN,
                is_default : BOOLEAN, values : SUBSET (Attributes \X ValueSlugs)]

CatalogueTypes ==
    \A p \in Products : /\ product[p].variants \in Seq(VariantRows)
                        /\ product[p].variants # <<>>

FiltersTypes ==
    filters \in [category : Categories \cup {None}, brand : Brands \cup {None},
                 price_min : Bounds \cup {None}, price_max : Bounds \cup {None},
                 groups : [Attributes -> SUBSET ValueSlugs]]

ListingInv == CatalogueTypes /\ FiltersTypes

(* The least of some positions.                                            *)
LEMMA FirstPosition ==
    ASSUME NEW S \in SUBSET Nat, S # {}
    PROVE  /\ Listing!Min(S) \in S
           /\ \A i \in S : Listing!Min(S) <= i
  BY SmallestNumber DEF Listing!Min

(* A number next to a brand counts what a click on the brand alone shows.  *)
LEMMA BrandCounts ==
    ASSUME ListingInv, NEW b \in Brands
    PROVE  Listing!BrandCount(filters, b)
             = Listing!Cardinality(Listing!Results([filters EXCEPT !.brand = b]))
  <1> DEFINE f == [filters EXCEPT !.brand = b]
  <1>1. /\ f.brand = b /\ b # None
        /\ f.category = filters.category /\ f.groups = filters.groups
        /\ f.price_min = filters.price_min /\ f.price_max = filters.price_max
    BY NoneAssumption DEF ListingInv, FiltersTypes
  <1>2. Attributes \ {"brand"} = Attributes /\ Attributes \ {"nothing"} = Attributes
    BY SlugsAssumption
  <1> HIDE DEF f
  <1>3. {p \in Listing!ApplyFilters(filters, "brand") : product[p].brand = b}
            = Listing!Results(f)
    BY <1>1, <1>2 DEF Listing!ApplyFilters, Listing!Results, Listing!InCategory,
                      Listing!InBrand, Listing!InPrice
  <1> QED
    BY <1>3 DEF Listing!BrandCount, f

(* And so does the number next to a value, unless a product has a value of *)
(* the same slug of another attribute.                                     *)
LEMMA ValueCounts ==
    ASSUME ListingInv, NEW a \in Attributes, NEW s \in ValueSlugs,
           ~\E p \in Listing!Published, other \in Attributes \ {a} :
                Listing!Carries(p, <<other, s>>)
    PROVE  Listing!ValueCount(filters, a, s)
             = Listing!Cardinality(Listing!Results([filters EXCEPT !.groups[a] = {s}]))
  <1> DEFINE f == [filters EXCEPT !.groups[a] = {s}]
  <1>1. /\ f.brand = filters.brand /\ f.category = filters.category
        /\ f.price_min = filters.price_min /\ f.price_max = filters.price_max
        /\ f.groups[a] = {s}
        /\ \A other \in Attributes \ {a} : f.groups[other] = filters.groups[other]
    BY DEF ListingInv, FiltersTypes
  <1>2. a # "brand" /\ Attributes \ {"nothing"} = Attributes
    BY SlugsAssumption
  <1> HIDE DEF f
  <1>3. ASSUME NEW p \in Listing!Published
        PROVE  Listing!Carries(p, <<a, s>>) <=> Listing!InGroup(p, {s})
    <2>1. ASSUME NEW v \in Listing!VariantsOf(p), NEW value \in v.values
          PROVE  \E other \in Attributes, t \in ValueSlugs : value = <<other, t>>
      <3>1. v \in VariantRows
        BY DEF Listing!VariantsOf, Listing!ToSet, Listing!Published, ListingInv,
               CatalogueTypes
      <3> QED
        BY <3>1 DEF VariantRows
    <2>2. ASSUME NEW v \in Listing!VariantsOf(p), NEW value \in v.values, value[2] = s
          PROVE  value = <<a, s>>
      <3>1. PICK other \in Attributes, t \in ValueSlugs : value = <<other, t>>
        BY <2>1
      <3>2. t = s
        BY <2>2, <3>1
      <3> QED
        BY <3>1, <3>2 DEF Listing!Carries
    <2> QED
      BY <2>2 DEF Listing!Carries, Listing!InGroup
  <1>4. {p \in Listing!ApplyFilters(filters, a) : Listing!Carries(p, <<a, s>>)}
            = Listing!Results(f)
    <2>1. ASSUME NEW p \in Listing!Published
          PROVE  /\ Listing!InCategory(p, f) <=> Listing!InCategory(p, filters)
                 /\ Listing!InBrand(p, f) <=> Listing!InBrand(p, filters)
                 /\ Listing!InPrice(p, f) <=> Listing!InPrice(p, filters)
                 /\ (\A x \in Attributes : Listing!InGroup(p, f.groups[x]))
                      <=> /\ \A x \in Attributes \ {a} :
                                Listing!InGroup(p, filters.groups[x])
                          /\ Listing!Carries(p, <<a, s>>)
      BY <1>1, <1>3 DEF Listing!InCategory, Listing!InBrand, Listing!InPrice
    <2> QED
      BY <1>2, <2>1 DEF Listing!ApplyFilters, Listing!Results
  <1> QED
    BY <1>4 DEF Listing!ValueCount, f

LEMMA CountsAreRight == ListingInv => Listing!CountsAreResults
  BY BrandCounts, ValueCounts DEF Listing!CountsAreResults

(* Which variant is the default one of those at some positions: the first  *)
(* that is marked, or the first.                                           *)
LEMMA DefaultPosition ==
    ASSUME NEW variants, NEW S \in SUBSET Nat, S # {}
    PROVE  \E i \in S :
              /\ Listing!DefaultOf(variants, S) = variants[i]
              /\ variants[i].is_default \/ \A j \in S : ~variants[j].is_default
              /\ \A j \in S : j < i =>
                    variants[i].is_default /\ ~variants[j].is_default
  <1> DEFINE D == {i \in S : variants[i].is_default}
             T == IF D = {} THEN S ELSE D
             i == Listing!Min(T)
  <1>1. T \in SUBSET Nat /\ T # {} /\ T \subseteq S
    OBVIOUS
  <1> HIDE DEF T
  <1>2. i \in T /\ \A j \in T : i <= j
    BY <1>1, FirstPosition
  <1>3. Listing!DefaultOf(variants, S) = variants[i]
    BY DEF Listing!DefaultOf, T
  <1> HIDE DEF i
  <1>4. i \in Nat /\ i \in S
    BY <1>1, <1>2
  <1>5. variants[i].is_default \/ \A j \in S : ~variants[j].is_default
    BY <1>2 DEF T
  <1>6. ASSUME NEW j \in S, j < i
        PROVE  variants[i].is_default /\ ~variants[j].is_default
    <2>1. j \notin T
      BY <1>2, <1>4, <1>6
    <2>2. D # {} /\ T = D
      BY <2>1 DEF T
    <2> QED
      BY <1>2, <2>1, <2>2
  <1> QED
    BY <1>3, <1>4, <1>5, <1>6

(* What is taken for the product is one of its active variants, and one    *)
(* that can be bought when there is one: the default one if that can.      *)
LEMMA RepresentativeIsBuyable ==
    ASSUME NEW variants, NEW S \in SUBSET Nat, S # {},
           \A i \in S : variants[i].available \in Int
    PROVE  \E i \in S :
              /\ Listing!Representative(variants, S) = variants[i]
              /\ variants[i].available > 0 \/ \A j \in S : ~(variants[j].available > 0)
              /\ Listing!DefaultOf(variants, S).available > 0 =>
                    variants[i] = Listing!DefaultOf(variants, S)
  <1> DEFINE B == {i \in S : Listing!Available(variants[i]) > 0}
             default == Listing!DefaultOf(variants, S)
  <1>1. PICK d \in S : default = variants[d]
    BY DefaultPosition
  <1>2. ASSUME NEW i \in S
        PROVE  Listing!Available(variants[i]) > 0 <=> variants[i].available > 0
    BY DEF Listing!Available
  <1>3. CASE Listing!Available(default) > 0 \/ B = {}
    <2>1. Listing!Representative(variants, S) = variants[d]
      BY <1>1, <1>3 DEF Listing!Representative
    <2> QED
      BY <1>1, <1>2, <1>3, <2>1
  <1>4. CASE ~(Listing!Available(default) > 0) /\ B # {}
    <2> DEFINE i == Listing!Min(B)
    <2>1. Listing!Representative(variants, S) = variants[i]
      BY <1>4 DEF Listing!Representative
    <2>2. i \in B
      BY <1>4, FirstPosition
    <2> HIDE DEF i
    <2>3. i \in S /\ variants[i].available > 0
      BY <1>2, <2>2
    <2>4. ~(default.available > 0)
      BY <1>1, <1>2, <1>4
    <2> QED
      BY <2>1, <2>3, <2>4
  <1> QED
    BY <1>3, <1>4

(* The default variant that a page offers is, when it is active, also the  *)
(* default one of the active variants.                                     *)
LEMMA ActiveDefault ==
    ASSUME NEW variants, NEW S \in SUBSET Nat, NEW T \in SUBSET S, S # {},
           \A i \in S : i \in T <=> variants[i].is_active,
           Listing!DefaultOf(variants, S).is_active
    PROVE  /\ T # {}
           /\ Listing!DefaultOf(variants, T) = Listing!DefaultOf(variants, S)
  <1>1. PICK d \in S :
            /\ Listing!DefaultOf(variants, S) = variants[d]
            /\ variants[d].is_default \/ \A j \in S : ~variants[j].is_default
            /\ \A j \in S : j < d => variants[d].is_default /\ ~variants[j].is_default
    BY DefaultPosition
  <1>2. d \in T
    BY <1>1
  <1>3. PICK e \in T :
            /\ Listing!DefaultOf(variants, T) = variants[e]
            /\ variants[e].is_default \/ \A j \in T : ~variants[j].is_default
            /\ \A j \in T : j < e => variants[e].is_default /\ ~variants[j].is_default
    <2>1. T \in SUBSET Nat /\ T # {}
      BY <1>2
    <2> QED
      BY <2>1, DefaultPosition
  <1>4. ~(d < e) /\ ~(e < d)
    BY <1>1, <1>2, <1>3
  <1>5. d = e
    BY <1>2, <1>3, <1>4
  <1> QED
    BY <1>1, <1>2, <1>3, <1>5

LEMMA ShopIsHonest == CatalogueTypes => Listing!AdvertisedAsSold
  <1> SUFFICES ASSUME CatalogueTypes, NEW p \in Listing!Published
               PROVE  /\ p \in Listing!Rows /\ Listing!Row(p).in_stock
                           <=> Listing!Buyable(p) # {}
                      /\ p \in Listing!Rows /\ Listing!Row(p).in_stock =>
                           \E v \in Listing!Buyable(p) :
                              /\ Listing!Row(p).price = Listing!WholeRupees(v.price)
                              /\ Listing!Row(p).stock_qty = v.available
                      /\ Listing!Offer(p).in_stock /\ Listing!Default(p).is_active =>
                           /\ Listing!Buyable(p) # {}
                           /\ Listing!Row(p).price
                                = Listing!WholeRupees(Listing!Offer(p).price)
    BY DEF Listing!AdvertisedAsSold
  <1> DEFINE variants == product[p].variants
             S == DOMAIN variants
             T == Listing!Active(p)
             row == Listing!Representative(variants, T)
             default == Listing!Default(p)
  <1>1. /\ S \in SUBSET Nat /\ S # {}
        /\ \A i \in S : /\ variants[i] \in VariantRows
                        /\ variants[i].available \in Int
                        /\ variants[i].is_active \in BOOLEAN
    <2>1. variants \in Seq(VariantRows) /\ variants # <<>>
      BY DEF CatalogueTypes, Listing!Published
    <2>2. S = 1..Len(variants) /\ Len(variants) \in Nat /\ Len(variants) # 0
      BY <2>1
    <2>3. \A i \in S : variants[i] \in VariantRows
      BY <2>1
    <2>4. 1 \in S /\ S \in SUBSET Nat
      BY <2>2
    <2> QED
      BY <2>3, <2>4 DEF VariantRows
  <1>2. T \in SUBSET S /\ \A i \in S : i \in T <=> variants[i].is_active
    BY DEF Listing!Active
  <1>3. Listing!Buyable(p)
            = {variants[i] : i \in {j \in T : variants[j].available > 0}}
    BY <1>2 DEF Listing!Buyable, Listing!VariantsOf, Listing!ToSet
  <1>4. /\ p \in Listing!Rows <=> T # {}
        /\ Listing!Row(p).in_stock <=> Listing!Available(row) > 0
        /\ Listing!Row(p).price = Listing!WholeRupees(row.price)
        /\ Listing!Row(p).stock_qty = Listing!Available(row)
    BY DEF Listing!Rows, Listing!Row
  <1>5. /\ Listing!Offer(p).in_stock <=> default.available > 0
        /\ Listing!Offer(p).price = default.price
        /\ default = Listing!DefaultOf(variants, S)
    BY DEF Listing!Offer, Listing!Default
  <1> HIDE DEF variants, S, T, row, default
  <1>6. ASSUME T # {}
        PROVE  \E i \in T :
                  /\ row = variants[i]
                  /\ variants[i].available > 0
                       \/ \A j \in T : ~(variants[j].available > 0)
                  /\ Listing!DefaultOf(variants, T).available > 0 =>
                        variants[i] = Listing!DefaultOf(variants, T)
    <2>1. T \in SUBSET Nat /\ \A i \in T : variants[i].available \in Int
      BY <1>1, <1>2
    <2> QED
      BY <1>6, <2>1, RepresentativeIsBuyable DEF row
  <1>7. ASSUME T # {}
        PROVE  /\ Listing!Row(p).in_stock <=> row.available > 0
               /\ row.available > 0 => row \in Listing!Buyable(p)
                                       /\ Listing!Row(p).stock_qty = row.available
               /\ row.available > 0 <=> Listing!Buyable(p) # {}
    <2>1. PICK i \in T :
              /\ row = variants[i]
              /\ variants[i].available > 0
                   \/ \A j \in T : ~(variants[j].available > 0)
      BY <1>6, <1>7
    <2>2. row.available \in Int
      BY <1>1, <1>2, <2>1
    <2>3. /\ Listing!Available(row) > 0 <=> row.available > 0
          /\ row.available > 0 => Listing!Available(row) = row.available
      BY <2>2 DEF Listing!Available
    <2> QED
      BY <1>3, <1>4, <2>1, <2>3
  <1>8. T = {} => Listing!Buyable(p) = {}
    BY <1>3
  <1>9. ASSUME Listing!Offer(p).in_stock, default.is_active
        PROVE  Listing!Buyable(p) # {} /\ row = default
    <2>1. T # {} /\ Listing!DefaultOf(variants, T) = default
      BY <1>1, <1>2, <1>5, <1>9, ActiveDefault
    <2>2. row = default
      BY <1>5, <1>6, <1>9, <2>1
    <2> QED
      BY <1>5, <1>7, <1>9, <2>1, <2>2
  <1> QED
    BY <1>4, <1>5, <1>7, <1>8, <1>9 DEF default

(* The catalogues that the listing and the feeds are looked at with.       *)
LEMMA InitListing ==
    ASSUME NEW c \in Feeds \cup Listings, Listing!InitWith(c)
    PROVE  ListingInv
  <1> DEFINE Kinds == Seq(VariantRows) \ {<<>>}
  <1>1. /\ First(Attributes) \in Attributes /\ First(ValueSlugs) \in ValueSlugs
    BY SlugsAssumption DEF First
  <1>2. ASSUME NEW price \in Nat, NEW n \in Int, NEW active \in BOOLEAN,
               NEW default \in BOOLEAN, NEW values \in SUBSET (Attributes \X ValueSlugs)
        PROVE  VariantRow(price, n, active, default, values) \in VariantRows
    BY DEF VariantRow, VariantRows
  <1>3. \A default \in BOOLEAN : AnyVariant(default) \subseteq VariantRows
    BY <1>2 DEF AnyVariant
  <1>4. /\ \A v \in VariantRows : <<v>> \in Kinds
        /\ \A v, w \in VariantRows : <<v, w>> \in Kinds
    OBVIOUS
  <1> HIDE DEF Kinds
  <1>5. AnySizes \subseteq Kinds
    <2> DEFINE P == AnyVariant(TRUE)
               Q == AnyVariant(FALSE)
    <2>1. AnySizes = {<<v>> : v \in P} \cup {<<v, w>> : v \in P, w \in Q}
                       \cup {<<v, w>> : v \in Q, w \in P}
      BY DEF AnySizes
    <2>2. (\A v \in P : v \in VariantRows) /\ (\A v \in Q : v \in VariantRows)
      BY <1>3
    <2> HIDE DEF P, Q
    <2> QED
      BY <1>4, <2>1, <2>2
  <1>6. /\ \A a \in Attributes, s \in ValueSlugs : Carried(a, s) \in VariantRows
        /\ \A b \in BOOLEAN, s \in ValueSlugs :
              Another(b, {<<First(Attributes), s>>}) \in VariantRows
        /\ Another(TRUE, {}) \in VariantRows
    <2>1. ASSUME NEW a \in Attributes, NEW s \in ValueSlugs
          PROVE  Carried(a, s) \in VariantRows
      BY DEF Carried, VariantRow, VariantRows
    <2>2. ASSUME NEW b \in BOOLEAN, NEW s \in ValueSlugs
          PROVE  Another(b, {<<First(Attributes), s>>}) \in VariantRows
      BY <1>1 DEF Another, VariantRow, VariantRows
    <2>3. Another(TRUE, {}) \in VariantRows
      BY DEF Another, VariantRow, VariantRows
    <2> QED
      BY <2>1, <2>2, <2>3
  <1>7. FewSizes \subseteq Kinds
    <2>1. ASSUME NEW v \in FewSizes
          PROVE  v \in Kinds
      <3>1. CASE \E a \in Attributes, s \in ValueSlugs : v = <<Carried(a, s)>>
        BY <1>4, <1>6, <3>1
      <3>2. CASE \E s, t \in ValueSlugs, b \in BOOLEAN :
                    v = <<Carried(First(Attributes), s),
                          Another(b, {<<First(Attributes), t>>})>>
        BY <1>1, <1>4, <1>6, <3>2
      <3> QED
        BY <3>1, <3>2 DEF FewSizes
    <2> QED
      BY <2>1
  <1>8. /\ Plain.variants \in Kinds /\ Rival.variants \in Kinds
        /\ Draft.variants \in Kinds
    BY <1>1, <1>4, <1>6 DEF Plain, Rival, Draft, ProductRow
  <1>9. \A row \in FewProducts : row.variants \in Kinds
    BY <1>7 DEF FewProducts, ProductRow
  <1>10. \A v \in AnySizes : ProductRow(Brand, <<Category, None>>, v).variants \in Kinds
    BY <1>5 DEF ProductRow
  <1>11. \A p \in Products : c[p].variants \in Kinds
    BY <1>8, <1>9, <1>10 DEF Feeds, Listings, OneProduct
  <1>12. FiltersTypes
    BY DEF Listing!InitWith, Listing!NoFilters, FiltersTypes
  <1>13. CatalogueTypes
    BY <1>11 DEF Listing!InitWith, CatalogueTypes, Kinds
  <1> QED
    BY <1>12, <1>13 DEF ListingInv

LEMMA ListingStep == ListingInv /\ (Listing!Next \/ UNCHANGED listing_vars) => ListingInv'
  <1> SUFFICES ASSUME ListingInv, Listing!Next \/ UNCHANGED listing_vars
               PROVE  ListingInv'
    OBVIOUS
  <1>1. product' = product
    BY DEF listing_vars, Listing!Next, Listing!ChooseCategory, Listing!ChooseBrand,
           Listing!ChoosePrices, Listing!TickValue
  <1>2. FiltersTypes'
    <2>1. CASE UNCHANGED listing_vars
      BY <2>1 DEF listing_vars, ListingInv, FiltersTypes
    <2>2. ASSUME NEW x \in Categories \cup {None}, Listing!ChooseCategory(x)
          PROVE  FiltersTypes'
      BY <2>2 DEF Listing!ChooseCategory, ListingInv, FiltersTypes
    <2>3. ASSUME NEW b \in Brands \cup {None}, Listing!ChooseBrand(b)
          PROVE  FiltersTypes'
      BY <2>3 DEF Listing!ChooseBrand, ListingInv, FiltersTypes
    <2>4. ASSUME NEW low \in Bounds \cup {None}, NEW high \in Bounds \cup {None},
                 Listing!ChoosePrices(low, high)
          PROVE  FiltersTypes'
      BY <2>4 DEF Listing!ChoosePrices, ListingInv, FiltersTypes
    <2>5. ASSUME NEW a \in Attributes, NEW s \in ValueSlugs, Listing!TickValue(a, s)
          PROVE  FiltersTypes'
      <3> DEFINE ticked == Listing!SymDiff(filters.groups[a], {s})
      <3>1. filters.groups \in [Attributes -> SUBSET ValueSlugs]
        BY DEF ListingInv, FiltersTypes
      <3>2. ticked \in SUBSET ValueSlugs
        BY <3>1 DEF Listing!SymDiff
      <3>3. filters' = [filters EXCEPT !.groups = [filters.groups EXCEPT ![a] = ticked]]
        BY <2>5 DEF Listing!TickValue, ListingInv, FiltersTypes
      <3> HIDE DEF ticked
      <3> QED
        BY <3>1, <3>2, <3>3 DEF ListingInv, FiltersTypes
    <2> QED
      BY <2>1, <2>2, <2>3, <2>4, <2>5 DEF Listing!Next
  <1> QED
    BY <1>1, <1>2 DEF ListingInv, CatalogueTypes
-----------------------------------------------------------------------------
(* The whole.  A behaviour is one of one part, and the others rest.        *)
Inv == /\ part = "cart" => CartInv
       /\ part = "totals" => TotalsInv
       /\ part \in {"feeds", "listing"} => ListingInv
       /\ part = "message" => MessageInv

vars == <<part, cart_vars, total_vars, listing_vars, message_vars>>

LEMMA InitInv == Init => Inv
  <1> SUFFICES ASSUME Init PROVE Inv
    OBVIOUS
  <1>1. part = "cart" => CartInv
    BY InitCart DEF Init
  <1>2. part = "totals" => TotalsInv
    BY InitTotals DEF Init
  <1>3. part \in {"feeds", "listing"} => ListingInv
    BY InitListing DEF Init
  <1>4. part = "message" => MessageInv
    BY InitMessage DEF Init
  <1> QED
    BY <1>1, <1>2, <1>3, <1>4 DEF Inv

LEMMA StepInv == Inv /\ [Next]_vars => Inv'
  <1> SUFFICES ASSUME Inv, [Next]_vars PROVE Inv'
    OBVIOUS
  <1>1. part' = part
    BY DEF Next, vars
  <1>2. Cart!Next \/ UNCHANGED cart_vars
    BY DEF Next, vars
  <1>3. Totals!Next \/ UNCHANGED total_vars
    BY DEF Next, vars
  <1>4. Listing!Next \/ UNCHANGED listing_vars
    BY DEF Next, vars
  <1>5. Notice!Next \/ UNCHANGED message_vars
    BY DEF Next, vars
  <1>6. (part = "cart" => CartInv') /\ (part = "totals" => TotalsInv')
    BY <1>2, <1>3, CartInductive, TotalsStep DEF Inv
  <1>7. /\ part \in {"feeds", "listing"} => ListingInv'
        /\ part = "message" => MessageInv'
    BY <1>4, <1>5, ListingStep, MessageStep DEF Inv
  <1> QED
    BY <1>1, <1>6, <1>7 DEF Inv

(* No quantity in the cart is more than was ever for sale, and no request  *)
(* writes one that is.                                                     *)
THEOREM CartTypeCorrect == Spec => [](part = "cart" => Cart!TypeOK /\ Room)
  <1>1. Inv => (part = "cart" => Cart!TypeOK /\ Room)
    BY DEF Inv, CartInv
  <1> QED
    BY InitInv, StepInv, <1>1, PTL DEF Spec, vars

(* CartCheckout: additions from several tabs add up, a failed or lost      *)
(* checkout changes nothing and an order empties the cart, except of a     *)
(* variant that was written from a quantity another tab or checkout had    *)
(* changed.                                                                *)
THEOREM CartAddsUp == Spec => []TabsAddUp
  <1>1. Inv => TabsAddUp
    BY DEF Inv, CartInv, TabsAddUp
  <1> QED
    BY InitInv, StepInv, <1>1, PTL DEF Spec, vars

(* OrderTotals: whatever edits of an order overlap, the customer pays the  *)
(* sum of the lines that are there and the delivery.                       *)
THEOREM OrderAddsUp == Spec => []TotalsAddUp
  <1>1. Inv => TotalsAddUp
    BY DEF Inv, TotalsInv, TotalsAddUp
  <1> QED
    BY InitInv, StepInv, <1>1, PTL DEF Spec, vars

(* OrderTotals: a line is its price times its quantity and is what the     *)
(* trail tells, but for one that was written from a line that had changed. *)
THEOREM LinesAreRight == Spec => []LinesAreWhatTheyCost
  <1>1. Inv => LinesAreWhatTheyCost
    BY DEF Inv, TotalsInv, LinesAreWhatTheyCost
  <1> QED
    BY InitInv, StepInv, <1>1, PTL DEF Spec, vars

(* OrderTotals: ordering more never makes the delivery dearer, whatever    *)
(* the settings.                                                           *)
THEOREM MoreIsNeverDearer == Spec => []MoreNeverCostsDelivery
  <1>1. Inv => MoreNeverCostsDelivery
    BY MoreIsNotDearer DEF Inv, MoreNeverCostsDelivery
  <1> QED
    BY InitInv, StepInv, <1>1, PTL DEF Spec, vars

(* ProductListing: whatever is filtered by, the number next to a brand or  *)
(* a value is how many products a click on it alone shows.                 *)
THEOREM CountsAreShown == Spec => []CountsAreResults
  <1>1. Inv => CountsAreResults
    BY CountsAreRight DEF Inv, CountsAreResults
  <1> QED
    BY InitInv, StepInv, <1>1, PTL DEF Spec, vars

(* ProductListing: of any catalogue, the feeds have in stock what can be   *)
(* bought, and at the price and in the number of a variant that can.       *)
THEOREM ShopAdvertisesAsSold == Spec => []AdvertisedAsSold
  <1>1. Inv => AdvertisedAsSold
    BY ShopIsHonest DEF Inv, ListingInv, AdvertisedAsSold
  <1> QED
    BY InitInv, StepInv, <1>1, PTL DEF Spec, vars

(* OrderMessage: the message of an order tells as many items as any within *)
(* the limit would, and of the others how many they are.                   *)
THEOREM MessageIsFullest == Spec => []MessageFits
  <1>1. Inv => MessageFits
    BY DEF Inv, MessageInv, MessageFits
  <1> QED
    BY InitInv, StepInv, <1>1, PTL DEF Spec, vars
=============================================================================
