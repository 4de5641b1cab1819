-------------------------- MODULE OrderStockProofs --------------------------
(***************************************************************************)
(* Proofs about OrderStock for every number of orders, variants, requests  *)
(* and forms and every bound.  How the sums ActiveReserved move with the   *)
(* reservations of one order is an instance of the lemmas of Sums.         *)
(***************************************************************************)
EXTENDS OrderStock, Sums

(* The inductive invariant, one line of one order at a time.  Its second   *)
(* conjunct is the strengthening: an order that does not exist has taken   *)
(* nothing.  The other three are the invariants to be proved; the third    *)
(* and the fourth rest on the first when an order leaves pending.          *)
LineInv(o, v) ==
    /\ live[o][v] + lapsed[o][v] > 0 => status[o] = "pending_confirmation"
    /\ status[o] = NoOrder => taken[o][v] = 0
    /\ o \notin swept \cup misread =>
          /\ status[o] = "pending_confirmation" =>
                live[o][v] + lapsed[o][v] = line[o][v] /\ taken[o][v] = 0
          /\ status[o] \in Holding => taken[o][v] = line[o][v]
          /\ status[o] \notin Holding \cup {"pending_confirmation"} =>
                taken[o][v] = 0
    /\ o \notin misread /\ status[o] \in Holding \cup {"pending_confirmation"} =>
          live[o][v] + lapsed[o][v] + taken[o][v] <= line[o][v]

LinesInv == \A o \in Orders, v \in Variants : LineInv(o, v)

IInv == TypeOK /\ LinesInv

LEMMA StatusTable ==
    ASSUME NEW s \in Status
    PROVE  /\ ALLOWED_TRANSITIONS[s] \subseteq Status
           /\ s \notin Holding \cup {"pending_confirmation"} =>
                 ALLOWED_TRANSITIONS[s] = {}
           /\ "confirmed" \in ALLOWED_TRANSITIONS[s] => s = "pending_confirmation"
           /\ "expired" \in ALLOWED_TRANSITIONS[s] => s = "pending_confirmation"
           /\ "pending_confirmation" \notin ALLOWED_TRANSITIONS[s]
  BY DEF Status, ALLOWED_TRANSITIONS, Holding

LEMMA InitInv == Init => IInv
  <1>. SUFFICES ASSUME Init PROVE IInv
    OBVIOUS
  <1>1. Nothing \in Quantities /\ Nothing \in [Orders -> [Variants -> Int]]
    BY DEF Nothing, Quantities
  <1>2. stock \in [Variants -> Nat] /\ ledger \in [Variants -> Int]
    <2>1. stock \in [Variants -> Opening] /\ ledger = stock
      BY DEF Init
    <2>2. Opening \subseteq Nat /\ Opening \subseteq Int
      BY CountsAssumption
    <2>3. stock \in [Variants -> Nat] /\ stock \in [Variants -> Int]
      BY <2>1, <2>2
    <2>4. QED
      BY <2>1, <2>3
  <1>3. TypeOK
    <2>1. /\ status \in [Orders -> Status \cup {NoOrder}]
          /\ held \in [Editors -> Item \cup {NoItem}]
          /\ form \in [Forms -> FormData \cup {NoForm}]
      BY DEF Init
    <2>2. active \subseteq Variants /\ swept \subseteq Orders /\ misread \subseteq Orders
      BY DEF Init
    <2>3. /\ line \in Quantities /\ live \in Quantities /\ lapsed \in Quantities
          /\ taken \in [Orders -> [Variants -> Int]]
      BY <1>1 DEF Init
    <2>4. QED
      BY <1>2, <2>1, <2>2, <2>3 DEF TypeOK
  <1>4. LinesInv
    BY DEF Init, Nothing, LinesInv, LineInv, NoOrder, Holding
  <1>5. QED
    BY <1>3, <1>4 DEF IInv

LEMMA CreateOrderInv ==
    ASSUME IInv, NEW o \in Orders, NEW cart \in Carts, CreateOrder(o, cart)
    PROVE  IInv'
  <1>1. cart \in [Variants -> Nat]
    BY BoundsAssumption DEF Carts
  <1>2. TypeOK'
    BY <1>1 DEF IInv, TypeOK, CreateOrder, Quantities, Status, history
  <1>3. ASSUME NEW p \in Orders, NEW w \in Variants PROVE LineInv(p, w)'
    BY <1>1 DEF IInv, LinesInv, LineInv, TypeOK, CreateOrder, Quantities,
         Holding, NoOrder, history
  <1>4. QED
    BY <1>2, <1>3 DEF IInv, LinesInv

LEMMA CommitInv ==
    ASSUME IInv, NEW o \in Orders, TransitionStatus(o, "confirmed")
    PROVE  IInv'
  <1>1. /\ status[o] = "pending_confirmation"
        /\ CommitAllForOrder(o)
    BY StatusTable DEF IInv, TypeOK, TransitionStatus, Commits, Releases,
         Restores, NoOrder
  <1>2. TypeOK'
    BY <1>1 DEF IInv, TypeOK, TransitionStatus, CommitAllForOrder, Quantities, Status
  <1>3. ASSUME NEW p \in Orders, NEW w \in Variants PROVE LineInv(p, w)'
    BY <1>1 DEF IInv, LinesInv, LineInv, TypeOK, TransitionStatus,
         CommitAllForOrder, Quantities, Holding, NoOrder
  <1>4. QED
    BY <1>2, <1>3 DEF IInv, LinesInv

LEMMA ReleaseInv ==
    ASSUME IInv, NEW o \in Orders, NEW to \in {"cancelled", "expired"},
           status[o] = "pending_confirmation", TransitionStatus(o, to)
    PROVE  IInv'
  <1>1. ReleaseAllForOrder(o)
    BY DEF TransitionStatus, Commits, Releases, Restores
  <1>2. TypeOK'
    BY <1>1 DEF IInv, TypeOK, TransitionStatus, ReleaseAllForOrder, Quantities, Status
  <1>3. ASSUME NEW p \in Orders, NEW w \in Variants PROVE LineInv(p, w)'
    BY <1>1 DEF IInv, LinesInv, LineInv, TypeOK, TransitionStatus,
         ReleaseAllForOrder, Quantities, Holding, NoOrder
  <1>4. QED
    BY <1>2, <1>3 DEF IInv, LinesInv

LEMMA RestoreInv ==
    ASSUME IInv, NEW o \in Orders, NEW to \in {"cancelled", "returned"},
           status[o] # "pending_confirmation", TransitionStatus(o, to)
    PROVE  IInv'
  <1>1. RestoreAllForOrder(o) /\ status[o] \in Holding
    BY StatusTable DEF IInv, TypeOK, TransitionStatus, Commits, Releases, Restores
  <1>2. TypeOK'
    BY <1>1 DEF IInv, TypeOK, TransitionStatus, RestoreAllForOrder, Quantities, Status
  <1>3. ASSUME NEW p \in Orders, NEW w \in Variants PROVE LineInv(p, w)'
    BY <1>1 DEF IInv, LinesInv, LineInv, TypeOK, TransitionStatus,
         RestoreAllForOrder, Quantities, Holding, NoOrder
  <1>4. QED
    BY <1>2, <1>3 DEF IInv, LinesInv

LEMMA AdvanceInv ==
    ASSUME IInv, NEW o \in Orders, NEW to \in Status, TransitionStatus(o, to),
           to \notin {"confirmed", "cancelled", "expired", "returned"}
    PROVE  IInv'
  <1>1. /\ UNCHANGED <<live, lapsed, stock, ledger, taken>>
        /\ status[o] \in Holding /\ to \in Holding
    <2>1. status[o] \in Status /\ to \in ALLOWED_TRANSITIONS[status[o]]
      BY DEF IInv, TypeOK, TransitionStatus, NoOrder
    <2>2. UNCHANGED <<live, lapsed, stock, ledger, taken>>
      BY DEF TransitionStatus, Commits, Releases, Restores
    <2>3. to \in Holding
      BY <2>1, StatusTable DEF Status, Holding
    <2>4. status[o] \in Holding
      BY <2>1 DEF Status, ALLOWED_TRANSITIONS, Holding
    <2>5. QED
      BY <2>2, <2>3, <2>4
  <1>2. TypeOK'
    BY <1>1 DEF IInv, TypeOK, TransitionStatus, Quantities
  <1>3. ASSUME NEW p \in Orders, NEW w \in Variants PROVE LineInv(p, w)'
    BY <1>1 DEF IInv, LinesInv, LineInv, TypeOK, TransitionStatus,
         Quantities, Holding, NoOrder
  <1>4. QED
    BY <1>2, <1>3 DEF IInv, LinesInv

(* The sweeper marks exactly the orders it takes a reservation from.       *)
LEMMA SweepInv == IInv /\ ReleaseExpiredReservations => IInv'
  <1>. SUFFICES ASSUME IInv, ReleaseExpiredReservations PROVE IInv'
    OBVIOUS
  <1>1. TypeOK'
    BY DEF IInv, TypeOK, ReleaseExpiredReservations, Quantities, Nothing
  <1>2. ASSUME NEW p \in Orders, NEW w \in Variants PROVE LineInv(p, w)'
    BY DEF IInv, LinesInv, LineInv, TypeOK, ReleaseExpiredReservations,
         Quantities, Nothing, Holding
  <1>3. QED
    BY <1>1, <1>2 DEF IInv, LinesInv

LEMMA ExpiresInv ==
    ASSUME IInv, NEW o \in Orders, NEW v \in Variants, NEW k \in Quantity,
           ReservationExpires(o, v, k)
    PROVE  IInv'
  <1>1. k \in Nat
    BY BoundsAssumption DEF Quantity
  <1>2. TypeOK'
    BY <1>1 DEF IInv, TypeOK, ReservationExpires, Quantities, history
  <1>3. ASSUME NEW p \in Orders, NEW w \in Variants PROVE LineInv(p, w)'
    BY <1>1 DEF IInv, LinesInv, LineInv, TypeOK, ReservationExpires,
         Quantities, Holding, history
  <1>4. QED
    BY <1>2, <1>3 DEF IInv, LinesInv

(* What an edit does to the line (o, v) it is about: the units held and    *)
(* the quantity on the line go up, or down, together.                      *)
LEMMA TakeMoreMoves ==
    ASSUME TypeOK, NEW o \in Orders, NEW v \in Variants, NEW q \in Nat \ {0},
           TakeMore(o, v, q)
    PROVE  /\ live' \in Quantities /\ stock' \in [Variants -> Nat]
           /\ ledger' \in [Variants -> Int]
           /\ taken' \in [Orders -> [Variants -> Int]]
           /\ \A p \in Orders, w \in Variants :
                 p # o \/ w # v =>
                     live'[p][w] = live[p][w] /\ taken'[p][w] = taken[p][w]
           /\ status[o] = "pending_confirmation" =>
                 live'[o][v] = live[o][v] + q /\ taken'[o][v] = taken[o][v]
           /\ status[o] # "pending_confirmation" =>
                 live'[o][v] = live[o][v] /\ taken'[o][v] = taken[o][v] + q
  <1>1. CASE status[o] = "pending_confirmation"
    <2>1. Reserve(o, v, q)
      BY <1>1 DEF TakeMore
    <2>2. live' \in Quantities
      BY <2>1 DEF TypeOK, Reserve, Quantities
    <2>3. UNCHANGED <<stock, ledger, taken>>
      BY <2>1 DEF Reserve
    <2>4. \A p \in Orders, w \in Variants :
             live'[p][w] = IF p = o /\ w = v THEN live[o][v] + q ELSE live[p][w]
      BY <2>1 DEF TypeOK, Reserve, Quantities
    <2>5. QED
      BY <1>1, <2>2, <2>3, <2>4 DEF TypeOK
  <1>2. CASE status[o] # "pending_confirmation"
    <2>1. Consume(o, v, q)
      BY <1>2 DEF TakeMore
    <2>2. stock' \in [Variants -> Nat] /\ ledger' \in [Variants -> Int]
      BY <2>1 DEF TypeOK, Consume
    <2>3. taken' \in [Orders -> [Variants -> Int]]
      BY <2>1 DEF TypeOK, Consume
    <2>4. \A p \in Orders, w \in Variants :
             taken'[p][w] = IF p = o /\ w = v THEN taken[o][v] + q ELSE taken[p][w]
      BY <2>1 DEF TypeOK, Consume
    <2>5. QED
      BY <1>2, <2>1, <2>2, <2>3, <2>4 DEF TypeOK, Consume
  <1>3. QED
    BY <1>1, <1>2

LEMMA GiveBackMoves ==
    ASSUME TypeOK, NEW o \in Orders, NEW v \in Variants, NEW q \in Nat \ {0},
           GiveBack(o, v, q)
    PROVE  /\ live' \in Quantities /\ stock' \in [Variants -> Nat]
           /\ ledger' \in [Variants -> Int]
           /\ taken' \in [Orders -> [Variants -> Int]]
           /\ \A p \in Orders, w \in Variants :
                 p # o \/ w # v =>
                     live'[p][w] = live[p][w] /\ taken'[p][w] = taken[p][w]
           /\ status[o] = "pending_confirmation" =>
                 live'[o][v] = live[o][v] - q /\ taken'[o][v] = taken[o][v]
           /\ status[o] # "pending_confirmation" =>
                 live'[o][v] = live[o][v] /\ taken'[o][v] = taken[o][v] - q
  <1>1. CASE status[o] = "pending_confirmation"
    <2>1. ReleaseReserved(o, v, q)
      BY <1>1 DEF GiveBack
    <2>2. live' \in Quantities
      BY <2>1 DEF TypeOK, ReleaseReserved, Quantities
    <2>3. UNCHANGED <<stock, ledger, taken>>
      BY <2>1 DEF ReleaseReserved
    <2>4. \A p \in Orders, w \in Variants :
             live'[p][w] = IF p = o /\ w = v THEN live[o][v] - q ELSE live[p][w]
      BY <2>1 DEF TypeOK, ReleaseReserved, Quantities
    <2>5. QED
      BY <1>1, <2>2, <2>3, <2>4 DEF TypeOK
  <1>2. CASE status[o] # "pending_confirmation"
    <2>1. Restore(o, v, q)
      BY <1>2 DEF GiveBack
    <2>2. stock' \in [Variants -> Nat] /\ ledger' \in [Variants -> Int]
      BY <2>1 DEF TypeOK, Restore
    <2>3. taken' \in [Orders -> [Variants -> Int]]
      BY <2>1 DEF TypeOK, Restore
    <2>4. \A p \in Orders, w \in Variants :
             taken'[p][w] = IF p = o /\ w = v THEN taken[o][v] - q ELSE taken[p][w]
      BY <2>1 DEF TypeOK, Restore
    <2>5. QED
      BY <1>2, <2>1, <2>2, <2>3, <2>4 DEF TypeOK, Restore
  <1>3. QED
    BY <1>1, <1>2

LEMMA HeldItem ==
    ASSUME TypeOK, NEW e \in Editors, held[e] # NoItem
    PROVE  /\ held[e] \in Item
           /\ held[e].order \in Orders /\ held[e].variant \in Variants
           /\ held[e].quantity \in Nat /\ held[e].gone \in BOOLEAN
  BY DEF TypeOK, Item

LEMMA QuantityIsPositive == Quantity \subseteq Nat \ {0}
  BY BoundsAssumption DEF Quantity

(* An edit through a current item moves the line and what is held for it   *)
(* by the same amount; through an outdated one it marks the order.         *)
LEMMA ChangeLineQuantityInv ==
    ASSUME IInv, NEW e \in Editors, NEW q \in Quantity, ChangeLineQuantity(e, q)
    PROVE  IInv'
  <1>. DEFINE item == held[e]
              o == item.order
              v == item.variant
              delta == q - item.quantity
  <1>1. /\ item \in Item /\ o \in Orders /\ v \in Variants
        /\ item.quantity \in Nat /\ q \in Nat \ {0}
    BY HeldItem, QuantityIsPositive DEF IInv, ChangeLineQuantity
  <1>2. /\ LockEditableOrder(o)
        /\ \/ delta > 0 /\ TakeMore(o, v, delta)
           \/ delta < 0 /\ GiveBack(o, v, -delta)
        /\ line' = [line EXCEPT ![o][v] = q]
        /\ held' = [held EXCEPT ![e] = NoItem]
        /\ misread' = IF Outdated(item) THEN misread \cup {o} ELSE misread
        /\ UNCHANGED <<status, lapsed, active, form, swept>>
        /\ ~item.gone
    BY DEF ChangeLineQuantity, Delta, MarkMisread
  <1>3. delta \in Int
    BY <1>1
  <1>4. /\ live' \in Quantities /\ stock' \in [Variants -> Nat]
        /\ ledger' \in [Variants -> Int]
        /\ taken' \in [Orders -> [Variants -> Int]]
        /\ \A p \in Orders, w \in Variants :
              p # o \/ w # v =>
                  live'[p][w] = live[p][w] /\ taken'[p][w] = taken[p][w]
        /\ status[o] = "pending_confirmation" =>
              live'[o][v] = live[o][v] + delta /\ taken'[o][v] = taken[o][v]
        /\ status[o] # "pending_confirmation" =>
              live'[o][v] = live[o][v] /\ taken'[o][v] = taken[o][v] + delta
    <2>1. CASE delta > 0 /\ TakeMore(o, v, delta)
      <3>1. delta \in Nat \ {0}
        BY <1>3, <2>1
      <3>2. TypeOK
        BY DEF IInv
      <3>. HIDE DEF delta, o, v
      <3>3. QED
        BY <1>1, <2>1, <3>1, <3>2, TakeMoreMoves
    <2>2. CASE delta < 0 /\ GiveBack(o, v, -delta)
      <3>1. -delta \in Nat \ {0} /\ \A n \in Int : n - (-delta) = n + delta
        BY <1>3, <2>2
      <3>2. TypeOK
        BY DEF IInv
      <3>3. live[o][v] \in Int /\ taken[o][v] \in Int
        BY <1>1, <3>2 DEF TypeOK, Quantities
      <3>. HIDE DEF delta, o, v
      <3>4. QED
        BY <1>1, <2>2, <3>1, <3>2, <3>3, GiveBackMoves
    <2>3. QED
      BY <1>2, <2>1, <2>2
  <1>5. line' \in Quantities
    BY <1>1, <1>2 DEF IInv, TypeOK, Quantities
  <1>6. TypeOK'
    BY <1>1, <1>2, <1>4, <1>5 DEF IInv, TypeOK
  <1>7. ASSUME NEW p \in Orders, NEW w \in Variants PROVE LineInv(p, w)'
    <2>1. line'[p][w] = IF p = o /\ w = v THEN q ELSE line[p][w]
      BY <1>1, <1>2 DEF IInv, TypeOK, Quantities
    <2>2. status[o] \in {"pending_confirmation", "confirmed"}
      BY <1>2 DEF LockEditableOrder, EDITABLE_STATUSES
    <2>3. o \notin misread' => line[o][v] = item.quantity /\ o \notin misread
      BY <1>2 DEF Outdated
    <2>4. LineInv(p, w) /\ LineInv(o, v)
      BY <1>1 DEF IInv, LinesInv
    <2>5. /\ live[p][w] \in Nat /\ lapsed[p][w] \in Nat /\ line[p][w] \in Nat
          /\ taken[p][w] \in Int
      BY DEF IInv, TypeOK, Quantities
    <2>6. CASE p = o /\ w = v
      <3>1. /\ status'[p] = status[p] /\ lapsed'[p][w] = lapsed[p][w]
            /\ swept' = swept /\ line'[p][w] = q
            /\ status[p] = "pending_confirmation" =>
                  live'[p][w] = live[p][w] + delta /\ taken'[p][w] = taken[p][w]
            /\ status[p] # "pending_confirmation" =>
                  live'[p][w] = live[p][w] /\ taken'[p][w] = taken[p][w] + delta
            /\ status[p] \in {"pending_confirmation", "confirmed"}
        BY <1>2, <1>4, <2>1, <2>2, <2>6
      <3>2. p \notin misread' => line[p][w] + delta = q /\ p \notin misread
        BY <1>1, <2>3, <2>5, <2>6
      <3>. HIDE DEF o, v, item, delta
      <3>3. q \in Int /\ delta \in Int
        BY <1>1, <1>3
      <3>4. CASE status[p] = "pending_confirmation"
        BY <2>4, <2>5, <3>1, <3>2, <3>3, <3>4 DEF LineInv, Holding, NoOrder
      <3>5. CASE status[p] = "confirmed"
        BY <2>4, <2>5, <3>1, <3>2, <3>3, <3>5 DEF LineInv, Holding, NoOrder
      <3>6. QED
        BY <3>1, <3>4, <3>5
    <2>7. CASE p # o \/ w # v
      <3>1. /\ live'[p][w] = live[p][w] /\ taken'[p][w] = taken[p][w]
            /\ line'[p][w] = line[p][w] /\ status'[p] = status[p]
            /\ lapsed'[p][w] = lapsed[p][w] /\ swept' = swept
            /\ misread \subseteq misread'
        BY <1>2, <1>4, <2>1, <2>7
      <3>2. QED
        BY <2>4, <3>1 DEF LineInv
    <2>8. QED
      BY <2>6, <2>7
  <1>8. QED
    BY <1>6, <1>7 DEF IInv, LinesInv

LEMMA AddLineInv ==
    ASSUME IInv, NEW e \in Editors, NEW q \in Quantity, AddLine(e, q)
    PROVE  IInv'
  <1>. DEFINE o == held[e].order
              v == held[e].variant
  <1>1. o \in Orders /\ v \in Variants /\ q \in Nat \ {0} /\ TypeOK
    BY HeldItem, QuantityIsPositive DEF IInv, AddLine
  <1>2. /\ LockEditableOrder(o)
        /\ line[o][v] = 0
        /\ TakeMore(o, v, q)
        /\ line' = [line EXCEPT ![o][v] = q]
        /\ held' = [held EXCEPT ![e] = NoItem]
        /\ UNCHANGED <<status, lapsed, active, form, swept, misread>>
    BY DEF AddLine
  <1>. HIDE DEF o, v
  <1>3. line' \in Quantities
    BY <1>1, <1>2 DEF TypeOK, Quantities
  <1>4. TypeOK'
    BY <1>1, <1>2, <1>3, TakeMoreMoves DEF TypeOK
  <1>5. ASSUME NEW p \in Orders, NEW w \in Variants PROVE LineInv(p, w)'
    <2>1. line'[p][w] = IF p = o /\ w = v THEN q ELSE line[p][w]
      BY <1>1, <1>2 DEF TypeOK, Quantities
    <2>2. status[o] \in {"pending_confirmation", "confirmed"}
      BY <1>2 DEF LockEditableOrder, EDITABLE_STATUSES
    <2>3. LineInv(p, w)
      BY DEF IInv, LinesInv
    <2>4. /\ live[p][w] \in Nat /\ lapsed[p][w] \in Nat /\ line[p][w] \in Nat
          /\ taken[p][w] \in Int
      BY <1>1 DEF TypeOK, Quantities
    <2>5. CASE p = o /\ w = v
      <3>1. CASE status[o] = "pending_confirmation"
        BY <1>1, <1>2, TakeMoreMoves, <2>1, <2>3, <2>4, <2>5, <3>1
           DEF LineInv, Holding, NoOrder
      <3>2. CASE status[o] = "confirmed"
        BY <1>1, <1>2, TakeMoreMoves, <2>1, <2>3, <2>4, <2>5, <3>2
           DEF LineInv, Holding, NoOrder
      <3>3. QED
        BY <2>2, <3>1, <3>2
    <2>6. CASE p # o \/ w # v
      <3>1. /\ live'[p][w] = live[p][w] /\ taken'[p][w] = taken[p][w]
            /\ line'[p][w] = line[p][w]
        BY <1>1, <1>2, TakeMoreMoves, <2>1, <2>6
      <3>2. QED
        BY <1>2, <2>3, <3>1 DEF LineInv
    <2>7. QED
      BY <2>5, <2>6
  <1>6. QED
    BY <1>4, <1>5 DEF IInv, LinesInv

LEMMA RemoveLineInv ==
    ASSUME IInv, NEW e \in Editors, RemoveLine(e)
    PROVE  IInv'
  <1>. DEFINE item == held[e]
              o == item.order
              v == item.variant
              q == item.quantity
  <1>1. /\ o \in Orders /\ v \in Variants /\ q \in Nat \ {0}
        /\ item \in Item /\ TypeOK
    <2>1. TypeOK /\ item # NoItem /\ q > 0
      BY DEF IInv, RemoveLine
    <2>2. QED
      BY <2>1, HeldItem
  <1>2. /\ LockEditableOrder(o)
        /\ GiveBack(o, v, q)
        /\ item.gone => line' = line /\ held' = [held EXCEPT ![e] = NoItem]
        /\ ~item.gone => line' = [line EXCEPT ![o][v] = 0] /\ held' = Deleted(e, o, v)
        /\ misread' = IF Outdated(item) THEN misread \cup {o} ELSE misread
        /\ UNCHANGED <<status, lapsed, active, form, swept>>
    BY DEF RemoveLine, MarkMisread
  <1>3. o \notin misread' => /\ ~item.gone
                            /\ line[o][v] = q
                            /\ o \notin misread
    BY <1>2 DEF Outdated
  <1>4. held' \in [Editors -> Item \cup {NoItem}]
    <2>1. CASE item.gone
      BY <1>1, <1>2, <2>1 DEF TypeOK
    <2>2. CASE ~item.gone
      <3>1. ASSUME NEW d \in Editors, held[d] # NoItem
            PROVE  [held[d] EXCEPT !.gone = TRUE] \in Item
        BY <1>1, <3>1, HeldItem DEF Item
      <3>2. ASSUME NEW d \in Editors
            PROVE  held[d] \in Item \cup {NoItem}
        BY <1>1 DEF TypeOK
      <3>3. QED
        BY <1>2, <2>2, <3>1, <3>2 DEF Deleted
    <2>3. QED
      BY <2>1, <2>2
  <1>5. line' \in Quantities
    <2>1. line \in Quantities
      BY <1>1 DEF TypeOK
    <2>2. [line EXCEPT ![o][v] = 0] \in Quantities
      <3>. HIDE DEF o, v, q, item
      <3>1. QED
        BY <1>1, <2>1 DEF Quantities
    <2>3. CASE item.gone
      BY <1>2, <2>1, <2>3
    <2>4. CASE ~item.gone
      BY <1>2, <2>2, <2>4
    <2>5. QED
      BY <2>3, <2>4
  <1>. HIDE DEF o, v, q
  <1>6. TypeOK'
    BY <1>1, <1>2, <1>4, <1>5, GiveBackMoves DEF TypeOK
  <1>7. ASSUME NEW p \in Orders, NEW w \in Variants PROVE LineInv(p, w)'
    <2>1. ~item.gone =>
             line'[p][w] = IF p = o /\ w = v THEN 0 ELSE line[p][w]
      BY <1>1, <1>2 DEF TypeOK, Quantities
    <2>2. status[o] \in {"pending_confirmation", "confirmed"}
      BY <1>2 DEF LockEditableOrder, EDITABLE_STATUSES
    <2>3. LineInv(p, w)
      BY DEF IInv, LinesInv
    <2>4. /\ live[p][w] \in Nat /\ lapsed[p][w] \in Nat /\ line[p][w] \in Nat
          /\ taken[p][w] \in Int /\ q \in Nat
      BY <1>1 DEF TypeOK, Quantities
    <2>5. CASE p = o /\ w = v
      <3>1. CASE status[o] = "pending_confirmation"
        BY <1>1, <1>2, <1>3, GiveBackMoves, <2>1, <2>3, <2>4, <2>5, <3>1
           DEF LineInv, Holding, NoOrder
      <3>2. CASE status[o] = "confirmed"
        BY <1>1, <1>2, <1>3, GiveBackMoves, <2>1, <2>3, <2>4, <2>5, <3>2
           DEF LineInv, Holding, NoOrder
      <3>3. QED
        BY <2>2, <3>1, <3>2
    <2>6. CASE p # o \/ w # v
      <3>1. /\ live'[p][w] = live[p][w] /\ taken'[p][w] = taken[p][w]
            /\ line'[p][w] = line[p][w] /\ misread \subseteq misread'
        BY <1>1, <1>2, GiveBackMoves, <2>1, <2>6
      <3>2. QED
        BY <1>2, <2>3, <3>1 DEF LineInv
    <2>7. QED
      BY <2>5, <2>6
  <1>8. QED
    BY <1>6, <1>7 DEF IInv, LinesInv

(* Steps that touch no order: the loads, the forms, the stock counts.      *)
LEMMA OrdersUntouched ==
    ASSUME IInv, TypeOK', UNCHANGED <<status, line, live, lapsed, taken, swept, misread>>
    PROVE  IInv'
  BY DEF IInv, LinesInv, LineInv

LEMMA LoadInv ==
    ASSUME IInv, NEW e \in Editors, NEW o \in Orders, NEW v \in Variants,
           LoadItem(e, o, v) \/ LoadVariant(e, o, v) \/ RequestEnds(e)
    PROVE  IInv'
  <1>1. [order |-> o, variant |-> v, quantity |-> line[o][v], gone |-> FALSE] \in Item
    BY DEF IInv, TypeOK, Quantities, Item
  <1>2. [order |-> o, variant |-> v, quantity |-> 0, gone |-> FALSE] \in Item
    BY DEF Item
  <1>3. held' \in [Editors -> Item \cup {NoItem}]
    BY <1>1, <1>2 DEF IInv, TypeOK, LoadItem, LoadVariant, RequestEnds
  <1>4. UNCHANGED <<rows, form, history>>
    BY DEF LoadItem, LoadVariant, RequestEnds
  <1>5. TypeOK'
    BY <1>3, <1>4 DEF IInv, TypeOK, rows, history
  <1>6. QED
    BY <1>4, <1>5, OrdersUntouched DEF rows, history

LEMMA FormInv ==
    ASSUME IInv, NEW f \in Forms, FormStep(f)
    PROVE  IInv'
  <1>1. CASE \E v \in Variants : OpenProductForm(f, v)
    <2>1. PICK v \in Variants : OpenProductForm(f, v)
      BY <1>1
    <2>2. [variant |-> v, stock_quantity |-> stock[v]] \in FormData
      BY DEF IInv, TypeOK, FormData
    <2>3. TypeOK'
      BY <2>1, <2>2 DEF IInv, TypeOK, OpenProductForm, rows, history
    <2>4. QED
      BY <2>1, <2>3, OrdersUntouched DEF OpenProductForm, rows, history
  <1>2. ASSUME NEW n \in Nat, NEW a \in BOOLEAN, SaveProductForm(f, n, a)
        PROVE  IInv'
    <2>1. form[f].variant \in Variants
      BY <1>2 DEF IInv, TypeOK, SaveProductForm, FormData
    <2>2. stock' \in [Variants -> Nat] /\ active' \subseteq Variants
      BY <1>2, <2>1 DEF IInv, TypeOK, SaveProductForm
    <2>3. TypeOK'
      BY <1>2, <2>2 DEF IInv, TypeOK, SaveProductForm, history
    <2>4. QED
      BY <1>2, <2>3, OrdersUntouched DEF SaveProductForm, history
  <1>3. form[f] # NoForm => form[f].stock_quantity \in Nat
    BY DEF IInv, TypeOK, FormData
  <1>4. QED
    BY <1>1, <1>2, <1>3, CountsAssumption DEF FormStep

LEMMA AdjustInv ==
    ASSUME IInv, NEW v \in Variants, NEW n \in Counts, Adjust(v, n)
    PROVE  IInv'
  <1>1. TypeOK'
    BY CountsAssumption DEF IInv, TypeOK, Adjust
  <1>2. QED
    BY <1>1, OrdersUntouched DEF Adjust

LEMMA StepInv == IInv /\ [Next]_vars => IInv'
  <1>. SUFFICES ASSUME IInv, [Next]_vars PROVE IInv'
    OBVIOUS
  <1>1. ASSUME NEW o \in Orders, NEW cart \in Carts, CreateOrder(o, cart)
        PROVE  IInv'
    BY <1>1, CreateOrderInv
  <1>2. ASSUME NEW o \in Orders, NEW to \in Status, TransitionStatus(o, to)
        PROVE  IInv'
    <2>1. CASE to = "confirmed"
      BY <1>2, <2>1, CommitInv
    <2>2. CASE to \in {"cancelled", "expired"} /\ status[o] = "pending_confirmation"
      BY <1>2, <2>2, ReleaseInv
    <2>3. CASE to \in {"cancelled", "returned"} /\ status[o] # "pending_confirmation"
      BY <1>2, <2>3, RestoreInv
    <2>4. CASE to \notin {"confirmed", "cancelled", "expired", "returned"}
      BY <1>2, <2>4, AdvanceInv
    <2>5. /\ to = "expired" => status[o] = "pending_confirmation"
          /\ to = "returned" => status[o] # "pending_confirmation"
      BY <1>2, StatusTable
         DEF TransitionStatus, ALLOWED_TRANSITIONS, Status, IInv, TypeOK, NoOrder
    <2>6. QED
      BY <2>1, <2>2, <2>3, <2>4, <2>5
  <1>3. ASSUME NEW e \in Editors, Edit(e)
        PROVE  IInv'
    <2>1. CASE \E o \in Orders, v \in Variants : LoadItem(e, o, v) \/ LoadVariant(e, o, v)
      BY <2>1, LoadInv
    <2>2. CASE RequestEnds(e)
      <3>1. held[e].order \in Orders /\ held[e].variant \in Variants
        BY <2>2, HeldItem DEF IInv, RequestEnds
      <3>2. QED
        BY <2>2, <3>1, LoadInv
    <2>3. ASSUME NEW q \in Quantity, ChangeLineQuantity(e, q) \/ AddLine(e, q)
          PROVE  IInv'
      BY <2>3, ChangeLineQuantityInv, AddLineInv
    <2>4. CASE RemoveLine(e)
      BY <2>4, RemoveLineInv
    <2>5. QED
      BY <1>3, <2>1, <2>2, <2>3, <2>4 DEF Edit
  <1>4. ASSUME NEW f \in Forms, FormStep(f)
        PROVE  IInv'
    BY <1>4, FormInv
  <1>5. ASSUME NEW v \in Variants, NEW n \in Counts, Adjust(v, n)
        PROVE  IInv'
    BY <1>5, AdjustInv
  <1>6. CASE TimePasses
    BY <1>6, ExpiresInv DEF TimePasses
  <1>7. CASE ReleaseExpiredReservations
    BY <1>7, SweepInv
  <1>8. CASE UNCHANGED vars
    <2>1. TypeOK'
      BY <1>8 DEF IInv, TypeOK, vars
    <2>2. QED
      BY <1>8, <2>1, OrdersUntouched DEF vars
  <1>9. QED
    BY <1>1, <1>2, <1>3, <1>4, <1>5, <1>6, <1>7, <1>8 DEF Next

LEMMA InvariantHolds == Spec => []IInv
  <1>1. QED
    BY InitInv, StepInv, PTL DEF Spec

LEMMA IInvImplies ==
    IInv => /\ TypeOK
            /\ ReservedOnlyWhilePending
            /\ OrderHoldsItsLines
            /\ NeverHoldsMoreThanOrdered
  BY DEF IInv, LinesInv, LineInv, ReservedOnlyWhilePending, OrderHoldsItsLines,
       Balanced, NeverHoldsMoreThanOrdered

(* No column ever goes below zero: neither a stock_quantity nor the units  *)
(* of a reservation, in any interleaving of the shop's transactions.       *)
THEOREM TypeCorrect == Spec => []TypeOK
  <1>1. IInv => TypeOK
    BY IInvImplies
  <1>2. QED
    BY <1>1, InvariantHolds, PTL

(* Whatever the merchant, the sweeper and the editors do, an order that is *)
(* not pending has no reservation left.                                    *)
THEOREM NoReservationAfterPending == Spec => []ReservedOnlyWhilePending
  <1>1. IInv => ReservedOnlyWhilePending
    BY IInvImplies
  <1>2. QED
    BY <1>1, InvariantHolds, PTL

(* The sweeper and outdated edits are the only ways in which an order can  *)
(* come to hold anything else than the units of its lines.                 *)
THEOREM OnlySweeperOrMisreadUnbalances == Spec => []OrderHoldsItsLines
  <1>1. IInv => OrderHoldsItsLines
    BY IInvImplies
  <1>2. QED
    BY <1>1, InvariantHolds, PTL

(* The sweeper can only make an order hold too little, never too much.     *)
THEOREM SweeperNeverOverholds == Spec => []NeverHoldsMoreThanOrdered
  <1>1. IInv => NeverHoldsMoreThanOrdered
    BY IInvImplies
  <1>2. QED
    BY <1>1, InvariantHolds, PTL

(* What LinesFinalOncePicked says of one order in one step.                *)
FinalFor(o) ==
    status[o] \notin EDITABLE_STATUSES \cup {NoOrder} =>
        /\ line'[o] = line[o]
        /\ status'[o] = status[o] => taken'[o] = taken[o]

LEMMA TransitionFinal ==
    ASSUME IInv, NEW o \in Orders, NEW to \in Status, TransitionStatus(o, to),
           NEW p \in Orders
    PROVE  FinalFor(p)
  <1>1. line' = line
    BY DEF TransitionStatus
  <1>2. CASE p = o
    <2>1. status[o] \in Status /\ to \in ALLOWED_TRANSITIONS[status[o]]
      BY DEF TransitionStatus, IInv, TypeOK
    <2>2. to # status[o]
      BY <2>1 DEF Status, ALLOWED_TRANSITIONS
    <2>3. status'[o] = to
      BY DEF TransitionStatus, IInv, TypeOK
    <2>4. QED
      BY <1>1, <1>2, <2>2, <2>3 DEF FinalFor
  <1>3. CASE p # o
    <2>1. taken'[p] = taken[p]
      BY <1>3 DEF TransitionStatus, CommitAllForOrder, ReleaseAllForOrder,
           RestoreAllForOrder, IInv, TypeOK
    <2>2. QED
      BY <1>1, <2>1 DEF FinalFor
  <1>4. QED
    BY <1>2, <1>3

LEMMA EditFinal ==
    ASSUME IInv, NEW e \in Editors, Edit(e), NEW p \in Orders
    PROVE  FinalFor(p)
  <1>1. CASE UNCHANGED <<line, taken>>
    BY <1>1 DEF FinalFor
  <1>2. ASSUME NEW o \in Orders, NEW v \in Variants, NEW q \in Int,
               LockEditableOrder(o),
               \/ line' = line
               \/ line' = [line EXCEPT ![o][v] = q],
               \/ taken' = taken
               \/ \E n \in Int : taken' = [taken EXCEPT ![o][v] = @ + n]
        PROVE  FinalFor(p)
    <2>1. CASE p = o
      BY <1>2, <2>1 DEF FinalFor, LockEditableOrder
    <2>2. CASE p # o
      BY <1>2, <2>2 DEF FinalFor, IInv, TypeOK, Quantities
    <2>3. QED
      BY <2>1, <2>2
  <1>3. CASE \/ \E o \in Orders, v \in Variants : LoadItem(e, o, v) \/ LoadVariant(e, o, v)
             \/ RequestEnds(e)
    BY <1>1, <1>3 DEF LoadItem, LoadVariant, RequestEnds, rows, history
  <1>4. ASSUME NEW o \in Orders, NEW v \in Variants, NEW q \in Int,
               TakeMore(o, v, q) \/ GiveBack(o, v, q)
        PROVE  taken' = taken \/ \E n \in Int : taken' = [taken EXCEPT ![o][v] = @ + n]
    <2>1. taken[o][v] - q = taken[o][v] + (-q)
      BY DEF IInv, TypeOK
    <2>2. \/ taken' = taken
          \/ taken' = [taken EXCEPT ![o][v] = @ + q]
          \/ taken' = [taken EXCEPT ![o][v] = @ - q]
      BY <1>4 DEF TakeMore, GiveBack, Reserve, Consume, ReleaseReserved, Restore
    <2>3. -q \in Int
      OBVIOUS
    <2>4. QED
      BY <2>1, <2>2, <2>3
  <1>5. held[e] # NoItem =>
           /\ held[e].order \in Orders /\ held[e].variant \in Variants
           /\ held[e].quantity \in Int
    BY HeldItem DEF IInv
  <1>6. ASSUME NEW q \in Quantity, ChangeLineQuantity(e, q)
        PROVE  FinalFor(p)
    <2>1. /\ held[e] # NoItem /\ LockEditableOrder(held[e].order) /\ q \in Int
          /\ line' = [line EXCEPT ![held[e].order][held[e].variant] = q]
      BY <1>6, QuantityIsPositive DEF ChangeLineQuantity
    <2>2. \E n \in Int : \/ TakeMore(held[e].order, held[e].variant, n)
                          \/ GiveBack(held[e].order, held[e].variant, n)
      BY <1>5, <1>6, <2>1 DEF ChangeLineQuantity, Delta
    <2>3. QED
      BY <1>2, <1>4, <1>5, <2>1, <2>2
  <1>7. ASSUME NEW q \in Quantity, AddLine(e, q)
        PROVE  FinalFor(p)
    <2>1. /\ held[e] # NoItem /\ LockEditableOrder(held[e].order) /\ q \in Int
          /\ line' = [line EXCEPT ![held[e].order][held[e].variant] = q]
          /\ TakeMore(held[e].order, held[e].variant, q)
      BY <1>7, QuantityIsPositive DEF AddLine
    <2>2. QED
      BY <1>2, <1>4, <1>5, <2>1
  <1>8. CASE RemoveLine(e)
    <2>1. /\ held[e] # NoItem /\ LockEditableOrder(held[e].order)
          /\ \/ line' = line
             \/ line' = [line EXCEPT ![held[e].order][held[e].variant] = 0]
          /\ GiveBack(held[e].order, held[e].variant, held[e].quantity)
      BY <1>8 DEF RemoveLine
    <2>2. QED
      BY <1>2, <1>4, <1>5, <2>1
  <1>9. QED
    BY <1>3, <1>6, <1>7, <1>8 DEF Edit

(* Once an order is past Confirmed no request, however old, changes its    *)
(* lines, and its units move only in the step that moves its status.       *)
THEOREM FinalOncePicked == Spec => LinesFinalOncePicked
  <1>1. ASSUME IInv, [Next]_vars
        PROVE  [\A o \in Orders : FinalFor(o)]_vars
    <2>. SUFFICES ASSUME Next, NEW p \in Orders PROVE FinalFor(p)
      BY <1>1
    <2>1. ASSUME NEW o \in Orders, NEW cart \in Carts, CreateOrder(o, cart)
          PROVE  FinalFor(p)
      <3>1. CASE p = o
        BY <2>1, <3>1 DEF CreateOrder, FinalFor
      <3>2. CASE p # o
        BY <1>1, <2>1, <3>2 DEF CreateOrder, FinalFor, history, IInv, TypeOK, Quantities
      <3>3. QED
        BY <3>1, <3>2
    <2>2. ASSUME NEW o \in Orders, NEW to \in Status, TransitionStatus(o, to)
          PROVE  FinalFor(p)
      BY <1>1, <2>2, TransitionFinal
    <2>3. ASSUME NEW e \in Editors, Edit(e)
          PROVE  FinalFor(p)
      BY <1>1, <2>3, EditFinal
    <2>4. CASE \/ \E f \in Forms : FormStep(f)
               \/ \E v \in Variants, n \in Counts : Adjust(v, n)
               \/ TimePasses
               \/ ReleaseExpiredReservations
      BY <2>4 DEF FinalFor, FormStep, OpenProductForm, SaveProductForm, Adjust,
           TimePasses, ReservationExpires, ReleaseExpiredReservations, rows, history
    <2>5. QED
      BY <2>1, <2>2, <2>3, <2>4 DEF Next
  <1>2. QED
    BY <1>1, InvariantHolds, PTL DEF Spec, LinesFinalOncePicked, FinalFor

-----------------------------------------------------------------------------
(* What is promised.                                                       *)

LEMMA ActiveReservedIsSum ==
    ASSUME NEW v \in Variants
    PROVE  ActiveReserved(v) = SumFunctionOnSet([o \in Orders |-> live[o][v]], Orders)
  BY DEF ActiveReserved, SumFunction

LEMMA ActiveReservedNat ==
    ASSUME TypeOK, NEW v \in Variants
    PROVE  ActiveReserved(v) \in Nat
  <1>1. \A o \in Orders : [p \in Orders |-> live[p][v]][o] \in Nat
    BY DEF TypeOK, Quantities
  <1> QED
    BY <1>1, SumNat, ActiveReservedIsSum, OrdersAssumption

(* The promises of one order are replaced by others.                       *)
LEMMA ActiveReservedMoves ==
    ASSUME TypeOK, live' \in Quantities, NEW o \in Orders, NEW v \in Variants,
           \A p \in Orders \ {o} : live'[p][v] = live[p][v]
    PROVE  ActiveReserved(v)' = ActiveReserved(v) + live'[o][v] - live[o][v]
  <1> DEFINE f == [p \in Orders |-> live[p][v]]
             g == [p \in Orders |-> live'[p][v]]
  <1>1. \A p \in Orders : f[p] \in Int /\ g[p] \in Int
    BY DEF TypeOK, Quantities
  <1>2. \A p \in Orders \ {o} : g[p] = f[p]
    OBVIOUS
  <1>3. SumFunctionOnSet(g, Orders) = SumFunctionOnSet(f, Orders) + g[o] - f[o]
    BY <1>1, <1>2, SumChange, OrdersAssumption
  <1>4. ActiveReserved(v)' = SumFunctionOnSet(g, Orders)
    BY DEF ActiveReserved, SumFunction
  <1>5. ActiveReserved(v) = SumFunctionOnSet(f, Orders)
    BY ActiveReservedIsSum
  <1> QED
    BY <1>3, <1>4, <1>5

(* The heart of it: a step that changes the promises of v to one order at  *)
(* most keeps them covered when stock loses no more than the order's       *)
(* promises, or when what is taken was available.                          *)
LEMMA StaysCovered ==
    ASSUME TypeOK, TypeOK', NEW o \in Orders, NEW v \in Variants,
           \A p \in Orders \ {o} : live'[p][v] = live[p][v],
           Covered(v),
           \/ live'[o][v] - live[o][v] <= stock'[v] - stock[v]
           \/ live'[o][v] - live[o][v] + ActiveReserved(v) <= stock'[v]
    PROVE  Covered(v)'
  <1>1. ActiveReserved(v)' = ActiveReserved(v) + live'[o][v] - live[o][v]
    BY ActiveReservedMoves DEF TypeOK
  <1>2. ActiveReserved(v) \in Int
    BY ActiveReservedNat
  <1>3. /\ live'[o][v] \in Int /\ live[o][v] \in Int
        /\ stock'[v] \in Int /\ stock[v] \in Int
    BY DEF TypeOK, Quantities
  <1>4. ActiveReserved(v) <= stock[v]
    BY DEF Covered
  <1>5. ActiveReserved(v)' <= stock'[v]
    BY <1>1, <1>2, <1>3, <1>4
  <1> QED
    BY <1>5 DEF Covered

LEMMA UntouchedStaysCovered ==
    ASSUME NEW v \in Variants, Covered(v), live' = live, stock'[v] = stock[v]
    PROVE  Covered(v)'
  BY DEF Covered, ActiveReserved

LEMMA CreateOrderCovered ==
    ASSUME TypeOK, TypeOK', NEW o \in Orders, NEW cart \in Carts, CreateOrder(o, cart),
           NEW v \in Variants, Covered(v)
    PROVE  Covered(v)'
  <1>1. live' = [live EXCEPT ![o] = cart] /\ stock' = stock
    BY DEF CreateOrder, history
  <1>2. \A p \in Orders \ {o} : live'[p][v] = live[p][v]
    BY <1>1 DEF TypeOK, Quantities
  <1>3. live'[o][v] = cart[v] /\ cart[v] \in Nat /\ live[o][v] \in Nat /\ stock[v] \in Nat
    BY <1>1, BoundsAssumption DEF TypeOK, Quantities, Carts
  <1>4. cart[v] > 0 => ActiveReserved(v) + cart[v] <= stock[v]
    <2>1. cart[v] > 0 => stock[v] - ActiveReserved(v) >= cart[v]
      BY DEF CreateOrder, Available
    <2> QED
      BY <1>3, <2>1, ActiveReservedNat
  <1>5. CASE cart[v] = 0
    <2>1. live'[o][v] - live[o][v] <= stock'[v] - stock[v]
      BY <1>1, <1>3, <1>5
    <2> QED
      BY <1>2, <2>1, StaysCovered
  <1>6. CASE cart[v] > 0
    <2>1. live'[o][v] - live[o][v] + ActiveReserved(v) <= stock'[v]
      BY <1>1, <1>3, <1>4, <1>6, ActiveReservedNat
    <2> QED
      BY <1>2, <2>1, StaysCovered
  <1> QED
    BY <1>3, <1>5, <1>6

LEMMA TransitionCovered ==
    ASSUME IInv, TypeOK', NEW o \in Orders, NEW to \in Status, TransitionStatus(o, to),
           NEW v \in Variants, Covered(v)
    PROVE  Covered(v)' \/ ConfirmedLate(v)
  <1> USE DEF IInv
  <1>1. /\ live[o][v] \in Nat /\ lapsed[o][v] \in Nat /\ stock[v] \in Nat
        /\ line[o][v] \in Nat
    BY DEF TypeOK, Quantities
  <1>2. CASE CommitAllForOrder(o) /\ to = "confirmed"
    <2>1. /\ live'[o][v] = 0
          /\ \A p \in Orders \ {o} : live'[p][v] = live[p][v]
          /\ stock'[v] = stock[v] - (live[o][v] + lapsed[o][v])
      BY <1>2 DEF CommitAllForOrder, TypeOK, Quantities
    <2>2. CASE lapsed[o][v] = 0
      <3>1. live'[o][v] - live[o][v] <= stock'[v] - stock[v]
        BY <1>1, <2>1, <2>2
      <3> QED
        BY <2>1, <3>1, StaysCovered
    <2>3. CASE lapsed[o][v] > 0
      <3>1. status[o] = "pending_confirmation"
        BY <1>1, <2>3 DEF LinesInv, LineInv
      <3>2. status'[o] = "confirmed"
        BY <1>2 DEF TransitionStatus, TypeOK
      <3> QED
        BY <2>3, <3>1, <3>2 DEF ConfirmedLate
    <2> QED
      BY <1>1, <2>2, <2>3
  <1>3. CASE ReleaseAllForOrder(o)
    <2>1. /\ live'[o][v] = 0 /\ stock' = stock
          /\ \A p \in Orders \ {o} : live'[p][v] = live[p][v]
      BY <1>3 DEF ReleaseAllForOrder, TypeOK, Quantities
    <2>2. live'[o][v] - live[o][v] <= stock'[v] - stock[v]
      BY <1>1, <2>1
    <2> QED
      BY <2>1, <2>2, StaysCovered
  <1>4. CASE RestoreAllForOrder(o)
    <2>1. live' = live /\ stock'[v] = stock[v] + line[o][v]
      BY <1>4 DEF RestoreAllForOrder
    <2>2. live'[o][v] - live[o][v] <= stock'[v] - stock[v]
      BY <1>1, <2>1
    <2> QED
      BY <2>1, <2>2, StaysCovered
  <1>5. CASE UNCHANGED <<live, lapsed, stock, ledger, taken>>
    BY <1>5, UntouchedStaysCovered
  <1> QED
    BY <1>2, <1>3, <1>4, <1>5 DEF TransitionStatus, Commits

LEMMA TakeMoreCovered ==
    ASSUME TypeOK, TypeOK', NEW o \in Orders, NEW w \in Variants, NEW q \in Nat \ {0},
           TakeMore(o, w, q), NEW v \in Variants, Covered(v)
    PROVE  Covered(v)'
  <1>1. \A p \in Orders \ {o} : live'[p][v] = live[p][v]
    BY TakeMoreMoves
  <1>2. /\ stock[v] \in Nat /\ live[o][v] \in Nat /\ ActiveReserved(v) \in Nat
    BY ActiveReservedNat DEF TypeOK, Quantities
  <1>3. CASE Reserve(o, w, q)
    <2>1. stock' = stock /\ stock[w] - ActiveReserved(w) >= q
      BY <1>3 DEF Reserve, Available
    <2>2. live'[o][v] = IF v = w THEN live[o][v] + q ELSE live[o][v]
      BY <1>3 DEF Reserve, TypeOK, Quantities
    <2>3. CASE v = w
      <3>1. live'[o][v] - live[o][v] + ActiveReserved(v) <= stock'[v]
        BY <1>2, <2>1, <2>2, <2>3
      <3> QED
        BY <1>1, <3>1, StaysCovered
    <2>4. CASE v # w
      <3>1. live'[o][v] - live[o][v] <= stock'[v] - stock[v]
        BY <1>2, <2>1, <2>2, <2>4
      <3> QED
        BY <1>1, <3>1, StaysCovered
    <2> QED
      BY <2>3, <2>4
  <1>4. CASE Consume(o, w, q)
    <2>1. live' = live /\ stock[w] - ActiveReserved(w) >= q
      BY <1>4 DEF Consume, Available
    <2>2. stock'[v] = IF v = w THEN stock[v] - q ELSE stock[v]
      BY <1>4 DEF Consume, TypeOK
    <2>3. CASE v = w
      <3>1. live'[o][v] - live[o][v] + ActiveReserved(v) <= stock'[v]
        BY <1>2, <2>1, <2>2, <2>3
      <3> QED
        BY <1>1, <3>1, StaysCovered
    <2>4. CASE v # w
      BY <2>1, <2>2, <2>4, UntouchedStaysCovered
    <2> QED
      BY <2>3, <2>4
  <1> QED
    BY <1>3, <1>4 DEF TakeMore

LEMMA GiveBackCovered ==
    ASSUME TypeOK, TypeOK', NEW o \in Orders, NEW w \in Variants, NEW q \in Nat \ {0},
           GiveBack(o, w, q), NEW v \in Variants, Covered(v)
    PROVE  Covered(v)'
  <1>1. \A p \in Orders \ {o} : live'[p][v] = live[p][v]
    BY GiveBackMoves
  <1>2. stock[v] \in Nat /\ live[o][v] \in Nat
    BY DEF TypeOK, Quantities
  <1>3. /\ live'[o][v] = live[o][v] \/ live'[o][v] = live[o][v] - q
        /\ stock'[v] = stock[v] \/ stock'[v] = stock[v] + q
    BY DEF GiveBack, ReleaseReserved, Restore, TypeOK, Quantities
  <1>4. live'[o][v] - live[o][v] <= stock'[v] - stock[v]
    BY <1>2, <1>3
  <1> QED
    BY <1>1, <1>4, StaysCovered

LEMMA EditCovered ==
    ASSUME TypeOK, TypeOK', NEW e \in Editors, Edit(e), NEW v \in Variants, Covered(v)
    PROVE  Covered(v)'
  <1>1. CASE UNCHANGED <<live, stock>>
    BY <1>1, UntouchedStaysCovered
  <1>2. CASE \/ \E o \in Orders, w \in Variants : LoadItem(e, o, w) \/ LoadVariant(e, o, w)
             \/ RequestEnds(e)
    BY <1>1, <1>2 DEF LoadItem, LoadVariant, RequestEnds, rows
  <1>3. ASSUME held[e] # NoItem, NEW q \in Nat \ {0},
               \/ TakeMore(held[e].order, held[e].variant, q)
               \/ GiveBack(held[e].order, held[e].variant, q)
        PROVE  Covered(v)'
    BY <1>3, HeldItem, TakeMoreCovered, GiveBackCovered
  <1>4. held[e] # NoItem => held[e].quantity \in Nat
    BY HeldItem
  <1>5. ASSUME NEW q \in Quantity, ChangeLineQuantity(e, q)
        PROVE  Covered(v)'
    <2>1. held[e] # NoItem /\ q \in Nat /\ Delta(held[e], q) \in Int
      BY <1>4, <1>5, QuantityIsPositive DEF ChangeLineQuantity, Delta
    <2>2. \/ /\ Delta(held[e], q) > 0
             /\ TakeMore(held[e].order, held[e].variant, Delta(held[e], q))
          \/ /\ Delta(held[e], q) < 0
             /\ GiveBack(held[e].order, held[e].variant, -Delta(held[e], q))
      BY <1>5 DEF ChangeLineQuantity
    <2> QED
      BY <1>3, <2>1, <2>2
  <1>6. ASSUME NEW q \in Quantity, AddLine(e, q)
        PROVE  Covered(v)'
    BY <1>3, <1>6, QuantityIsPositive DEF AddLine
  <1>7. CASE RemoveLine(e)
    BY <1>3, <1>4, <1>7 DEF RemoveLine
  <1> QED
    BY <1>2, <1>5, <1>6, <1>7 DEF Edit

(* What PromisesKept says of one variant in one step.                      *)
KeptFor(v) == Covered(v) => Covered(v)' \/ CountedByHand(v) \/ ConfirmedLate(v)

LEMMA FormKept ==
    ASSUME TypeOK, NEW f \in Forms, FormStep(f), NEW v \in Variants
    PROVE  KeptFor(v)
  <1>1. CASE \E w \in Variants : OpenProductForm(f, w)
    BY <1>1, UntouchedStaysCovered DEF OpenProductForm, rows, KeptFor
  <1>2. ASSUME NEW n, NEW a, SaveProductForm(f, n, a)
        PROVE  KeptFor(v)
    <2>1. CASE form[f].variant = v
      <3>1. form[f] # NoForm /\ form'[f] = NoForm
        BY <1>2 DEF SaveProductForm, TypeOK
      <3> QED
        BY <2>1, <3>1 DEF KeptFor, CountedByHand, FormSaved
    <2>2. CASE form[f].variant # v
      <3>1. live' = live /\ stock'[v] = stock[v]
        BY <1>2, <2>2 DEF SaveProductForm, TypeOK
      <3> QED
        BY <3>1, UntouchedStaysCovered DEF KeptFor
    <2> QED
      BY <2>1, <2>2
  <1> QED
    BY <1>1, <1>2 DEF FormStep

LEMMA AdjustKept ==
    ASSUME TypeOK, NEW w \in Variants, NEW n \in Counts, Adjust(w, n), NEW v \in Variants
    PROVE  KeptFor(v)
  <1>1. CASE v = w
    BY <1>1 DEF KeptFor, CountedByHand
  <1>2. CASE v # w
    <2>1. live' = live /\ stock'[v] = stock[v]
      BY <1>2 DEF Adjust, TypeOK
    <2> QED
      BY <2>1, UntouchedStaysCovered DEF KeptFor
  <1> QED
    BY <1>1, <1>2

LEMMA ExpiresKept ==
    ASSUME TypeOK, TypeOK', NEW o \in Orders, NEW w \in Variants, NEW k \in Quantity,
           ReservationExpires(o, w, k), NEW v \in Variants, Covered(v)
    PROVE  Covered(v)'
  <1>1. k \in Nat
    BY QuantityIsPositive
  <1>2. /\ \A p \in Orders \ {o} : live'[p][v] = live[p][v]
        /\ live'[o][v] = IF v = w THEN live[o][v] - k ELSE live[o][v]
        /\ stock' = stock
    BY <1>1 DEF ReservationExpires, TypeOK, Quantities
  <1>3. live[o][v] \in Nat /\ stock[v] \in Nat
    BY DEF TypeOK, Quantities
  <1>4. live'[o][v] - live[o][v] <= stock'[v] - stock[v]
    BY <1>1, <1>2, <1>3
  <1> QED
    BY <1>2, <1>4, StaysCovered

(* For any number of orders, variants and requests: what was promised to   *)
(* customers stays on the shelf, whatever transactions commit, until the   *)
(* merchant types a count or an order is confirmed after its reservation   *)
(* ran out (inventory/services.py, orders/state_machine.py, editing.py).   *)
THEOREM PromisesAreKept == Spec => PromisesKept
  <1>1. ASSUME IInv, [Next]_vars
        PROVE  [\A v \in Variants : KeptFor(v)]_vars
    <2>. SUFFICES ASSUME Next, NEW v \in Variants PROVE KeptFor(v)
      BY <1>1
    <2>1. TypeOK /\ TypeOK'
      BY <1>1, StepInv DEF IInv
    <2>2. ASSUME NEW o \in Orders, NEW cart \in Carts, CreateOrder(o, cart)
          PROVE  KeptFor(v)
      BY <2>1, <2>2, CreateOrderCovered DEF KeptFor
    <2>3. ASSUME NEW o \in Orders, NEW to \in Status, TransitionStatus(o, to)
          PROVE  KeptFor(v)
      BY <1>1, <2>1, <2>3, TransitionCovered DEF KeptFor
    <2>4. ASSUME NEW e \in Editors, Edit(e)
          PROVE  KeptFor(v)
      BY <2>1, <2>4, EditCovered DEF KeptFor
    <2>5. ASSUME NEW f \in Forms, FormStep(f)
          PROVE  KeptFor(v)
      BY <2>1, <2>5, FormKept
    <2>6. ASSUME NEW w \in Variants, NEW n \in Counts, Adjust(w, n)
          PROVE  KeptFor(v)
      BY <2>1, <2>6, AdjustKept
    <2>7. CASE TimePasses
      BY <2>1, <2>7, ExpiresKept DEF TimePasses, KeptFor
    <2>8. CASE ReleaseExpiredReservations
      BY <2>8, UntouchedStaysCovered DEF ReleaseExpiredReservations, KeptFor
    <2> QED
      BY <2>2, <2>3, <2>4, <2>5, <2>6, <2>7, <2>8 DEF Next
  <1> QED
    BY <1>1, InvariantHolds, PTL DEF Spec, PromisesKept, KeptFor

(* What OnlyFormsGoUnaudited says of one variant in one step.              *)
AuditedFor(v) == stock'[v] - stock[v] = ledger'[v] - ledger[v] \/ FormSaved(v)

LEMMA EditAudited ==
    ASSUME TypeOK, NEW e \in Editors, Edit(e), NEW v \in Variants
    PROVE  stock'[v] - stock[v] = ledger'[v] - ledger[v]
  <1>1. stock[v] \in Int /\ ledger[v] \in Int
    BY DEF TypeOK
  <1>2. CASE UNCHANGED <<stock, ledger>>
    BY <1>1, <1>2
  <1>3. ASSUME NEW o, NEW w \in Variants, NEW q \in Int,
               TakeMore(o, w, q) \/ GiveBack(o, w, q)
        PROVE  stock'[v] - stock[v] = ledger'[v] - ledger[v]
    <2>1. \/ UNCHANGED <<stock, ledger>>
          \/ /\ stock' = [stock EXCEPT ![w] = @ - q]
             /\ ledger' = [ledger EXCEPT ![w] = @ - q]
          \/ /\ stock' = [stock EXCEPT ![w] = @ + q]
             /\ ledger' = [ledger EXCEPT ![w] = @ + q]
      BY <1>3 DEF TakeMore, GiveBack, Reserve, Consume, ReleaseReserved, Restore
    <2> QED
      BY <1>1, <2>1 DEF TypeOK
  <1>4. held[e] # NoItem => held[e].variant \in Variants /\ held[e].quantity \in Int
    BY HeldItem
  <1>5. CASE \/ \E o \in Orders, w \in Variants : LoadItem(e, o, w) \/ LoadVariant(e, o, w)
             \/ RequestEnds(e)
    BY <1>2, <1>5 DEF LoadItem, LoadVariant, RequestEnds, rows, history
  <1>6. ASSUME NEW q \in Quantity, ChangeLineQuantity(e, q)
        PROVE  stock'[v] - stock[v] = ledger'[v] - ledger[v]
    <2>1. held[e] # NoItem /\ Delta(held[e], q) \in Int /\ -Delta(held[e], q) \in Int
      BY <1>4, <1>6, QuantityIsPositive DEF ChangeLineQuantity, Delta
    <2>2. \/ TakeMore(held[e].order, held[e].variant, Delta(held[e], q))
          \/ GiveBack(held[e].order, held[e].variant, -Delta(held[e], q))
      BY <1>6 DEF ChangeLineQuantity
    <2> QED
      BY <1>3, <1>4, <2>1, <2>2
  <1>7. ASSUME NEW q \in Quantity, AddLine(e, q)
        PROVE  stock'[v] - stock[v] = ledger'[v] - ledger[v]
    BY <1>3, <1>4, <1>7, QuantityIsPositive DEF AddLine
  <1>8. CASE RemoveLine(e)
    BY <1>3, <1>4, <1>8 DEF RemoveLine
  <1> QED
    BY <1>5, <1>6, <1>7, <1>8 DEF Edit

LEMMA TransitionAudited ==
    ASSUME TypeOK, NEW o \in Orders, NEW to \in Status, TransitionStatus(o, to),
           NEW v \in Variants
    PROVE  stock'[v] - stock[v] = ledger'[v] - ledger[v]
  <1>1. /\ stock[v] \in Int /\ ledger[v] \in Int
        /\ live[o][v] \in Int /\ lapsed[o][v] \in Int /\ line[o][v] \in Int
    BY DEF TypeOK, Quantities
  <1>2. \/ UNCHANGED <<stock, ledger>>
        \/ /\ stock'[v] = stock[v] - (live[o][v] + lapsed[o][v])
           /\ ledger'[v] = ledger[v] - (live[o][v] + lapsed[o][v])
        \/ /\ stock'[v] = stock[v] + line[o][v]
           /\ ledger'[v] = ledger[v] + line[o][v]
    BY DEF TransitionStatus, CommitAllForOrder, ReleaseAllForOrder, RestoreAllForOrder
  <1> QED
    BY <1>1, <1>2

(* For every value of the constants: a step that changes a stock count     *)
(* writes an InventoryAdjustment for the same difference, unless it saves  *)
(* a product form with that variant.                                       *)
THEOREM AuditedButForForms == Spec => OnlyFormsGoUnaudited
  <1>1. ASSUME IInv, [Next]_vars
        PROVE  [\A v \in Variants : AuditedFor(v)]_vars
    <2>. SUFFICES ASSUME Next, NEW v \in Variants PROVE AuditedFor(v)
      BY <1>1
    <2>1. TypeOK /\ stock[v] \in Int /\ ledger[v] \in Int
      BY <1>1 DEF IInv, TypeOK
    <2>2. CASE UNCHANGED <<stock, ledger>>
      BY <2>1, <2>2 DEF AuditedFor
    <2>3. CASE \/ \E o \in Orders, cart \in Carts : CreateOrder(o, cart)
               \/ TimePasses
               \/ ReleaseExpiredReservations
      BY <2>2, <2>3 DEF CreateOrder, TimePasses, ReservationExpires,
           ReleaseExpiredReservations, history
    <2>4. ASSUME NEW o \in Orders, NEW to \in Status, TransitionStatus(o, to)
          PROVE  AuditedFor(v)
      BY <2>1, <2>4, TransitionAudited DEF AuditedFor
    <2>5. ASSUME NEW e \in Editors, Edit(e)
          PROVE  AuditedFor(v)
      BY <2>1, <2>5, EditAudited DEF AuditedFor
    <2>6. ASSUME NEW f \in Forms, FormStep(f)
          PROVE  AuditedFor(v)
      <3>1. CASE \E w \in Variants : OpenProductForm(f, w)
        BY <2>2, <3>1 DEF OpenProductForm, rows, history
      <3>2. ASSUME NEW n, NEW a, SaveProductForm(f, n, a)
            PROVE  AuditedFor(v)
        <4>1. CASE form[f].variant = v
          <5>1. form[f] # NoForm /\ form'[f] = NoForm
            BY <2>1, <3>2 DEF SaveProductForm, TypeOK
          <5> QED
            BY <4>1, <5>1 DEF AuditedFor, FormSaved
        <4>2. CASE form[f].variant # v
          <5>1. stock'[v] = stock[v] /\ ledger' = ledger
            BY <2>1, <3>2, <4>2 DEF SaveProductForm, TypeOK, history
          <5> QED
            BY <2>1, <5>1 DEF AuditedFor
        <4> QED
          BY <4>1, <4>2
      <3> QED
        BY <2>6, <3>1, <3>2 DEF FormStep
    <2>7. ASSUME NEW w \in Variants, NEW n \in Counts, Adjust(w, n)
          PROVE  AuditedFor(v)
      <3>1. n \in Int
        BY CountsAssumption
      <3>2. \/ stock'[v] = stock[v] /\ ledger'[v] = ledger[v]
            \/ stock'[v] = n /\ ledger'[v] = ledger[v] + (n - stock[v])
        BY <2>1, <2>7 DEF Adjust, TypeOK
      <3> QED
        BY <2>1, <3>1, <3>2 DEF AuditedFor
    <2> QED
      BY <2>3, <2>4, <2>5, <2>6, <2>7 DEF Next
  <1> QED
    BY <1>1, InvariantHolds, PTL DEF Spec, OnlyFormsGoUnaudited, AuditedFor

-----------------------------------------------------------------------------
(* What a step does to the units of one variant: for the formula of the    *)
(* point of sale (PosSyncProofs).                                          *)

(* In this step no other order than o is touched, and the stock of v loses *)
(* what o takes of it.                                                     *)
MovesOnly(o, v) ==
    /\ \A p \in Orders \ {o} : /\ status'[p] = status[p]
                               /\ line'[p][v] = line[p][v]
                               /\ taken'[p][v] = taken[p][v]
    /\ stock'[v] - stock[v] = taken[o][v] - taken'[o][v]
    /\ swept' = swept /\ misread \subseteq misread'

LEMMA RestMovesOnly ==
    ASSUME TypeOK, NEW o \in Orders, NEW v \in Variants,
           UNCHANGED <<status, line, taken, stock, swept, misread>>
    PROVE  MovesOnly(o, v)
  <1>1. stock[v] \in Int /\ taken[o][v] \in Int
    BY DEF TypeOK
  <1> QED
    BY <1>1 DEF MovesOnly

LEMMA CreateOrderMoves ==
    ASSUME TypeOK, NEW o \in Orders, NEW cart \in Carts, CreateOrder(o, cart),
           NEW v \in Variants
    PROVE  MovesOnly(o, v)
  <1>1. stock[v] \in Int /\ taken[o][v] \in Int
    BY DEF TypeOK
  <1> QED
    BY <1>1 DEF CreateOrder, history, MovesOnly, TypeOK, Quantities

LEMMA TransitionMoves ==
    ASSUME TypeOK, NEW o \in Orders, NEW to \in Status, TransitionStatus(o, to),
           NEW v \in Variants
    PROVE  MovesOnly(o, v)
  <1>1. /\ stock[v] \in Int /\ taken[o][v] \in Int /\ line[o][v] \in Int
        /\ live[o][v] \in Int /\ lapsed[o][v] \in Int
    BY DEF TypeOK, Quantities
  <1>2. \/ stock' = stock /\ taken' = taken
        \/ /\ stock'[v] = stock[v] - (live[o][v] + lapsed[o][v])
           /\ taken' = [taken EXCEPT ![o] =
                           [w \in Variants |-> @[w] + (live[o][w] + lapsed[o][w])]]
        \/ /\ stock'[v] = stock[v] + line[o][v]
           /\ taken' = [taken EXCEPT ![o] = [w \in Variants |-> @[w] - line[o][w]]]
    BY DEF TransitionStatus, CommitAllForOrder, ReleaseAllForOrder, RestoreAllForOrder
  <1>3. /\ \A p \in Orders \ {o} : taken'[p][v] = taken[p][v]
        /\ stock'[v] - stock[v] = taken[o][v] - taken'[o][v]
    <2>1. CASE stock' = stock /\ taken' = taken
      BY <1>1, <2>1
    <2>2. ASSUME NEW n \in [Variants -> Int], stock'[v] = stock[v] - n[v],
                 taken' = [taken EXCEPT ![o] = [w \in Variants |-> @[w] + n[w]]]
          PROVE  /\ \A p \in Orders \ {o} : taken'[p][v] = taken[p][v]
                 /\ stock'[v] - stock[v] = taken[o][v] - taken'[o][v]
      <3>1. /\ \A p \in Orders \ {o} : taken'[p][v] = taken[p][v]
            /\ taken'[o][v] = taken[o][v] + n[v]
        BY <2>2 DEF TypeOK
      <3>2. n[v] \in Int
        OBVIOUS
      <3> QED
        BY <1>1, <2>2, <3>1, <3>2
    <2>3. CASE /\ stock'[v] = stock[v] - (live[o][v] + lapsed[o][v])
               /\ taken' = [taken EXCEPT ![o] =
                     [w \in Variants |-> @[w] + (live[o][w] + lapsed[o][w])]]
      <3> DEFINE n == [w \in Variants |-> live[o][w] + lapsed[o][w]]
      <3>1. n \in [Variants -> Int]
        BY DEF TypeOK, Quantities
      <3>2. /\ stock'[v] = stock[v] - n[v]
            /\ taken' = [taken EXCEPT ![o] = [w \in Variants |-> @[w] + n[w]]]
        BY <2>3
      <3> HIDE DEF n
      <3> QED
        BY <2>2, <3>1, <3>2
    <2>4. CASE /\ stock'[v] = stock[v] + line[o][v]
               /\ taken' = [taken EXCEPT ![o] = [w \in Variants |-> @[w] - line[o][w]]]
      <3>1. /\ \A p \in Orders \ {o} : taken'[p][v] = taken[p][v]
            /\ taken'[o][v] = taken[o][v] - line[o][v]
        BY <2>4 DEF TypeOK
      <3> QED
        BY <1>1, <2>4, <3>1
    <2> QED
      BY <1>2, <2>1, <2>3, <2>4
  <1>4. /\ \A p \in Orders \ {o} : status'[p] = status[p]
        /\ UNCHANGED <<line, swept, misread>>
    BY DEF TransitionStatus, TypeOK
  <1> QED
    BY <1>3, <1>4 DEF MovesOnly

LEMMA EditMoves ==
    ASSUME TypeOK, NEW e \in Editors, Edit(e), NEW v \in Variants
    PROVE  \E o \in Orders : MovesOnly(o, v)
  <1>1. ASSUME NEW o \in Orders, NEW w \in Variants, NEW q \in Int,
               TakeMore(o, w, q) \/ GiveBack(o, w, q), NEW n \in Nat,
               line' = line \/ line' = [line EXCEPT ![o][w] = n],
               UNCHANGED <<status, swept>>, misread \subseteq misread'
        PROVE  MovesOnly(o, v)
    <2>1. \/ UNCHANGED <<stock, taken>>
          \/ /\ stock' = [stock EXCEPT ![w] = @ - q]
             /\ taken' = [taken EXCEPT ![o][w] = @ + q]
          \/ /\ stock' = [stock EXCEPT ![w] = @ + q]
             /\ taken' = [taken EXCEPT ![o][w] = @ - q]
      BY <1>1 DEF TakeMore, GiveBack, Reserve, Consume, ReleaseReserved, Restore
    <2>2. /\ stock \in [Variants -> Int]
          /\ taken \in [Orders -> [Variants -> Int]]
      BY DEF TypeOK
    <2>3. /\ \A p \in Orders \ {o} : taken'[p][v] = taken[p][v]
          /\ stock'[v] - stock[v] = taken[o][v] - taken'[o][v]
      <3>1. CASE UNCHANGED <<stock, taken>>
        BY <2>2, <3>1
      <3>2. CASE ~UNCHANGED <<stock, taken>> /\ v = w
        BY <2>1, <2>2, <3>2
      <3>3. CASE ~UNCHANGED <<stock, taken>> /\ v # w
        BY <2>1, <2>2, <3>3
      <3> QED
        BY <3>1, <3>2, <3>3
    <2>4. \A p \in Orders \ {o} : line'[p][v] = line[p][v]
      BY <1>1 DEF TypeOK, Quantities
    <2> QED
      BY <1>1, <2>3, <2>4 DEF MovesOnly
  <1>2. held[e] # NoItem =>
           /\ held[e].order \in Orders /\ held[e].variant \in Variants
           /\ held[e].quantity \in Nat
    BY HeldItem
  <1>3. ASSUME NEW item, MarkMisread(item) PROVE misread \subseteq misread'
    BY <1>3 DEF MarkMisread
  <1>4. CASE \E o \in Orders, w \in Variants : LoadItem(e, o, w) \/ LoadVariant(e, o, w)
    BY <1>4, RestMovesOnly DEF LoadItem, LoadVariant, rows, history
  <1>5. CASE RequestEnds(e)
    BY <1>2, <1>5, RestMovesOnly DEF RequestEnds, rows, history
  <1>6. ASSUME NEW q \in Quantity, ChangeLineQuantity(e, q)
        PROVE  \E o \in Orders : MovesOnly(o, v)
    <2>1. held[e] # NoItem /\ q \in Nat
          /\ Delta(held[e], q) \in Int /\ -Delta(held[e], q) \in Int
      BY <1>2, <1>6, QuantityIsPositive DEF ChangeLineQuantity, Delta
    <2>2. /\ \/ TakeMore(held[e].order, held[e].variant, Delta(held[e], q))
             \/ GiveBack(held[e].order, held[e].variant, -Delta(held[e], q))
          /\ line' = [line EXCEPT ![held[e].order][held[e].variant] = q]
          /\ UNCHANGED <<status, swept>> /\ MarkMisread(held[e])
      BY <1>6 DEF ChangeLineQuantity
    <2> QED
      BY <1>1, <1>2, <1>3, <2>1, <2>2
  <1>7. ASSUME NEW q \in Quantity, AddLine(e, q)
        PROVE  \E o \in Orders : MovesOnly(o, v)
    <2>1. held[e] # NoItem /\ q \in Nat /\ q \in Int
      BY <1>7, QuantityIsPositive DEF AddLine
    <2>2. /\ TakeMore(held[e].order, held[e].variant, q)
          /\ line' = [line EXCEPT ![held[e].order][held[e].variant] = q]
          /\ UNCHANGED <<status, swept>> /\ misread \subseteq misread'
      BY <1>7 DEF AddLine
    <2> QED
      BY <1>1, <1>2, <2>1, <2>2
  <1>8. CASE RemoveLine(e)
    <2>1. /\ held[e] # NoItem
          /\ GiveBack(held[e].order, held[e].variant, held[e].quantity)
          /\ \/ line' = line
             \/ line' = [line EXCEPT ![held[e].order][held[e].variant] = 0]
          /\ UNCHANGED <<status, swept>> /\ MarkMisread(held[e])
      BY <1>8 DEF RemoveLine
    <2> QED
      BY <1>1, <1>2, <1>3, <2>1
  <1> QED
    BY <1>4, <1>5, <1>6, <1>7, <1>8 DEF Edit

LEMMA FormMoves ==
    ASSUME TypeOK, NEW f \in Forms, FormStep(f), NEW v \in Variants
    PROVE  /\ UNCHANGED <<status, line, taken>>
           /\ CountedByHand(v) \/ stock'[v] = stock[v]
  <1>1. CASE \E w \in Variants : OpenProductForm(f, w)
    BY <1>1 DEF OpenProductForm, rows, history
  <1>2. ASSUME NEW n, NEW a, SaveProductForm(f, n, a)
        PROVE  /\ UNCHANGED <<status, line, taken>>
               /\ CountedByHand(v) \/ stock'[v] = stock[v]
    <2>1. form[f] # NoForm /\ form'[f] = NoForm /\ UNCHANGED <<status, line, taken>>
      BY <1>2 DEF SaveProductForm, history, TypeOK
    <2>2. form[f].variant # v => stock'[v] = stock[v]
      BY <1>2 DEF SaveProductForm, TypeOK
    <2> QED
      BY <2>1, <2>2 DEF CountedByHand, FormSaved
  <1> QED
    BY <1>1, <1>2 DEF FormStep

(* Every step but the sweeper's touches one order at most, whose units and *)
(* nothing else move stock, unless the merchant counts; and an order is    *)
(* confirmed from pending only.                                            *)
LEMMA StepMoves ==
    ASSUME TypeOK, Next, NEW v \in Variants
    PROVE  /\ \/ \E o \in Orders : MovesOnly(o, v)
              \/ /\ UNCHANGED <<status, line, taken>>
                 /\ CountedByHand(v) \/ stock'[v] = stock[v]
           /\ \A o \in Orders :
                 status'[o] = "confirmed" =>
                     status[o] \in {"confirmed", "pending_confirmation"}
  <1>1. ASSUME NEW o \in Orders, NEW cart \in Carts, CreateOrder(o, cart)
        PROVE  /\ MovesOnly(o, v)
               /\ \A p \in Orders : status'[p] = "confirmed" => status[p] = "confirmed"
    BY <1>1, CreateOrderMoves DEF CreateOrder, TypeOK
  <1>2. ASSUME NEW o \in Orders, NEW to \in Status, TransitionStatus(o, to)
        PROVE  /\ MovesOnly(o, v)
               /\ \A p \in Orders : status'[p] = "confirmed" =>
                     status[p] \in {"confirmed", "pending_confirmation"}
    <2>1. /\ status[o] \in Status /\ to \in ALLOWED_TRANSITIONS[status[o]]
          /\ status' = [status EXCEPT ![o] = to]
      BY <1>2 DEF TransitionStatus, TypeOK
    <2>2. "confirmed" \in ALLOWED_TRANSITIONS[status[o]] =>
             status[o] = "pending_confirmation"
      BY <2>1, StatusTable, Zenon
    <2> QED
      BY <1>2, <2>1, <2>2, TransitionMoves DEF TypeOK
  <1>3. ASSUME NEW e \in Editors, Edit(e)
        PROVE  (\E o \in Orders : MovesOnly(o, v)) /\ status' = status
    BY <1>3, EditMoves DEF Edit, LoadItem, LoadVariant, RequestEnds, rows,
         ChangeLineQuantity, AddLine, RemoveLine
  <1>4. ASSUME NEW f \in Forms, FormStep(f)
        PROVE  /\ UNCHANGED <<status, line, taken>>
               /\ CountedByHand(v) \/ stock'[v] = stock[v]
    BY <1>4, FormMoves
  <1>5. ASSUME NEW w \in Variants, NEW n \in Counts, Adjust(w, n)
        PROVE  /\ UNCHANGED <<status, line, taken>>
               /\ CountedByHand(v) \/ stock'[v] = stock[v]
    BY <1>5 DEF Adjust, CountedByHand, TypeOK
  <1>6. TimePasses \/ ReleaseExpiredReservations =>
            UNCHANGED <<status, line, taken, stock>>
    BY DEF TimePasses, ReservationExpires, ReleaseExpiredReservations, history
  <1> QED
    BY <1>1, <1>2, <1>3, <1>4, <1>5, <1>6 DEF Next
=============================================================================
