------------------------------ MODULE PosSync ------------------------------
(***************************************************************************)
(* POS sync against the shop of OrderStock: stock snapshots that arrive    *)
(* late, twice or never, web orders that the point of sale records and     *)
(* acknowledges, and workers that die half way (possync/services.py).      *)
(*                                                                         *)
(* Grain.  A snapshot is applied under a session-level advisory lock, but  *)
(* each variant in a transaction of its own: one action per variant, and   *)
(* everything else the shop does may come in between.                      *)
(*                                                                         *)
(* Data.  Every variant here stays mapped to one POS SKU, and is its name. *)
(* Prices, names and the remembered PosProduct rows are left out.  The     *)
(* point of sale itself is external: it counts, sends whatever snapshots   *)
(* it has taken, records the orders it is shown and acknowledges them.     *)
(***************************************************************************)
EXTENDS Integers, FiniteSets, Functions

CONSTANTS
    Variants, Orders, Editors, Forms, Counts, Opening, NoItem, NoForm,
    MaxQty, MaxStock, MaxDrift,  \* of OrderStock
    Workers,                     \* web workers that may be applying a snapshot
    PosCounts,                   \* counts the point of sale may come to by itself
    SubtractWebOrders,           \* settings.POS_SYNC_SUBTRACT_WEB_ORDERS
    NoWorker,                    \* the advisory lock is free
    NoRun,                       \* a worker that applies no snapshot
    NotListed,                   \* the count of a variant that a snapshot leaves out
    MaxTime,                     \* bound: the last moment of the model's clock
    MaxSent,                     \* bound: snapshots the point of sale takes
    MaxCrashes                   \* bound: workers that die while applying one

ASSUME OrdersAssumption == IsFiniteSet(Orders)
ASSUME BoundsAssumption == MaxQty \in Nat \ {0} /\ MaxStock \in Nat /\ MaxDrift \in Nat
ASSUME CountsAssumption == Counts \subseteq Nat /\ Opening \subseteq Nat
ASSUME ModeAssumption == SubtractWebOrders \in BOOLEAN
ASSUME PosCountsAssumption == PosCounts \subseteq Int
ASSUME NoWorkerAssumption == NoWorker \notin Workers
ASSUME NotListedAssumption == NotListed \notin Int

VARIABLES
    status, line, live, lapsed, stock, active, held, form,
    ledger, taken, swept, misread,  \* of OrderStock
    now,                            \* the clock
    confirmed_at,                   \* confirmed_at[o]: created_at of o's confirmation, 0 before
    orders_since,                   \* PosSyncState.orders_since
    ack,                            \* ack[o]: PosOrderAck.source, "none" when there is no row
    last_snapshot_at,               \* PosSyncState.last_snapshot_at, 0 for null
    lock,                           \* the worker that holds the advisory lock
    run,                            \* run[w]: the snapshot worker w applies and what is left of it
    onHand,                         \* external: what the point of sale believes it has
    recorded,                       \* external: the web orders it has rung up
    sent,                           \* external: the snapshots it has taken, any of which may
                                    \* arrive at any time, any number of times
    crashes,                        \* history: the workers that died
    applied,                        \* history: applied[v]: the snapshot time and the count
                                    \* that v's stock was last set from
    listed                          \* history: the variants of the last snapshot finished

shopVars == <<status, line, live, lapsed, stock, active, held, form,
              ledger, taken, swept, misread>>
stateVars == <<confirmed_at, orders_since, ack, last_snapshot_at>>
runVars == <<lock, run, crashes>>
tillVars == <<onHand, recorded, sent>>
historyVars == <<applied, listed>>
vars == <<shopVars, now, stateVars, runVars, tillVars, historyVars>>

Shop == INSTANCE OrderStock
ASSUME NoItemAssumption == NoItem \notin Shop!Item
ASSUME NoFormAssumption == NoForm \notin Shop!FormData

(* A snapshot may list some of the variants.                               *)
Snapshot == [at : Nat, count : [Variants -> Int \cup {NotListed}]]
Listed(snapshot) == {v \in Variants : snapshot.count[v] # NotListed}
Run == [snapshot : Snapshot, todo : SUBSET Variants]
ASSUME NoRunAssumption == NoRun \notin Run
ASSUME TimeAssumption == MaxTime \in Nat \ {0}

NoAck == "none"

Init ==
    /\ Shop!Init
    /\ now = 1
    /\ confirmed_at = [o \in Orders |-> 0]
    /\ orders_since = 1
    /\ ack = [o \in Orders |-> NoAck]
    /\ last_snapshot_at = 0
    /\ lock = NoWorker
    /\ run = [w \in Workers |-> NoRun]
    /\ onHand = stock
    /\ recorded = {}
    /\ sent = {}
    /\ crashes = 0
    /\ applied = [v \in Variants |-> [at |-> 0, count |-> stock[v]]]
    /\ listed = {}

-----------------------------------------------------------------------------
(* The stock formula.                                                      *)

AWAITING_ACK_STATUSES == {"confirmed", "processing", "ready_to_dispatch",
    "dispatched", "out_for_delivery", "delivered", "failed_delivery"}

(* Mutant: an order that failed delivery is forgotten.                     *)
AwaitingUnlessFailed(o) ==
    /\ status[o] \in AWAITING_ACK_STATUSES \ {"failed_delivery"}
    /\ ack[o] = NoAck
    /\ confirmed_at[o] >= orders_since

AwaitingAck(o) ==
    /\ status[o] \in AWAITING_ACK_STATUSES
    /\ ack[o] = NoAck
    /\ confirmed_at[o] >= orders_since

UnitsAwaitingAck(v) ==
    SumFunction([o \in {p \in Orders : AwaitingAck(p)} |-> line[o][v]])

(* What web orders take off a count of the point of sale.                  *)
Subtracted(v) == IF SubtractWebOrders THEN UnitsAwaitingAck(v) ELSE 0

(* Mutant: a shortfall is written as it is.                                *)
TargetUnclamped(v, on_hand) == on_hand - Subtracted(v)

Target(v, on_hand) ==
    LET left == on_hand - Subtracted(v) IN IF left > 0 THEN left ELSE 0

-----------------------------------------------------------------------------
(* apply_snapshot.  A stale snapshot is answered and nothing is written.   *)

(* Mutant: the time of the last snapshot is not looked at.                 *)
BeginStale(w, snapshot) ==
    /\ lock = NoWorker
    /\ lock' = w
    /\ run' = [run EXCEPT ![w] =
                  [snapshot |-> snapshot, todo |-> Listed(snapshot)]]
    /\ UNCHANGED <<shopVars, now, stateVars, tillVars, crashes, historyVars>>

(* Mutant: no advisory lock.                                               *)
BeginUnlocked(w, snapshot) ==
    /\ run[w] = NoRun
    /\ snapshot.at >= last_snapshot_at
    /\ lock' = w
    /\ run' = [run EXCEPT ![w] =
                  [snapshot |-> snapshot, todo |-> Listed(snapshot)]]
    /\ UNCHANGED <<shopVars, now, stateVars, tillVars, crashes, historyVars>>

(* The same time again is applied again.                                   *)
BeginSnapshot(w, snapshot) ==
    /\ lock = NoWorker
    /\ snapshot.at >= last_snapshot_at
    /\ lock' = w
    /\ run' = [run EXCEPT ![w] =
                  [snapshot |-> snapshot, todo |-> Listed(snapshot)]]
    /\ UNCHANGED <<shopVars, now, stateVars, tillVars, crashes, historyVars>>

(* _apply_variant: the orders are read under the variant's row lock, which *)
(* every transaction that moves its stock takes too.                       *)
ApplyVariant(w, v) ==
    LET on_hand == run[w].snapshot.count[v]
        target == Target(v, on_hand)
    IN  /\ run[w] # NoRun
        /\ v \in run[w].todo
        /\ stock' = [stock EXCEPT ![v] = target]
        /\ ledger' = [ledger EXCEPT ![v] = @ + (target - stock[v])]
        /\ run' = [run EXCEPT ![w].todo = @ \ {v}]
        /\ applied' = [applied EXCEPT ![v] =
                          [at |-> run[w].snapshot.at, count |-> on_hand]]
        /\ UNCHANGED <<status, line, live, lapsed, active, held, form, taken,
                       swept, misread, now, stateVars, lock, crashes, tillVars,
                       listed>>

(* The state row is written last, in a transaction of its own.             *)
FinishSnapshot(w) ==
    /\ run[w] # NoRun
    /\ run[w].todo = {}
    /\ last_snapshot_at' = run[w].snapshot.at
    /\ run' = [run EXCEPT ![w] = NoRun]
    /\ lock' = NoWorker
    /\ listed' = Listed(run[w].snapshot)
    /\ UNCHANGED <<shopVars, now, confirmed_at, orders_since, ack, crashes,
                   tillVars, applied>>

(* Mutant: the lock outlives the worker.                                   *)
CrashKeepsLock(w) ==
    /\ crashes < MaxCrashes
    /\ run[w] # NoRun
    /\ run' = [run EXCEPT ![w] = NoRun]
    /\ crashes' = crashes + 1
    /\ UNCHANGED <<shopVars, now, stateVars, lock, tillVars, historyVars>>

(* The worker dies or an exception ends the request: what was committed    *)
(* stays, the state row is not written, and the session's lock is freed.   *)
Crash(w) ==
    /\ crashes < MaxCrashes
    /\ run[w] # NoRun
    /\ run' = [run EXCEPT ![w] = NoRun]
    /\ lock' = NoWorker
    /\ crashes' = crashes + 1
    /\ UNCHANGED <<shopVars, now, stateVars, tillVars, historyVars>>

-----------------------------------------------------------------------------
(* Acknowledgements and the cutoff.                                        *)

(* acknowledge: a manual mark gives way to the POS's own.                  *)
Acknowledge(o) ==
    /\ o \in recorded
    /\ \/ ack[o] = "manual"
       \/ ack[o] = NoAck /\ status[o] \in AWAITING_ACK_STATUSES
    /\ ack' = [ack EXCEPT ![o] = "pos"]
    /\ UNCHANGED <<shopVars, now, confirmed_at, orders_since, last_snapshot_at,
                   runVars, tillVars, historyVars>>

MarkRecorded(o) ==
    /\ ack[o] = NoAck
    /\ status[o] \in AWAITING_ACK_STATUSES
    /\ ack' = [ack EXCEPT ![o] = "manual"]
    /\ UNCHANGED <<shopVars, now, confirmed_at, orders_since, last_snapshot_at,
                   runVars, tillVars, historyVars>>

SetOrdersSince(moment) ==
    /\ orders_since' = moment
    /\ UNCHANGED <<shopVars, now, confirmed_at, ack, last_snapshot_at,
                   runVars, tillVars, historyVars>>

-----------------------------------------------------------------------------
(* The point of sale.                                                      *)

(* Sales at the till, deliveries and stock-takes.                          *)
PosCounted(v, n) ==
    /\ n # onHand[v]
    /\ onHand' = [onHand EXCEPT ![v] = n]
    /\ UNCHANGED <<shopVars, now, stateVars, runVars, recorded, sent, historyVars>>

(* It rings up an order of web_orders_payload.                             *)
PosRecords(o) ==
    /\ AwaitingAck(o)
    /\ o \notin recorded
    /\ onHand' = [v \in Variants |-> onHand[v] - line[o][v]]
    /\ recorded' = recorded \cup {o}
    /\ UNCHANGED <<shopVars, now, stateVars, runVars, sent, historyVars>>

TakeSnapshot(variants) ==
    /\ Cardinality(sent) < MaxSent
    /\ sent' = sent \cup
          {[at |-> now, count |-> [v \in Variants |->
               IF v \in variants THEN onHand[v] ELSE NotListed]]}
    /\ UNCHANGED <<shopVars, now, stateVars, runVars, onHand, recorded, historyVars>>

Tick ==
    /\ now < MaxTime
    /\ now' = now + 1
    /\ UNCHANGED <<shopVars, stateVars, runVars, tillVars, historyVars>>

(* The order's confirmation is dated by its OrderStatusEvent.              *)
ShopStep ==
    /\ Shop!Next
    /\ confirmed_at' = [o \in Orders |->
           IF status[o] # "confirmed" /\ status'[o] = "confirmed"
           THEN now ELSE confirmed_at[o]]
    /\ UNCHANGED <<now, orders_since, ack, last_snapshot_at, runVars,
                   tillVars, historyVars>>

-----------------------------------------------------------------------------
SnapshotStep(w) ==
    \/ \E s \in sent : BeginSnapshot(w, s)
    \/ \E v \in Variants : ApplyVariant(w, v)
    \/ FinishSnapshot(w)

Next ==
    \/ ShopStep
    \/ \E w \in Workers : SnapshotStep(w) \/ Crash(w)
    \/ \E o \in Orders : Acknowledge(o) \/ MarkRecorded(o) \/ PosRecords(o)
    \/ \E moment \in 1 .. MaxTime : SetOrdersSince(moment)
    \/ \E v \in Variants, n \in PosCounts : PosCounted(v, n)
    \/ \E variants \in SUBSET Variants \ {{}} : TakeSnapshot(variants)
    \/ Tick

Spec == Init /\ [][Next]_vars
(* A worker that holds the lock either goes on or dies.                    *)
Fairness == \A w \in Workers :
    WF_vars(FinishSnapshot(w) \/ \E v \in Variants : ApplyVariant(w, v))

FairSpec == Spec /\ Fairness

-----------------------------------------------------------------------------
(* Properties that hold.                                                   *)

(* No snapshot drives a stock count below zero, whatever count it bears    *)
(* and however many web orders are waiting (max() in _apply_variant).      *)
TypeOK ==
    /\ Shop!TypeOK
    /\ now \in Nat
    /\ confirmed_at \in [Orders -> Nat]
    /\ orders_since \in Nat
    /\ ack \in [Orders -> {NoAck, "pos", "manual"}]
    /\ last_snapshot_at \in Nat
    /\ lock \in Workers \cup {NoWorker}
    /\ run \in [Workers -> Run \cup {NoRun}]
    /\ onHand \in [Variants -> Int]
    /\ recorded \subseteq Orders
    /\ sent \subseteq Snapshot
    /\ crashes \in Nat
    /\ applied \in [Variants -> [at : Nat, count : Int]]
    /\ listed \subseteq Variants

(* Snapshots that are late, repeated, cut short by a crash or sent to two  *)
(* workers at once keep the promise of SnapshotFeed: the counts of a       *)
(* snapshot that was finished are never overwritten by an older one.       *)
Feed == INSTANCE SnapshotFeed WITH
    Times <- 0 .. MaxTime,
    from <- [v \in Variants |-> applied[v].at],
    settled <- last_snapshot_at
FeedSpec == Feed!Spec

(* However snapshots are delayed, repeated, interrupted or sent to two     *)
(* workers at once, the count of a variant in the last finished snapshot   *)
(* is from that snapshot or a newer one.                                   *)
NoOldCountWins == Feed!ListedAreRecent

(* In this step v's stock was set from a count, by a snapshot or by hand.  *)
Counted(v) ==
    \/ \E w \in Workers : ApplyVariant(w, v)
    \/ Shop!CountedByHand(v)

(* In this step the formula itself was told to count other orders.         *)
Recounted == ack' # ack \/ orders_since' # orders_since

Touched(o) ==
    status'[o] # status[o] \/ line'[o] # line[o] \/ taken'[o] # taken[o]

(* The point of sale is not expected to record o, or has recorded it.      *)
OutsideFormula(o) == ack[o] # NoAck \/ confirmed_at'[o] < orders_since

(* Between snapshots, whatever confirmations, edits, cancellations and     *)
(* returns do to stock is what the formula would make of it on the same    *)
(* count.  The exceptions: an order the point of sale has recorded, or     *)
(* that was confirmed before the cutoff; an order the sweeper took a       *)
(* reservation from; an order edited through an outdated item.             *)
OrdersMoveStockAsFormula ==
    [][\A v \in Variants :
          \/ stock'[v] - stock[v] = UnitsAwaitingAck(v) - UnitsAwaitingAck(v)'
          \/ Counted(v)
          \/ Recounted
          \/ \E o \in Orders :
                Touched(o) /\ (OutsideFormula(o) \/ o \in swept \cup misread')]_vars

(* No snapshot blocks the next one for ever: a worker that holds the       *)
(* advisory lock lets go of it, even when it dies.                         *)
LockIsFreed == \A w \in Workers : lock = w ~> lock = NoWorker

-----------------------------------------------------------------------------
(* What the documentation says and the code does not do.                   *)

(* docs/pos-sync.md:68-69: an older snapshot is ignored, "so a late retry  *)
(* cannot roll stock back".                                                *)
LateRetryRollsNothingBack ==
    [][\A v \in Variants : applied'[v].at >= applied[v].at]_vars
=============================================================================
