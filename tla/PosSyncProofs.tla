--------------------------- MODULE PosSyncProofs ---------------------------
(***************************************************************************)
(* Proofs about PosSync for every number of variants, workers, orders and  *)
(* snapshots and every bound.  First the snapshot protocol, which          *)
(* implements the feed it promises: the steps of the shop leave all its    *)
(* variables alone and are not expanded.  Then stock: what the proofs of   *)
(* OrderStock say of its steps holds of those of the shop here, and so     *)
(* they move stock as the formula of the point of sale does.               *)
(***************************************************************************)
EXTENDS PosSync, Sums

Proved == INSTANCE OrderStockProofs

(* Times lie within the bound of the clock.                                *)
TimesInv ==
    /\ now \in 1 .. MaxTime
    /\ last_snapshot_at \in 0 .. MaxTime
    /\ \A s \in sent : s.at \in 0 .. MaxTime
    /\ applied = [v \in Variants |-> applied[v]]
    /\ \A v \in Variants : applied[v].at \in 0 .. MaxTime

(* Worker w, if it applies a snapshot, holds the lock; no snapshot that is *)
(* newer was finished meanwhile; and the variants it is done with still    *)
(* have their counts from it.                                              *)
RunInv(w) ==
    LET snapshot == run[w].snapshot IN
    run[w] # NoRun =>
        /\ run[w] = [snapshot |-> snapshot, todo |-> run[w].todo]
        /\ lock = w
        /\ snapshot.at \in last_snapshot_at .. MaxTime
        /\ \A v \in Listed(snapshot) \ run[w].todo : applied[v].at = snapshot.at

(* The variants of the last finished snapshot are up to date.              *)
ListedInv ==
    /\ listed \subseteq Variants
    /\ \A v \in listed : applied[v].at >= last_snapshot_at

ProtocolInv ==
    /\ TimesInv
    /\ run = [w \in Workers |-> run[w]]
    /\ \A w \in Workers : RunInv(w)
    /\ ListedInv

-----------------------------------------------------------------------------
LEMMA InitProtocol == Init => ProtocolInv
  <1>. SUFFICES ASSUME Init PROVE ProtocolInv
    OBVIOUS
  <1>1. 1 \in 1 .. MaxTime /\ 0 \in 0 .. MaxTime
    BY TimeAssumption
  <1>2. TimesInv
    BY <1>1 DEF Init, TimesInv
  <1>3. QED
    BY <1>2 DEF Init, ProtocolInv, RunInv, ListedInv

(* What the protocol does not write is of no concern to it.                *)
LEMMA QuietStep ==
    ASSUME ProtocolInv, UNCHANGED <<last_snapshot_at, run, lock, applied, listed>>,
           now' \in 1 .. MaxTime, \A s \in sent' : s.at \in 0 .. MaxTime
    PROVE  ProtocolInv'
  <1>1. TimesInv'
    BY DEF ProtocolInv, TimesInv
  <1>2. ASSUME NEW w \in Workers PROVE RunInv(w)'
    BY DEF ProtocolInv, RunInv, Listed
  <1>3. QED
    BY <1>1, <1>2 DEF ProtocolInv, ListedInv

(* Two workers that both apply a snapshot are one.                         *)
LEMMA OneRun ==
    ASSUME ProtocolInv, NEW w \in Workers, NEW x \in Workers,
           run[w] # NoRun, x # w
    PROVE  run[x] = NoRun
  BY DEF ProtocolInv, RunInv

LEMMA BeginInv ==
    ASSUME ProtocolInv, NEW w \in Workers, NEW s \in sent, BeginSnapshot(w, s)
    PROVE  ProtocolInv'
  <1>1. TimesInv' /\ ListedInv'
    BY DEF ProtocolInv, TimesInv, ListedInv, BeginSnapshot, stateVars, tillVars,
         historyVars
  <1>2. run' = [x \in Workers |-> run'[x]]
    BY DEF ProtocolInv, BeginSnapshot
  <1>3. ASSUME NEW x \in Workers PROVE RunInv(x)'
    <2>1. CASE x = w
      <3>1. run'[w] = [snapshot |-> s, todo |-> Listed(s)] /\ lock' = w
        BY DEF ProtocolInv, BeginSnapshot
      <3>2. s.at \in last_snapshot_at .. MaxTime /\ last_snapshot_at' = last_snapshot_at
        BY DEF ProtocolInv, TimesInv, BeginSnapshot, stateVars
      <3>3. QED
        BY <2>1, <3>1, <3>2 DEF RunInv, Listed
    <2>2. CASE x # w
      <3>1. run'[x] = run[x]
        BY <2>2 DEF ProtocolInv, BeginSnapshot
      <3>2. run[x] = NoRun
        BY NoWorkerAssumption DEF ProtocolInv, RunInv, BeginSnapshot
      <3>3. QED
        BY <3>1, <3>2 DEF RunInv
    <2>3. QED
      BY <2>1, <2>2
  <1>4. QED
    BY <1>1, <1>2, <1>3 DEF ProtocolInv

LEMMA ApplyInv ==
    ASSUME ProtocolInv, NEW w \in Workers, NEW v \in Variants, ApplyVariant(w, v)
    PROVE  ProtocolInv'
  <1>. DEFINE s == run[w].snapshot
  <1>1. /\ run[w] # NoRun
        /\ run[w] = [snapshot |-> s, todo |-> run[w].todo]
        /\ lock = w
        /\ s.at \in last_snapshot_at .. MaxTime
        /\ \A u \in Listed(s) \ run[w].todo : applied[u].at = s.at
    BY DEF ProtocolInv, RunInv, ApplyVariant
  <1>2. /\ applied' = [applied EXCEPT ![v] = [at |-> s.at, count |-> s.count[v]]]
        /\ UNCHANGED <<now, last_snapshot_at, sent, lock, listed>>
    BY DEF ApplyVariant, stateVars, tillVars
  <1>3. /\ applied'[v].at = s.at
        /\ \A u \in Variants \ {v} : applied'[u] = applied[u]
    BY <1>2 DEF ProtocolInv, TimesInv
  <1>4. TimesInv'
    BY <1>1, <1>2, <1>3 DEF ProtocolInv, TimesInv
  <1>5. ListedInv'
    BY <1>1, <1>2, <1>3 DEF ProtocolInv, TimesInv, ListedInv
  <1>6. run' = [run EXCEPT ![w] = [snapshot |-> s, todo |-> run[w].todo \ {v}]]
    <2>1. run' = [run EXCEPT ![w].todo = @ \ {v}]
      BY DEF ApplyVariant
    <2>2. [run[w] EXCEPT !.todo = @ \ {v}]
             = [snapshot |-> s, todo |-> run[w].todo \ {v}]
      BY <1>1
    <2>3. QED
      BY <2>1, <2>2
  <1>7. run' = [x \in Workers |-> run'[x]]
    BY <1>6 DEF ProtocolInv
  <1>8. ASSUME NEW x \in Workers PROVE RunInv(x)'
    <2>1. CASE x = w
      <3>1. run'[w] = [snapshot |-> s, todo |-> run[w].todo \ {v}]
        BY <1>6 DEF ProtocolInv
      <3>2. \A u \in Listed(s) \ (run[w].todo \ {v}) : applied'[u].at = s.at
        BY <1>1, <1>3 DEF Listed
      <3>3. QED
        BY <1>1, <1>2, <2>1, <3>1, <3>2 DEF RunInv, Listed
    <2>2. CASE x # w
      <3>1. run'[x] = run[x] /\ run[x] = NoRun
        BY <1>1, <1>6, <2>2, OneRun DEF ProtocolInv
      <3>2. QED
        BY <3>1 DEF RunInv
    <2>3. QED
      BY <2>1, <2>2
  <1>9. QED
    BY <1>4, <1>5, <1>7, <1>8 DEF ProtocolInv

(* The lock is let go: no worker applies a snapshot any more.              *)
LEMMA RunEnds ==
    ASSUME ProtocolInv, NEW w \in Workers, run[w] # NoRun,
           run' = [run EXCEPT ![w] = NoRun], TimesInv', ListedInv'
    PROVE  ProtocolInv'
  <1>1. ASSUME NEW x \in Workers PROVE run'[x] = NoRun
    BY OneRun DEF ProtocolInv
  <1>2. run' = [x \in Workers |-> run'[x]]
    BY DEF ProtocolInv
  <1>3. QED
    BY <1>1, <1>2 DEF ProtocolInv, RunInv

LEMMA FinishInv ==
    ASSUME ProtocolInv, NEW w \in Workers, FinishSnapshot(w)
    PROVE  ProtocolInv'
  <1>1. TimesInv'
    BY DEF ProtocolInv, TimesInv, RunInv, FinishSnapshot, tillVars
  <1>2. ListedInv'
    <2>1. /\ run[w].snapshot.at \in 0 .. MaxTime
          /\ \A v \in Listed(run[w].snapshot) : applied[v].at = run[w].snapshot.at
      BY DEF ProtocolInv, TimesInv, RunInv, FinishSnapshot
    <2>2. /\ listed' = Listed(run[w].snapshot)
          /\ last_snapshot_at' = run[w].snapshot.at
          /\ applied' = applied
      BY DEF FinishSnapshot
    <2>3. Listed(run[w].snapshot) \subseteq Variants
      BY DEF Listed
    <2>4. QED
      BY <2>1, <2>2, <2>3 DEF ListedInv
  <1>3. QED
    BY <1>1, <1>2, RunEnds DEF FinishSnapshot

LEMMA CrashInv ==
    ASSUME ProtocolInv, NEW w \in Workers, Crash(w)
    PROVE  ProtocolInv'
  <1>1. TimesInv' /\ ListedInv'
    BY DEF ProtocolInv, TimesInv, ListedInv, Crash, stateVars, tillVars, historyVars
  <1>2. QED
    BY <1>1, RunEnds DEF Crash

LEMMA TakeSnapshotInv ==
    ASSUME ProtocolInv, NEW variants \in SUBSET Variants, TakeSnapshot(variants)
    PROVE  ProtocolInv'
  <1>1. \A s \in sent' : s.at \in 0 .. MaxTime
    BY DEF ProtocolInv, TimesInv, TakeSnapshot
  <1>2. /\ UNCHANGED <<last_snapshot_at, run, lock, applied, listed>>
        /\ now' \in 1 .. MaxTime
    BY DEF ProtocolInv, TimesInv, TakeSnapshot, stateVars, runVars, historyVars
  <1>3. QED
    BY <1>1, <1>2, QuietStep

LEMMA TickInv ==
    ASSUME ProtocolInv, Tick
    PROVE  ProtocolInv'
  <1>1. now' \in 1 .. MaxTime
    BY TimeAssumption DEF ProtocolInv, TimesInv, Tick
  <1>2. /\ UNCHANGED <<last_snapshot_at, run, lock, applied, listed>>
        /\ \A s \in sent' : s.at \in 0 .. MaxTime
    BY DEF ProtocolInv, TimesInv, Tick, stateVars, runVars, tillVars, historyVars
  <1>3. QED
    BY <1>1, <1>2, QuietStep

(* The shop, the acknowledgements, the cutoff and the till.                *)
Elsewhere ==
    \/ ShopStep
    \/ \E o \in Orders : Acknowledge(o) \/ MarkRecorded(o) \/ PosRecords(o)
    \/ \E moment \in 1 .. MaxTime : SetOrdersSince(moment)
    \/ \E v \in Variants, n \in PosCounts : PosCounted(v, n)
    \/ UNCHANGED vars

LEMMA ElsewhereIsQuiet ==
    Elsewhere => UNCHANGED <<now, sent, last_snapshot_at, run, lock, applied, listed>>
  BY DEF Elsewhere, ShopStep, Acknowledge, MarkRecorded, PosRecords,
       SetOrdersSince, PosCounted, vars, stateVars, runVars, tillVars, historyVars

LEMMA ElsewhereInv == ProtocolInv /\ Elsewhere => ProtocolInv'
  <1>. SUFFICES ASSUME ProtocolInv, Elsewhere PROVE ProtocolInv'
    OBVIOUS
  <1>1. UNCHANGED <<now, sent, last_snapshot_at, run, lock, applied, listed>>
    BY ElsewhereIsQuiet
  <1>2. QED
    BY <1>1, QuietStep DEF ProtocolInv, TimesInv

LEMMA NextProtocol == ProtocolInv /\ [Next]_vars => ProtocolInv'
  <1>. SUFFICES ASSUME ProtocolInv, [Next]_vars PROVE ProtocolInv'
    OBVIOUS
  <1>1. ASSUME NEW w \in Workers, SnapshotStep(w) \/ Crash(w) PROVE ProtocolInv'
    BY <1>1, BeginInv, ApplyInv, FinishInv, CrashInv DEF SnapshotStep
  <1>2. ASSUME NEW variants \in SUBSET Variants, TakeSnapshot(variants)
        PROVE  ProtocolInv'
    BY <1>2, TakeSnapshotInv
  <1>3. CASE Tick
    BY <1>3, TickInv
  <1>4. CASE Elsewhere
    BY <1>4, ElsewhereInv
  <1>5. QED
    BY <1>1, <1>2, <1>3, <1>4 DEF Next, Elsewhere

LEMMA Protocol == Spec => []ProtocolInv
  BY InitProtocol, NextProtocol, PTL DEF Spec

-----------------------------------------------------------------------------
(* The steps of PosSync as steps of the feed: a variant that is applied    *)
(* adopts its count, the state row that is saved settles the snapshot, and *)
(* every other step leaves the feed alone.                                 *)

LEMMA ApplyAdopts ==
    ASSUME ProtocolInv, NEW w \in Workers, NEW v \in Variants, ApplyVariant(w, v)
    PROVE  \E t \in 0 .. MaxTime : Feed!Adopt(v, t)
  <1>. DEFINE t == run[w].snapshot.at
  <1>1. t \in last_snapshot_at .. MaxTime /\ t \in 0 .. MaxTime
    BY DEF ProtocolInv, TimesInv, RunInv, ApplyVariant
  <1>2. /\ applied' = [applied EXCEPT ![v] =
                           [at |-> t, count |-> run[w].snapshot.count[v]]]
        /\ UNCHANGED <<last_snapshot_at, listed>>
    BY DEF ApplyVariant, stateVars
  <1>3. [u \in Variants |-> applied'[u].at]
           = [[u \in Variants |-> applied[u].at] EXCEPT ![v] = t]
    BY <1>2 DEF ProtocolInv, TimesInv
  <1>4. Feed!Adopt(v, t)
    BY <1>1, <1>2, <1>3 DEF Feed!Adopt, ProtocolInv, TimesInv
  <1>5. QED
    BY <1>1, <1>4 DEF Feed!Adopt

LEMMA FinishSettles ==
    ASSUME ProtocolInv, NEW w \in Workers, FinishSnapshot(w)
    PROVE  \E t \in 0 .. MaxTime, variants \in SUBSET Variants :
               Feed!Settle(t, variants)
  <1>. DEFINE t == run[w].snapshot.at
              variants == Listed(run[w].snapshot)
  <1>1. /\ t \in last_snapshot_at .. MaxTime /\ t \in 0 .. MaxTime
        /\ \A v \in variants : applied[v].at = t
    BY DEF ProtocolInv, TimesInv, RunInv, FinishSnapshot
  <1>2. variants \in SUBSET Variants
    BY DEF Listed
  <1>3. last_snapshot_at' = t /\ listed' = variants /\ applied' = applied
    BY DEF FinishSnapshot
  <1>4. Feed!Settle(t, variants)
    BY <1>1, <1>2, <1>3 DEF Feed!Settle, ProtocolInv, TimesInv
  <1>5. QED
    BY <1>1, <1>2, <1>4

LEMMA FeedInit == Init => Feed!Init
  BY DEF Init, Feed!Init

LEMMA FeedNext == ProtocolInv /\ [Next]_vars => [Feed!Next]_(Feed!feedVars)
  <1>. SUFFICES ASSUME ProtocolInv, [Next]_vars PROVE [Feed!Next]_(Feed!feedVars)
    OBVIOUS
  <1>1. ASSUME NEW w \in Workers, NEW v \in Variants, ApplyVariant(w, v)
        PROVE  Feed!Next
    BY <1>1, ApplyAdopts DEF Feed!Next
  <1>2. ASSUME NEW w \in Workers, FinishSnapshot(w) PROVE Feed!Next
    BY <1>2, FinishSettles DEF Feed!Next
  <1>3. ASSUME UNCHANGED <<last_snapshot_at, applied, listed>>
        PROVE  UNCHANGED Feed!feedVars
    BY <1>3 DEF Feed!feedVars
  <1>4. ASSUME NEW w \in Workers, NEW s \in sent, BeginSnapshot(w, s)
        PROVE  UNCHANGED Feed!feedVars
    BY <1>3, <1>4 DEF BeginSnapshot, stateVars, historyVars
  <1>5. ASSUME NEW w \in Workers, Crash(w) PROVE UNCHANGED Feed!feedVars
    BY <1>3, <1>5 DEF Crash, stateVars, historyVars
  <1>6. ASSUME NEW variants \in SUBSET Variants, TakeSnapshot(variants)
        PROVE  UNCHANGED Feed!feedVars
    BY <1>3, <1>6 DEF TakeSnapshot, stateVars, historyVars
  <1>7. CASE Tick
    BY <1>3, <1>7 DEF Tick, stateVars, historyVars
  <1>8. CASE Elsewhere
    BY <1>3, <1>8, ElsewhereIsQuiet
  <1>9. QED
    BY <1>1, <1>2, <1>4, <1>5, <1>6, <1>7, <1>8 DEF Next, SnapshotStep, Elsewhere

(* apply_snapshot keeps the promise of SnapshotFeed with any number of     *)
(* workers, snapshots in any order and any number of crashes.              *)
THEOREM ImplementsFeed == Spec => FeedSpec
  BY FeedInit, FeedNext, Protocol, PTL DEF Spec, FeedSpec, Feed!Spec

(* The counts of the last finished snapshot never give way to older ones.  *)
THEOREM OldCountsLose == Spec => []NoOldCountWins
  <1>1. ProtocolInv => NoOldCountWins
    BY DEF ProtocolInv, ListedInv, NoOldCountWins, Feed!ListedAreRecent
  <1>2. QED
    BY <1>1, Protocol, PTL

(* A count that a finished snapshot may have written is replaced only by   *)
(* one as recent, whichever variants the snapshots after it list.          *)
THEOREM FinishedCountsStick == Spec => Feed!SettledCountsStick
  <1>. DEFINE from == [v \in Variants |-> applied[v].at]
              Stick == \A v \in Variants :
                          from[v] <= last_snapshot_at => from'[v] >= from[v]
  <1>1. ASSUME ProtocolInv, Feed!Next, NEW v \in Variants,
               from[v] <= last_snapshot_at
        PROVE  from'[v] >= from[v]
    <2>1. from[v] \in Int /\ last_snapshot_at \in Int
      BY <1>1 DEF ProtocolInv, TimesInv
    <2>2. CASE \E t \in 0 .. MaxTime, variants \in SUBSET Variants :
                  Feed!Settle(t, variants)
      BY <2>1, <2>2 DEF Feed!Settle
    <2>3. ASSUME NEW u \in Variants, NEW t \in 0 .. MaxTime, Feed!Adopt(u, t)
          PROVE  from'[v] >= from[v]
      <3>1. from' = [from EXCEPT ![u] = t] /\ t >= last_snapshot_at
        BY <2>3 DEF Feed!Adopt
      <3>2. from'[v] = IF u = v THEN t ELSE from[v]
        BY <3>1
      <3>3. QED
        BY <1>1, <2>1, <3>1, <3>2
    <2>4. QED
      BY <1>1, <2>2, <2>3 DEF Feed!Next
  <1>2. ProtocolInv /\ [Next]_vars => [Stick]_(Feed!feedVars)
    BY <1>1, FeedNext
  <1>3. QED
    BY <1>2, Protocol, PTL DEF Spec, Feed!SettledCountsStick

-----------------------------------------------------------------------------
(* The shop of PosSync is the one the proofs of OrderStock are about:      *)
(* definition by definition, for each of the two has a copy of its own.    *)

LEMMA SameAvailable ==
    ASSUME NEW v PROVE Shop!Available(v) = Proved!Available(v)
  BY DEF Shop!Available, Proved!Available, Shop!ActiveReserved,
         Proved!ActiveReserved, Shop!SumFunction, Proved!SumFunction,
         Shop!SumFunctionOnSet, Proved!SumFunctionOnSet,
         Shop!FoldFunctionOnSet, Proved!FoldFunctionOnSet,
         Shop!MapThenFoldSet, Proved!MapThenFoldSet

LEMMA SameEdit == ASSUME NEW e PROVE Shop!Edit(e) <=> Proved!Edit(e)
  <1>1. ASSUME NEW o, NEW v PROVE Shop!LoadItem(e, o, v) <=> Proved!LoadItem(e, o, v)
    BY DEF Shop!LoadItem, Proved!LoadItem, Shop!rows, Proved!rows,
           Shop!history, Proved!history
  <1>2. ASSUME NEW o, NEW v
        PROVE  Shop!LoadVariant(e, o, v) <=> Proved!LoadVariant(e, o, v)
    BY DEF Shop!LoadVariant, Proved!LoadVariant, Shop!NoOrder, Proved!NoOrder,
           Shop!rows, Proved!rows, Shop!history, Proved!history
  <1>3. Shop!RequestEnds(e) <=> Proved!RequestEnds(e)
    BY DEF Shop!RequestEnds, Proved!RequestEnds, Shop!rows, Proved!rows,
           Shop!history, Proved!history
  <1>4. ASSUME NEW o, NEW v, NEW q
        PROVE  /\ Shop!TakeMore(o, v, q) <=> Proved!TakeMore(o, v, q)
               /\ Shop!GiveBack(o, v, q) <=> Proved!GiveBack(o, v, q)
    BY SameAvailable
       DEF Shop!TakeMore, Proved!TakeMore, Shop!Reserve, Proved!Reserve,
           Shop!Consume, Proved!Consume, Shop!GiveBack, Proved!GiveBack,
           Shop!ReleaseReserved, Proved!ReleaseReserved, Shop!Restore, Proved!Restore
  <1>5. ASSUME NEW item PROVE Shop!MarkMisread(item) <=> Proved!MarkMisread(item)
    BY DEF Shop!MarkMisread, Proved!MarkMisread, Shop!Outdated, Proved!Outdated
  <1>6. ASSUME NEW o PROVE Shop!LockEditableOrder(o) <=> Proved!LockEditableOrder(o)
    BY DEF Shop!LockEditableOrder, Proved!LockEditableOrder,
           Shop!EDITABLE_STATUSES, Proved!EDITABLE_STATUSES
  <1>7. ASSUME NEW S PROVE Shop!Cardinality(S) = Proved!Cardinality(S)
    BY DEF Shop!Cardinality, Proved!Cardinality
  <1>8. ASSUME NEW o, NEW v PROVE Shop!Deleted(e, o, v) = Proved!Deleted(e, o, v)
    BY DEF Shop!Deleted, Proved!Deleted
  <1>9. ASSUME NEW q
        PROVE  Shop!ChangeLineQuantity(e, q) <=> Proved!ChangeLineQuantity(e, q)
    BY <1>4, <1>5, <1>6
       DEF Shop!ChangeLineQuantity, Proved!ChangeLineQuantity, Shop!Delta, Proved!Delta
  <1>10. ASSUME NEW q PROVE Shop!AddLine(e, q) <=> Proved!AddLine(e, q)
    BY <1>4, <1>6 DEF Shop!AddLine, Proved!AddLine
  <1>11. Shop!RemoveLine(e) <=> Proved!RemoveLine(e)
    BY <1>4, <1>5, <1>6, <1>7, <1>8 DEF Shop!RemoveLine, Proved!RemoveLine
  <1> QED
    BY <1>1, <1>2, <1>3, <1>9, <1>10, <1>11
       DEF Shop!Edit, Proved!Edit, Shop!Quantity, Proved!Quantity

LEMMA SameNext == Shop!Next <=> Proved!Next
  <1>1. ASSUME NEW o, NEW cart PROVE Shop!CreateOrder(o, cart) <=> Proved!CreateOrder(o, cart)
    BY SameAvailable DEF Shop!CreateOrder, Proved!CreateOrder, Shop!NoOrder,
       Proved!NoOrder, Shop!history, Proved!history
  <1>2. ASSUME NEW o, NEW to
        PROVE  Shop!TransitionStatus(o, to) <=> Proved!TransitionStatus(o, to)
    BY DEF Shop!TransitionStatus, Proved!TransitionStatus, Shop!NoOrder, Proved!NoOrder,
           Shop!ALLOWED_TRANSITIONS, Proved!ALLOWED_TRANSITIONS, Shop!Status,
           Proved!Status, Shop!Commits, Proved!Commits, Shop!Releases, Proved!Releases,
           Shop!Restores, Proved!Restores, Shop!CommitAllForOrder,
           Proved!CommitAllForOrder, Shop!ReleaseAllForOrder, Proved!ReleaseAllForOrder,
           Shop!RestoreAllForOrder, Proved!RestoreAllForOrder
  <1>3. ASSUME NEW f PROVE Shop!FormStep(f) <=> Proved!FormStep(f)
    BY DEF Shop!FormStep, Proved!FormStep, Shop!OpenProductForm, Proved!OpenProductForm,
           Shop!SaveProductForm, Proved!SaveProductForm, Shop!rows, Proved!rows,
           Shop!history, Proved!history
  <1>4. ASSUME NEW v, NEW n PROVE Shop!Adjust(v, n) <=> Proved!Adjust(v, n)
    BY DEF Shop!Adjust, Proved!Adjust
  <1>5. Shop!TimePasses <=> Proved!TimePasses
    BY DEF Shop!TimePasses, Proved!TimePasses, Shop!ReservationExpires,
           Proved!ReservationExpires, Shop!Quantity, Proved!Quantity,
           Shop!history, Proved!history
  <1>6. Shop!ReleaseExpiredReservations <=> Proved!ReleaseExpiredReservations
    BY DEF Shop!ReleaseExpiredReservations, Proved!ReleaseExpiredReservations,
           Shop!Nothing, Proved!Nothing
  <1> QED
    BY <1>1, <1>2, <1>3, <1>4, <1>5, <1>6, SameEdit
       DEF Shop!Next, Proved!Next, Shop!Carts, Proved!Carts, Shop!Status, Proved!Status

LEMMA SameInit == Shop!Init <=> Proved!Init
  BY DEF Shop!Init, Proved!Init, Shop!NoOrder, Proved!NoOrder, Shop!Nothing,
         Proved!Nothing

LEMMA SameTypeOK == Shop!TypeOK <=> Proved!TypeOK
  BY DEF Shop!TypeOK, Proved!TypeOK, Shop!Quantities, Proved!Quantities,
         Shop!Item, Proved!Item, Shop!FormData, Proved!FormData,
         Shop!Status, Proved!Status, Shop!NoOrder, Proved!NoOrder

LEMMA SameCount ==
    ASSUME NEW v PROVE Shop!CountedByHand(v) <=> Proved!CountedByHand(v)
  BY DEF Shop!CountedByHand, Proved!CountedByHand, Shop!FormSaved, Proved!FormSaved,
         Shop!Adjust, Proved!Adjust

-----------------------------------------------------------------------------
(* The types of PosSync.                                                   *)

(* A sum over some of a set is one over the whole set.                     *)
LEMMA SumOverSome ==
    ASSUME NEW S, IsFiniteSet(S), NEW A \in SUBSET S, NEW h, \A x \in S : h[x] \in Nat
    PROVE  SumFunction([x \in A |-> h[x]])
             = SumFunctionOnSet([x \in S |-> IF x \in A THEN h[x] ELSE 0], S)
  <1> DEFINE f == [x \in A |-> h[x]]
             g == [x \in S |-> IF x \in A THEN h[x] ELSE 0]
  <1>1. SumFunction(f) = SumFunctionOnSet(f, A)
    BY DEF SumFunction
  <1>2. SumFunctionOnSet(f, A) = SumFunctionOnSet(g, A)
    <2>1. \A x \in A : f[x] = g[x]
      OBVIOUS
    <2>2. IsFiniteSet(A)
      BY FS_Subset
    <2> HIDE DEF f, g
    <2> QED
      BY <2>1, <2>2, SumEqual
  <1>3. SumFunctionOnSet(g, S) = SumFunctionOnSet(g, A)
    <2>1. /\ \A x \in S : g[x] \in Int
          /\ \A x \in S \ A : g[x] = 0
      OBVIOUS
    <2> HIDE DEF g
    <2> QED
      BY <2>1, SumSupport
  <1> QED
    BY <1>1, <1>2, <1>3

(* What OrderStock assumes of its constants.                               *)
LEMMA ShopAssumptions ==
    /\ Proved!IsFiniteSet(Orders)
    /\ MaxQty \in Nat \ {0} /\ MaxStock \in Nat /\ MaxDrift \in Nat
    /\ Counts \subseteq Nat /\ Opening \subseteq Nat
    /\ NoItem \notin Proved!Item /\ NoForm \notin Proved!FormData
  BY OrdersAssumption, BoundsAssumption, CountsAssumption, NoItemAssumption,
     NoFormAssumption
     DEF Shop!Item, Proved!Item, Shop!FormData, Proved!FormData, IsFiniteSet,
         Proved!IsFiniteSet

(* What the formula counts of one order.                                   *)
Awaited(v) == [o \in Orders |-> IF AwaitingAck(o) THEN line[o][v] ELSE 0]

LEMMA UnitsAreSum ==
    ASSUME Shop!TypeOK, NEW v \in Variants
    PROVE  /\ UnitsAwaitingAck(v) = SumFunctionOnSet(Awaited(v), Orders)
           /\ UnitsAwaitingAck(v) \in Nat
  <1> DEFINE A == {p \in Orders : AwaitingAck(p)}
             h == [o \in Orders |-> line[o][v]]
             g == [o \in Orders |-> IF o \in A THEN h[o] ELSE 0]
  <1>1. \A o \in Orders : h[o] \in Nat
    BY DEF Shop!TypeOK, Shop!Quantities
  <1>2. SumFunction([o \in A |-> h[o]]) = SumFunctionOnSet(g, Orders)
    <2> HIDE DEF A, h
    <2>1. A \in SUBSET Orders
      BY DEF A
    <2> QED
      BY <1>1, <2>1, SumOverSome, OrdersAssumption
  <1>3. UnitsAwaitingAck(v) = SumFunction([o \in A |-> h[o]])
    <2>1. [o \in A |-> h[o]] = [o \in A |-> line[o][v]]
      OBVIOUS
    <2> QED
      BY <2>1 DEF UnitsAwaitingAck
  <1>4. g = Awaited(v)
    BY DEF Awaited
  <1>5. \A o \in Orders : g[o] \in Nat
    BY <1>1
  <1>6. SumFunctionOnSet(g, Orders) \in Nat
    <2> HIDE DEF g
    <2> QED
      BY <1>5, SumNat, OrdersAssumption
  <1> QED
    BY <1>2, <1>3, <1>4, <1>6

(* The invariant: the types, and what the proofs of OrderStock show of the *)
(* units of every order.  A worker applies only what its snapshot lists,   *)
(* or stock would get a count that is no number.                           *)
SyncInv ==
    /\ TypeOK
    /\ Proved!IInv
    /\ \A w \in Workers : run[w] # NoRun => run[w].todo \subseteq Listed(run[w].snapshot)

LEMMA InitSync == Init => SyncInv
  <1> SUFFICES ASSUME Init PROVE SyncInv
    OBVIOUS
  <1>1. Proved!IInv
    BY SameInit, ShopAssumptions, Proved!InitInv DEF Init
  <1>2. Shop!TypeOK
    BY <1>1, SameTypeOK DEF Proved!IInv
  <1>3. stock \in [Variants -> Nat]
    BY <1>2 DEF Shop!TypeOK
  <1>4. onHand \in [Variants -> Int] /\ applied \in [Variants -> [at : Nat, count : Int]]
    BY <1>3 DEF Init
  <1> QED
    BY <1>1, <1>2, <1>4 DEF Init, SyncInv, TypeOK, NoAck

LEMMA ShopStepSync == SyncInv /\ ShopStep => SyncInv'
  <1> SUFFICES ASSUME SyncInv, ShopStep PROVE SyncInv'
    OBVIOUS
  <1>1. Proved!IInv'
    BY SameNext, ShopAssumptions, Proved!StepInv DEF SyncInv, ShopStep
  <1>2. Shop!TypeOK'
    <2>1. Proved!TypeOK'
      BY <1>1 DEF Proved!IInv
    <2> QED
      BY <2>1 DEF Shop!TypeOK, Proved!TypeOK, Shop!Quantities, Proved!Quantities,
         Shop!Item, Proved!Item, Shop!FormData, Proved!FormData,
         Shop!Status, Proved!Status, Shop!NoOrder, Proved!NoOrder
  <1>3. confirmed_at' \in [Orders -> Nat]
    BY DEF ShopStep, SyncInv, TypeOK
  <1> QED
    BY <1>1, <1>2, <1>3 DEF ShopStep, SyncInv, TypeOK, runVars, tillVars, historyVars, Listed

(* A worker goes on to what its snapshot lists, or ends.                   *)
LEMMA RunsSync ==
    ASSUME SyncInv, NEW w \in Workers,
           (\E s \in sent : BeginSnapshot(w, s)) \/ FinishSnapshot(w) \/ Crash(w)
    PROVE  SyncInv'
  <1>1. UNCHANGED <<shopVars, now, confirmed_at, orders_since, ack, onHand,
                    recorded, sent, applied>>
    BY DEF BeginSnapshot, FinishSnapshot, Crash, stateVars, tillVars, historyVars
  <1>2. /\ run' \in [Workers -> Run \cup {NoRun}]
        /\ \A x \in Workers : run'[x] # NoRun =>
              run'[x].todo \subseteq Listed(run'[x].snapshot)
        /\ last_snapshot_at' \in Nat /\ listed' \subseteq Variants
    <2>1. ASSUME NEW s \in sent, BeginSnapshot(w, s)
          PROVE  /\ run' \in [Workers -> Run \cup {NoRun}]
                 /\ \A x \in Workers : run'[x] # NoRun =>
                       run'[x].todo \subseteq Listed(run'[x].snapshot)
                 /\ last_snapshot_at' \in Nat /\ listed' \subseteq Variants
      <3> DEFINE r == [snapshot |-> s, todo |-> Listed(s)]
      <3>1. r \in Run /\ r.todo \subseteq Listed(r.snapshot)
        BY DEF SyncInv, TypeOK, Run, Listed
      <3>2. run' = [run EXCEPT ![w] = r] /\ UNCHANGED <<last_snapshot_at, listed>>
        BY <2>1 DEF BeginSnapshot, stateVars, historyVars
      <3> HIDE DEF r
      <3> QED
        BY <3>1, <3>2 DEF SyncInv, TypeOK
    <2>2. CASE FinishSnapshot(w)
      <3>1. run[w] \in Run
        BY <2>2 DEF FinishSnapshot, SyncInv, TypeOK
      <3>2. run[w].snapshot.at \in Nat /\ Listed(run[w].snapshot) \subseteq Variants
        BY <3>1 DEF Run, Snapshot, Listed
      <3> QED
        BY <2>2, <3>2 DEF FinishSnapshot, SyncInv, TypeOK
    <2>3. CASE Crash(w)
      BY <2>3 DEF Crash, SyncInv, TypeOK, stateVars, historyVars
    <2> QED
      BY <2>1, <2>2, <2>3
  <1>3. lock' \in Workers \cup {NoWorker} /\ crashes' \in Nat
    BY DEF BeginSnapshot, FinishSnapshot, Crash, SyncInv, TypeOK
  <1>4. Shop!TypeOK' /\ Proved!IInv'
    BY <1>1 DEF SyncInv, TypeOK, shopVars, Shop!TypeOK, Proved!IInv, Proved!TypeOK,
       Proved!LinesInv, Proved!LineInv
  <1> QED
    BY <1>1, <1>2, <1>3, <1>4 DEF SyncInv, TypeOK

(* A snapshot writes a count that is not negative.                         *)
LEMMA ApplySync ==
    ASSUME SyncInv, NEW w \in Workers, NEW v \in Variants, ApplyVariant(w, v)
    PROVE  SyncInv'
  <1> DEFINE n == run[w].snapshot.count[v]
             target == Target(v, n)
  <1>1. /\ run[w] \in Run /\ v \in run[w].todo
        /\ run[w].todo \subseteq Listed(run[w].snapshot)
    BY DEF ApplyVariant, SyncInv, TypeOK
  <1>2. n \in Int /\ run[w].snapshot.at \in Nat
    BY <1>1 DEF Run, Snapshot, Listed
  <1>3. target \in Nat
    <2>1. UnitsAwaitingAck(v) \in Nat
      BY UnitsAreSum DEF SyncInv, TypeOK
    <2>2. n - Subtracted(v) \in Int
      BY <1>2, <2>1 DEF Subtracted
    <2> QED
      BY <2>2 DEF Target
  <1>4. /\ stock' = [stock EXCEPT ![v] = target]
        /\ ledger' = [ledger EXCEPT ![v] = @ + (target - stock[v])]
        /\ UNCHANGED <<status, line, live, lapsed, active, held, form, taken,
                       swept, misread>>
    BY DEF ApplyVariant
  <1>5. Shop!TypeOK' /\ Proved!IInv'
    <2>1. stock' \in [Variants -> Nat] /\ ledger' \in [Variants -> Int]
      <3>1. stock \in [Variants -> Nat] /\ ledger \in [Variants -> Int]
        BY DEF SyncInv, TypeOK, Shop!TypeOK
      <3> HIDE DEF target
      <3> QED
        BY <1>3, <1>4, <3>1
    <2>2. Shop!TypeOK'
      BY <1>4, <2>1 DEF SyncInv, TypeOK, Shop!TypeOK
    <2>3. Proved!TypeOK'
      BY <1>4, <2>1 DEF SyncInv, Proved!IInv, Proved!TypeOK
    <2> QED
      BY <1>4, <2>2, <2>3 DEF SyncInv, Proved!IInv, Proved!LinesInv, Proved!LineInv
  <1>6. /\ run' \in [Workers -> Run \cup {NoRun}]
        /\ \A x \in Workers : run'[x] # NoRun =>
              run'[x].todo \subseteq Listed(run'[x].snapshot)
    <2> DEFINE r == [run[w] EXCEPT !.todo = @ \ {v}]
    <2>1. r \in Run /\ r.todo \subseteq Listed(r.snapshot)
      BY <1>1 DEF Run, Listed
    <2>2. run' = [run EXCEPT ![w] = r]
      BY DEF ApplyVariant
    <2> HIDE DEF r
    <2> QED
      BY <2>1, <2>2 DEF SyncInv, TypeOK
  <1>7. applied' \in [Variants -> [at : Nat, count : Int]]
    BY <1>2 DEF ApplyVariant, SyncInv, TypeOK
  <1> QED
    BY <1>5, <1>6, <1>7 DEF ApplyVariant, SyncInv, TypeOK, stateVars, tillVars

(* The acknowledgements, the cutoff, the till and the clock.               *)
LEMMA RestSync ==
    ASSUME SyncInv,
           \/ \E o \in Orders : Acknowledge(o) \/ MarkRecorded(o) \/ PosRecords(o)
           \/ \E moment \in 1 .. MaxTime : SetOrdersSince(moment)
           \/ \E v \in Variants, n \in PosCounts : PosCounted(v, n)
           \/ \E variants \in SUBSET Variants : TakeSnapshot(variants)
           \/ Tick
           \/ UNCHANGED vars
    PROVE  SyncInv'
  <1>1. UNCHANGED <<shopVars, confirmed_at, last_snapshot_at, runVars, historyVars>>
    BY DEF Acknowledge, MarkRecorded, PosRecords, SetOrdersSince, PosCounted,
       TakeSnapshot, Tick, vars, stateVars
  <1>2. Shop!TypeOK' /\ Proved!IInv'
    BY <1>1 DEF SyncInv, TypeOK, shopVars, Shop!TypeOK, Proved!IInv, Proved!TypeOK,
       Proved!LinesInv, Proved!LineInv
  <1>3. ack' \in [Orders -> {NoAck, "pos", "manual"}] /\ orders_since' \in Nat
    BY DEF Acknowledge, MarkRecorded, PosRecords, SetOrdersSince, PosCounted,
       TakeSnapshot, Tick, vars, stateVars, SyncInv, TypeOK
  <1>4. now' \in Nat /\ recorded' \subseteq Orders
    BY DEF Acknowledge, MarkRecorded, PosRecords, SetOrdersSince, PosCounted,
       TakeSnapshot, Tick, vars, tillVars, SyncInv, TypeOK
  <1>5. onHand' \in [Variants -> Int]
    <2>1. \A o \in Orders, v \in Variants : line[o][v] \in Nat
      BY DEF SyncInv, TypeOK, Shop!TypeOK, Shop!Quantities
    <2> QED
      BY <2>1, PosCountsAssumption DEF Acknowledge, MarkRecorded, PosRecords,
         SetOrdersSince, PosCounted, TakeSnapshot, Tick, vars, tillVars, SyncInv, TypeOK
  <1>6. sent' \subseteq Snapshot
    <2>1. CASE sent' = sent
      BY <2>1 DEF SyncInv, TypeOK
    <2>2. ASSUME NEW variants \in SUBSET Variants, TakeSnapshot(variants)
          PROVE  sent' \subseteq Snapshot
      <3> DEFINE s == [at |-> now, count |-> [v \in Variants |->
                          IF v \in variants THEN onHand[v] ELSE NotListed]]
      <3>1. s \in Snapshot
        BY DEF SyncInv, TypeOK, Snapshot
      <3>2. sent' = sent \cup {s}
        BY <2>2 DEF TakeSnapshot
      <3> QED
        BY <3>1, <3>2 DEF SyncInv, TypeOK
    <2> QED
      BY <2>1, <2>2 DEF Acknowledge, MarkRecorded, PosRecords, SetOrdersSince,
         PosCounted, Tick, vars, tillVars
  <1> QED
    BY <1>1, <1>2, <1>3, <1>4, <1>5, <1>6
       DEF SyncInv, TypeOK, runVars, historyVars, Listed

LEMMA NextSync == SyncInv /\ [Next]_vars => SyncInv'
  BY ShopStepSync, RunsSync, ApplySync, RestSync DEF Next, SnapshotStep

LEMMA Synced == Spec => []SyncInv
  BY InitSync, NextSync, PTL DEF Spec

(* For every number of orders, variants, workers and snapshots, stock is   *)
(* never negative, whatever the point of sale counts and however many web  *)
(* orders wait for it (max() in _apply_variant, possync/services.py).      *)
THEOREM SyncTypeCorrect == Spec => []TypeOK
  <1>1. SyncInv => TypeOK
    BY DEF SyncInv
  <1> QED
    BY <1>1, Synced, PTL

-----------------------------------------------------------------------------
(* Stock and the formula.                                                  *)

LEMMA UnitsAreSumNext ==
    ASSUME Shop!TypeOK', NEW v \in Variants
    PROVE  UnitsAwaitingAck(v)' = SumFunctionOnSet(Awaited(v)', Orders)
  <1> DEFINE A == {p \in Orders : AwaitingAck(p)'}
             h == [o \in Orders |-> line'[o][v]]
             g == [o \in Orders |-> IF o \in A THEN h[o] ELSE 0]
  <1>1. \A o \in Orders : h[o] \in Nat
    BY DEF Shop!TypeOK, Shop!Quantities
  <1>2. SumFunction([o \in A |-> h[o]]) = SumFunctionOnSet(g, Orders)
    <2> HIDE DEF A, h
    <2>1. A \in SUBSET Orders
      BY DEF A
    <2> QED
      BY <1>1, <2>1, SumOverSome, OrdersAssumption
  <1>3. UnitsAwaitingAck(v)' = SumFunction([o \in A |-> h[o]])
    <2>1. [o \in A |-> h[o]] = [o \in A |-> line'[o][v]]
      OBVIOUS
    <2> QED
      BY <2>1 DEF UnitsAwaitingAck
  <1>4. g = Awaited(v)'
    BY DEF Awaited
  <1> QED
    BY <1>2, <1>3, <1>4

(* The orders the formula waits for are those whose units left the shelf.  *)
LEMMA AwaitedIsTaken ==
    ASSUME SyncInv, NEW o \in Orders \ (swept \cup misread), ack[o] = NoAck,
           status[o] \in AWAITING_ACK_STATUSES => confirmed_at[o] >= orders_since,
           NEW v \in Variants
    PROVE  Awaited(v)[o] = taken[o][v]
  <1>1. Proved!LineInv(o, v)
    BY DEF SyncInv, Proved!IInv, Proved!LinesInv
  <1>2. AWAITING_ACK_STATUSES = Proved!Holding
    BY DEF AWAITING_ACK_STATUSES, Proved!Holding
  <1>3. "pending_confirmation" \notin Proved!Holding
    BY DEF Proved!Holding
  <1>4. taken[o][v] = IF status[o] \in Proved!Holding THEN line[o][v] ELSE 0
    BY <1>1, <1>3 DEF Proved!LineInv
  <1> QED
    BY <1>2, <1>4 DEF Awaited, AwaitingAck

LEMMA AwaitedIsTakenNext ==
    ASSUME SyncInv', NEW o \in Orders \ (swept' \cup misread'), ack'[o] = NoAck,
           status'[o] \in AWAITING_ACK_STATUSES => confirmed_at'[o] >= orders_since',
           NEW v \in Variants
    PROVE  Awaited(v)'[o] = taken'[o][v]
  <1>1. Proved!LineInv(o, v)'
    BY DEF SyncInv, Proved!IInv, Proved!LinesInv
  <1>2. AWAITING_ACK_STATUSES = Proved!Holding
    BY DEF AWAITING_ACK_STATUSES, Proved!Holding
  <1>3. "pending_confirmation" \notin Proved!Holding
    BY DEF Proved!Holding
  <1>4. taken'[o][v] = IF status'[o] \in Proved!Holding THEN line'[o][v] ELSE 0
    BY <1>1, <1>3 DEF Proved!LineInv
  <1> QED
    BY <1>2, <1>4 DEF Awaited, AwaitingAck

(* What OrdersMoveStockAsFormula says of one variant in one step.          *)
AsFormula(v) == stock'[v] - stock[v] = UnitsAwaitingAck(v) - UnitsAwaitingAck(v)'
Excused(o) == Touched(o) /\ (OutsideFormula(o) \/ o \in swept \cup misread')

LEMMA SumOverOrders ==
    ASSUME NEW f, NEW g, NEW o \in Orders,
           \A p \in Orders : f[p] \in Int /\ g[p] \in Int,
           \A p \in Orders \ {o} : g[p] = f[p]
    PROVE  SumFunctionOnSet(g, Orders) = SumFunctionOnSet(f, Orders) + g[o] - f[o]
  BY SumChange, OrdersAssumption

(* A step that touches one order at most, whose units move stock.          *)
LEMMA OneOrderAsFormula ==
    ASSUME SyncInv, SyncInv', NEW o \in Orders, NEW v \in Variants,
           Proved!MovesOnly(o, v), ~Excused(o),
           UNCHANGED <<ack, orders_since>>,
           \A p \in Orders : confirmed_at'[p] =
               IF status[p] # "confirmed" /\ status'[p] = "confirmed"
               THEN now ELSE confirmed_at[p],
           \A p \in Orders : status'[p] = "confirmed" =>
                status[p] \in {"confirmed", "pending_confirmation"}
    PROVE  AsFormula(v)
  <1> DEFINE f == Awaited(v)
             g == Awaited(v)'
  <1>1. Shop!TypeOK /\ Shop!TypeOK'
    BY DEF SyncInv, TypeOK
  <1>2. \A p \in Orders : f[p] \in Int /\ g[p] \in Int
    BY <1>1 DEF Awaited, Shop!TypeOK, Shop!Quantities
  <1>3. \A p \in Orders \ {o} : g[p] = f[p]
    BY DEF Proved!MovesOnly, Awaited, AwaitingAck
  <1>4. g[o] - f[o] = taken'[o][v] - taken[o][v]
    <2>1. CASE Touched(o)
      <3>1. /\ ack[o] = NoAck /\ ~(confirmed_at'[o] < orders_since)
            /\ o \notin swept \cup misread'
        BY <2>1 DEF Excused, OutsideFormula
      <3>2. confirmed_at'[o] >= orders_since
        BY <3>1 DEF SyncInv, TypeOK
      <3>3. swept' = swept /\ misread \subseteq misread'
        BY DEF Proved!MovesOnly
      <3>4. status[o] \in AWAITING_ACK_STATUSES => confirmed_at[o] >= orders_since
        BY <3>2 DEF AWAITING_ACK_STATUSES
      <3>5. f[o] = taken[o][v]
        BY <3>1, <3>3, <3>4, AwaitedIsTaken
      <3>6. g[o] = taken'[o][v]
        BY <3>1, <3>2, <3>3, AwaitedIsTakenNext
      <3> QED
        BY <3>5, <3>6
    <2>2. CASE ~Touched(o)
      <3>1. status'[o] = status[o] /\ line'[o] = line[o] /\ taken'[o] = taken[o]
        BY <2>2 DEF Touched
      <3>2. g[o] = f[o]
        BY <3>1 DEF Awaited, AwaitingAck
      <3>3. taken[o][v] \in Int
        BY <1>1 DEF Shop!TypeOK
      <3> QED
        BY <1>2, <3>1, <3>2, <3>3
    <2> QED
      BY <2>1, <2>2
  <1>5. SumFunctionOnSet(g, Orders) = SumFunctionOnSet(f, Orders) + g[o] - f[o]
    <2>1. PICK F, G : F = f /\ G = g
      OBVIOUS
    <2>2. SumFunctionOnSet(G, Orders) = SumFunctionOnSet(F, Orders) + G[o] - F[o]
      <3>1. /\ \A p \in Orders : F[p] \in Int /\ G[p] \in Int
            /\ \A p \in Orders \ {o} : G[p] = F[p]
        BY <1>2, <1>3, <2>1
      <3> QED
        BY <3>1, SumOverOrders
    <2> QED
      BY <2>1, <2>2
  <1>6. /\ UnitsAwaitingAck(v) = SumFunctionOnSet(f, Orders)
        /\ UnitsAwaitingAck(v) \in Int
        /\ UnitsAwaitingAck(v)' = SumFunctionOnSet(g, Orders)
    BY <1>1, UnitsAreSum, UnitsAreSumNext
  <1>7. stock'[v] - stock[v] = taken[o][v] - taken'[o][v]
    BY DEF Proved!MovesOnly
  <1>8. taken[o][v] \in Int /\ taken'[o][v] \in Int
    BY <1>1 DEF Shop!TypeOK
  <1>9. f[o] \in Int /\ g[o] \in Int
    BY <1>2
  <1> HIDE DEF f, g
  <1> QED
    BY <1>4, <1>5, <1>6, <1>7, <1>8, <1>9 DEF AsFormula

(* The orders the formula waits for, their lines and stock are the same.   *)
LEMMA QuietAsFormula ==
    ASSUME SyncInv, NEW v \in Variants, stock'[v] = stock[v],
           UNCHANGED <<line, ack, orders_since>>,
           \A p \in Orders : status'[p] = status[p] /\ confirmed_at'[p] = confirmed_at[p]
    PROVE  AsFormula(v)
  <1>1. {p \in Orders : AwaitingAck(p)'} = {p \in Orders : AwaitingAck(p)}
    BY DEF AwaitingAck
  <1>2. UnitsAwaitingAck(v)' = UnitsAwaitingAck(v)
    BY <1>1 DEF UnitsAwaitingAck
  <1>3. UnitsAwaitingAck(v) \in Int /\ stock[v] \in Int
    BY UnitsAreSum DEF SyncInv, TypeOK, Shop!TypeOK
  <1> QED
    BY <1>2, <1>3 DEF AsFormula

LEMMA ShopStepAsFormula ==
    ASSUME SyncInv, SyncInv', ShopStep, NEW v \in Variants
    PROVE  AsFormula(v) \/ Counted(v) \/ \E o \in Orders : Excused(o)
  <1>1. Proved!TypeOK /\ Proved!Next
    BY SameNext DEF SyncInv, Proved!IInv, ShopStep
  <1>2. /\ \/ \E o \in Orders : Proved!MovesOnly(o, v)
           \/ /\ UNCHANGED <<status, line, taken>>
              /\ Proved!CountedByHand(v) \/ stock'[v] = stock[v]
        /\ \A o \in Orders :
              status'[o] = "confirmed" =>
                  status[o] \in {"confirmed", "pending_confirmation"}
    BY <1>1, ShopAssumptions, Proved!StepMoves
  <1>3. /\ UNCHANGED <<ack, orders_since>>
        /\ \A p \in Orders : confirmed_at'[p] =
              IF status[p] # "confirmed" /\ status'[p] = "confirmed"
              THEN now ELSE confirmed_at[p]
    BY DEF ShopStep
  <1>4. ASSUME NEW o \in Orders, Proved!MovesOnly(o, v), ~Excused(o)
        PROVE  AsFormula(v)
    BY <1>2, <1>3, <1>4, OneOrderAsFormula
  <1>5. ASSUME UNCHANGED <<status, line, taken>>, stock'[v] = stock[v]
        PROVE  AsFormula(v)
    BY <1>3, <1>5, QuietAsFormula
  <1>6. Proved!CountedByHand(v) => Counted(v)
    BY SameCount DEF Counted
  <1> QED
    BY <1>2, <1>4, <1>5, <1>6

(* For every number of orders, variants, requests, workers and snapshots:  *)
(* confirmations, edits, cancellations and returns between two snapshots   *)
(* move stock exactly as _apply_variant would on the same count, but for   *)
(* the exceptions that OrdersMoveStockAsFormula names.                     *)
THEOREM StockFollowsFormula == Spec => OrdersMoveStockAsFormula
  <1>1. ASSUME SyncInv, SyncInv', [Next]_vars
        PROVE  [\A v \in Variants :
                   \/ AsFormula(v)
                   \/ Counted(v)
                   \/ Recounted
                   \/ \E o \in Orders : Excused(o)]_vars
    <2> SUFFICES ASSUME Next, NEW v \in Variants
                 PROVE  \/ AsFormula(v) \/ Counted(v) \/ Recounted
                        \/ \E o \in Orders : Excused(o)
      BY <1>1
    <2>1. CASE ShopStep
      BY <1>1, <2>1, ShopStepAsFormula
    <2>2. ASSUME UNCHANGED <<shopVars, confirmed_at, ack, orders_since>>
          PROVE  AsFormula(v)
      BY <1>1, <2>2, QuietAsFormula DEF shopVars
    <2>3. ASSUME NEW w \in Workers, SnapshotStep(w) \/ Crash(w)
          PROVE  AsFormula(v) \/ Counted(v)
      <3>1. ASSUME NEW u \in Variants, ApplyVariant(w, u)
            PROVE  AsFormula(v) \/ Counted(v)
        <4>1. CASE u = v
          BY <3>1, <4>1 DEF Counted
        <4>2. CASE u # v
          <5>1. /\ UNCHANGED <<line, ack, orders_since, status, confirmed_at>>
                /\ stock'[v] = stock[v]
            BY <1>1, <3>1, <4>2 DEF ApplyVariant, stateVars, SyncInv, TypeOK, Shop!TypeOK
          <5> QED
            BY <1>1, <5>1, QuietAsFormula
        <4> QED
          BY <4>1, <4>2
      <3> QED
        BY <2>2, <2>3, <3>1 DEF SnapshotStep, BeginSnapshot, FinishSnapshot, Crash,
           stateVars
    <2>4. ASSUME NEW o \in Orders, Acknowledge(o) \/ MarkRecorded(o) \/ PosRecords(o)
          PROVE  AsFormula(v) \/ Recounted
      <3>1. UNCHANGED <<shopVars, confirmed_at, orders_since>>
        BY <2>4 DEF Acknowledge, MarkRecorded, PosRecords, stateVars
      <3> QED
        BY <2>2, <3>1 DEF Recounted
    <2>5. ASSUME NEW moment, SetOrdersSince(moment)
          PROVE  AsFormula(v) \/ Recounted
      <3>1. UNCHANGED <<shopVars, confirmed_at, ack>>
        BY <2>5 DEF SetOrdersSince
      <3> QED
        BY <2>2, <3>1 DEF Recounted
    <2>6. ASSUME \/ \E u \in Variants, n \in PosCounts : PosCounted(u, n)
                 \/ \E variants \in SUBSET Variants : TakeSnapshot(variants)
                 \/ Tick
          PROVE  AsFormula(v)
      BY <2>2, <2>6 DEF PosCounted, TakeSnapshot, Tick, stateVars
    <2> QED
      BY <2>1, <2>3, <2>4, <2>5, <2>6 DEF Next
  <1>2. SyncInv /\ [Next]_vars => SyncInv'
    BY NextSync
  <1> QED
    BY <1>1, <1>2, Synced, PTL DEF Spec, OrdersMoveStockAsFormula, AsFormula, Excused
=============================================================================
