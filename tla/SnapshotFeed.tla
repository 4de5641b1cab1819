---------------------------- MODULE SnapshotFeed ----------------------------
(***************************************************************************)
(* What POS sync promises about stock counts, leaving out how: the counts  *)
(* of each variant come from snapshots, a snapshot is settled when every   *)
(* variant it lists has its count, and what a settled snapshot wrote is    *)
(* never overwritten by an older one.  A snapshot that has not been        *)
(* settled promises nothing.                                               *)
(***************************************************************************)
EXTENDS Integers

CONSTANTS
    Variants,  \* product variants
    Times      \* the times a snapshot may bear

VARIABLES
    from,     \* from[v]: the time of the snapshot that v's count is from
    settled,  \* the time of the last settled snapshot, 0 when there is none
    listed    \* the variants the last settled snapshot lists

feedVars == <<from, settled, listed>>

Init ==
    /\ from = [v \in Variants |-> 0]
    /\ settled = 0
    /\ listed = {}

(* One count of a snapshot taken at time t reaches its variant.            *)
Adopt(v, t) ==
    /\ t >= settled
    /\ from' = [from EXCEPT ![v] = t]
    /\ UNCHANGED <<settled, listed>>

Settle(t, variants) ==
    /\ t >= settled
    /\ \A v \in variants : from[v] = t
    /\ settled' = t
    /\ listed' = variants
    /\ UNCHANGED from

Next ==
    \/ \E v \in Variants, t \in Times : Adopt(v, t)
    \/ \E t \in Times, variants \in SUBSET Variants : Settle(t, variants)

Spec == Init /\ [][Next]_feedVars

-----------------------------------------------------------------------------
(* A variant of the last settled snapshot has a count at least as recent.  *)
ListedAreRecent == \A v \in listed : from[v] >= settled

(* The count of a settled snapshot is only replaced by one as recent.      *)
SettledCountsStick ==
    [][\A v \in Variants : from[v] <= settled => from'[v] >= from[v]]_feedVars
=============================================================================
