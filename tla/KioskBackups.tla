---------------------------- MODULE KioskBackups ----------------------------
(***************************************************************************)
(* The tablet backups, of which only the newest are kept (backup_upload    *)
(* and backup_latest of noor/views.py, KioskBackup of noor/models.py).     *)
(*                                                                         *)
(* Grain.  An upload is one transaction of three statements, each of which *)
(* sees what is committed by then: insert, list the newest, delete what is *)
(* not among them.                                                         *)
(*                                                                         *)
(* Data.  A backup is its place in the order of received_at.  The checks   *)
(* of the body come before any of this and are left out.                   *)
(***************************************************************************)
EXTENDS FiniteSets, Integers

CONSTANTS
    Uploads,             \* uploads that may run at once
    BACKUP_KEEP_NEWEST,  \* noor/config.py
    MaxReceived          \* bound: uploads ever received

VARIABLES
    backups,    \* the committed KioskBackup rows
    received,   \* uploads received so far
    upload,     \* upload[u]: its backup, and the rows it keeps and deletes
    stored,     \* history: every backup whose upload was answered 201
    overlooked  \* history: the backups deleted by an upload that had listed
                \* what to keep before they were committed

vars == <<backups, received, upload, stored, overlooked>>

Idle == [step |-> "idle"]

Newest(rows) == {b \in rows : Cardinality({c \in rows : c > b}) < BACKUP_KEEP_NEWEST}

Init ==
    /\ backups = {} /\ received = 0 /\ stored = {} /\ overlooked = {}
    /\ upload = [u \in Uploads |-> Idle]

Insert(u) ==
    /\ upload[u] = Idle
    /\ received < MaxReceived
    /\ received' = received + 1
    /\ upload' = [upload EXCEPT ![u] = [step |-> "inserted", backup |-> received + 1]]
    /\ UNCHANGED <<backups, stored, overlooked>>

(* A statement sees the committed rows and those of its own transaction.   *)
Visible(u) == backups \cup {upload[u].backup}

ListNewest(u) ==
    /\ upload[u].step = "inserted"
    /\ upload' = [upload EXCEPT ![u] =
          [step |-> "listed", backup |-> upload[u].backup, keep |-> Newest(Visible(u)),
           seen |-> backups]]
    /\ UNCHANGED <<backups, received, stored, overlooked>>

(* Mutant: whatever is older than its own backup goes.                     *)
DoomedOlder(u) == {b \in backups : b < upload[u].backup}

Doomed(u) == (backups \cup {upload[u].backup}) \ upload[u].keep

DeleteOthers(u) ==
    /\ upload[u].step = "listed"
    /\ upload' = [upload EXCEPT ![u] =
          [step |-> "deleted", backup |-> upload[u].backup, doomed |-> Doomed(u)]]
    /\ overlooked' = overlooked \cup
          (Doomed(u) \ (upload[u].seen \cup {upload[u].backup}))
    /\ UNCHANGED <<backups, received, stored>>

Commit(u) ==
    /\ upload[u].step = "deleted"
    /\ backups' = (backups \cup {upload[u].backup}) \ upload[u].doomed
    /\ stored' = stored \cup {upload[u].backup}
    /\ upload' = [upload EXCEPT ![u] = Idle]
    /\ UNCHANGED <<received, overlooked>>

RollBack(u) ==
    /\ upload[u] # Idle
    /\ upload' = [upload EXCEPT ![u] = Idle]
    /\ UNCHANGED <<backups, received, stored, overlooked>>

Next ==
    \E u \in Uploads :
        Insert(u) \/ ListNewest(u) \/ DeleteOthers(u) \/ Commit(u) \/ RollBack(u)

Spec == Init /\ [][Next]_vars

-----------------------------------------------------------------------------
(* Properties.                                                             *)

TypeOK ==
    /\ backups \subseteq 1 .. received /\ stored \subseteq 1 .. received
    /\ backups \subseteq stored
    /\ \A u \in Uploads :
          upload[u].step \in {"idle", "inserted", "listed", "deleted"}

(* The newest backups that were stored are there, except those that an     *)
(* upload running at the same time deleted without having listed them.     *)
NewestAreKept == Newest(stored) \subseteq backups \cup overlooked
=============================================================================
