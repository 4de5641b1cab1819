--------------------------- MODULE MCHousekeeping ---------------------------
(***************************************************************************)
(* The parts that keep the shop running, for TLC.  They share no state, so *)
(* each behaviour is one of one part: "part" says which.                   *)
(***************************************************************************)
EXTENDS FiniteSets, Integers

CONSTANTS Settings, Defaults, Readers, Nothing,
          Workers, MaxAttempts, Window, Threshold, NoLockout, LockoutWindow,
          Uploads, BACKUP_KEEP_NEWEST, MaxReceived,
          BACKUP_RETENTION_DAYS

(* What get_or_create makes of a missing row is a row; policies and keeps  *)
(* are the numbers of the settings module, and a process has some workers. *)
ASSUME SettingsAssumption == Defaults \in Settings
ASSUME PolicyAssumption ==
    /\ MaxAttempts \in Nat \ {0} /\ Window \in Nat /\ LockoutWindow \in Nat
    /\ Threshold # NoLockout => Threshold \in Nat \ {0}
ASSUME WorkersAssumption == IsFiniteSet(Workers) /\ Workers # {}
ASSUME KeepAssumption == BACKUP_KEEP_NEWEST \in Nat
ASSUME RetentionAssumption == BACKUP_RETENTION_DAYS \in Nat

VARIABLES part,
    row, cache, reader, save, overtaken,
    attempts, worker,
    backups, received, upload, stored, overlooked,
    job, dumps, broken, uploads, mirrored, dumped, uploaded

cache_vars == <<row, cache, reader, save, overtaken>>
limit_vars == <<attempts, worker>>
kiosk_vars == <<backups, received, upload, stored, overlooked>>
night_vars == <<job, dumps, broken, uploads, mirrored, dumped, uploaded>>

Cache == INSTANCE SettingsCache
Limit == INSTANCE RateLimit
Kiosk == INSTANCE KioskBackups
Night == INSTANCE NightlyBackup

Init ==
    /\ part \in {"cache", "limit", "kiosk", "night"}
    /\ Cache!Init /\ Limit!Init /\ Kiosk!Init /\ Night!Init

Next ==
    /\ UNCHANGED part
    /\ \/ /\ part = "cache" /\ Cache!Next
          /\ UNCHANGED <<limit_vars, kiosk_vars, night_vars>>
       \/ /\ part = "limit" /\ Limit!Next
          /\ UNCHANGED <<cache_vars, kiosk_vars, night_vars>>
       \/ /\ part = "kiosk" /\ Kiosk!Next
          /\ UNCHANGED <<cache_vars, limit_vars, night_vars>>
       \/ /\ part = "night" /\ Night!Next
          /\ UNCHANGED <<cache_vars, limit_vars, kiosk_vars>>

vars == <<part, cache_vars, limit_vars, kiosk_vars, night_vars>>

(* The clock goes on.                                                      *)
Time ==
    /\ part = "limit" /\ Limit!Tick
    /\ UNCHANGED <<part, cache_vars, kiosk_vars, night_vars>>

Spec == Init /\ [][Next]_vars /\ WF_vars(Time)

(* SettingsCache: no outdated settings stay in the cache but for a race.   *)
CacheFollowsRow == Cache!CacheFollowsRow

(* RateLimit: parallel requests get past the limit one each, no more.      *)
BurstsAreBounded == Limit!BurstsAreBounded

(* RateLimit: a lockout ends by itself, whatever is tried meanwhile.       *)
LockoutEnds == Limit!LockoutEnds

(* KioskBackups: the newest are there but for an overlapping upload.       *)
NewestAreKept == Kiosk!NewestAreKept

(* NightlyBackup: retention never takes the last good dump.                *)
LastDumpStays == Night!LastDumpStays

(* NightlyBackup: what the requirements say of the retention window.       *)
DumpsExpire == Night!DumpsExpire
=============================================================================
