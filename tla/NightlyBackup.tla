---------------------------- MODULE NightlyBackup ----------------------------
(***************************************************************************)
(* The nightly job: dump the database, trim the local dumps, copy the dump *)
(* off the box, trim those copies, mirror the bucket (core/backup.py and   *)
(* its management command).                                                *)
(*                                                                         *)
(* Grain.  Each of the five is a step, in this order; the first that       *)
(* raises ends the job, and so does a crash.  A job ends before the next   *)
(* night.                                                                  *)
(*                                                                         *)
(* Data.  A dump is its age in days, up to one past retention.  Storage is *)
(* the production bucket; media objects other than dumps are left out.     *)
(***************************************************************************)
EXTENDS Integers

CONSTANT BACKUP_RETENTION_DAYS  \* core/config.py

VARIABLES
    job,       \* the last step of tonight's job: "mirrored" when it has
               \* done all of them, "over" when there is none or it failed
    dumps,     \* ages of the whole dumps in BACKUP_DIR
    broken,    \* ages of the files there that a failing pg_dump left
    uploads,   \* ages of the dumps under backups/db/ in the bucket
    mirrored,  \* ages of the dumps among the mirrored objects
    dumped,    \* history: a job has written a whole dump
    uploaded   \* history: a job has copied one off the box

vars == <<job, dumps, broken, uploads, mirrored, dumped, uploaded>>

Init ==
    /\ job = "over" /\ dumps = {} /\ broken = {} /\ uploads = {} /\ mirrored = {}
    /\ dumped = FALSE /\ uploaded = FALSE

Oldest == BACKUP_RETENTION_DAYS + 1
DayOlder(ages) == {IF a = Oldest THEN a ELSE a + 1 : a \in ages}

(* Cron starts the job, or not: the machine may be down.                   *)
NextNight(starts) ==
    /\ job \in {"over", "mirrored"}
    /\ job' = IF starts THEN "started" ELSE "over"
    /\ dumps' = DayOlder(dumps) /\ broken' = DayOlder(broken)
    /\ uploads' = DayOlder(uploads) /\ mirrored' = DayOlder(mirrored)
    /\ UNCHANGED <<dumped, uploaded>>

DumpDatabase ==
    /\ job = "started"
    /\ job' = "dumped"
    /\ dumps' = dumps \cup {0}
    /\ dumped' = TRUE
    /\ UNCHANGED <<broken, uploads, mirrored, uploaded>>

(* Mutant: a failing dump does not end the job.                            *)
DumpFailsSilently ==
    /\ job = "started"
    /\ job' = "dumped"
    /\ broken' \in {broken, broken \cup {0}}
    /\ UNCHANGED <<dumps, uploads, mirrored, dumped, uploaded>>

DumpFails ==
    /\ job = "started"
    /\ job' = "over"
    /\ broken' \in {broken, broken \cup {0}}
    /\ UNCHANGED <<dumps, uploads, mirrored, dumped, uploaded>>

Kept(ages) == {a \in ages : a <= BACKUP_RETENTION_DAYS}

ApplyLocalRetention ==
    /\ job = "dumped"
    /\ job' = "trimmed"
    /\ dumps' = Kept(dumps) /\ broken' = Kept(broken)
    /\ UNCHANGED <<uploads, mirrored, dumped, uploaded>>

UploadDump ==
    /\ job = "trimmed"
    /\ job' = "uploaded"
    /\ uploads' = uploads \cup {0}
    /\ uploaded' = TRUE
    /\ UNCHANGED <<dumps, broken, mirrored, dumped>>

ApplyRemoteRetention ==
    /\ job = "uploaded"
    /\ job' = "trimmed there"
    /\ uploads' = Kept(uploads)
    /\ UNCHANGED <<dumps, broken, mirrored, dumped, uploaded>>

(* Every object of the bucket but the mirror's own: the dumps too.         *)
SyncMediaBackupMirror ==
    /\ job = "trimmed there"
    /\ job' = "mirrored"
    /\ mirrored' = mirrored \cup uploads
    /\ UNCHANGED <<dumps, broken, uploads, dumped, uploaded>>

(* An exception or a crash; what the mirror has copied by then stays.      *)
JobFails ==
    /\ job \notin {"over", "started", "mirrored"}
    /\ job' = "over"
    /\ \E copied \in SUBSET (IF job = "trimmed there" THEN uploads ELSE {}) :
          mirrored' = mirrored \cup copied
    /\ UNCHANGED <<dumps, broken, uploads, dumped, uploaded>>

Next ==
    \/ \E starts \in BOOLEAN : NextNight(starts)
    \/ DumpDatabase \/ DumpFails
    \/ ApplyLocalRetention \/ UploadDump \/ ApplyRemoteRetention
    \/ SyncMediaBackupMirror \/ JobFails

Spec == Init /\ [][Next]_vars

-----------------------------------------------------------------------------
(* Properties.                                                             *)

TypeOK ==
    /\ job \in {"over", "started", "dumped", "trimmed", "uploaded", "trimmed there",
               "mirrored"}
    /\ dumps \subseteq 0 .. Oldest /\ broken \subseteq 0 .. Oldest
    /\ uploads \subseteq 0 .. Oldest /\ mirrored \subseteq 0 .. Oldest
    /\ dumped \in BOOLEAN /\ uploaded \in BOOLEAN

(* Retention never takes the last good dump, on the box or off it, however *)
(* many nights the dump or the copy has failed or the machine was down.    *)
LastDumpStays == (dumped => dumps # {}) /\ (uploaded => uploads # {})

-----------------------------------------------------------------------------
(* What a document says and the code does not do.                          *)

(* core/config.py:48-50: BACKUP_RETENTION_DAYS is how long a pg_dump and   *)
(* its copy off the box survive before the next retention pass deletes     *)
(* them; core/backup.py:1-2 and specs/REQUIREMENTS.md:418 say 30 days, too.*)
(* So once a job has done all of its steps, both passes among them, no     *)
(* older dump is left anywhere.  But the mirror, which needs no retention  *)
(* for media (core/backup.py:22-25), has copied the dumps as well, and     *)
(* nothing ever deletes from it.                                           *)
DumpsExpire ==
    job = "mirrored" =>
        dumps \cup uploads \cup mirrored \subseteq 0 .. BACKUP_RETENTION_DAYS
=============================================================================
