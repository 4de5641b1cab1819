-------------------------- MODULE HousekeepingProofs --------------------------
(***************************************************************************)
(* What the parts that keep the shop running promise, for any number of    *)
(* requests, workers and uploads, any policy, any number of backups kept   *)
(* and any retention window.  Each part has its invariant, and a step of   *)
(* the whole is one of a part that leaves the others alone.                *)
(***************************************************************************)
EXTENDS MCHousekeeping, Sums

-----------------------------------------------------------------------------
(* SettingsCache.  A save that found no entry to delete leaves none        *)
(* behind, unless a request filled one in the meantime; that is all that a *)
(* commit needs to know of what happened since the save looked.            *)

(* What a save that has looked for an entry knows of the cache.            *)
FoundNothing ==
    save # Nothing /\ save.cleared = "nothing" => cache = Nothing \/ overtaken

CacheInv == Cache!TypeOK /\ FoundNothing /\ Cache!CacheFollowsRow

LEMMA InitCache == Cache!Init => CacheInv
  BY DEF Cache!Init, CacheInv, Cache!TypeOK, FoundNothing, Cache!CacheFollowsRow

(* The reader: what it fills is the row's, or is written down as overtaken.*)
LEMMA ReaderKeeps ==
    ASSUME CacheInv, NEW r \in Readers,
           Cache!Miss(r) \/ Cache!ReadRow(r) \/ Cache!FillCache(r) \/ Cache!FillFails(r)
    PROVE  CacheInv'
  <1>1. CASE Cache!Miss(r)
    BY <1>1 DEF Cache!Miss, CacheInv, Cache!TypeOK, FoundNothing, Cache!CacheFollowsRow
  <1>2. CASE Cache!ReadRow(r)
    BY <1>2, SettingsAssumption DEF Cache!ReadRow, CacheInv, Cache!TypeOK, FoundNothing, Cache!CacheFollowsRow
  <1>3. CASE Cache!FillCache(r)
    BY <1>3 DEF Cache!FillCache, CacheInv, Cache!TypeOK, FoundNothing, Cache!CacheFollowsRow
  <1>4. CASE Cache!FillFails(r)
    BY <1>4 DEF Cache!FillFails, CacheInv, Cache!TypeOK, FoundNothing, Cache!CacheFollowsRow
  <1> QED
    BY <1>1, <1>2, <1>3, <1>4

(* The transaction of a save, from its UPDATE to its end.                  *)
LEMMA SaveKeeps ==
    ASSUME CacheInv,
           (\E value \in Settings : Cache!BeginSave(value))
              \/ Cache!ClearCache \/ Cache!CommitSave \/ Cache!RollBackSave
    PROVE  CacheInv'
  <1>1. CASE \E value \in Settings : Cache!BeginSave(value)
    <2>1. PICK value \in Settings : Cache!BeginSave(value)
      BY <1>1
    <2>2. save' \in Cache!Saves /\ save'.cleared = "not yet"
      BY <2>1 DEF Cache!BeginSave, Cache!Saves
    <2> QED
      BY <2>1, <2>2 DEF Cache!BeginSave, CacheInv, Cache!TypeOK, FoundNothing, Cache!CacheFollowsRow
  <1>2. CASE Cache!ClearCache
    <2>1. save \in Cache!Saves
      BY <1>2 DEF Cache!ClearCache, CacheInv, Cache!TypeOK
    <2>2. save' \in Cache!Saves /\ (save'.cleared = "nothing" => cache = Nothing)
      BY <1>2, <2>1 DEF Cache!ClearCache, Cache!Saves
    <2> QED
      BY <1>2, <2>2 DEF Cache!ClearCache, CacheInv, Cache!TypeOK, FoundNothing, Cache!CacheFollowsRow
  <1>3. CASE Cache!CommitSave
    <2>1. save \in Cache!Saves /\ save.cleared \in {"nothing", "entry"}
      BY <1>3 DEF Cache!CommitSave, CacheInv, Cache!TypeOK, Cache!Saves
    <2>2. row' \in Settings /\ cache' \in {Nothing, cache}
      BY <1>3, <2>1 DEF Cache!CommitSave, Cache!Saves
    <2>3. CASE save.cleared = "entry"
      BY <1>3, <2>2, <2>3
         DEF Cache!CommitSave, CacheInv, Cache!TypeOK, FoundNothing, Cache!CacheFollowsRow
    <2>4. CASE save.cleared = "nothing"
      <3>1. cache = Nothing \/ overtaken
        BY <1>3, <2>4 DEF Cache!CommitSave, CacheInv, FoundNothing
      <3> QED
        BY <1>3, <2>2, <2>4, <3>1
           DEF Cache!CommitSave, CacheInv, Cache!TypeOK, FoundNothing, Cache!CacheFollowsRow
    <2> QED
      BY <2>1, <2>3, <2>4
  <1>4. CASE Cache!RollBackSave
    BY <1>4 DEF Cache!RollBackSave, CacheInv, Cache!TypeOK, FoundNothing, Cache!CacheFollowsRow
  <1> QED
    BY <1>1, <1>2, <1>3, <1>4

LEMMA CacheRests == CacheInv /\ UNCHANGED cache_vars => CacheInv'
  BY DEF cache_vars, CacheInv, Cache!TypeOK, FoundNothing, Cache!CacheFollowsRow

LEMMA CacheStep == CacheInv /\ Cache!Next => CacheInv'
  BY ReaderKeeps, SaveKeeps DEF Cache!Next

-----------------------------------------------------------------------------
(* NightlyBackup.  A retention step only follows, in one job, the step     *)
(* that put tonight's dump where it trims, and tonight's dump is young     *)
(* enough to be kept.                                                      *)

(* Where tonight's dump is when the job is about to trim there.            *)
TonightsIsThere ==
    /\ job = "dumped" => 0 \in dumps
    /\ job = "uploaded" => 0 \in uploads

BackupInv == Night!TypeOK /\ TonightsIsThere /\ Night!LastDumpStays

LEMMA OlderStays ==
    ASSUME NEW ages \in SUBSET (0 .. Night!Oldest)
    PROVE  /\ Night!DayOlder(ages) \in SUBSET (0 .. Night!Oldest)
           /\ ages # {} => Night!DayOlder(ages) # {}
  <1>1. \A a \in ages : (IF a = Night!Oldest THEN a ELSE a + 1) \in 0 .. Night!Oldest
    BY RetentionAssumption DEF Night!Oldest
  <1>2. Night!DayOlder(ages) \in SUBSET (0 .. Night!Oldest)
    BY <1>1 DEF Night!DayOlder
  <1>3. ages # {} => Night!DayOlder(ages) # {}
    BY DEF Night!DayOlder
  <1> QED
    BY <1>2, <1>3

LEMMA TonightIsKept ==
    ASSUME NEW ages \in SUBSET (0 .. Night!Oldest)
    PROVE  /\ Night!Kept(ages) \in SUBSET (0 .. Night!Oldest)
           /\ 0 \in ages => 0 \in Night!Kept(ages)
  <1>1. Night!Kept(ages) \subseteq ages
    BY DEF Night!Kept
  <1>2. 0 \in ages => 0 \in Night!Kept(ages)
    BY RetentionAssumption DEF Night!Kept
  <1> QED
    BY <1>1, <1>2

LEMMA InitBackup ==
    Night!Init => BackupInv
  BY RetentionAssumption DEF Night!Init, BackupInv, Night!TypeOK, TonightsIsThere, Night!LastDumpStays, Night!Oldest

LEMMA JobKeeps ==
    ASSUME BackupInv, Night!Next
    PROVE  BackupInv'
  <1>1. /\ dumps \in SUBSET (0 .. Night!Oldest) /\ broken \in SUBSET (0 .. Night!Oldest)
        /\ uploads \in SUBSET (0 .. Night!Oldest) /\ mirrored \in SUBSET (0 .. Night!Oldest)
        /\ 0 \in 0 .. Night!Oldest
    <2>1. 0 \in 0 .. Night!Oldest
      BY RetentionAssumption DEF Night!Oldest
    <2> QED
      BY <2>1 DEF BackupInv, Night!TypeOK
  <1>2. CASE \E starts \in BOOLEAN : Night!NextNight(starts)
    <2>1. /\ dumps' = Night!DayOlder(dumps) /\ broken' = Night!DayOlder(broken)
          /\ uploads' = Night!DayOlder(uploads) /\ mirrored' = Night!DayOlder(mirrored)
          /\ job' \in {"over", "started"} /\ UNCHANGED <<dumped, uploaded>>
      BY <1>2 DEF Night!NextNight
    <2>2. Night!TypeOK'
      BY <1>1, <2>1, OlderStays DEF BackupInv, Night!TypeOK, Night!Oldest
    <2>3. Night!LastDumpStays'
      BY <1>1, <2>1, OlderStays DEF BackupInv, Night!LastDumpStays
    <2> QED
      BY <2>1, <2>2, <2>3 DEF BackupInv, TonightsIsThere
  <1>3. CASE Night!DumpDatabase
    BY <1>1, <1>3
       DEF Night!DumpDatabase, BackupInv, Night!TypeOK, TonightsIsThere, Night!LastDumpStays, Night!Oldest
  <1>4. CASE Night!DumpFails
    BY <1>1, <1>4
       DEF Night!DumpFails, BackupInv, Night!TypeOK, TonightsIsThere, Night!LastDumpStays, Night!Oldest
  <1>5. CASE Night!ApplyLocalRetention
    <2>1. 0 \in Night!Kept(dumps)
      BY <1>1, <1>5, TonightIsKept DEF Night!ApplyLocalRetention, BackupInv, TonightsIsThere
    <2> QED
      BY <1>1, <1>5, <2>1, TonightIsKept
         DEF Night!ApplyLocalRetention, BackupInv, Night!TypeOK, TonightsIsThere, Night!LastDumpStays,
             Night!Oldest
  <1>6. CASE Night!UploadDump
    BY <1>1, <1>6
       DEF Night!UploadDump, BackupInv, Night!TypeOK, TonightsIsThere, Night!LastDumpStays, Night!Oldest
  <1>7. CASE Night!ApplyRemoteRetention
    <2>1. 0 \in Night!Kept(uploads)
      BY <1>1, <1>7, TonightIsKept
         DEF Night!ApplyRemoteRetention, BackupInv, TonightsIsThere
    <2> QED
      BY <1>1, <1>7, <2>1, TonightIsKept
         DEF Night!ApplyRemoteRetention, BackupInv, Night!TypeOK, TonightsIsThere, Night!LastDumpStays,
             Night!Oldest
  <1>8. CASE Night!SyncMediaBackupMirror
    BY <1>1, <1>8
       DEF Night!SyncMediaBackupMirror, BackupInv, Night!TypeOK, TonightsIsThere, Night!LastDumpStays,
           Night!Oldest
  <1>9. CASE Night!JobFails
    <2>1. mirrored' \subseteq mirrored \cup uploads
      BY <1>9 DEF Night!JobFails
    <2> QED
      BY <1>1, <1>9, <2>1
         DEF Night!JobFails, BackupInv, Night!TypeOK, TonightsIsThere, Night!LastDumpStays, Night!Oldest
  <1> QED
    BY <1>2, <1>3, <1>4, <1>5, <1>6, <1>7, <1>8, <1>9 DEF Night!Next

LEMMA BackupRests == BackupInv /\ UNCHANGED night_vars => BackupInv'
  <1> SUFFICES ASSUME BackupInv, UNCHANGED night_vars
               PROVE  BackupInv'
    OBVIOUS
  <1>1. Night!TypeOK'
    BY DEF night_vars, BackupInv, Night!TypeOK, Night!Oldest
  <1>2. TonightsIsThere' /\ Night!LastDumpStays'
    BY DEF night_vars, BackupInv, TonightsIsThere, Night!LastDumpStays
  <1> QED
    BY <1>1, <1>2 DEF BackupInv
-----------------------------------------------------------------------------
(* KioskBackups.  What an upload deletes either was not committed when it  *)
(* listed the newest, or has as many newer ones as are kept: backups that  *)
(* were stored then, or its own.  Stored ones only become more.            *)

Uploading ==
    [step : {"idle"}]
    \cup [step : {"inserted"}, backup : 1 .. received]
    \cup [step : {"listed"}, backup : 1 .. received, keep : SUBSET (1 .. received),
          seen : SUBSET stored]
    \cup [step : {"deleted"}, backup : 1 .. received, doomed : SUBSET (1 .. received)]

KioskTypes ==
    /\ received \in Nat
    /\ stored \in SUBSET (1 .. received) /\ backups \in SUBSET stored
    /\ upload \in [Uploads -> Uploading]

(* There are enough newer ones than b among the rows.                      *)
Behind(b, rows) == Cardinality({c \in rows : c > b}) >= BACKUP_KEEP_NEWEST

ListedRight ==
    \A u \in Uploads : upload[u].step = "listed" =>
        \A b \in (upload[u].seen \cup {upload[u].backup}) \ upload[u].keep :
            Behind(b, stored \cup {upload[u].backup})

DoomedRight ==
    \A u \in Uploads : upload[u].step = "deleted" =>
        \A b \in upload[u].doomed :
            b \in overlooked \/ Behind(b, stored \cup {upload[u].backup})

KioskInv == KioskTypes /\ ListedRight /\ DoomedRight /\ Kiosk!NewestAreKept

LEMMA MoreStayBehind ==
    ASSUME NEW n \in Nat, NEW S \in SUBSET (1 .. n), NEW R \in SUBSET S, NEW b
    PROVE  /\ Behind(b, R) => Behind(b, S)
           /\ b \in S => (b \in Kiosk!Newest(S) <=> ~Behind(b, S))
  <1> DEFINE Newer(T) == {c \in T : c > b}
  <1>1. IsFiniteSet(1 .. n)
    BY FS_Interval
  <1>2. Newer(S) \in SUBSET (1 .. n) /\ Newer(R) \in SUBSET Newer(S)
    OBVIOUS
  <1> HIDE DEF Newer
  <1>3. IsFiniteSet(Newer(S))
    BY <1>1, <1>2, FS_Subset
  <1>4. IsFiniteSet(Newer(R)) /\ Cardinality(Newer(R)) <= Cardinality(Newer(S))
    BY <1>2, <1>3, FS_Subset
  <1>5. Cardinality(Newer(R)) \in Nat /\ Cardinality(Newer(S)) \in Nat
    BY <1>3, <1>4, FS_CardinalityType
  <1>6. Behind(b, R) => Behind(b, S)
    BY <1>4, <1>5, KeepAssumption DEF Behind, Newer
  <1>7. b \in S => (b \in Kiosk!Newest(S) <=> ~Behind(b, S))
    <2>1. \A T : Kiosk!Cardinality(T) = Cardinality(T)
      BY DEF Cardinality, Kiosk!Cardinality
    <2> QED
      BY <1>5, <2>1, KeepAssumption DEF Behind, Newer, Kiosk!Newest
  <1> QED
    BY <1>6, <1>7

LEMMA InitKiosk == Kiosk!Init => KioskInv
  <1> SUFFICES ASSUME Kiosk!Init PROVE KioskInv
    OBVIOUS
  <1>1. KioskTypes
    BY DEF Kiosk!Init, Kiosk!Idle, KioskTypes, Uploading
  <1>2. ListedRight /\ DoomedRight
    BY DEF Kiosk!Init, Kiosk!Idle, ListedRight, DoomedRight
  <1>3. Kiosk!NewestAreKept
    BY DEF Kiosk!Init, Kiosk!NewestAreKept, Kiosk!Newest
  <1> QED
    BY <1>1, <1>2, <1>3 DEF KioskInv

(* The steps of an upload but for its commit: nothing is stored by them,   *)
(* and the other uploads go on as they were.                               *)
LEMMA UploadKeeps ==
    ASSUME KioskInv, NEW u \in Uploads, NEW up,
           upload' = [upload EXCEPT ![u] = up],
           received' \in Nat, received <= received',
           UNCHANGED <<backups, stored>>,
           overlooked \subseteq overlooked',
           up \in Uploading',
           up.step = "listed" =>
               \A b \in (up.seen \cup {up.backup}) \ up.keep :
                   Behind(b, stored \cup {up.backup}),
           up.step = "deleted" =>
               \A b \in up.doomed :
                   b \in overlooked' \/ Behind(b, stored \cup {up.backup})
    PROVE  KioskInv'
  <1>1. 1 .. received \subseteq 1 .. received'
    BY DEF KioskInv, KioskTypes
  <1>2. Uploading \subseteq Uploading'
    BY <1>1 DEF Uploading
  <1>3. KioskTypes'
    BY <1>1, <1>2 DEF KioskInv, KioskTypes
  <1>4. upload'[u] = up /\ \A v \in Uploads \ {u} : upload'[v] = upload[v]
    BY DEF KioskInv, KioskTypes
  <1>5. ListedRight'
    BY <1>4 DEF KioskInv, ListedRight, Behind
  <1>6. DoomedRight'
    BY <1>4 DEF KioskInv, DoomedRight, Behind
  <1>7. Kiosk!NewestAreKept'
    BY DEF KioskInv, Kiosk!NewestAreKept, Kiosk!Newest
  <1> QED
    BY <1>3, <1>5, <1>6, <1>7 DEF KioskInv

LEMMA CommitKeeps ==
    ASSUME KioskInv, NEW u \in Uploads, Kiosk!Commit(u)
    PROVE  KioskInv'
  <1> DEFINE own == upload[u].backup
  <1>1. /\ own \in 1 .. received
        /\ received' = received /\ overlooked' = overlooked
        /\ stored' = stored \cup {own}
        /\ backups' = (backups \cup {own}) \ upload[u].doomed
        /\ upload' = [upload EXCEPT ![u] = Kiosk!Idle]
    BY DEF Kiosk!Commit, KioskInv, KioskTypes, Uploading
  <1>2. \A b \in upload[u].doomed : b \in overlooked \/ Behind(b, stored')
    BY <1>1 DEF Kiosk!Commit, KioskInv, DoomedRight
  <1> HIDE DEF own
  <1>3. received \in Nat /\ stored' \in SUBSET (1 .. received)
        /\ backups' \in SUBSET stored'
    BY <1>1 DEF KioskInv, KioskTypes
  <1>4. Uploading \subseteq Uploading' /\ Kiosk!Idle \in Uploading'
    BY <1>1 DEF Uploading, Kiosk!Idle
  <1>5. KioskTypes'
    BY <1>1, <1>3, <1>4 DEF KioskInv, KioskTypes
  <1>6. \A v \in Uploads : upload'[v] = IF v = u THEN Kiosk!Idle ELSE upload[v]
    BY <1>1 DEF KioskInv, KioskTypes
  <1>7. ASSUME NEW v \in Uploads, upload'[v].step \in {"listed", "deleted"}, NEW b,
               Behind(b, stored \cup {upload[v].backup})
        PROVE  Behind(b, stored' \cup {upload[v].backup})
    <2>1. upload[v].backup \in 1 .. received
      BY <1>6, <1>7 DEF KioskInv, KioskTypes, Uploading, Kiosk!Idle
    <2>2. /\ stored' \cup {upload[v].backup} \in SUBSET (1 .. received)
          /\ stored \cup {upload[v].backup} \in
                SUBSET (stored' \cup {upload[v].backup})
      BY <1>1, <1>3, <2>1
    <2> QED
      BY <1>3, <1>7, <2>2, MoreStayBehind
  <1>8. ListedRight'
    <2> SUFFICES ASSUME NEW v \in Uploads, upload'[v].step = "listed",
                        NEW b \in (upload'[v].seen \cup {upload'[v].backup})
                                      \ upload'[v].keep
                 PROVE  Behind(b, stored' \cup {upload'[v].backup})
      BY DEF ListedRight, Behind
    <2>1. v # u /\ upload'[v] = upload[v]
      BY <1>6 DEF Kiosk!Idle
    <2>2. Behind(b, stored \cup {upload[v].backup})
      BY <2>1 DEF KioskInv, ListedRight
    <2> QED
      BY <1>7, <2>1, <2>2
  <1>9. DoomedRight'
    <2> SUFFICES ASSUME NEW v \in Uploads, upload'[v].step = "deleted",
                        NEW b \in upload'[v].doomed, b \notin overlooked'
                 PROVE  Behind(b, stored' \cup {upload'[v].backup})
      BY DEF DoomedRight, Behind
    <2>1. v # u /\ upload'[v] = upload[v]
      BY <1>6 DEF Kiosk!Idle
    <2>2. Behind(b, stored \cup {upload[v].backup})
      BY <1>1, <2>1 DEF KioskInv, DoomedRight
    <2> QED
      BY <1>7, <2>1, <2>2
  <1>10. Kiosk!NewestAreKept'
    <2> SUFFICES ASSUME NEW b \in Kiosk!Newest(stored'), b \notin overlooked
                 PROVE  b \in backups'
      BY <1>1 DEF Kiosk!NewestAreKept, Kiosk!Newest
    <2>1. b \in stored' /\ ~Behind(b, stored')
      <3>1. b \in stored'
        BY DEF Kiosk!Newest
      <3> QED
        BY <1>3, <3>1, MoreStayBehind
    <2>2. b \notin upload[u].doomed
      BY <1>2, <2>1
    <2>3. CASE b = own
      BY <1>1, <2>2, <2>3
    <2>4. CASE b \in stored
      <3>1. received \in Nat /\ stored \in SUBSET (1 .. received)
            /\ stored \in SUBSET stored'
        BY <1>1, <1>3
      <3>2. ~Behind(b, stored)
        BY <1>3, <2>1, <3>1, MoreStayBehind
      <3>3. b \in Kiosk!Newest(stored)
        BY <2>4, <3>1, <3>2, MoreStayBehind
      <3> QED
        BY <1>1, <2>2, <3>3 DEF KioskInv, Kiosk!NewestAreKept
    <2> QED
      BY <1>1, <2>1, <2>3, <2>4
  <1> QED
    BY <1>5, <1>8, <1>9, <1>10 DEF KioskInv

LEMMA KioskStep == KioskInv /\ Kiosk!Next => KioskInv'
  <1> SUFFICES ASSUME KioskInv, NEW u \in Uploads,
                      Kiosk!Insert(u) \/ Kiosk!ListNewest(u) \/ Kiosk!DeleteOthers(u)
                         \/ Kiosk!Commit(u) \/ Kiosk!RollBack(u)
               PROVE  KioskInv'
    BY DEF Kiosk!Next
  <1>1. received \in Nat /\ stored \in SUBSET (1 .. received)
        /\ backups \in SUBSET stored /\ upload[u] \in Uploading
    BY DEF KioskInv, KioskTypes
  <1>2. CASE Kiosk!Insert(u)
    <2> DEFINE up == [step |-> "inserted", backup |-> received + 1]
    <2>1. up \in Uploading' /\ up.step = "inserted"
      BY <1>1, <1>2 DEF Kiosk!Insert, Uploading
    <2>2. upload' = [upload EXCEPT ![u] = up] /\ UNCHANGED <<backups, stored>>
      BY <1>2 DEF Kiosk!Insert
    <2>3. received' \in Nat /\ received <= received' /\ overlooked \subseteq overlooked'
      BY <1>1, <1>2 DEF Kiosk!Insert
    <2>4. up.step # "listed" /\ up.step # "deleted"
      BY <2>1
    <2> HIDE DEF up
    <2> QED
      BY <2>1, <2>2, <2>3, <2>4, UploadKeeps
  <1>3. CASE Kiosk!ListNewest(u)
    <2> DEFINE own == upload[u].backup
               up == [step |-> "listed", backup |-> own,
                      keep |-> Kiosk!Newest(Kiosk!Visible(u)), seen |-> backups]
    <2>1. own \in 1 .. received
      BY <1>1, <1>3 DEF Kiosk!ListNewest, Uploading
    <2>2. /\ Kiosk!Visible(u) = backups \cup {own}
          /\ Kiosk!Visible(u) \in SUBSET (1 .. received)
          /\ Kiosk!Newest(Kiosk!Visible(u)) \in SUBSET (1 .. received)
          /\ stored \cup {own} \in SUBSET (1 .. received)
          /\ Kiosk!Visible(u) \in SUBSET (stored \cup {own})
      BY <1>1, <2>1 DEF Kiosk!Visible, Kiosk!Newest
    <2>3. up \in Uploading
      BY <1>1, <2>1, <2>2 DEF Uploading
    <2>4. up \in Uploading'
      BY <1>3, <2>3 DEF Kiosk!ListNewest, Uploading
    <2>5. \A b \in (up.seen \cup {up.backup}) \ up.keep :
              Behind(b, stored \cup {up.backup})
      BY <1>1, <2>2, MoreStayBehind
    <2> HIDE DEF own
    <2>6. up.step = "listed" /\ upload' = [upload EXCEPT ![u] = up]
      BY <1>3 DEF Kiosk!ListNewest, own
    <2>7. /\ received' \in Nat /\ received <= received'
          /\ overlooked \subseteq overlooked' /\ UNCHANGED <<backups, stored>>
      BY <1>1, <1>3 DEF Kiosk!ListNewest
    <2> HIDE DEF up
    <2> QED
      BY <2>4, <2>5, <2>6, <2>7, UploadKeeps
  <1>4. CASE Kiosk!DeleteOthers(u)
    <2> DEFINE own == upload[u].backup
               up == [step |-> "deleted", backup |-> own, doomed |-> Kiosk!Doomed(u)]
    <2>1. own \in 1 .. received
      BY <1>1, <1>4 DEF Kiosk!DeleteOthers, Uploading
    <2>2. Kiosk!Doomed(u) \in SUBSET (1 .. received)
      BY <1>1, <2>1 DEF Kiosk!Doomed
    <2>3. up \in Uploading'
      BY <1>4, <2>1, <2>2 DEF Kiosk!DeleteOthers, Uploading
    <2>4. \A b \in up.doomed : b \in overlooked' \/ Behind(b, stored \cup {up.backup})
      BY <1>4 DEF Kiosk!DeleteOthers, Kiosk!Doomed, KioskInv, ListedRight
    <2>5. up.step = "deleted" /\ upload' = [upload EXCEPT ![u] = up]
      BY <1>4 DEF Kiosk!DeleteOthers
    <2>6. /\ received' \in Nat /\ received <= received'
          /\ overlooked \subseteq overlooked' /\ UNCHANGED <<backups, stored>>
      BY <1>1, <1>4 DEF Kiosk!DeleteOthers
    <2> HIDE DEF up
    <2> QED
      BY <2>3, <2>4, <2>5, <2>6, UploadKeeps
  <1>5. CASE Kiosk!Commit(u)
    BY <1>5, CommitKeeps
  <1>6. CASE Kiosk!RollBack(u)
    <2>1. Kiosk!Idle \in Uploading' /\ Kiosk!Idle.step = "idle"
      BY DEF Kiosk!Idle, Uploading
    <2>2. /\ upload' = [upload EXCEPT ![u] = Kiosk!Idle]
          /\ received' \in Nat /\ received <= received'
          /\ overlooked \subseteq overlooked' /\ UNCHANGED <<backups, stored>>
      BY <1>1, <1>6 DEF Kiosk!RollBack
    <2> QED
      BY <2>1, <2>2, UploadKeeps
  <1> QED
    BY <1>2, <1>3, <1>4, <1>5, <1>6

LEMMA KioskRests == KioskInv /\ UNCHANGED kiosk_vars => KioskInv'
  BY DEF kiosk_vars, KioskInv, KioskTypes, Uploading, ListedRight, DoomedRight, Behind,
         Kiosk!NewestAreKept, Kiosk!Newest
-----------------------------------------------------------------------------
(* RateLimit.  A worker that has passed a count adds at most one row, and  *)
(* the count it passed was below the limit: the rows there are and the     *)
(* workers that may add one are never more than the limit and the others.  *)

Working == {w \in Workers : worker[w] = "working"}
Unlocked == {w \in Workers : worker[w] # "idle"}

(* The number of rows by age and outcome, those of a window, their sum.    *)
Tally(rows) == [p \in Limit!Ages \X BOOLEAN |-> rows[p[1]][p[2]]]
Within(window, outcomes) == {a \in Limit!Ages : a <= window} \X outcomes
Total(rows, window, outcomes) == SumFunctionOnSet(Tally(rows), Within(window, outcomes))

Attempts == [Limit!Ages -> [BOOLEAN -> Nat]]

AttemptsBounded ==
    Total(attempts, Window, BOOLEAN) + Cardinality(Working)
        <= MaxAttempts - 1 + Cardinality(Workers)

FailuresBounded ==
    Threshold # NoLockout =>
        Total(attempts, LockoutWindow, {FALSE}) + Cardinality(Unlocked)
            <= Threshold - 1 + Cardinality(Workers)

LimitInv == Limit!TypeOK /\ AttemptsBounded /\ FailuresBounded

LEMMA SameSum ==
    ASSUME NEW f, NEW S
    PROVE  Limit!SumFunctionOnSet(f, S) = SumFunctionOnSet(f, S)
  BY DEF Limit!SumFunctionOnSet, SumFunctionOnSet, Limit!FoldFunctionOnSet,
         FoldFunctionOnSet, Limit!MapThenFoldSet, MapThenFoldSet

LEMMA CountIsTotal ==
    ASSUME NEW window, NEW outcomes
    PROVE  Limit!Count(window, outcomes) = Total(attempts, window, outcomes)
  BY SameSum DEF Limit!Count, Total, Tally, Within

LEMMA LongestIsNat == Limit!Longest \in Nat
  BY PolicyAssumption DEF Limit!Longest

LEMMA WithinIsFinite ==
    ASSUME NEW window, NEW outcomes \in SUBSET BOOLEAN
    PROVE  /\ IsFiniteSet(Within(window, outcomes))
           /\ Within(window, outcomes) \in SUBSET (Limit!Ages \X BOOLEAN)
  <1>1. IsFiniteSet(Limit!Ages)
    BY FS_Interval, LongestIsNat DEF Limit!Ages
  <1>2. IsFiniteSet({a \in Limit!Ages : a <= window})
    BY <1>1, FS_Subset
  <1>3. IsFiniteSet({TRUE} \cup {FALSE})
    BY FS_Singleton, FS_Union
  <1>4. IsFiniteSet(outcomes)
    <2>1. outcomes \in SUBSET ({TRUE} \cup {FALSE})
      OBVIOUS
    <2> QED
      BY <1>3, <2>1, FS_Subset
  <1> QED
    BY <1>2, <1>4, FS_Product DEF Within

LEMMA TallyType ==
    ASSUME NEW rows \in Attempts, NEW p \in Limit!Ages \X BOOLEAN
    PROVE  Tally(rows)[p] = rows[p[1]][p[2]] /\ Tally(rows)[p] \in Nat
  BY DEF Tally, Attempts

LEMMA TotalType ==
    ASSUME NEW rows \in Attempts, NEW window, NEW outcomes \in SUBSET BOOLEAN
    PROVE  Total(rows, window, outcomes) \in Nat
  BY WithinIsFinite, TallyType, SumNat DEF Total

(* A new row adds at most one to a total, and none of another outcome.     *)
LEMMA OneMore ==
    ASSUME NEW rows \in Attempts, NEW window \in Nat, NEW outcomes \in SUBSET BOOLEAN,
           NEW ok \in BOOLEAN, NEW more, more = [rows EXCEPT ![0][ok] = @ + 1]
    PROVE  /\ more \in Attempts
           /\ Total(more, window, outcomes) <= Total(rows, window, outcomes) + 1
           /\ ok \notin outcomes =>
                 Total(more, window, outcomes) = Total(rows, window, outcomes)
  <1> DEFINE W == Within(window, outcomes)
             p == <<0, ok>>
  <1>1. 0 \in Limit!Ages
    BY LongestIsNat DEF Limit!Ages
  <1>2. more \in Attempts
    BY <1>1 DEF Attempts
  <1>3. IsFiniteSet(W) /\ W \in SUBSET (Limit!Ages \X BOOLEAN)
    BY WithinIsFinite
  <1>4. \A q \in W : Tally(rows)[q] \in Int /\ Tally(more)[q] \in Int
    BY <1>2, <1>3, TallyType
  <1>5. \A q \in W \ {p} : Tally(more)[q] = Tally(rows)[q]
    <2> SUFFICES ASSUME NEW q \in W \ {p}
                 PROVE  more[q[1]][q[2]] = rows[q[1]][q[2]]
      BY <1>2, <1>3, TallyType
    <2>1. q[1] \in Limit!Ages /\ q[2] \in BOOLEAN /\ q = <<q[1], q[2]>>
      BY <1>3
    <2>2. q[1] # 0 \/ q[2] # ok
      BY <2>1
    <2> QED
      BY <1>1, <2>1, <2>2 DEF Attempts
  <1>6. p \in Limit!Ages \X BOOLEAN /\ Tally(more)[p] = Tally(rows)[p] + 1
    <2>1. p \in Limit!Ages \X BOOLEAN /\ p[1] = 0 /\ p[2] = ok
      BY <1>1
    <2>2. more[0][ok] = rows[0][ok] + 1
      BY <1>1 DEF Attempts
    <2>3. Tally(more)[p] = more[0][ok] /\ Tally(rows)[p] = rows[0][ok]
      BY <1>2, <2>1, TallyType
    <2> QED
      BY <2>1, <2>2, <2>3
  <1>7. p \in W => ok \in outcomes
    BY DEF Within
  <1>8. Total(rows, window, outcomes) \in Nat
    BY TotalType
  <1> HIDE DEF W, p
  <1>9. CASE p \in W
    <2>1. Total(more, window, outcomes)
            = Total(rows, window, outcomes) + Tally(more)[p] - Tally(rows)[p]
      <3>1. PICK F, G : F = Tally(rows) /\ G = Tally(more)
        OBVIOUS
      <3>2. \A q \in W : F[q] \in Int /\ G[q] \in Int
        BY <1>4, <3>1
      <3>3. \A q \in W \ {p} : G[q] = F[q]
        BY <1>5, <3>1
      <3>4. SumFunctionOnSet(G, W) = SumFunctionOnSet(F, W) + G[p] - F[p]
        BY <1>3, <1>9, <3>2, <3>3, SumChange
      <3> QED
        BY <3>1, <3>4 DEF Total, W
    <2>2. Tally(rows)[p] \in Nat
      BY <1>6, TallyType
    <2> QED
      BY <1>2, <1>6, <1>7, <1>8, <1>9, <2>1, <2>2
  <1>10. CASE p \notin W
    <2>1. \A q \in W : Tally(more)[q] = Tally(rows)[q]
      BY <1>5, <1>10
    <2>2. Total(more, window, outcomes) = Total(rows, window, outcomes)
      BY <1>3, <2>1, SumEqual DEF Total, W
    <2> QED
      BY <1>2, <1>8, <2>2
  <1> QED
    BY <1>9, <1>10

(* As time goes by rows leave a window and none enters.                    *)
LEMMA RowsAge ==
    ASSUME NEW rows \in Attempts, NEW window \in Nat, NEW outcomes \in SUBSET BOOLEAN,
           NEW aged, aged = [a \in Limit!Ages |-> IF a = 0 THEN [ok \in BOOLEAN |-> 0]
                                                           ELSE rows[a - 1]]
    PROVE  /\ aged \in Attempts
           /\ Total(aged, window, outcomes) <= Total(rows, window, outcomes)
  <1> DEFINE W == Within(window, outcomes)
             Old == {p \in W : p[1] # 0}
             Younger == [p \in Old |-> <<p[1] - 1, p[2]>>]
             Were == {Younger[p] : p \in Old}
  <1>1. \A a \in Limit!Ages : a # 0 => a - 1 \in Limit!Ages
    BY LongestIsNat DEF Limit!Ages
  <1>2. aged \in Attempts
    BY <1>1 DEF Attempts
  <1>3. IsFiniteSet(W) /\ W \in SUBSET (Limit!Ages \X BOOLEAN)
    BY WithinIsFinite
  <1>4. /\ \A p \in W : Tally(aged)[p] \in Int /\ Tally(rows)[p] \in Nat
        /\ \A p \in W \ Old : Tally(aged)[p] = 0
    <2>1. \A p \in W : Tally(aged)[p] = aged[p[1]][p[2]] /\ Tally(aged)[p] \in Nat
      BY <1>2, <1>3, TallyType
    <2>2. \A p \in W : Tally(rows)[p] \in Nat
      BY <1>3, TallyType
    <2>3. \A p \in W \ Old : p[1] = 0 /\ p[1] \in Limit!Ages /\ p[2] \in BOOLEAN
      BY <1>3
    <2> QED
      BY <2>1, <2>2, <2>3
  <1>5. Old \in SUBSET W /\ IsFiniteSet(Old)
    BY <1>3, FS_Subset
  <1>6. ASSUME NEW p \in Old
        PROVE  /\ p = <<p[1], p[2]>> /\ p[1] \in Limit!Ages /\ p[2] \in BOOLEAN
               /\ p[1] - 1 \in Limit!Ages
               /\ Younger[p] = <<p[1] - 1, p[2]>>
               /\ Younger[p] \in W
    <2>1. /\ p = <<p[1], p[2]>> /\ p[1] \in Limit!Ages /\ p[2] \in outcomes
          /\ p[1] <= window /\ p[1] # 0
      BY DEF Within
    <2>2. p[1] - 1 \in Limit!Ages /\ p[1] - 1 <= window
      BY <1>1, <2>1, LongestIsNat DEF Limit!Ages
    <2>3. <<p[1] - 1, p[2]>> \in W
      BY <2>1, <2>2 DEF Within
    <2> QED
      BY <2>1, <2>2, <2>3
  <1>7. \A p, q \in Old : Younger[p] = Younger[q] => p = q
    <2> SUFFICES ASSUME NEW p \in Old, NEW q \in Old, Younger[p] = Younger[q]
                 PROVE  p = q
      OBVIOUS
    <2>1. p[1] - 1 = q[1] - 1 /\ p[2] = q[2]
      BY <1>6
    <2>2. p[1] = q[1]
      <3>1. \A a \in Limit!Ages : a \in Int
        BY LongestIsNat DEF Limit!Ages
      <3>2. p[1] \in Limit!Ages /\ q[1] \in Limit!Ages
        BY <1>6
      <3> QED
        BY <2>1, <3>1, <3>2
    <2> QED
      BY <1>6, <2>1, <2>2
  <1>8. \A p \in Old : Tally(aged)[p] \in Int /\ Tally(rows)[Younger[p]] = Tally(aged)[p]
    <2> SUFFICES ASSUME NEW p \in Old
                 PROVE  Tally(rows)[Younger[p]] = Tally(aged)[p]
      BY <1>4
    <2>1. Tally(aged)[p] = aged[p[1]][p[2]]
      BY <1>2, <1>6, TallyType
    <2>2. aged[p[1]] = rows[p[1] - 1]
      BY <1>6
    <2>3. Tally(rows)[Younger[p]] = rows[p[1] - 1][p[2]]
      <3>1. Younger[p] \in Limit!Ages \X BOOLEAN
        BY <1>3, <1>6
      <3>2. Tally(rows)[Younger[p]] = rows[Younger[p][1]][Younger[p][2]]
        BY <3>1, TallyType
      <3>3. Younger[p][1] = p[1] - 1 /\ Younger[p][2] = p[2]
        BY <1>6
      <3> QED
        BY <3>2, <3>3
    <2> QED
      BY <2>1, <2>2, <2>3
  <1>9. Were \in SUBSET W
    BY <1>6
  <1>10. Total(aged, window, outcomes) = SumFunctionOnSet(Tally(aged), Old)
    <2> HIDE DEF Old
    <2> QED
      BY <1>3, <1>4, <1>5, SumSupport DEF Total
  <1>11. SumFunctionOnSet(Tally(aged), Old) = SumFunctionOnSet(Tally(rows), Were)
    <2> HIDE DEF Old, Younger
    <2> QED
      BY <1>5, <1>7, <1>8, SumReindex
  <1>12. SumFunctionOnSet(Tally(rows), Were) <= Total(rows, window, outcomes)
    <2> HIDE DEF Were
    <2> QED
      BY <1>3, <1>4, <1>9, SumSubset DEF Total
  <1> QED
    BY <1>2, <1>10, <1>11, <1>12
LEMMA InitLimit == Limit!Init => LimitInv
  <1> SUFFICES ASSUME Limit!Init PROVE LimitInv
    OBVIOUS
  <1>1. Limit!TypeOK /\ attempts \in Attempts
    BY DEF Limit!Init, Limit!TypeOK, Attempts
  <1>2. Working = {} /\ Unlocked = {}
    BY DEF Limit!Init, Working, Unlocked
  <1>3. ASSUME NEW window, NEW outcomes \in SUBSET BOOLEAN
        PROVE  Total(attempts, window, outcomes) = 0
    <2>1. \A p \in Limit!Ages \X BOOLEAN : Tally(attempts)[p] = 0
      BY DEF Limit!Init, Tally
    <2> QED
      BY <2>1, WithinIsFinite, SumZero DEF Total
  <1>4. Cardinality(Workers) \in Nat \ {0} /\ Cardinality({}) = 0
    BY FS_CardinalityType, FS_EmptySet, WorkersAssumption
  <1>5. MaxAttempts - 1 >= 0 /\ (Threshold # NoLockout => Threshold - 1 >= 0)
    BY PolicyAssumption
  <1>6. Total(attempts, Window, BOOLEAN) = 0 /\ Total(attempts, LockoutWindow, {FALSE}) = 0
    BY <1>3
  <1>7. AttemptsBounded
    BY <1>2, <1>4, <1>6, PolicyAssumption DEF AttemptsBounded
  <1>8. FailuresBounded
    BY <1>2, <1>4, <1>6, PolicyAssumption DEF FailuresBounded
  <1> QED
    BY <1>1, <1>7, <1>8 DEF LimitInv

(* The numbers in the invariant are numbers.                               *)
LEMMA LimitNumbers ==
    ASSUME Limit!TypeOK
    PROVE  /\ attempts \in Attempts
           /\ Total(attempts, Window, BOOLEAN) \in Nat
           /\ Total(attempts, LockoutWindow, {FALSE}) \in Nat
           /\ IsFiniteSet(Working) /\ IsFiniteSet(Unlocked)
           /\ Cardinality(Workers) \in Nat
           /\ Cardinality(Working) \in 0 .. Cardinality(Workers)
           /\ Cardinality(Unlocked) \in 0 .. Cardinality(Workers)
  <1>1. attempts \in Attempts
    BY DEF Limit!TypeOK, Attempts
  <1>2. Working \in SUBSET Workers /\ Unlocked \in SUBSET Workers
    BY DEF Working, Unlocked
  <1>3. /\ IsFiniteSet(Working) /\ IsFiniteSet(Unlocked)
        /\ Cardinality(Working) <= Cardinality(Workers)
        /\ Cardinality(Unlocked) <= Cardinality(Workers)
    BY <1>2, FS_Subset, WorkersAssumption
  <1>4. /\ Cardinality(Workers) \in Nat
        /\ Cardinality(Working) \in Nat /\ Cardinality(Unlocked) \in Nat
    BY <1>3, FS_CardinalityType, WorkersAssumption
  <1>5. /\ Total(attempts, Window, BOOLEAN) \in Nat
        /\ Total(attempts, LockoutWindow, {FALSE}) \in Nat
    BY <1>1, TotalType
  <1> QED
    BY <1>1, <1>3, <1>4, <1>5

LEMMA LimitNumbersNext ==
    ASSUME Limit!TypeOK'
    PROVE  /\ attempts' \in Attempts
           /\ IsFiniteSet(Working') /\ IsFiniteSet(Unlocked')
           /\ Cardinality(Working') \in 0 .. Cardinality(Workers)
           /\ Cardinality(Unlocked') \in 0 .. Cardinality(Workers)
  <1>1. attempts' \in Attempts
    BY DEF Limit!TypeOK, Attempts
  <1>2. Working' \in SUBSET Workers /\ Unlocked' \in SUBSET Workers
    BY DEF Working, Unlocked
  <1>3. /\ IsFiniteSet(Working') /\ IsFiniteSet(Unlocked')
        /\ Cardinality(Working') <= Cardinality(Workers)
        /\ Cardinality(Unlocked') <= Cardinality(Workers)
    BY <1>2, FS_Subset, WorkersAssumption
  <1>4. /\ Cardinality(Workers) \in Nat
        /\ Cardinality(Working') \in Nat /\ Cardinality(Unlocked') \in Nat
    BY <1>3, FS_CardinalityType, WorkersAssumption
  <1> QED
    BY <1>1, <1>3, <1>4

LEMMA LimitStep == LimitInv /\ Limit!Next => LimitInv'
  <1> SUFFICES ASSUME LimitInv, Limit!Next PROVE LimitInv'
    OBVIOUS
  <1>1. Limit!TypeOK /\ AttemptsBounded /\ FailuresBounded
    BY DEF LimitInv
  <1>2. /\ attempts \in Attempts
        /\ Total(attempts, Window, BOOLEAN) \in Nat
        /\ Total(attempts, LockoutWindow, {FALSE}) \in Nat
        /\ IsFiniteSet(Working) /\ IsFiniteSet(Unlocked)
        /\ Cardinality(Workers) \in Nat
        /\ Cardinality(Working) \in Nat /\ Cardinality(Unlocked) \in Nat
    BY <1>1, LimitNumbers
  <1>3. Window \in Nat /\ LockoutWindow \in Nat /\ MaxAttempts \in Nat
        /\ (Threshold # NoLockout => Threshold \in Nat)
        /\ BOOLEAN \in SUBSET BOOLEAN /\ {FALSE} \in SUBSET BOOLEAN
    BY PolicyAssumption
  <1>4. CASE Limit!Tick
    <2>1. /\ attempts' \in Attempts
          /\ Total(attempts', Window, BOOLEAN) <= Total(attempts, Window, BOOLEAN)
          /\ Total(attempts', LockoutWindow, {FALSE})
                <= Total(attempts, LockoutWindow, {FALSE})
      BY <1>2, <1>3, <1>4, RowsAge DEF Limit!Tick
    <2>2. Limit!TypeOK'
      BY <1>1, <1>4, <2>1 DEF Limit!TypeOK, Limit!Tick, Attempts
    <2>3. Working' = Working /\ Unlocked' = Unlocked
      BY <1>4 DEF Limit!Tick, Working, Unlocked
    <2>4. /\ Total(attempts', Window, BOOLEAN) \in Nat
          /\ Total(attempts', LockoutWindow, {FALSE}) \in Nat
      BY <2>1, TotalType
    <2>5. AttemptsBounded' /\ FailuresBounded'
      BY <1>1, <1>2, <1>3, <2>1, <2>3, <2>4
         DEF AttemptsBounded, FailuresBounded, Total, Tally
    <2> QED
      BY <2>2, <2>5 DEF LimitInv
  <1>5. ASSUME NEW w \in Workers, Limit!RequestStep(w)
        PROVE  LimitInv'
    <2>1. CASE Limit!CountFailures(w)
      <3>1. Limit!TypeOK' /\ attempts' = attempts
        BY <1>1, <2>1 DEF Limit!CountFailures, Limit!TypeOK
      <3>2. Working' = Working
        BY <1>1, <2>1 DEF Limit!CountFailures, Limit!TypeOK, Working
      <3>3. Cardinality(Unlocked') \in 0 .. Cardinality(Workers)
        BY <3>1, LimitNumbersNext
      <3>4. Threshold # NoLockout =>
                ~(Total(attempts, LockoutWindow, {FALSE}) >= Threshold)
        BY <2>1, CountIsTotal DEF Limit!CountFailures, Limit!LockedOut
      <3>5. AttemptsBounded'
        BY <1>1, <3>1, <3>2 DEF AttemptsBounded, Total, Tally
      <3>6. FailuresBounded'
        BY <1>2, <1>3, <3>1, <3>3, <3>4 DEF FailuresBounded, Total, Tally
      <3> QED
        BY <3>1, <3>5, <3>6 DEF LimitInv
    <2>2. CASE Limit!CountAttempts(w)
      <3>1. Limit!TypeOK' /\ attempts' = attempts
        BY <1>1, <2>2 DEF Limit!CountAttempts, Limit!TypeOK
      <3>2. Unlocked' \in SUBSET Unlocked
        BY <1>1, <2>2 DEF Limit!CountAttempts, Limit!TypeOK, Unlocked
      <3>3. /\ Cardinality(Working') \in 0 .. Cardinality(Workers)
            /\ Cardinality(Unlocked') \in 0 .. Cardinality(Workers)
        BY <3>1, LimitNumbersNext
      <3>4. Cardinality(Unlocked') <= Cardinality(Unlocked)
        BY <1>2, <3>2, FS_Subset
      <3>5. FailuresBounded'
        BY <1>1, <1>2, <1>3, <3>1, <3>3, <3>4 DEF FailuresBounded, Total, Tally
      <3>6. AttemptsBounded'
        <4>1. CASE Limit!RateLimited
          <5>1. Working' = Working
            BY <1>1, <2>2, <4>1 DEF Limit!CountAttempts, Limit!TypeOK, Working
          <5> QED
            BY <1>1, <3>1, <5>1 DEF AttemptsBounded, Total, Tally
        <4>2. CASE ~Limit!RateLimited
          <5>1. ~(Total(attempts, Window, BOOLEAN) >= MaxAttempts)
            BY <4>2, CountIsTotal DEF Limit!RateLimited
          <5> QED
            BY <1>2, <1>3, <3>1, <3>3, <5>1 DEF AttemptsBounded, Total, Tally
        <4> QED
          BY <4>1, <4>2
      <3> QED
        BY <3>1, <3>5, <3>6 DEF LimitInv
    <2>3. ASSUME worker[w] = "working", worker' = [worker EXCEPT ![w] = "idle"]
          PROVE  /\ Cardinality(Working') = Cardinality(Working) - 1
                 /\ Cardinality(Unlocked') = Cardinality(Unlocked) - 1
      <3>1. /\ Working' = Working \ {w} /\ w \in Working
            /\ Unlocked' = Unlocked \ {w} /\ w \in Unlocked
        BY <1>1, <2>3 DEF Limit!TypeOK, Working, Unlocked
      <3> QED
        BY <1>2, <3>1, FS_RemoveElement
    <2>4. ASSUME NEW succeeded \in BOOLEAN, Limit!Record(w, succeeded)
          PROVE  LimitInv'
      <3>1. attempts' = [attempts EXCEPT ![0][succeeded] = @ + 1]
        BY <2>4 DEF Limit!Record
      <3>2. /\ attempts' \in Attempts
            /\ Total(attempts', Window, BOOLEAN) <= Total(attempts, Window, BOOLEAN) + 1
            /\ Total(attempts', LockoutWindow, {FALSE})
                  <= Total(attempts, LockoutWindow, {FALSE}) + 1
        BY <1>2, <1>3, <3>1, OneMore
      <3>3. Limit!TypeOK'
        BY <1>1, <2>4, <3>2 DEF Limit!TypeOK, Limit!Record, Attempts
      <3>4. /\ Cardinality(Working') = Cardinality(Working) - 1
            /\ Cardinality(Unlocked') = Cardinality(Unlocked) - 1
        BY <2>3, <2>4 DEF Limit!Record
      <3>5. /\ Total(attempts', Window, BOOLEAN) \in Nat
            /\ Total(attempts', LockoutWindow, {FALSE}) \in Nat
        BY <3>2, TotalType
      <3>6. AttemptsBounded' /\ FailuresBounded'
        BY <1>1, <1>2, <1>3, <3>2, <3>4, <3>5
           DEF AttemptsBounded, FailuresBounded, Total, Tally
      <3> QED
        BY <3>3, <3>6 DEF LimitInv
    <2>5. CASE Limit!RecordNothing(w)
      <3>1. Limit!TypeOK' /\ attempts' = attempts
        BY <1>1, <2>5 DEF Limit!RecordNothing, Limit!TypeOK
      <3>2. /\ Cardinality(Working') = Cardinality(Working) - 1
            /\ Cardinality(Unlocked') = Cardinality(Unlocked) - 1
        BY <2>3, <2>5 DEF Limit!RecordNothing
      <3>3. AttemptsBounded' /\ FailuresBounded'
        BY <1>1, <1>2, <1>3, <3>1, <3>2
           DEF AttemptsBounded, FailuresBounded, Total, Tally
      <3> QED
        BY <3>1, <3>3 DEF LimitInv
    <2> QED
      BY <1>5, <2>1, <2>2, <2>4, <2>5 DEF Limit!RequestStep
  <1> QED
    BY <1>4, <1>5 DEF Limit!Next

LEMMA LimitRests == LimitInv /\ UNCHANGED limit_vars => LimitInv'
  BY DEF limit_vars, LimitInv, Limit!TypeOK, AttemptsBounded, FailuresBounded,
         Total, Tally, Working, Unlocked

LEMMA LimitIsBounded == LimitInv => Limit!BurstsAreBounded
  <1> SUFFICES ASSUME LimitInv PROVE Limit!BurstsAreBounded
    OBVIOUS
  <1>1. /\ Total(attempts, Window, BOOLEAN) \in Nat
        /\ Total(attempts, LockoutWindow, {FALSE}) \in Nat
        /\ Cardinality(Workers) \in Nat
        /\ Cardinality(Working) \in Nat /\ Cardinality(Unlocked) \in Nat
    BY LimitNumbers DEF LimitInv
  <1>2. Limit!Cardinality(Workers) = Cardinality(Workers)
    BY DEF Cardinality, Limit!Cardinality
  <1>3. /\ Limit!Count(Window, BOOLEAN) = Total(attempts, Window, BOOLEAN)
        /\ Limit!Count(LockoutWindow, {FALSE}) = Total(attempts, LockoutWindow, {FALSE})
    BY CountIsTotal
  <1>4. AttemptsBounded /\ FailuresBounded
    BY DEF LimitInv
  <1> QED
    BY <1>1, <1>2, <1>3, <1>4, PolicyAssumption
       DEF Limit!BurstsAreBounded, AttemptsBounded, FailuresBounded
-----------------------------------------------------------------------------
(* The whole: every part keeps its invariant, whichever one steps.         *)

Inv == CacheInv /\ LimitInv /\ KioskInv /\ BackupInv

LEMMA InitInv == Init => Inv
  BY InitCache, InitLimit, InitKiosk, InitBackup DEF Init, Inv

LEMMA StepInv == Inv /\ [Next]_vars => Inv'
  <1> SUFFICES ASSUME Inv, [Next]_vars PROVE Inv'
    OBVIOUS
  <1>1. Cache!Next \/ UNCHANGED cache_vars
    BY DEF Next, vars
  <1>2. Limit!Next \/ UNCHANGED limit_vars
    BY DEF Next, vars
  <1>3. Kiosk!Next \/ UNCHANGED kiosk_vars
    BY DEF Next, vars
  <1>4. Night!Next \/ UNCHANGED night_vars
    BY DEF Next, vars
  <1>5. CacheInv' /\ LimitInv'
    BY <1>1, <1>2, CacheStep, CacheRests, LimitStep, LimitRests DEF Inv
  <1>6. KioskInv' /\ BackupInv'
    BY <1>3, <1>4, KioskStep, KioskRests, JobKeeps, BackupRests DEF Inv
  <1> QED
    BY <1>5, <1>6 DEF Inv

(* The rows, the requests and the dumps have the types they should have.   *)
THEOREM HousekeepingTypes ==
    Spec => [](Cache!TypeOK /\ Limit!TypeOK /\ KioskTypes /\ Night!TypeOK)
  <1>1. Inv => Cache!TypeOK /\ Limit!TypeOK /\ KioskTypes /\ Night!TypeOK
    BY DEF Inv, CacheInv, LimitInv, KioskInv, BackupInv
  <1> QED
    BY InitInv, StepInv, <1>1, PTL DEF Spec

(* SettingsCache: nothing ever expires in the cache, and still it holds    *)
(* the current row or none, but for an entry that was filled while a save  *)
(* was under way or from a row read before one.                            *)
THEOREM CacheIsCurrent == Spec => []CacheFollowsRow
  <1>1. Inv => CacheFollowsRow
    BY DEF Inv, CacheInv, CacheFollowsRow
  <1> QED
    BY InitInv, StepInv, <1>1, PTL DEF Spec

(* RateLimit: however many requests check before any of them records, no   *)
(* window holds more attempts or failures than the policy's and one for    *)
(* every other worker.                                                     *)
THEOREM BurstsBounded == Spec => []BurstsAreBounded
  <1>1. Inv => BurstsAreBounded
    BY LimitIsBounded DEF Inv, BurstsAreBounded
  <1> QED
    BY InitInv, StepInv, <1>1, PTL DEF Spec

(* KioskBackups: of the backups that were stored the newest are there, but *)
(* for those deleted by an upload that could not have listed them.         *)
THEOREM NewestKept == Spec => []NewestAreKept
  <1>1. Inv => NewestAreKept
    BY DEF Inv, KioskInv, NewestAreKept
  <1> QED
    BY InitInv, StepInv, <1>1, PTL DEF Spec

(* NightlyBackup: once there was a good dump on the box there is always    *)
(* one, and once one was copied off the box there is always a copy.        *)
THEOREM LastDumpIsKept == Spec => []LastDumpStays
  <1>1. Inv => LastDumpStays
    BY DEF Inv, BackupInv, LastDumpStays
  <1> QED
    BY InitInv, StepInv, <1>1, PTL DEF Spec
=============================================================================
