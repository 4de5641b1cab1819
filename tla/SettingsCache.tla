---------------------------- MODULE SettingsCache ----------------------------
(***************************************************************************)
(* The one StoreSettings row and its cache entry without expiry            *)
(* (StoreSettings.load and save of store/models.py, its admin).            *)
(*                                                                         *)
(* Grain.  load() is a look-up, a read and a fill.  The cache is a table   *)
(* of the same database, and the row is edited in the Django admin, whose  *)
(* views are transactions: what a save deletes from the cache are the      *)
(* entries it sees, and it takes effect with the row.  A fill inside a     *)
(* checkout's transaction is seen when that commits.  delete(), which      *)
(* clears the entry as save() does, is left out: nothing calls it, and the *)
(* admin refuses it.                                                       *)
(*                                                                         *)
(* Data.  A row is one of a few values, the first of them the defaults.    *)
(***************************************************************************)
CONSTANTS
    Settings,  \* the values of the row
    Defaults,  \* what get_or_create creates
    Readers,   \* requests that may load the settings at once
    Nothing    \* no row, no cache entry, no request, no transaction

VARIABLES
    row,       \* the StoreSettings row
    cache,     \* the cache entry
    reader,    \* reader[r]: "missed", or the row it is about to cache
    save,      \* the open transaction: what it writes, and whether it has
               \* deleted the entry it found
    overtaken  \* history: the entry was filled from a row that a save was
               \* replacing or had replaced

vars == <<row, cache, reader, save, overtaken>>

Init ==
    /\ row = Nothing /\ cache = Nothing /\ save = Nothing
    /\ reader = [r \in Readers |-> Nothing]
    /\ overtaken = FALSE

(* A hit is the end of it.                                                 *)
Miss(r) ==
    /\ reader[r] = Nothing
    /\ cache = Nothing
    /\ reader' = [reader EXCEPT ![r] = "missed"]
    /\ UNCHANGED <<row, cache, save, overtaken>>

(* get_or_create(pk=1).                                                    *)
ReadRow(r) ==
    /\ reader[r] = "missed"
    /\ row' = IF row = Nothing THEN Defaults ELSE row
    /\ reader' = [reader EXCEPT ![r] = row']
    /\ UNCHANGED <<cache, save, overtaken>>

FillCache(r) ==
    /\ reader[r] \in Settings
    /\ cache' = reader[r]
    /\ overtaken' = (reader[r] # row \/ save # Nothing)
    /\ reader' = [reader EXCEPT ![r] = Nothing]
    /\ UNCHANGED <<row, save>>

(* A worker dies, or a checkout rolls its fill back.                       *)
FillFails(r) ==
    /\ reader[r] # Nothing
    /\ reader' = [reader EXCEPT ![r] = Nothing]
    /\ UNCHANGED <<row, cache, save, overtaken>>

-----------------------------------------------------------------------------
(* save(): the row is locked by its UPDATE, then the entry goes.  The      *)
(* admin neither adds nor deletes the row.                                 *)
BeginSave(value) ==
    /\ save = Nothing
    /\ row # Nothing
    /\ save' = [value |-> value, cleared |-> "not yet"]
    /\ UNCHANGED <<row, cache, reader, overtaken>>

(* Mutant: the entry is left to the next save.                             *)
ClearNothing ==
    /\ save # Nothing /\ save.cleared = "not yet"
    /\ save' = [save EXCEPT !.cleared = "nothing"]
    /\ UNCHANGED <<row, cache, reader, overtaken>>

ClearCache ==
    /\ save # Nothing /\ save.cleared = "not yet"
    /\ save' = [save EXCEPT !.cleared = IF cache = Nothing THEN "nothing" ELSE "entry"]
    /\ UNCHANGED <<row, cache, reader, overtaken>>

CommitSave ==
    /\ save # Nothing /\ save.cleared # "not yet"
    /\ row' = save.value
    /\ cache' = IF save.cleared = "entry" THEN Nothing ELSE cache
    /\ overtaken' = (overtaken /\ cache' \notin {Nothing, row'})
    /\ save' = Nothing
    /\ UNCHANGED reader

RollBackSave ==
    /\ save # Nothing
    /\ save' = Nothing
    /\ overtaken' = (overtaken /\ cache # row)
    /\ UNCHANGED <<row, cache, reader>>

Next ==
    \/ \E r \in Readers : Miss(r) \/ ReadRow(r) \/ FillCache(r) \/ FillFails(r)
    \/ \E value \in Settings : BeginSave(value)
    \/ ClearCache \/ CommitSave \/ RollBackSave

Spec == Init /\ [][Next]_vars

-----------------------------------------------------------------------------
(* Properties.                                                             *)

Saves == [value : Settings, cleared : {"not yet", "nothing", "entry"}]

TypeOK ==
    /\ row \in Settings \cup {Nothing}
    /\ cache \in Settings \cup {Nothing}
    /\ reader \in [Readers -> Settings \cup {Nothing, "missed"}]
    /\ save \in Saves \cup {Nothing}
    /\ overtaken \in BOOLEAN

(* Every request reads the settings through the cache, which nothing ever  *)
(* expires: it holds the current row or none, unless a request that had    *)
(* found it empty filled it while a save was under way or from a row read  *)
(* before one.                                                             *)
CacheFollowsRow == cache \in {Nothing, row} \/ overtaken
=============================================================================
