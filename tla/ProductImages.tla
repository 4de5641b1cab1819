---------------------------- MODULE ProductImages ----------------------------
(***************************************************************************)
(* The primary image of one product, under concurrent uploads, re-ordering,*)
(* replacing and deleting (portal/image_views.py, ProductImage).           *)
(*                                                                         *)
(* Grain.  What a view loads, a write together with the deferred trigger   *)
(* that checks it, and the commit are steps of their own: until the commit *)
(* nobody else sees the write, but the rows it touches stay locked.        *)
(*                                                                         *)
(* Data.  A row is its is_primary flag; files, derivatives, texts and      *)
(* positions are left out, so the image that is promoted by position is    *)
(* any image.                                                              *)
(***************************************************************************)
EXTENDS FiniteSets, Naturals

CONSTANTS
    Images,   \* the images that may be uploaded
    Requests  \* portal requests that may be open at once

VARIABLES
    images,     \* the ProductImage rows that exist
    primaries,  \* those with is_primary
    uploaded,   \* the ids that have been given out
    image_req,  \* image_req[r]: what request r has loaded or written
    skewed,     \* history: two transactions were checked before either
                \* committed, and it shows
    outdated    \* history: the product lost its primary image to a request
                \* that acted on what it had read before, or died half-way

vars == <<images, primaries, uploaded, image_req, skewed, outdated>>

UploadRequest == [op : {"upload"}, image : Images, primary : BOOLEAN]
RowRequest == [op : {"replace", "delete"}, image : Images, primary : BOOLEAN]
ReorderRequest == [op : {"reorder"}, rows : SUBSET Images,
                   primaries : SUBSET Images, primary : Images]
(* A request that holds nothing, and the image that is not chosen yet.     *)
Idle == [op |-> "idle"]
PromoteRequest == [op : {"promote"}, image : Images \cup {Idle}]
(* A write that passed its checks: on and off are the rows whose flag it   *)
(* sets and clears, plain those it writes whole and without the flag;      *)
(* crossed says that another one has committed since.                      *)
Written == [op : {"commit"}, on : SUBSET Images, off : SUBSET Images,
            plain : SUBSET Images, touched : SUBSET Images, crossed : BOOLEAN]

Init ==
    /\ images = {} /\ primaries = {} /\ uploaded = {}
    /\ image_req = [r \in Requests |-> Idle]
    /\ skewed = FALSE /\ outdated = FALSE

Open(r, op) == image_req[r].op = op
Become(r, what) == image_req' = [image_req EXCEPT ![r] = what]

Locked(i) == \E r \in Requests : Open(r, "commit") /\ i \in image_req[r].touched

(* The product is without a primary image because of what happens now.     *)
Lost(now) == outdated' = (images' # {} /\ primaries' = {} /\ (outdated \/ now))

-----------------------------------------------------------------------------
(* The deferred trigger counts the committed rows and the transaction's    *)
(* own, when the transaction has set a flag.                               *)

(* Mutant: without the trigger.                                            *)
TriggerAllowsAll(on, off) == TRUE

TriggerAllows(on, off) ==
    on # {} => Cardinality((primaries \ off) \cup on) <= 1

Write(r, on, off, plain, touched) ==
    /\ \A i \in touched : ~Locked(i)
    /\ IF TriggerAllows(on, off)
       THEN Become(r, [op |-> "commit", on |-> on, off |-> off, plain |-> plain,
                       touched |-> touched, crossed |-> FALSE])
       ELSE Become(r, Idle)
    /\ UNCHANGED <<images, primaries, uploaded, skewed, outdated>>

Commit(r) ==
    /\ Open(r, "commit")
    /\ LET w == image_req[r] IN
       /\ images' = images \cup w.on \cup w.plain
       /\ primaries' = (primaries \ (w.off \cup w.plain)) \cup w.on
       /\ image_req' = [q \in Requests |->
             IF q = r THEN Idle
             ELSE IF Open(q, "commit") /\ w.on # {}
                  THEN [image_req[q] EXCEPT !.crossed = TRUE] ELSE image_req[q]]
       /\ skewed' = (Cardinality(primaries') > 1 /\ (skewed \/ w.crossed))
       /\ Lost(images = {} \/ \E i \in w.plain : i \in primaries)
    /\ UNCHANGED uploaded

-----------------------------------------------------------------------------
(* ProductImageUploadView: save() asks whether the product has an image,   *)
(* the INSERT is a transaction of its own.                                 *)

ReadUpload(r) ==
    /\ image_req[r] = Idle
    /\ \E i \in Images \ uploaded :
          /\ Become(r, [op |-> "upload", image |-> i, primary |-> images = {}])
          /\ uploaded' = uploaded \cup {i}
    /\ UNCHANGED <<images, primaries, skewed, outdated>>

Upload(r) ==
    /\ Open(r, "upload")
    /\ LET i == image_req[r].image IN
       IF image_req[r].primary THEN Write(r, {i}, {}, {}, {i})
                         ELSE Write(r, {}, {}, {i}, {i})

(* ProductImageReplaceView and ProductImageDeleteView load one row.        *)
LoadRow(r, op) ==
    /\ image_req[r] = Idle
    /\ \E i \in images :
          Become(r, [op |-> op, image |-> i, primary |-> i \in primaries])
    /\ UNCHANGED <<images, primaries, uploaded, skewed, outdated>>

(* The replacing form saves the whole row, its flag as it was loaded, and  *)
(* inserts it again if it was deleted.                                     *)
Replace(r) ==
    /\ Open(r, "replace")
    /\ LET i == image_req[r].image IN
       IF image_req[r].primary THEN Write(r, {i}, {}, {}, {i})
                         ELSE Write(r, {}, {}, {i}, {i})

(* ProductImageReorderView loads every row before its transaction.         *)
LoadReorder(r) ==
    /\ image_req[r] = Idle
    /\ \E i \in images \ primaries :
          Become(r, [op |-> "reorder", rows |-> images, primaries |-> primaries,
                     primary |-> i])
    /\ UNCHANGED <<images, primaries, uploaded, skewed, outdated>>

Cleared(r) == image_req[r].primaries \ {image_req[r].primary}

(* Of a row that has gone neither the position (of moved) nor the flag can *)
(* be saved: the transaction rolls back.                                   *)
Reorder(r) ==
    /\ Open(r, "reorder")
    /\ \E moved \in SUBSET image_req[r].rows :
          LET touched == moved \cup Cleared(r) \cup {image_req[r].primary} IN
          \/ /\ touched \subseteq images
             /\ Write(r, {image_req[r].primary}, Cleared(r), {}, touched)
          \/ /\ ~(touched \subseteq images)
             /\ Become(r, Idle)
             /\ UNCHANGED <<images, primaries, uploaded, skewed, outdated>>

-----------------------------------------------------------------------------
(* ProductImage.delete(): the row goes at once, another one is promoted by *)
(* statements that follow.                                                 *)

Delete(r) ==
    /\ Open(r, "delete")
    /\ LET i == image_req[r].image IN
       /\ ~Locked(i)
       /\ images' = images \ {i}
       /\ primaries' = primaries \ {i}
       /\ IF image_req[r].primary THEN Become(r, [op |-> "promote", image |-> Idle])
                            ELSE Become(r, Idle)
       /\ skewed' = (skewed /\ Cardinality(primaries') > 1)
       /\ Lost(i \in primaries /\ ~image_req[r].primary)
    /\ UNCHANGED uploaded

(* Mutant: nobody is promoted.                                             *)
SuccessorsNone == {}

(* Only when no other image is primary.                                    *)
Successors == IF primaries = {} THEN images ELSE {}

ReadSuccessor(r) ==
    /\ Open(r, "promote") /\ image_req[r].image = Idle
    /\ \/ \E i \in Successors : Become(r, [op |-> "promote", image |-> i])
       \/ Successors = {} /\ Become(r, Idle)
    /\ UNCHANGED <<images, primaries, uploaded, skewed, outdated>>

Promote(r) ==
    /\ Open(r, "promote") /\ image_req[r].image # Idle
    /\ LET i == image_req[r].image IN
       \/ i \in images /\ Write(r, {i}, {}, {}, {i})
       \/ /\ i \notin images      \* "did not affect any rows"
          /\ Become(r, Idle)
          /\ UNCHANGED <<images, primaries, uploaded, skewed>>
          /\ Lost(TRUE)

(* The worker dies; what it has not committed is rolled back.              *)
Die(r) ==
    /\ image_req[r] # Idle
    /\ Become(r, Idle)
    /\ UNCHANGED <<images, primaries, uploaded, skewed>>
    /\ Lost(TRUE)

-----------------------------------------------------------------------------
RequestStep(r) ==
    \/ ReadUpload(r) \/ Upload(r)
    \/ \E op \in {"replace", "delete"} : LoadRow(r, op)
    \/ Replace(r) \/ Delete(r) \/ ReadSuccessor(r) \/ Promote(r)
    \/ LoadReorder(r) \/ Reorder(r)
    \/ Commit(r) \/ Die(r)

Next == \E r \in Requests : RequestStep(r)

Spec == Init /\ [][Next]_vars

-----------------------------------------------------------------------------
(* Properties.                                                             *)

TypeOK ==
    /\ images \subseteq uploaded /\ uploaded \subseteq Images
    /\ primaries \subseteq images
    /\ image_req \in [Requests -> {Idle} \cup UploadRequest \cup RowRequest
                  \cup ReorderRequest \cup PromoteRequest \cup Written]
    /\ skewed \in BOOLEAN /\ outdated \in BOOLEAN

(* At most one image is primary (ProductImage, migration 0005), whatever   *)
(* was outdated when it was written: only two transactions that were       *)
(* checked before either committed can break it.                           *)
AtMostOnePrimary == Cardinality(primaries) > 1 => skewed

(* A product with images has a primary one when nobody is at work on it,   *)
(* unless a request acted on an outdated flag or died before promoting.    *)
PrimaryStays ==
    images # {} /\ (\A r \in Requests : image_req[r] = Idle) =>
        primaries # {} \/ outdated
=============================================================================
