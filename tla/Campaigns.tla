------------------------------ MODULE Campaigns ------------------------------
(***************************************************************************)
(* Campaigns of the clients of one workspace and their background images.  *)
(*                                                                         *)
(* The background of a campaign lives in two places that no transaction    *)
(* spans: the row says which upload it waits for (BackgroundPendingKey,    *)
(* fresh for every presigned URL) and whether it has a thumbnail; object   *)
(* storage holds the upload and the thumbnail, whose key is the same for   *)
(* every upload of a campaign.  Storage announces an upload by a webhook,  *)
(* possibly more than once.  A command reads the row without locking it    *)
(* (deletion excepted) and saves all of its columns.                       *)
(***************************************************************************)
EXTENDS Naturals, FiniteSets, Sequences, TLC

CONSTANTS
  Clients,       \* the clients of the workspace
  Slots,         \* requests and webhooks in flight at one time
  MaxCampaigns,  \* the plan's limit on campaigns
  MaxRows,       \* bound: campaigns ever created, the default ones included
  MaxKeys,       \* bound: upload URLs ever presigned
  MaxRequests    \* bound: requests and webhooks

ASSUME CampaignsAssumption ==
  /\ IsFiniteSet(Clients)
  /\ MaxCampaigns \in Nat /\ MaxRequests \in Nat
  /\ MaxRows \in Nat /\ MaxKeys \in Nat
  /\ MaxRows >= Cardinality(Clients)

VARIABLES
  rows,       \* the campaigns table, campaigns numbered as they were created
  store,      \* the upload bucket and the thumbnail bucket
  urls,       \* upload URLs handed out
  notices,    \* uploads storage has announced; a webhook may come again
  deletions,  \* CampaignDeleted events in the outbox
  purged,     \* those whose objects have been deleted
  req,        \* requests and webhooks in flight
  minted,     \* upload keys used so far
  asked,      \* requests and webhooks so far
  overtaken,  \* history: <<writer, open>>, a write on a campaign another request was busy with
  undone,     \* history: campaigns whose row a rename saved although it had changed since its read
  left        \* history: what late uploads, failed deletions and requests that died left behind

vars == <<rows, store, urls, notices, deletions, purged, req, minted, asked, overtaken, undone, left>>

Ids  == 1..MaxRows
Keys == 1..MaxKeys
Nil  == 0

Ops    == {"create", "update", "presign", "clear", "delete", "process"}
Steps  == {"none", "save", "previous", "pending", "thumbnail", "get", "put", "drop", "fresh",
           "ready", "failed", "mark", "fail"}
Status == {"none", "pending", "ready", "failed"}

\* file is the upload that BackgroundFilename and BackgroundContentType describe.
Campaign == [ClientID : Clients, IsDefault : BOOLEAN, DeletedAt : BOOLEAN,
             BackgroundStatus : Status, BackgroundPendingKey : Keys \cup {Nil},
             BackgroundThumbnailKey : BOOLEAN, file : Keys \cup {Nil}]

\* Objects nobody deletes any more, and uploads deleted by a webhook that died
\* before the row was told: with its thumbnail stored (unsaved) or of no use (unmarked).
Leftovers == [uploads : SUBSET Keys, thumbnails : SUBSET Keys,
              unsaved : SUBSET Keys, unmarked : SUBSET Keys]

CampaignDeleted == [campaign : Ids, pending : Keys \cup {Nil}, thumbnail : BOOLEAN]

NoCampaign == [ClientID |-> "none"]
Idle == [op |-> "idle", step |-> "none", campaign |-> Nil, key |-> Nil, row |-> NoCampaign]
Request == [op : Ops, step : Steps, campaign : Ids \cup {Nil}, key : Keys \cup {Nil}, row : Campaign]

-----------------------------------------------------------------------------
(* The aggregate *)

New(cl, default) ==
  [ClientID |-> cl, IsDefault |-> default, DeletedAt |-> FALSE,
   BackgroundStatus |-> "none", BackgroundPendingKey |-> Nil,
   BackgroundThumbnailKey |-> FALSE, file |-> Nil]
NewCampaign(cl) == New(cl, FALSE)
NewDefaultCampaign(cl) == New(cl, TRUE)

\* Name and schedule change, the rest of the row is saved as it was read.
ApplyUpdate(row) == row
SoftDelete(row) == [row EXCEPT !.DeletedAt = TRUE]

\* Mutant: the row takes the size, for which there is no column any more.
StartSizedUpload(row, k) ==
  [row EXCEPT !.BackgroundStatus = "pending", !.BackgroundPendingKey = k, !.file = k]
    @@ [BackgroundSize |-> 1]
\* The thumbnail stays while its replacement is awaited.
StartBackgroundUpload(row, k) ==
  [row EXCEPT !.BackgroundStatus = "pending", !.BackgroundPendingKey = k, !.file = k]
ApplyBackgroundReady(row) ==
  [row EXCEPT !.BackgroundStatus = "ready", !.BackgroundPendingKey = Nil,
              !.BackgroundThumbnailKey = TRUE]
\* Mutant: the failed upload is still waited for.
MarkFailedOnly(row) == [row EXCEPT !.BackgroundStatus = "failed"]
MarkBackgroundFailed(row) ==
  [row EXCEPT !.BackgroundStatus = "failed", !.BackgroundPendingKey = Nil]
\* Mutant: the row keeps the key of the thumbnail that is deleted.
ClearUpload(row) ==
  [row EXCEPT !.BackgroundStatus = "none", !.BackgroundPendingKey = Nil, !.file = Nil]
ClearBackground(row) ==
  [row EXCEPT !.BackgroundStatus = "none", !.BackgroundPendingKey = Nil,
              !.BackgroundThumbnailKey = FALSE, !.file = Nil]

-----------------------------------------------------------------------------
(* Repositories and storage *)

Live == {c \in DOMAIN rows : ~rows[c].DeletedAt}

GetByBackgroundPendingKey(k) == {c \in Live : rows[c].BackgroundPendingKey = k}

\* No deleted_at condition here: a deleted campaign keeps its place in the plan.
CountNonDefaultByWorkspaceID == Cardinality({c \in DOMAIN rows : ~rows[c].IsDefault})

\* A response offers a thumbnail URL only for these.
BackgroundThumbnailURL(row) ==
  row.BackgroundThumbnailKey /\ row.BackgroundStatus \in {"ready", "pending"}

\* What GET /campaigns/:id/thumbnail answers: an image, or Nil for 404.
GetThumbnail(cl, c) ==
  IF c \in Live /\ rows[c].ClientID = cl /\ BackgroundThumbnailURL(rows[c])
  THEN store.thumbnails[c] ELSE Nil

PutThumbnail(s, c, k) == [s EXCEPT !.thumbnails[c] = k]
DeleteObject(s, k) == [s EXCEPT !.uploads = @ \ {k}]
DeleteThumbnail(s, c) == [s EXCEPT !.thumbnails[c] = Nil]

-----------------------------------------------------------------------------
TypeOK ==
  /\ rows \in Seq(Campaign)
  /\ Len(rows) <= MaxRows
  /\ store \in [uploads : SUBSET Keys, thumbnails : [Ids -> Keys \cup {Nil}]]
  /\ urls \subseteq Keys
  /\ notices \subseteq urls
  /\ deletions \subseteq CampaignDeleted
  /\ purged \subseteq deletions
  /\ req \in [Slots -> Request \cup {Idle}]
  /\ minted \in 0..MaxKeys
  /\ asked \in 0..MaxRequests
  /\ overtaken \subseteq (Ops \cup {"purge"}) \X Ops
  /\ undone \subseteq Ids
  /\ left \in Leftovers

\* Every client has its default campaign, numbered in any order.
Init ==
  /\ \E f \in [1..Cardinality(Clients) -> Clients] :
       /\ \A i, j \in DOMAIN f : f[i] = f[j] => i = j
       /\ rows = [c \in 1..Cardinality(Clients) |-> NewDefaultCampaign(f[c])]
  /\ store = [uploads |-> {}, thumbnails |-> [c \in Ids |-> Nil]]
  /\ urls = {} /\ notices = {} /\ deletions = {} /\ purged = {}
  /\ req = [q \in Slots |-> Idle]
  /\ minted = 0 /\ asked = 0
  /\ overtaken = {} /\ undone = {}
  /\ left = [uploads |-> {}, thumbnails |-> {}, unsaved |-> {}, unmarked |-> {}]

-----------------------------------------------------------------------------
(* Requests *)

Begin(q, r) ==
  /\ req[q] = Idle
  /\ asked < MaxRequests
  /\ asked' = asked + 1
  /\ req' = [req EXCEPT ![q] = r]
  /\ UNCHANGED <<rows, store, urls, notices, deletions, purged, minted, overtaken, undone, left>>

At(q, op, step) == req[q].op = op /\ req[q].step = step

Busy(q, c) == req[q] # Idle /\ req[q].campaign = c

\* A write of op on c overtakes the other requests that are busy with c.
Overtaking(others, op, c) ==
  overtaken \cup {<<op, req[p].op>> : p \in {x \in others : Busy(x, c)}}

\* The row is saved and the request goes on with step.
Save(q, row, step) ==
  /\ rows' = [rows EXCEPT ![req[q].campaign] = row]
  /\ req' = [req EXCEPT ![q] = IF step = "end" THEN Idle ELSE [@ EXCEPT !.step = step]]
  /\ overtaken' = Overtaking(Slots \ {q}, req[q].op, req[q].campaign)

\* Storage changes and the request goes on; a failed deletion is only logged.
Stored(q, s, step) ==
  /\ store' = s
  /\ req' = [req EXCEPT ![q] = IF step = "end" THEN Idle ELSE [@ EXCEPT !.step = step]]
  /\ overtaken' = Overtaking(Slots \ {q}, req[q].op, req[q].campaign)
  /\ UNCHANGED <<rows, urls, notices, deletions, purged, minted, asked, undone>>

\* How far a request has come with the row and the objects of its campaign.
Clearing(q) == At(q, "clear", "pending") \/ At(q, "clear", "thumbnail")
Unmounting(q) == Clearing(q) /\ req[q].row.BackgroundThumbnailKey
Mounted(q)  == \E step \in {"drop", "fresh", "ready"} : At(q, "process", step)
Dropped(q)  == \E step \in {"fresh", "ready", "mark", "fail"} : At(q, "process", step)

\* A failed deletion is logged at most.
LeaveUpload(k) == [left EXCEPT !.uploads = @ \cup ({k} \ {Nil})]
LeaveThumbnail(k) == [left EXCEPT !.thumbnails = @ \cup ({k} \ {Nil})]

\* What the request would still have deleted, or saved.
Unfinished(q) ==
  LET r == req[q]
      deleting == At(q, "presign", "previous") \/ At(q, "clear", "pending")
  IN [uploads    |-> {k \in Keys : deleting /\ k = r.row.BackgroundPendingKey},
      thumbnails |-> {k \in Keys : (Unmounting(q) /\ k = store.thumbnails[r.campaign]) \/ (Mounted(q) /\ k = r.key)},
      unsaved    |-> {k \in Keys : Dropped(q) /\ Mounted(q) /\ k = r.key},
      unmarked   |-> {k \in Keys : Dropped(q) /\ ~Mounted(q) /\ k = r.key}]

\* A statement or a storage call fails, or the process dies.
Abandon(q) ==
  /\ req[q] # Idle
  /\ req' = [req EXCEPT ![q] = Idle]
  /\ left' = [part \in DOMAIN left |-> left[part] \cup Unfinished(q)[part]]
  /\ UNCHANGED <<rows, store, urls, notices, deletions, purged, minted, asked, overtaken, undone>>

-----------------------------------------------------------------------------
(* POST /campaigns *)

\* Mutant: one more than the plan allows.
AssertCampaignFits == MaxCampaigns >= CountNonDefaultByWorkspaceID
\* The places are counted before the transaction that takes one.
AssertCampaignCreate == MaxCampaigns > CountNonDefaultByWorkspaceID
Create(q, cl) ==
  /\ AssertCampaignCreate
  /\ Begin(q, [Idle EXCEPT !.op = "create", !.row = NewCampaign(cl)])

CreateCampaign(q) ==
  /\ req[q].op = "create"
  /\ Len(rows) < MaxRows
  /\ rows' = Append(rows, req[q].row)
  /\ req' = [req EXCEPT ![q] = Idle]
  /\ overtaken' = Overtaking(Slots \ {q}, "create", Nil)
  /\ UNCHANGED <<store, urls, notices, deletions, purged, minted, asked, undone, left>>

-----------------------------------------------------------------------------
(* PUT /campaigns/:id *)

Owned(cl) == {c \in Live : rows[c].ClientID = cl}
Update(q, cl) ==
  \E c \in Owned(cl) :
    /\ ~rows[c].IsDefault
    /\ Begin(q, [Idle EXCEPT !.op = "update", !.campaign = c, !.row = rows[c]])

UpdateCampaign(q) ==
  /\ req[q].op = "update"
  /\ Save(q, ApplyUpdate(req[q].row), "end")
  /\ undone' = undone \cup {c \in {req[q].campaign} : rows[c] # req[q].row}
  /\ UNCHANGED <<store, urls, notices, deletions, purged, minted, asked, left>>

-----------------------------------------------------------------------------
(* DELETE /campaigns/:id: the row is locked from its read to the commit. *)

Delete(q, cl) ==
  \E c \in Owned(cl) :
    /\ ~rows[c].IsDefault
    /\ req[q] = Idle
    /\ asked < MaxRequests
    /\ asked' = asked + 1
    /\ rows' = [rows EXCEPT ![c] = SoftDelete(@)]
    /\ deletions' = deletions \cup {[campaign |-> c, pending |-> rows[c].BackgroundPendingKey,
                                     thumbnail |-> rows[c].BackgroundThumbnailKey]}
    /\ overtaken' = Overtaking(Slots \ {q}, "delete", c)
    /\ UNCHANGED <<store, urls, notices, purged, req, minted, undone, left>>

\* Mutant: the thumbnail is forgotten.
PurgeUpload(s, e) == IF e.pending # Nil THEN DeleteObject(s, e.pending) ELSE s
Purge(s, e) ==
  LET s1 == IF e.pending # Nil THEN DeleteObject(s, e.pending) ELSE s
  IN IF e.thumbnail THEN DeleteThumbnail(s1, e.campaign) ELSE s1

\* The event comes at least once; a retry repeats both deletions.
DeleteObjectsOnDeleted(e) ==
  /\ store' = Purge(store, e)
  /\ purged' = purged \cup {e}
  /\ overtaken' = Overtaking(Slots, "purge", e.campaign)
  /\ UNCHANGED <<rows, urls, notices, deletions, req, minted, asked, undone, left>>

-----------------------------------------------------------------------------
(* POST /campaigns/:id/background/presign *)

PresignBackground(q, cl) ==
  \E c \in Owned(cl) :
    Begin(q, [Idle EXCEPT !.op = "presign", !.step = "save", !.campaign = c, !.row = rows[c]])

PresignSave(q) ==
  LET k == minted + 1
  IN /\ At(q, "presign", "save")
     /\ k \in Keys
     /\ rows' = [rows EXCEPT ![req[q].campaign] = StartBackgroundUpload(req[q].row, k)]
     /\ minted' = k
     /\ req' = [req EXCEPT ![q].step = "previous", ![q].key = k]
     /\ overtaken' = Overtaking(Slots \ {q}, "presign", req[q].campaign)
     /\ UNCHANGED <<store, urls, notices, deletions, purged, asked, undone, left>>

\* The upload the row waited for before is deleted, then the URL goes out if it
\* can be signed.
PresignReply(q) ==
  LET previous == req[q].row.BackgroundPendingKey
  IN /\ At(q, "presign", "previous")
     /\ \/ store' = DeleteObject(store, previous) /\ left' = left
        \/ store' = store /\ left' = LeaveUpload(previous)
     /\ urls' \in {urls, urls \cup {req[q].key}}
     /\ req' = [req EXCEPT ![q] = Idle]
     /\ overtaken' = Overtaking(Slots \ {q}, "presign", req[q].campaign)
     /\ UNCHANGED <<rows, notices, deletions, purged, minted, asked, undone>>

\* External: the browser puts a file to a URL that has not expired.
Upload(k) ==
  /\ k \in urls \ store.uploads
  /\ store' = [store EXCEPT !.uploads = @ \cup {k}]
  /\ notices' = notices \cup {k}
  /\ left' = IF GetByBackgroundPendingKey(k) = {} \/ k \in notices THEN LeaveUpload(k) ELSE left
  /\ UNCHANGED <<rows, urls, deletions, purged, req, minted, asked, overtaken, undone>>

-----------------------------------------------------------------------------
(* DELETE /campaigns/:id/background *)

ClearBackgroundRequest(q, cl) ==
  \E c \in Owned(cl) :
    Begin(q, [Idle EXCEPT !.op = "clear", !.step = "save", !.campaign = c, !.row = rows[c]])

ClearSave(q) ==
  /\ At(q, "clear", "save")
  /\ Save(q, ClearBackground(req[q].row), "pending")
  /\ UNCHANGED <<store, urls, notices, deletions, purged, minted, asked, undone, left>>

ClearPending(q) ==
  LET pending == req[q].row.BackgroundPendingKey
  IN /\ At(q, "clear", "pending")
     /\ \/ Stored(q, DeleteObject(store, pending), "thumbnail") /\ left' = left
        \/ Stored(q, store, "thumbnail") /\ left' = LeaveUpload(pending)

ClearThumbnail(q) ==
  LET c == req[q].campaign
  IN /\ At(q, "clear", "thumbnail")
     /\ IF req[q].row.BackgroundThumbnailKey
        THEN \/ Stored(q, DeleteThumbnail(store, c), "end") /\ left' = left
             \/ Stored(q, store, "end") /\ left' = LeaveThumbnail(store.thumbnails[c])
        ELSE Stored(q, store, "end") /\ left' = left

-----------------------------------------------------------------------------
(* The webhook of an upload *)

ObjectCreated(q, k) ==
  \E c \in GetByBackgroundPendingKey(k) :
    Begin(q, [Idle EXCEPT !.op = "process", !.step = "get", !.campaign = c, !.key = k, !.row = rows[c]])

\* The upload is read; one that is gone, too large or no image fails.
ProcessGet(q) ==
  /\ At(q, "process", "get")
  /\ \/ req[q].key \in store.uploads /\ req' = [req EXCEPT ![q].step = "put"]
     \/ req' = [req EXCEPT ![q].step = "failed"]
  /\ UNCHANGED <<rows, store, urls, notices, deletions, purged, minted, asked, overtaken, undone, left>>

ProcessPut(q) ==
  /\ At(q, "process", "put")
  /\ \/ Stored(q, PutThumbnail(store, req[q].campaign, req[q].key), "drop") /\ left' = left
     \/ Stored(q, store, "failed") /\ left' = left

ProcessDrop(q) ==
  /\ At(q, "process", "drop")
  /\ \/ Stored(q, DeleteObject(store, req[q].key), "fresh") /\ left' = left
     \/ Stored(q, store, "fresh") /\ left' = LeaveUpload(req[q].key)

\* The row is read again; another upload may be awaited by now.
ProcessFresh(q) ==
  LET c == req[q].campaign
  IN /\ At(q, "process", "fresh")
     /\ req' = [req EXCEPT ![q] =
          IF c \in Live /\ rows[c].BackgroundPendingKey = req[q].key
          THEN [@ EXCEPT !.row = rows[c], !.step = "ready"] ELSE Idle]
     /\ UNCHANGED <<rows, store, urls, notices, deletions, purged, minted, asked, overtaken, undone, left>>

ProcessReady(q) ==
  /\ At(q, "process", "ready")
  /\ Save(q, ApplyBackgroundReady(req[q].row), "end")
  /\ UNCHANGED <<store, urls, notices, deletions, purged, minted, asked, undone, left>>

\* fail: the upload is deleted, and the row marked unless it awaits another one.
FailDrop(q) ==
  /\ At(q, "process", "failed")
  /\ \/ Stored(q, DeleteObject(store, req[q].key), "mark") /\ left' = left
     \/ Stored(q, store, "mark") /\ left' = LeaveUpload(req[q].key)

FailFresh(q) ==
  LET c == req[q].campaign
  IN /\ At(q, "process", "mark")
     /\ req' = [req EXCEPT ![q] =
          IF c \in Live /\ rows[c].BackgroundPendingKey \in {Nil, req[q].key}
          THEN [@ EXCEPT !.row = rows[c], !.step = "fail"] ELSE Idle]
     /\ UNCHANGED <<rows, store, urls, notices, deletions, purged, minted, asked, overtaken, undone, left>>

FailSave(q) ==
  /\ At(q, "process", "fail")
  /\ Save(q, MarkBackgroundFailed(req[q].row), "end")
  /\ UNCHANGED <<store, urls, notices, deletions, purged, minted, asked, undone, left>>

ProcessBackgroundUpload(q) ==
  \/ ProcessGet(q) \/ ProcessPut(q) \/ ProcessDrop(q) \/ ProcessFresh(q) \/ ProcessReady(q)
  \/ FailDrop(q) \/ FailFresh(q) \/ FailSave(q)

-----------------------------------------------------------------------------
Next ==
  \/ \E q \in Slots :
       \/ \E cl \in Clients :
            Create(q, cl) \/ Update(q, cl) \/ Delete(q, cl)
              \/ PresignBackground(q, cl) \/ ClearBackgroundRequest(q, cl)
       \/ \E k \in notices : ObjectCreated(q, k)
       \/ CreateCampaign(q) \/ UpdateCampaign(q)
       \/ PresignSave(q) \/ PresignReply(q)
       \/ ClearSave(q) \/ ClearPending(q) \/ ClearThumbnail(q)
       \/ ProcessBackgroundUpload(q)
       \/ Abandon(q)
  \/ \E e \in deletions : DeleteObjectsOnDeleted(e)
  \/ \E k \in Keys : Upload(k)

Spec == Init /\ [][Next]_vars

-----------------------------------------------------------------------------
(* Properties *)

AtRest == (\A q \in Slots : req[q] = Idle) /\ purged = deletions

\* No write of these kinds hit a campaign while such a request was busy with it.
NoneOvertakes(writers, opened) == \A p \in overtaken : p \notin writers \X opened
ImageWriters  == {"presign", "clear", "process", "delete", "purge"}
ImageRequests == {"presign", "clear", "process"}

\* What the code leaves to chance: an image request that is cut into by another
\* write of the image, its objects or the campaign, and a rename that saves the
\* row it read over one that has changed since (campaign_repository.go:33 saves
\* every column), which puts a cleared thumbnail, a replaced upload or a deleted
\* campaign back.  Renames that overlap image requests and save nothing stale,
\* or die, are not excluded.
NoneCutsIn == NoneOvertakes(ImageWriters, ImageRequests)
NothingUndone == undone = {}

\* As long as no image request cuts into another one and no rename saves a stale
\* row: a campaign whose response offers a thumbnail URL has that thumbnail, and
\* a campaign that is ready shows the file its row names, whatever webhooks fail
\* or repeat, deletions are lost, uploads come late or requests die at any step.
ThumbnailServed ==
  NoneCutsIn /\ NothingUndone =>
    \A c \in Live :
      BackgroundThumbnailURL(rows[c]) =>
        /\ GetThumbnail(rows[c].ClientID, c) # Nil
        /\ rows[c].BackgroundStatus = "ready" => GetThumbnail(rows[c].ClientID, c) = rows[c].file

\* Under the same two conditions, with no request open: a row that waits for an
\* upload which has arrived still finds it in storage, so that the webhook, when
\* it comes again, can finish the image.  The exception is a webhook that died
\* between deleting the upload (process_background_upload.go:101, :148) and saving
\* the row (:126, :161): the row then waits for an upload that is gone, and a
\* repetition can only mark it failed; but an image that was good is not lost,
\* its thumbnail is in storage.
PendingCanFinish ==
  AtRest /\ NoneCutsIn /\ NothingUndone =>
    \A c \in Live :
      LET k == rows[c].BackgroundPendingKey
      IN k \in notices =>
           \/ k \in store.uploads
           \/ k \in left.unsaved /\ store.thumbnails[c] = k
           \/ k \in left.unmarked

\* Under the same two conditions, with no request open and every deletion event
\* handled: storage holds the uploads that are waited for and the thumbnails of
\* live campaigns, and otherwise only uploads that came late (nobody waits for
\* them, or they came twice) and objects whose deletion failed or was not reached.
StorageAccounted ==
  AtRest /\ NoneCutsIn /\ NothingUndone =>
    /\ store.uploads \subseteq left.uploads \cup {rows[c].BackgroundPendingKey : c \in Live}
    /\ \A c \in Ids :
         store.thumbnails[c] \notin left.thumbnails \cup {Nil} => c \in Live /\ rows[c].BackgroundThumbnailKey

\* The campaigns ever created, deleted ones included, stay within the plan: no
\* sequence of creations and deletions gets past it unless creations overlap.
CampaignsBounded ==
  NoneOvertakes({"create"}, {"create"}) =>
    MaxCampaigns >= Cardinality({c \in DOMAIN rows : ~rows[c].IsDefault})
-----------------------------------------------------------------------------
(* The inductive invariant behind the properties *)

Undisturbed == NoneCutsIn /\ NothingUndone

\* A row waits for an upload exactly when it is pending, and it describes that one.
Sound(row) ==
  /\ row.BackgroundStatus = "pending" <=> row.BackgroundPendingKey # Nil
  /\ row.BackgroundPendingKey # Nil => row.file = row.BackgroundPendingKey
  /\ row.BackgroundPendingKey <= minted
Ledger ==
  /\ \A c \in DOMAIN rows : Sound(rows[c])
  /\ \A k \in urls : k <= minted
  /\ \A e \in deletions : e.campaign \in DOMAIN rows /\ e.pending <= minted

\* What request q read is of the campaign it is busy with.
Reads(q) ==
  /\ Sound(req[q].row)
  /\ req[q].key <= minted
  /\ IF req[q].op = "create"
     THEN req[q].campaign = Nil /\ req[q].step = "none" /\ \E cl \in Clients : req[q].row = NewCampaign(cl)
     ELSE req[q].campaign \in DOMAIN rows /\ req[q].row.IsDefault = rows[req[q].campaign].IsDefault
  /\ At(q, "presign", "previous") => req[q].key \notin {Nil, req[q].row.BackgroundPendingKey}
  /\ req[q].op = "process" => req[q].key \in notices
Attached == \A q \in Slots : req[q] # Idle => Reads(q)

\* An open creation has a place in the plan.
Room ==
  NoneOvertakes({"create"}, {"create"}) =>
    /\ MaxCampaigns >= CountNonDefaultByWorkspaceID
    /\ \A q \in Slots : req[q].op = "create" => MaxCampaigns > CountNonDefaultByWorkspaceID

\* The row is the one the image request read, or the one it has made of it.
Imaging(q, c) == Busy(q, c) /\ req[q].op \in ImageRequests
Agrees(q) ==
  \A c \in DOMAIN rows : Imaging(q, c) =>
    /\ ~rows[c].DeletedAt
    /\ rows[c] = IF At(q, "presign", "previous") THEN StartBackgroundUpload(req[q].row, req[q].key)
                 ELSE IF Clearing(q) THEN ClearBackground(req[q].row) ELSE req[q].row
    /\ req[q].op = "process" => rows[c].BackgroundPendingKey = req[q].key
Fresh == \A q \in Slots : Agrees(q)
Gone == \A e \in deletions : rows[e.campaign].DeletedAt

\* No other campaign waits for the upload of this one.
Others(c, k) == k # Nil => \A d \in DOMAIN rows \ {c} : rows[d].BackgroundPendingKey # k
KeysApart ==
  /\ \A c \in DOMAIN rows : Others(c, rows[c].BackgroundPendingKey)
  /\ \A q \in Slots, c \in DOMAIN rows : Busy(q, c) => Others(c, req[q].row.BackgroundPendingKey)
  /\ \A e \in deletions : Others(e.campaign, e.pending)

Shown ==
  /\ \A c \in Live :
       /\ rows[c].BackgroundThumbnailKey => store.thumbnails[c] # Nil
       /\ rows[c].BackgroundStatus = "ready" => store.thumbnails[c] = rows[c].file
  /\ \A q \in Slots : Mounted(q) => store.thumbnails[req[q].campaign] = req[q].key

Awaited ==
  \A c \in Live :
    LET k == rows[c].BackgroundPendingKey
    IN k \in notices =>
         \/ k \in store.uploads
         \/ k \in left.unsaved /\ store.thumbnails[c] = k
         \/ k \in left.unmarked
         \/ \E q \in Slots : Dropped(q) /\ req[q].campaign = c

\* Every object has a row, an open request, a deletion to come or a fault to account for it.
UploadsHeld ==
  \A k \in store.uploads \ left.uploads :
    \/ \E c \in Live : rows[c].BackgroundPendingKey = k
    \/ \E q \in Slots : (At(q, "presign", "previous") \/ At(q, "clear", "pending")) /\ req[q].row.BackgroundPendingKey = k
    \/ \E e \in deletions \ purged : e.pending = k
ThumbnailsHeld ==
  \A c \in Ids : store.thumbnails[c] \notin left.thumbnails \cup {Nil} =>
    \/ c \in Live /\ rows[c].BackgroundThumbnailKey
    \/ \E q \in Slots : (Mounted(q) \/ Unmounting(q)) /\ req[q].campaign = c
    \/ \E e \in deletions \ purged : e.thumbnail /\ e.campaign = c
DroppedGone == \A q \in Slots : Dropped(q) => req[q].key \notin store.uploads \ left.uploads

InStep ==
  Undisturbed =>
    Fresh /\ Gone /\ KeysApart /\ Shown /\ Awaited /\ UploadsHeld /\ ThumbnailsHeld /\ DroppedGone
CampaignsInv == Ledger /\ Attached /\ Room /\ InStep
=============================================================================
