-------------------------- MODULE CampaignsProofs --------------------------
(* Theorems about Campaigns: the table, the requests and the images keep   *)
(* the invariant whatever is abandoned, repeated or late.                  *)
EXTENDS Campaigns, FiniteSetTheorems, SequenceTheorems, TLAPS

\* The table is a sequence; its campaigns are numbered from one.
LEMMA RowFacts ==
  ASSUME TypeOK
  PROVE  /\ Len(rows) \in Nat /\ DOMAIN rows = 1..Len(rows)
         /\ DOMAIN rows \subseteq Ids /\ Live \subseteq DOMAIN rows
         /\ \A c \in DOMAIN rows : rows[c] \in Campaign
         /\ Nil \notin Ids /\ Nil \notin Keys
<1>1. rows \in Seq(Campaign) /\ Len(rows) <= MaxRows /\ MaxRows \in Nat
  BY CampaignsAssumption DEF TypeOK
<1> QED BY <1>1 DEF Ids, Keys, Live, Nil

\* A request in flight has all its fields.
LEMMA InFlight ==
  ASSUME TypeOK, NEW q \in Slots
  PROVE  /\ req[q] # Idle <=> req[q].op # "idle"
         /\ req[q] # Idle => /\ req[q] \in Request /\ req[q].op \in Ops /\ req[q].step \in Steps
                             /\ req[q].campaign \in Ids \cup {Nil} /\ req[q].key \in Keys \cup {Nil}
                             /\ req[q].row \in Campaign
<1>1. req[q] \in Request \cup {Idle}
  BY DEF TypeOK
<1> QED BY <1>1 DEF Request, Idle, Ops

\* One row is saved, the others stay.
LEMMA RowReplaced ==
  ASSUME TypeOK, NEW c \in DOMAIN rows, NEW row \in Campaign
  PROVE  /\ [rows EXCEPT ![c] = row] \in Seq(Campaign)
         /\ Len([rows EXCEPT ![c] = row]) = Len(rows)
         /\ DOMAIN [rows EXCEPT ![c] = row] = DOMAIN rows
         /\ [rows EXCEPT ![c] = row][c] = row
         /\ \A d \in DOMAIN rows \ {c} : [rows EXCEPT ![c] = row][d] = rows[d]
<1>1. rows \in Seq(Campaign) /\ c \in 1..Len(rows)
  BY RowFacts DEF TypeOK
<1>2. [rows EXCEPT ![c] = row] \in Seq(Campaign) /\ Len([rows EXCEPT ![c] = row]) = Len(rows)
  BY <1>1, ExceptSeq
<1> QED BY <1>1, <1>2

\* A new row gets the next number.
LEMMA RowAppended ==
  ASSUME TypeOK, NEW row \in Campaign, Len(rows) < MaxRows
  PROVE  /\ Append(rows, row) \in Seq(Campaign)
         /\ Len(Append(rows, row)) = Len(rows) + 1 /\ Len(rows) + 1 <= MaxRows
         /\ DOMAIN Append(rows, row) = DOMAIN rows \cup {Len(rows) + 1}
         /\ Append(rows, row)[Len(rows) + 1] = row
         /\ \A d \in DOMAIN rows : Append(rows, row)[d] = rows[d]
<1>1. rows \in Seq(Campaign) /\ Len(rows) \in Nat /\ DOMAIN rows = 1..Len(rows) /\ MaxRows \in Nat
  BY RowFacts, CampaignsAssumption DEF TypeOK
<1>2. Append(rows, row) \in Seq(Campaign) /\ Len(Append(rows, row)) = Len(rows) + 1
  BY <1>1
<1>3. DOMAIN Append(rows, row) = 1..(Len(rows) + 1)
  BY <1>1, <1>2
<1>4. 1..(Len(rows) + 1) = 1..Len(rows) \cup {Len(rows) + 1}
  BY <1>1
<1>5. Len(rows) + 1 <= MaxRows
  BY <1>1
<1> QED BY <1>1, <1>2, <1>3, <1>4, <1>5

\* One request goes on, the others stay.
LEMMA RequestReplaced ==
  ASSUME TypeOK, NEW q \in Slots, NEW r \in Request \cup {Idle}, req' = [req EXCEPT ![q] = r]
  PROVE  /\ req' \in [Slots -> Request \cup {Idle}]
         /\ req'[q] = r
         /\ \A p \in Slots \ {q} : req'[p] = req[p]
BY DEF TypeOK

\* Only requests busy with the campaign are overtaken, and a write of a kind
\* that overtakes none of some kind finds none of these busy with it.
LEMMA Overtaken ==
  ASSUME TypeOK, NEW others \in SUBSET Slots, NEW op \in Ops \cup {"purge"}, NEW c,
         overtaken' = Overtaking(others, op, c)
  PROVE  /\ overtaken \subseteq overtaken'
         /\ overtaken' \subseteq (Ops \cup {"purge"}) \X Ops
         /\ op = "create" /\ NoneOvertakes({"create"}, {"create"})' =>
              \A p \in others : Busy(p, c) => req[p].op # "create"
         /\ op \in ImageWriters /\ Undisturbed' => \A p \in others : ~Imaging(p, c)
<1>1. overtaken \subseteq overtaken'
  BY DEF Overtaking
<1>2. \A p \in others : Busy(p, c) => <<op, req[p].op>> \in overtaken' /\ req[p].op \in Ops
  BY InFlight DEF Overtaking, Busy
<1>3. overtaken' \subseteq (Ops \cup {"purge"}) \X Ops
  BY <1>2 DEF Overtaking, TypeOK
<1>4. ASSUME NEW W, NEW O, op \in W, NoneOvertakes(W, O)', NEW p \in others, Busy(p, c), req[p].op \in O
      PROVE  FALSE
  <2>1. <<op, req[p].op>> \in overtaken'
    BY <1>2, <1>4
  <2>2. <<op, req[p].op>> \notin W \X O
    BY <2>1, <1>4 DEF NoneOvertakes
  <2> QED BY <2>2, <1>4
<1>5. op = "create" /\ NoneOvertakes({"create"}, {"create"})' =>
         \A p \in others : Busy(p, c) => req[p].op # "create"
  BY <1>4
<1>6. op \in ImageWriters /\ Undisturbed' => \A p \in others : ~Imaging(p, c)
  BY <1>4 DEF Undisturbed, NoneCutsIn, Imaging
<1> QED BY <1>1, <1>3, <1>5, <1>6

\* A history that grows gives up conditions and never takes on one.
LEMMA NoneBefore ==
  ASSUME overtaken \subseteq overtaken', NEW W, NEW O, NoneOvertakes(W, O)'
  PROVE  NoneOvertakes(W, O)
BY DEF NoneOvertakes

LEMMA UndisturbedBefore ==
  ASSUME overtaken \subseteq overtaken', undone \subseteq undone', Undisturbed'
  PROVE  Undisturbed
BY DEF Undisturbed, NoneCutsIn, NothingUndone, NoneOvertakes

\* What is left behind is never taken back.
LeftGrows ==
  /\ left.uploads \subseteq left'.uploads /\ left.thumbnails \subseteq left'.thumbnails
  /\ left.unsaved \subseteq left'.unsaved /\ left.unmarked \subseteq left'.unmarked

\* A deletion that fails leaves one object behind.
LEMMA Leaving ==
  ASSUME TypeOK, NEW k \in Keys \cup {Nil}
  PROVE  /\ left' = left => left' \in Leftovers /\ LeftGrows
         /\ left' = LeaveUpload(k) => left' \in Leftovers /\ LeftGrows /\ k \in left'.uploads \cup {Nil}
         /\ left' = LeaveThumbnail(k) => left' \in Leftovers /\ LeftGrows /\ k \in left'.thumbnails \cup {Nil}
<1>1. left \in Leftovers
  BY DEF TypeOK
<1>2. ASSUME left' = LeaveUpload(k) PROVE left' \in Leftovers /\ LeftGrows /\ k \in left'.uploads \cup {Nil}
  BY <1>1, <1>2 DEF LeaveUpload, Leftovers, LeftGrows
<1>3. ASSUME left' = LeaveThumbnail(k) PROVE left' \in Leftovers /\ LeftGrows /\ k \in left'.thumbnails \cup {Nil}
  BY <1>1, <1>3 DEF LeaveThumbnail, Leftovers, LeftGrows
<1> QED BY <1>1, <1>2, <1>3 DEF LeftGrows

-----------------------------------------------------------------------------
(* The aggregate: which fields an operation leaves alone. *)

\* An upload is awaited under a new key.
LEMMA Uploading ==
  ASSUME NEW row \in Campaign, NEW k \in Keys
  PROVE  LET new == StartBackgroundUpload(row, k)
         IN /\ new \in Campaign /\ new.IsDefault = row.IsDefault /\ new.DeletedAt = row.DeletedAt
            /\ new.BackgroundThumbnailKey = row.BackgroundThumbnailKey
            /\ new.BackgroundStatus = "pending" /\ new.BackgroundPendingKey = k /\ new.file = k
BY DEF StartBackgroundUpload, Campaign, Status

\* The upload has become the thumbnail.
LEMMA BecomingReady ==
  ASSUME NEW row \in Campaign
  PROVE  LET new == ApplyBackgroundReady(row)
         IN /\ new \in Campaign /\ new.IsDefault = row.IsDefault /\ new.DeletedAt = row.DeletedAt
            /\ new.BackgroundThumbnailKey = TRUE /\ new.file = row.file
            /\ new.BackgroundStatus = "ready" /\ new.BackgroundPendingKey = Nil
BY DEF ApplyBackgroundReady, Campaign, Status, Nil

\* The upload was of no use.
LEMMA Failing ==
  ASSUME NEW row \in Campaign
  PROVE  LET new == MarkBackgroundFailed(row)
         IN /\ new \in Campaign /\ new.IsDefault = row.IsDefault /\ new.DeletedAt = row.DeletedAt
            /\ new.BackgroundThumbnailKey = row.BackgroundThumbnailKey /\ new.file = row.file
            /\ new.BackgroundStatus = "failed" /\ new.BackgroundPendingKey = Nil
BY DEF MarkBackgroundFailed, Campaign, Status, Nil

\* The row forgets its image.
LEMMA Forgetting ==
  ASSUME NEW row \in Campaign
  PROVE  LET new == ClearBackground(row)
         IN /\ new \in Campaign /\ new.IsDefault = row.IsDefault /\ new.DeletedAt = row.DeletedAt
            /\ new.BackgroundThumbnailKey = FALSE
            /\ new.BackgroundStatus = "none" /\ new.BackgroundPendingKey = Nil
BY DEF ClearBackground, Campaign, Status, Nil

\* A deleted row keeps what it knows of its image.
LEMMA SoftDeleting ==
  ASSUME NEW row \in Campaign
  PROVE  LET new == SoftDelete(row)
         IN /\ new \in Campaign /\ new.IsDefault = row.IsDefault /\ new.DeletedAt = TRUE
            /\ new.BackgroundThumbnailKey = row.BackgroundThumbnailKey /\ new.file = row.file
            /\ new.BackgroundStatus = row.BackgroundStatus
            /\ new.BackgroundPendingKey = row.BackgroundPendingKey
BY DEF SoftDelete, Campaign

\* A row whose image fields are these is sound.
LEMMA NoWaitSound ==
  ASSUME TypeOK', NEW row, row.BackgroundPendingKey = Nil, row.BackgroundStatus # "pending"
  PROVE  Sound(row)'
<1>1. minted' \in Nat
  BY CampaignsAssumption DEF TypeOK
<1> QED BY <1>1 DEF Sound, Nil

-----------------------------------------------------------------------------
(* The places of the plan *)

\* The count is the same when every campaign stays what it is.
LEMMA CountStays ==
  ASSUME DOMAIN rows' = DOMAIN rows,
         \A c \in DOMAIN rows : rows'[c].IsDefault = rows[c].IsDefault
  PROVE  CountNonDefaultByWorkspaceID' = CountNonDefaultByWorkspaceID
<1>1. {c \in DOMAIN rows' : ~rows'[c].IsDefault} = {c \in DOMAIN rows : ~rows[c].IsDefault}
  OBVIOUS
<1> QED BY <1>1 DEF CountNonDefaultByWorkspaceID

\* The campaigns that take a place are finitely many.
LEMMA CountIsNatural ==
  ASSUME TypeOK
  PROVE  /\ IsFiniteSet({c \in DOMAIN rows : ~rows[c].IsDefault})
         /\ CountNonDefaultByWorkspaceID \in Nat
<1>1. IsFiniteSet(1..Len(rows)) /\ DOMAIN rows = 1..Len(rows)
  <2>1. 1 \in Int /\ Len(rows) \in Int
    BY RowFacts
  <2> QED BY <2>1, RowFacts, FS_Interval
<1>2. {c \in DOMAIN rows : ~rows[c].IsDefault} \in SUBSET (1..Len(rows))
  BY <1>1
<1>3. IsFiniteSet({c \in DOMAIN rows : ~rows[c].IsDefault})
  BY <1>1, <1>2, FS_Subset
<1> QED BY <1>3, FS_CardinalityType DEF CountNonDefaultByWorkspaceID

\* A step of one request that creates no campaign keeps the ledger, what the
\* requests have read, and the room in the plan.
LEMMA Steady ==
  ASSUME TypeOK, TypeOK', Ledger, Attached, Room,
         NEW q \in Slots, \A p \in Slots \ {q} : req'[p] = req[p],
         minted' >= minted, notices \subseteq notices', overtaken \subseteq overtaken',
         DOMAIN rows' = DOMAIN rows,
         \A c \in DOMAIN rows : rows'[c].IsDefault = rows[c].IsDefault /\ Sound(rows[c])',
         \A k \in urls' : k \in urls \/ k <= minted',
         \A e \in deletions' : e \in deletions \/ (e.campaign \in DOMAIN rows /\ e.pending <= minted'),
         req'[q] # Idle => Reads(q)',
         req'[q].op = "create" => MaxCampaigns > CountNonDefaultByWorkspaceID
  PROVE  Ledger' /\ Attached' /\ Room'
<1>1. minted \in Nat /\ minted' \in Nat
  BY CampaignsAssumption DEF TypeOK
<1>2. Ledger'
  <2>1. \A k \in urls' : k <= minted'
    <3>1. \A k \in urls : k <= minted /\ k \in Nat
      BY DEF Ledger, TypeOK, Keys
    <3> QED BY <3>1, <1>1
  <2>2. ASSUME NEW e \in deletions' PROVE e.campaign \in DOMAIN rows' /\ e.pending <= minted'
    <3>1. CASE e \in deletions
      <4>1. e.campaign \in DOMAIN rows /\ e.pending <= minted /\ e.pending \in Nat
        BY <3>1 DEF Ledger, TypeOK, CampaignDeleted, Keys, Nil
      <4> QED BY <4>1, <1>1
    <3> QED BY <3>1
  <2> QED BY <2>1, <2>2 DEF Ledger
<1>3. Attached'
  <2> SUFFICES ASSUME NEW p \in Slots, req'[p] # Idle, p # q PROVE Reads(p)'
    BY DEF Attached
  <2>1. req'[p] = req[p] /\ Reads(p)
    BY DEF Attached
  <2>2. req[p].row.BackgroundPendingKey \in Nat /\ req[p].key \in Nat
    <3>1. req[p].row \in Campaign /\ req[p].key \in Keys \cup {Nil}
      BY <2>1, InFlight
    <3> QED BY <3>1 DEF Campaign, Keys, Nil
  <2>3. Sound(req[p].row)'
    BY <1>1, <2>1, <2>2 DEF Reads, Sound
  <2>4. req[p].key <= minted'
    BY <1>1, <2>1, <2>2 DEF Reads
  <2> QED BY <2>1, <2>3, <2>4 DEF Reads, At
<1>4. Room'
  <2>1. CountNonDefaultByWorkspaceID' = CountNonDefaultByWorkspaceID
    BY CountStays
  <2> QED BY <2>1 DEF Room, NoneOvertakes
<1> QED BY <1>2, <1>3, <1>4

-----------------------------------------------------------------------------
(* Rows and images in step *)

Images == Fresh /\ Gone /\ KeysApart /\ Shown /\ Awaited /\ UploadsHeld /\ ThumbnailsHeld /\ DroppedGone

\* Nobody but q is busy with the image of the campaign.
AloneAt(q, c) == \A p \in Slots \ {q} : ~Imaging(p, c)

\* A step of one request that saves no row: what it must see to when an object
\* goes away, when it passes a point from which it accounts for one, and when
\* it ends.
LEMMA RowsStay ==
  ASSUME TypeOK, Attached, Images,
         NEW q \in Slots, \A p \in Slots \ {q} : req'[p] = req[p],
         UNCHANGED <<rows, notices, deletions, purged>>, LeftGrows,
         store'.uploads \subseteq store.uploads,
         \A d \in Ids : store'.thumbnails[d] # store.thumbnails[d] =>
            /\ AloneAt(q, d)
            /\ d \in Live => /\ rows[d].BackgroundThumbnailKey => store'.thumbnails[d] # Nil
                             /\ rows[d].BackgroundStatus # "ready"
                             /\ store'.thumbnails[d] = rows[d].BackgroundPendingKey \/ rows[d].BackgroundPendingKey = Nil
            /\ store'.thumbnails[d] \in left'.thumbnails \cup {Nil} \/ (Mounted(q)' /\ req'[q].campaign = d),
         Agrees(q)',
         \A c \in DOMAIN rows : Busy(q, c)' => Others(c, req'[q].row.BackgroundPendingKey),
         Mounted(q)' => store'.thumbnails[req'[q].campaign] = req'[q].key,
         \A d \in Live : (/\ rows[d].BackgroundPendingKey \in notices
             /\ \/ rows[d].BackgroundPendingKey \in store.uploads \ store'.uploads
                \/ Dropped(q) /\ req[q].campaign = d) =>
            \/ Dropped(q)' /\ req'[q].campaign = d
            \/ rows[d].BackgroundPendingKey \in left'.unsaved /\ store'.thumbnails[d] = rows[d].BackgroundPendingKey
            \/ rows[d].BackgroundPendingKey \in left'.unmarked,
         At(q, "presign", "previous") \/ At(q, "clear", "pending") =>
            req[q].row.BackgroundPendingKey \notin store'.uploads \ left'.uploads,
         Mounted(q) \/ Unmounting(q) =>
            \/ store'.thumbnails[req[q].campaign] \in left'.thumbnails \cup {Nil}
            \/ (Mounted(q)' \/ Unmounting(q)') /\ req'[q].campaign = req[q].campaign,
         Dropped(q)' => req'[q].key \notin store'.uploads \ left'.uploads
  PROVE  Images'
<1>0. Live' = Live /\ Live \subseteq DOMAIN rows /\ DOMAIN rows \subseteq Ids
  BY RowFacts DEF Live
<1>1. \A p \in Slots \ {q} : /\ Mounted(p)' = Mounted(p) /\ Dropped(p)' = Dropped(p) /\ Unmounting(p)' = Unmounting(p)
                             /\ At(p, "presign", "previous")' = At(p, "presign", "previous")
                             /\ At(p, "clear", "pending")' = At(p, "clear", "pending")
  BY DEF Mounted, Dropped, Unmounting, Clearing, At
<1>2. Fresh'
  <2> SUFFICES ASSUME NEW p \in Slots \ {q} PROVE Agrees(p)'
    BY DEF Fresh
  <2>1. Agrees(p)
    BY DEF Images, Fresh
  <2> QED BY <2>1 DEF Agrees, Imaging, ImageRequests, Busy, Clearing, At
<1>3. Gone'
  BY DEF Images, Gone
<1>4. KeysApart'
  <2>1. \A c, k : Others(c, k)' = Others(c, k)
    BY DEF Others
  <2>2. \A c \in DOMAIN rows : Others(c, rows[c].BackgroundPendingKey)'
    BY <2>1 DEF Images, KeysApart, Others
  <2>3. \A e \in deletions : Others(e.campaign, e.pending)'
    BY <2>1 DEF Images, KeysApart, Others
  <2>4. ASSUME NEW p \in Slots, NEW c \in DOMAIN rows, Busy(p, c)' PROVE Others(c, req[p].row.BackgroundPendingKey)'
    <3>1. CASE p = q
      BY <3>1, <2>4 DEF Others
    <3>2. CASE p # q
      <4>1. Busy(p, c) /\ req'[p] = req[p]
        BY <3>2, <2>4 DEF Busy
      <4> QED BY <4>1 DEF Images, KeysApart, Others
    <3> QED BY <3>1, <3>2
  <2> QED BY <2>2, <2>3, <2>4 DEF KeysApart
<1>5. Shown'
  <2>1. ASSUME NEW c \in Live
        PROVE  /\ rows[c].BackgroundThumbnailKey => store'.thumbnails[c] # Nil
               /\ rows[c].BackgroundStatus = "ready" => store'.thumbnails[c] = rows[c].file
    <3>1. c \in Ids
      BY <1>0
    <3>2. CASE store'.thumbnails[c] = store.thumbnails[c]
      BY <3>2 DEF Images, Shown
    <3> QED BY <3>1, <3>2
  <2>2. ASSUME NEW p \in Slots \ {q}, Mounted(p) PROVE store'.thumbnails[req[p].campaign] = req[p].key
    <3> DEFINE d == req[p].campaign
    <3>1. req[p] # Idle /\ req[p].op = "process"
      BY <2>2, InFlight DEF Mounted, At
    <3>2. d \in DOMAIN rows /\ d \in Ids
      BY <1>0, <3>1 DEF Attached, Reads
    <3>3. Imaging(p, d)
      BY <3>1 DEF Imaging, Busy, ImageRequests
    <3>4. store'.thumbnails[d] = store.thumbnails[d]
      BY <3>2, <3>3 DEF AloneAt
    <3> QED BY <3>4, <2>2 DEF Images, Shown
  <2> QED BY <1>0, <1>1, <2>1, <2>2 DEF Shown
<1>6. Awaited'
  <2> SUFFICES ASSUME NEW d \in Live, NEW k \in notices, rows[d].BackgroundPendingKey = k, k \notin store'.uploads
               PROVE  \/ k \in left'.unsaved /\ store'.thumbnails[d] = k
                      \/ k \in left'.unmarked
                      \/ \E p \in Slots : Dropped(p)' /\ req'[p].campaign = d
    BY <1>0 DEF Awaited
  <2>1. CASE k \in store.uploads
    BY <2>1
  <2>2. CASE k \in left.unsaved /\ store.thumbnails[d] = k
    <3>1. d \in Ids /\ k # Nil
      BY <1>0, RowFacts DEF TypeOK
    <3>2. store'.thumbnails[d] = k
      BY <2>2, <3>1
    <3> QED BY <2>2, <3>2 DEF LeftGrows
  <2>3. CASE k \in left.unmarked
    BY <2>3 DEF LeftGrows
  <2>4. CASE \E p \in Slots : Dropped(p) /\ req[p].campaign = d
    <3>1. PICK p \in Slots : Dropped(p) /\ req[p].campaign = d
      BY <2>4
    <3> QED BY <1>1, <3>1
  <2> QED BY <2>1, <2>2, <2>3, <2>4 DEF Images, Awaited
<1>7. UploadsHeld'
  <2> SUFFICES ASSUME NEW k \in store'.uploads \ left'.uploads,
                      ~ \E c \in Live : rows[c].BackgroundPendingKey = k,
                      ~ \E e \in deletions \ purged : e.pending = k
               PROVE  \E p \in Slots : /\ At(p, "presign", "previous")' \/ At(p, "clear", "pending")'
                                       /\ req'[p].row.BackgroundPendingKey = k
    BY <1>0 DEF UploadsHeld
  <2>1. PICK p \in Slots : /\ At(p, "presign", "previous") \/ At(p, "clear", "pending")
                           /\ req[p].row.BackgroundPendingKey = k
    BY DEF Images, UploadsHeld, LeftGrows
  <2> QED BY <1>1, <2>1
<1>8. ThumbnailsHeld'
  <2> SUFFICES ASSUME NEW c \in Ids, store'.thumbnails[c] \notin left'.thumbnails \cup {Nil},
                      ~ (c \in Live /\ rows[c].BackgroundThumbnailKey),
                      ~ \E e \in deletions \ purged : e.thumbnail /\ e.campaign = c
               PROVE  \E p \in Slots : (Mounted(p)' \/ Unmounting(p)') /\ req'[p].campaign = c
    BY <1>0 DEF ThumbnailsHeld
  <2>1. CASE store'.thumbnails[c] # store.thumbnails[c]
    BY <2>1
  <2>2. CASE store'.thumbnails[c] = store.thumbnails[c]
    <3>1. PICK p \in Slots : (Mounted(p) \/ Unmounting(p)) /\ req[p].campaign = c
      BY <2>2 DEF Images, ThumbnailsHeld, LeftGrows
    <3> QED BY <1>1, <2>2, <3>1
  <2> QED BY <2>1, <2>2
<1>9. DroppedGone'
  BY <1>1 DEF Images, DroppedGone, LeftGrows
<1> QED BY <1>2, <1>3, <1>4, <1>5, <1>6, <1>7, <1>8, <1>9 DEF Images

\* A step of one request that saves its row while nobody else is busy with the
\* campaign: the new row waits for no upload that has come, and it takes over
\* what the old one accounted for, or the request does.
LEMMA RowSaved ==
  ASSUME TypeOK, Ledger, Attached, Images,
         NEW q \in Slots, \A p \in Slots \ {q} : req'[p] = req[p],
         NEW c \in DOMAIN rows, NEW row \in Campaign, rows' = [rows EXCEPT ![c] = row],
         UNCHANGED <<store, notices, deletions, purged, left>>,
         AloneAt(q, c), c \in Live, Busy(q, c), row.DeletedAt = FALSE,
         req'[q] # Idle => req'[q].campaign = c /\ req'[q].row = req[q].row,
         Agrees(q)',
         \/ row.BackgroundPendingKey = Nil
         \/ row.BackgroundPendingKey = minted + 1 /\ minted + 1 \notin notices,
         row.BackgroundThumbnailKey => store.thumbnails[c] # Nil,
         row.BackgroundStatus = "ready" => store.thumbnails[c] = row.file,
         ~Mounted(q)', ~Dropped(q)', ~At(q, "presign", "previous"), ~At(q, "clear", "pending"), ~Unmounting(q),
         rows[c].BackgroundPendingKey \in store.uploads \ left.uploads =>
            /\ At(q, "presign", "previous")' \/ At(q, "clear", "pending")'
            /\ req'[q].row.BackgroundPendingKey = rows[c].BackgroundPendingKey,
         (rows[c].BackgroundThumbnailKey \/ Mounted(q)) => row.BackgroundThumbnailKey = TRUE \/ Unmounting(q)'
  PROVE  Images'
<1>0. /\ Live \subseteq DOMAIN rows /\ DOMAIN rows \subseteq Ids /\ DOMAIN rows' = DOMAIN rows
      /\ rows'[c] = row /\ \A d \in DOMAIN rows \ {c} : rows'[d] = rows[d]
  BY RowFacts, RowReplaced
<1>1. \A p \in Slots \ {q} : /\ Mounted(p)' = Mounted(p) /\ Dropped(p)' = Dropped(p) /\ Unmounting(p)' = Unmounting(p)
                             /\ At(p, "presign", "previous")' = At(p, "presign", "previous")
                             /\ At(p, "clear", "pending")' = At(p, "clear", "pending")
  BY DEF Mounted, Dropped, Unmounting, Clearing, At
<1>2. Live' = Live
  <2>1. ~row.DeletedAt /\ ~rows[c].DeletedAt
    BY DEF Live
  <2> QED BY <1>0, <2>1 DEF Live
<1>3. minted \in Nat /\ \A d \in DOMAIN rows : rows[d].BackgroundPendingKey \in Nat /\ rows[d].BackgroundPendingKey # minted + 1
  <2>1. minted \in Nat
    BY CampaignsAssumption DEF TypeOK
  <2>2. ASSUME NEW d \in DOMAIN rows
        PROVE rows[d].BackgroundPendingKey \in Nat /\ rows[d].BackgroundPendingKey # minted + 1
    <3>1. rows[d].BackgroundPendingKey \in Nat
      BY RowFacts DEF Campaign, Keys, Nil
    <3>2. rows[d].BackgroundPendingKey <= minted
      BY DEF Ledger, Sound
    <3> QED BY <2>1, <3>1, <3>2
  <2> QED BY <2>1, <2>2
<1>4. Fresh'
  <2> SUFFICES ASSUME NEW p \in Slots \ {q} PROVE Agrees(p)'
    BY DEF Fresh
  <2>1. Agrees(p) /\ ~Imaging(p, c)
    BY DEF Images, Fresh, AloneAt
  <2> QED BY <1>0, <2>1 DEF Agrees, Imaging, ImageRequests, Busy, Clearing, At
<1>5. Gone'
  <2>1. \A e \in deletions : e.campaign \in DOMAIN rows \ {c}
    BY DEF Images, Gone, Ledger, Live
  <2> QED BY <1>0, <2>1 DEF Images, Gone
<1>6. KeysApart'
  <2>1. ASSUME NEW d \in DOMAIN rows, NEW k, Others(d, k), k = Nil \/ (k \in Nat /\ k # minted + 1)
        PROVE  Others(d, k)'
    BY <1>0, <2>1 DEF Others, Nil
  <2>2. ASSUME NEW d \in DOMAIN rows PROVE Others(d, rows[d].BackgroundPendingKey)'
    <3>1. CASE d = c
      BY <1>0, <1>3, <3>1 DEF Others
    <3>2. CASE d # c
      <4>1. Others(d, rows[d].BackgroundPendingKey)
        BY DEF Images, KeysApart
      <4> QED BY <1>0, <1>3, <2>1, <3>2, <4>1 DEF Others
    <3> QED BY <3>1, <3>2
  <2>3. ASSUME NEW e \in deletions PROVE Others(e.campaign, e.pending)'
    <3>1. e.campaign \in DOMAIN rows /\ e.pending <= minted /\ e.pending \in Nat
      BY DEF Ledger, TypeOK, CampaignDeleted, Keys, Nil
    <3>2. e.pending # minted + 1
      BY <1>3, <3>1
    <3>3. Others(e.campaign, e.pending)
      BY DEF Images, KeysApart
    <3> QED BY <2>1, <3>1, <3>2, <3>3
  <2>4. ASSUME NEW p \in Slots, NEW d \in DOMAIN rows, Busy(p, d)' PROVE Others(d, req[p].row.BackgroundPendingKey)'
    <3>1. Busy(p, d) /\ req'[p].row = req[p].row
      BY <2>4 DEF Busy
    <3>2. req[p].row.BackgroundPendingKey \in Nat /\ req[p].row.BackgroundPendingKey <= minted
      <4>1. req[p].row \in Campaign /\ Sound(req[p].row)
        BY <3>1, InFlight DEF Busy, Attached, Reads
      <4> QED BY <4>1 DEF Campaign, Keys, Nil, Sound
    <3>3. Others(d, req[p].row.BackgroundPendingKey)
      BY <3>1 DEF Images, KeysApart
    <3>4. req[p].row.BackgroundPendingKey # minted + 1
      BY <1>3, <3>2
    <3> QED BY <1>0, <3>1, <3>2, <3>3, <3>4 DEF Others
  <2> QED BY <1>0, <2>2, <2>3, <2>4 DEF KeysApart
<1>7. Shown'
  <2>1. ASSUME NEW d \in Live
        PROVE  /\ rows'[d].BackgroundThumbnailKey => store'.thumbnails[d] # Nil
               /\ rows'[d].BackgroundStatus = "ready" => store'.thumbnails[d] = rows'[d].file
    <3>1. CASE d = c
      BY <1>0, <3>1
    <3>2. CASE d # c
      BY <1>0, <3>2 DEF Images, Shown
    <3> QED BY <3>1, <3>2
  <2> QED BY <1>1, <1>2, <2>1 DEF Images, Shown
<1>8. Awaited'
  <2> SUFFICES ASSUME NEW d \in Live, NEW k \in notices, rows'[d].BackgroundPendingKey = k, k \notin store.uploads
               PROVE  \/ k \in left.unsaved /\ store.thumbnails[d] = k
                      \/ k \in left.unmarked
                      \/ \E p \in Slots : Dropped(p)' /\ req'[p].campaign = d
    BY <1>2 DEF Awaited
  <2>1. Nil \notin notices
    BY RowFacts DEF TypeOK
  <2>2. d # c /\ rows'[d] = rows[d]
    BY <1>0, <2>1
  <2>3. CASE \E p \in Slots : Dropped(p) /\ req[p].campaign = d
    <3>1. PICK p \in Slots : Dropped(p) /\ req[p].campaign = d
      BY <2>3
    <3>2. p # q
      BY <2>2, <3>1 DEF Busy
    <3> QED BY <1>1, <3>1, <3>2
  <2> QED BY <2>2, <2>3 DEF Images, Awaited
<1>9. UploadsHeld'
  <2> SUFFICES ASSUME NEW k \in store.uploads \ left.uploads,
                      ~ \E d \in Live : rows'[d].BackgroundPendingKey = k,
                      ~ \E e \in deletions \ purged : e.pending = k
               PROVE  \E p \in Slots : /\ At(p, "presign", "previous")' \/ At(p, "clear", "pending")'
                                       /\ req'[p].row.BackgroundPendingKey = k
    BY <1>2 DEF UploadsHeld
  <2>1. CASE k = rows[c].BackgroundPendingKey
    BY <2>1
  <2>2. CASE k # rows[c].BackgroundPendingKey
    <3>1. ~ \E d \in Live : rows[d].BackgroundPendingKey = k
      BY <1>0, <2>2
    <3>2. PICK p \in Slots : /\ At(p, "presign", "previous") \/ At(p, "clear", "pending")
                             /\ req[p].row.BackgroundPendingKey = k
      BY <3>1 DEF Images, UploadsHeld
    <3> QED BY <1>1, <3>2
  <2> QED BY <2>1, <2>2
<1>10. ThumbnailsHeld'
  <2> SUFFICES ASSUME NEW d \in Ids, store.thumbnails[d] \notin left.thumbnails \cup {Nil},
                      ~ (d \in Live /\ rows'[d].BackgroundThumbnailKey),
                      ~ \E e \in deletions \ purged : e.thumbnail /\ e.campaign = d
               PROVE  \E p \in Slots : (Mounted(p)' \/ Unmounting(p)') /\ req'[p].campaign = d
    BY <1>2 DEF ThumbnailsHeld
  <2>1. CASE d # c
    <3>1. ~ (d \in Live /\ rows[d].BackgroundThumbnailKey)
      BY <1>0, <2>1
    <3>2. PICK p \in Slots : (Mounted(p) \/ Unmounting(p)) /\ req[p].campaign = d
      BY <3>1 DEF Images, ThumbnailsHeld
    <3>3. p # q
      BY <2>1, <3>2 DEF Busy
    <3> QED BY <1>1, <3>2, <3>3
  <2>2. CASE d = c
    <3>1. ~row.BackgroundThumbnailKey
      BY <1>0, <2>2
    <3>2. rows[c].BackgroundThumbnailKey \/ Mounted(q)
      <4>1. CASE ~rows[c].BackgroundThumbnailKey
        <5>1. PICK p \in Slots : (Mounted(p) \/ Unmounting(p)) /\ req[p].campaign = c
          BY <2>2, <4>1 DEF Images, ThumbnailsHeld
        <5>2. req[p] # Idle /\ req[p].op \in ImageRequests
          BY <5>1, InFlight DEF Mounted, Unmounting, Clearing, At, ImageRequests
        <5>3. p = q
          BY <5>1, <5>2 DEF AloneAt, Imaging, Busy
        <5> QED BY <5>1, <5>3
      <4> QED BY <4>1
    <3>3. Unmounting(q)'
      BY <3>1, <3>2
    <3>4. req'[q] # Idle
      BY <3>3 DEF Unmounting, Clearing, At, Idle
    <3> QED BY <2>2, <3>3, <3>4
  <2> QED BY <2>1, <2>2
<1>11. DroppedGone'
  BY <1>1 DEF Images, DroppedGone
<1> QED BY <1>4, <1>5, <1>6, <1>7, <1>8, <1>9, <1>10, <1>11 DEF Images

-----------------------------------------------------------------------------
(* The steps *)

\* A request starts with a read of a live campaign.
LEMMA BeginStep ==
  ASSUME TypeOK, CampaignsInv, NEW q \in Slots, NEW c \in Live, NEW r \in Request, Begin(q, r),
         r.op \in Ops \ {"create"}, r.step \in {"none", "save", "get"}, r.campaign = c, r.row = rows[c],
         r.key = Nil \/ (r.key \in notices /\ r.key = rows[c].BackgroundPendingKey),
         r.op = "process" => r.key # Nil
  PROVE  TypeOK' /\ CampaignsInv'
<1>1. /\ req[q] = Idle /\ req' = [req EXCEPT ![q] = r]
      /\ UNCHANGED <<rows, store, urls, notices, deletions, purged, minted, overtaken, undone, left>>
  BY DEF Begin
<1>2. req' \in [Slots -> Request \cup {Idle}] /\ req'[q] = r /\ \A p \in Slots \ {q} : req'[p] = req[p]
  BY <1>1, RequestReplaced
<1>3. asked' \in 0..MaxRequests
  BY CampaignsAssumption DEF Begin, TypeOK
<1>4. TypeOK'
  BY <1>1, <1>2, <1>3 DEF TypeOK
<1>5. /\ c \in DOMAIN rows /\ rows[c] \in Campaign /\ Sound(rows[c]) /\ minted \in Nat
      /\ \A d \in DOMAIN rows : Sound(rows[d])
      /\ \A k \in notices : k <= minted
  BY RowFacts, CampaignsAssumption DEF CampaignsInv, Ledger, TypeOK
<1>6. /\ ~At(q, "presign", "previous")' /\ ~Clearing(q)' /\ ~Unmounting(q)' /\ ~Mounted(q)' /\ ~Dropped(q)'
      /\ ~At(q, "clear", "pending")'
  BY <1>2 DEF At, Clearing, Unmounting, Mounted, Dropped
<1>7. ~At(q, "presign", "previous") /\ ~At(q, "clear", "pending") /\ ~Unmounting(q) /\ ~Mounted(q) /\ ~Dropped(q)
  BY <1>1 DEF At, Clearing, Unmounting, Mounted, Dropped, Idle
<1>8. r.key <= minted
  BY <1>5 DEF Nil
<1>9. Reads(q)'
  <2>1. Sound(r.row)'
    BY <1>1, <1>5 DEF Sound
  <2> QED BY <1>1, <1>2, <1>5, <1>6, <1>8, <2>1 DEF Reads
<1>10. Ledger' /\ Attached' /\ Room'
  <2>1. \A d \in DOMAIN rows : rows'[d].IsDefault = rows[d].IsDefault /\ Sound(rows[d])'
    BY <1>1, <1>5 DEF Sound
  <2>2. minted' >= minted
    BY <1>1, <1>5
  <2> QED BY <1>1, <1>2, <1>4, <1>9, <2>1, <2>2, Steady DEF CampaignsInv
<1>11. ASSUME Undisturbed' PROVE Images'
  <2>1. Images /\ Attached
    BY <1>1, <1>11 DEF CampaignsInv, InStep, Undisturbed, NoneCutsIn, NothingUndone, NoneOvertakes, Images
  <2>2. Agrees(q)'
    BY <1>1, <1>2, <1>6 DEF Agrees, Imaging, ImageRequests, Busy, Live
  <2>3. \A d \in DOMAIN rows : Busy(q, d)' => Others(d, req'[q].row.BackgroundPendingKey)
    BY <1>2, <1>5, <2>1 DEF Busy, Images, KeysApart
  <2> QED BY <1>1, <1>2, <1>6, <1>7, <2>1, <2>2, <2>3, RowsStay DEF LeftGrows
<1> QED BY <1>4, <1>10, <1>11 DEF CampaignsInv, InStep, Images

\* A creation starts while the plan has room.
LEMMA CreateStarts ==
  ASSUME TypeOK, CampaignsInv, NEW q \in Slots, NEW cl \in Clients, Create(q, cl)
  PROVE  TypeOK' /\ CampaignsInv'
<1> DEFINE r == [Idle EXCEPT !.op = "create", !.row = NewCampaign(cl)]
<1>0. r \in Request /\ r.op = "create" /\ r.step = "none" /\ r.campaign = Nil /\ r.key = Nil /\ r.row = NewCampaign(cl)
  BY DEF Request, Idle, NewCampaign, New, Campaign, Ops, Steps, Status
<1>1. /\ req[q] = Idle /\ req' = [req EXCEPT ![q] = r] /\ MaxCampaigns > CountNonDefaultByWorkspaceID
      /\ UNCHANGED <<rows, store, urls, notices, deletions, purged, minted, overtaken, undone, left>>
  BY DEF Create, Begin, AssertCampaignCreate
<1>2. req' \in [Slots -> Request \cup {Idle}] /\ req'[q] = r /\ \A p \in Slots \ {q} : req'[p] = req[p]
  BY <1>0, <1>1, RequestReplaced
<1>3. asked' \in 0..MaxRequests
  BY CampaignsAssumption DEF Create, Begin, TypeOK
<1>4. TypeOK'
  BY <1>1, <1>2, <1>3 DEF TypeOK
<1>5. minted \in Nat /\ \A d \in DOMAIN rows : Sound(rows[d])
  BY CampaignsAssumption DEF CampaignsInv, Ledger, TypeOK
<1>6. /\ ~At(q, "presign", "previous")' /\ ~Unmounting(q)' /\ ~Mounted(q)' /\ ~Dropped(q)'
      /\ ~At(q, "clear", "pending")'
  BY <1>0, <1>2 DEF At, Clearing, Unmounting, Mounted, Dropped
<1>7. ~At(q, "presign", "previous") /\ ~At(q, "clear", "pending") /\ ~Unmounting(q) /\ ~Mounted(q) /\ ~Dropped(q)
  BY <1>1 DEF At, Clearing, Unmounting, Mounted, Dropped, Idle
<1>8. Reads(q)'
  <2>1. Sound(r.row)'
    BY <1>0, <1>1, <1>5 DEF Sound, NewCampaign, New, Nil
  <2> QED BY <1>0, <1>1, <1>2, <1>5, <1>6, <2>1 DEF Reads, Nil
<1>9. Ledger' /\ Attached' /\ Room'
  <2>1. \A d \in DOMAIN rows : rows'[d].IsDefault = rows[d].IsDefault /\ Sound(rows[d])'
    BY <1>1, <1>5 DEF Sound
  <2>2. minted' >= minted
    BY <1>1, <1>5
  <2> QED BY <1>1, <1>2, <1>4, <1>8, <2>1, <2>2, Steady DEF CampaignsInv
<1>10. ASSUME Undisturbed' PROVE Images'
  <2>1. Images /\ Attached
    BY <1>1, <1>10 DEF CampaignsInv, InStep, Undisturbed, NoneCutsIn, NothingUndone, NoneOvertakes, Images
  <2>2. \A d \in DOMAIN rows : ~Busy(q, d)'
    BY <1>0, <1>2, RowFacts DEF Busy
  <2>3. Agrees(q)'
    BY <1>1, <2>2 DEF Agrees, Imaging, ImageRequests
  <2> QED BY <1>1, <1>2, <1>6, <1>7, <2>1, <2>2, <2>3, RowsStay DEF LeftGrows
<1> QED BY <1>4, <1>9, <1>10 DEF CampaignsInv, InStep, Images

\* The webhook of an upload goes on after a read.
LEMMA GoesOn ==
  ASSUME TypeOK, CampaignsInv, NEW q \in Slots, NEW r \in Request, req' = [req EXCEPT ![q] = r],
         UNCHANGED <<rows, store, urls, notices, deletions, purged, minted, asked, overtaken, undone, left>>,
         req[q].op = "process", r.op = "process", r.campaign = req[q].campaign, r.key = req[q].key,
         r.row = req[q].row \/ r.row = rows[req[q].campaign],
         Mounted(q)' = Mounted(q), Dropped(q)' = Dropped(q)
  PROVE  TypeOK' /\ CampaignsInv'
<1> DEFINE c == req[q].campaign
<1>1. req' \in [Slots -> Request \cup {Idle}] /\ req'[q] = r /\ \A p \in Slots \ {q} : req'[p] = req[p]
  BY RequestReplaced
<1>2. TypeOK'
  BY <1>1 DEF TypeOK
<1>3. req[q] # Idle /\ Reads(q)
  BY InFlight DEF CampaignsInv, Attached
<1>4. c \in DOMAIN rows /\ Sound(rows[c]) /\ r.row.IsDefault = rows[c].IsDefault /\ Sound(r.row) /\ r.row \in Campaign
  BY <1>3 DEF CampaignsInv, Ledger, Reads, Request
<1>5. Reads(q)'
  <2>1. Sound(r.row)' /\ r.key <= minted'
    BY <1>3, <1>4 DEF Sound, Reads
  <2> QED BY <1>1, <1>3, <1>4, <2>1 DEF Reads, At
<1>6. Ledger' /\ Attached' /\ Room'
  <2>1. \A d \in DOMAIN rows : rows'[d].IsDefault = rows[d].IsDefault /\ Sound(rows[d])'
    BY DEF Sound, CampaignsInv, Ledger
  <2>2. minted' >= minted
    BY CampaignsAssumption DEF TypeOK
  <2> QED BY <1>1, <1>2, <1>5, <2>1, <2>2, Steady DEF CampaignsInv
<1>7. ASSUME Undisturbed' PROVE Images'
  <2>1. Images /\ Attached
    BY <1>7 DEF CampaignsInv, InStep, Undisturbed, NoneCutsIn, NothingUndone, NoneOvertakes, Images
  <2>2. /\ ~At(q, "presign", "previous") /\ ~Clearing(q) /\ ~At(q, "clear", "pending") /\ ~Unmounting(q)
        /\ ~At(q, "presign", "previous")' /\ ~Clearing(q)' /\ ~At(q, "clear", "pending")' /\ ~Unmounting(q)'
    BY <1>1 DEF At, Clearing, Unmounting
  <2>3. Imaging(q, c) /\ Agrees(q)
    BY <1>3, <2>1 DEF Imaging, ImageRequests, Busy, Images, Fresh
  <2>4. r.row = rows[c] /\ ~rows[c].DeletedAt /\ rows[c].BackgroundPendingKey = req[q].key
    BY <1>4, <2>2, <2>3 DEF Agrees, Imaging, ImageRequests
  <2>5. Agrees(q)'
    BY <1>1, <2>2, <2>4 DEF Agrees, Imaging, ImageRequests, Busy
  <2>6. \A d \in DOMAIN rows : Busy(q, d)' => Others(d, req'[q].row.BackgroundPendingKey)
    BY <1>1, <2>1, <2>4 DEF Busy, Images, KeysApart
  <2>7. Mounted(q)' => store'.thumbnails[req'[q].campaign] = req'[q].key
    BY <1>1, <2>1 DEF Images, Shown
  <2>8. Dropped(q)' => req'[q].key \notin store'.uploads \ left'.uploads
    BY <1>1, <2>1 DEF Images, DroppedGone
  <2> QED BY <1>1, <2>1, <2>2, <2>5, <2>6, <2>7, <2>8, RowsStay DEF LeftGrows
<1> QED BY <1>2, <1>6, <1>7 DEF CampaignsInv, InStep, Images

\* A webhook at work knows its upload, and that its row waits for it.
LEMMA Processing ==
  ASSUME TypeOK, CampaignsInv, NEW q \in Slots, req[q].op = "process"
  PROVE  /\ req[q] \in Request /\ req[q] # Idle /\ req[q].key \in notices /\ req[q].key \in Keys
         /\ req[q].campaign \in DOMAIN rows /\ req[q].campaign \in Ids
         /\ ~At(q, "presign", "previous") /\ ~At(q, "clear", "pending") /\ ~Clearing(q) /\ ~Unmounting(q)
         /\ Undisturbed => LET row == rows[req[q].campaign]
                          IN /\ req[q].campaign \in Live /\ row = req[q].row
                             /\ row.BackgroundPendingKey = req[q].key /\ row.BackgroundStatus = "pending"
                             /\ row.file = req[q].key
<1>1. req[q] \in Request /\ req[q] # Idle
  BY InFlight
<1>2. req[q].key \in notices /\ req[q].campaign \in DOMAIN rows
  BY <1>1 DEF CampaignsInv, Attached, Reads
<1>3. req[q].key \in Keys /\ req[q].campaign \in Ids
  BY <1>2, RowFacts DEF TypeOK
<1>4. ~At(q, "presign", "previous") /\ ~At(q, "clear", "pending") /\ ~Clearing(q) /\ ~Unmounting(q)
  BY DEF At, Clearing, Unmounting
<1>5. ASSUME Undisturbed
      PROVE  /\ rows[req[q].campaign] = req[q].row /\ ~rows[req[q].campaign].DeletedAt
             /\ rows[req[q].campaign].BackgroundPendingKey = req[q].key
  BY <1>1, <1>2, <1>4, <1>5 DEF CampaignsInv, InStep, Fresh, Agrees, Imaging, ImageRequests, Busy
<1>6. Sound(rows[req[q].campaign]) /\ Nil \notin Keys
  BY <1>2, RowFacts DEF CampaignsInv, Ledger
<1> QED BY <1>1, <1>2, <1>3, <1>4, <1>5, <1>6 DEF Live, Sound

\* A request ends without a write, and what it accounted for is left.
LEMMA Ends ==
  ASSUME TypeOK, CampaignsInv, NEW q \in Slots, req' = [req EXCEPT ![q] = Idle],
         UNCHANGED <<rows, store, urls, notices, deletions, purged, minted, asked, overtaken, undone>>,
         LeftGrows, left' \in Leftovers,
         Undisturbed =>
           /\ At(q, "presign", "previous") \/ At(q, "clear", "pending") =>
                req[q].row.BackgroundPendingKey \in left'.uploads \cup {Nil}
           /\ Mounted(q) \/ Unmounting(q) => store.thumbnails[req[q].campaign] \in left'.thumbnails \cup {Nil}
           /\ Dropped(q) /\ Mounted(q) => req[q].key \in left'.unsaved
           /\ Dropped(q) /\ ~Mounted(q) => req[q].key \in left'.unmarked
  PROVE  TypeOK' /\ CampaignsInv'
<1>1. req' \in [Slots -> Request \cup {Idle}] /\ req'[q] = Idle /\ \A p \in Slots \ {q} : req'[p] = req[p]
  BY RequestReplaced
<1>2. TypeOK'
  BY <1>1 DEF TypeOK
<1>3. Ledger' /\ Attached' /\ Room'
  <2>1. \A d \in DOMAIN rows : rows'[d].IsDefault = rows[d].IsDefault /\ Sound(rows[d])'
    BY DEF Sound, CampaignsInv, Ledger
  <2>2. minted' >= minted
    BY CampaignsAssumption DEF TypeOK
  <2>3. req'[q].op # "create"
    BY <1>1 DEF Idle
  <2> QED BY <1>1, <1>2, <2>1, <2>2, <2>3, Steady DEF CampaignsInv
<1>4. ASSUME Undisturbed' PROVE Images'
  <2>0. Undisturbed
    BY <1>4, UndisturbedBefore
  <2>1. Images /\ Attached
    BY <2>0 DEF CampaignsInv, InStep, Images
  <2>2. /\ ~At(q, "presign", "previous")' /\ ~At(q, "clear", "pending")' /\ ~Unmounting(q)' /\ ~Mounted(q)'
        /\ ~Dropped(q)' /\ \A d : ~Busy(q, d)'
    BY <1>1 DEF At, Clearing, Unmounting, Mounted, Dropped, Busy, Idle
  <2>3. Agrees(q)'
    BY <2>2 DEF Agrees, Imaging
  <2>4. Nil \notin notices /\ Nil \notin store.uploads
    BY RowFacts DEF TypeOK
  <2>5. \A d \in Live : Dropped(q) /\ req[q].campaign = d =>
            \/ rows[d].BackgroundPendingKey \in left'.unsaved /\ store'.thumbnails[d] = rows[d].BackgroundPendingKey
            \/ rows[d].BackgroundPendingKey \in left'.unmarked
    <3> SUFFICES ASSUME Dropped(q)
                 PROVE  LET d == req[q].campaign
                        IN \/ rows[d].BackgroundPendingKey \in left'.unsaved /\ store'.thumbnails[d] = rows[d].BackgroundPendingKey
                           \/ rows[d].BackgroundPendingKey \in left'.unmarked
      OBVIOUS
    <3>1. req[q].op = "process"
      BY DEF Dropped, At
    <3>2. rows[req[q].campaign].BackgroundPendingKey = req[q].key
      BY <2>0, <3>1, Processing
    <3>3. Mounted(q) => store.thumbnails[req[q].campaign] = req[q].key
      BY <2>1 DEF Images, Shown
    <3> QED BY <2>0, <3>2, <3>3
  <2>6. At(q, "presign", "previous") \/ At(q, "clear", "pending") =>
            req[q].row.BackgroundPendingKey \notin store'.uploads \ left'.uploads
    BY <2>0, <2>4
  <2>7. Mounted(q) \/ Unmounting(q) => store'.thumbnails[req[q].campaign] \in left'.thumbnails \cup {Nil}
    BY <2>0
  <2> QED BY <1>1, <2>1, <2>2, <2>3, <2>5, <2>6, <2>7, RowsStay
<1> QED BY <1>2, <1>3, <1>4 DEF CampaignsInv, InStep, Images

\* A step fails, or the process dies: what the request had to do is left.
LEMMA AbandonStep ==
  ASSUME TypeOK, CampaignsInv, NEW q \in Slots, Abandon(q)
  PROVE  TypeOK' /\ CampaignsInv'
<1> DEFINE rest == Unfinished(q)
<1>1. /\ req[q] # Idle /\ req[q].row \in Campaign /\ req' = [req EXCEPT ![q] = Idle]
      /\ UNCHANGED <<rows, store, urls, notices, deletions, purged, minted, asked, overtaken, undone>>
      /\ left' = [part \in DOMAIN left |-> left[part] \cup rest[part]]
  BY InFlight DEF Abandon
<1>2. left \in Leftovers /\ rest \in Leftovers
  BY DEF TypeOK, Unfinished, Leftovers
<1>3. /\ left' \in Leftovers /\ LeftGrows
      /\ rest.uploads \subseteq left'.uploads /\ rest.thumbnails \subseteq left'.thumbnails
      /\ rest.unsaved \subseteq left'.unsaved /\ rest.unmarked \subseteq left'.unmarked
  <2> HIDE DEF rest
  <2> QED BY <1>1, <1>2 DEF Leftovers, LeftGrows
<1>4. At(q, "presign", "previous") \/ At(q, "clear", "pending") =>
         req[q].row.BackgroundPendingKey \in rest.uploads \cup {Nil}
  BY <1>1 DEF Unfinished, Campaign
<1>5. ASSUME Undisturbed, Mounted(q) \/ Unmounting(q)
      PROVE  store.thumbnails[req[q].campaign] \in rest.thumbnails \cup {Nil}
  <2>1. req[q].op # "create"
    BY <1>5 DEF Mounted, Unmounting, Clearing, At
  <2>2. req[q].campaign \in Ids
    BY <1>1, <2>1, RowFacts DEF CampaignsInv, Attached, Reads
  <2>3. store.thumbnails[req[q].campaign] \in Keys \cup {Nil}
    BY <2>2 DEF TypeOK
  <2>4. CASE Unmounting(q)
    BY <2>3, <2>4 DEF Unfinished
  <2>5. CASE Mounted(q)
    <3>1. store.thumbnails[req[q].campaign] = req[q].key
      BY <1>5, <2>5 DEF CampaignsInv, InStep, Shown
    <3> QED BY <2>3, <2>5, <3>1 DEF Unfinished
  <2> QED BY <1>5, <2>4, <2>5
<1>6. ASSUME Dropped(q)
      PROVE  /\ Mounted(q) => req[q].key \in rest.unsaved
             /\ ~Mounted(q) => req[q].key \in rest.unmarked
  <2>1. req[q].op = "process"
    BY <1>6 DEF Dropped, At
  <2>2. req[q].key \in Keys
    BY <2>1, Processing
  <2> QED BY <1>6, <2>2 DEF Unfinished
<1> HIDE DEF rest
<1> QED BY <1>1, <1>3, <1>4, <1>5, <1>6, Ends

\* The upload is read.
LEMMA ProcessGetStep ==
  ASSUME TypeOK, CampaignsInv, NEW q \in Slots, ProcessGet(q)
  PROVE  TypeOK' /\ CampaignsInv'
<1>1. req[q].op = "process" /\ req[q].step = "get" /\ req[q] \in Request
  BY InFlight DEF ProcessGet, At
<1>2. PICK step \in {"put", "failed"} : req' = [req EXCEPT ![q] = [req[q] EXCEPT !.step = step]]
  BY DEF ProcessGet
<1> DEFINE r == [req[q] EXCEPT !.step = step]
<1>3. r \in Request /\ r.step = step /\ r.op = "process" /\ r.campaign = req[q].campaign /\ r.key = req[q].key /\ r.row = req[q].row
  BY <1>1 DEF Request, Steps
<1>4. req'[q] = r
  BY <1>2, <1>3, RequestReplaced
<1>5. ~Mounted(q) /\ ~Dropped(q) /\ ~Mounted(q)' /\ ~Dropped(q)'
  BY <1>1, <1>3, <1>4 DEF Mounted, Dropped, At
<1>6. Mounted(q)' = Mounted(q) /\ Dropped(q)' = Dropped(q)
  BY <1>5 DEF Mounted, Dropped
<1>7. UNCHANGED <<rows, store, urls, notices, deletions, purged, minted, asked, overtaken, undone, left>>
  BY DEF ProcessGet
<1> QED BY <1>1, <1>2, <1>3, <1>6, <1>7, GoesOn

\* The row is read again, before it is saved as ready or failed.
LEMMA SecondReadStep ==
  ASSUME TypeOK, CampaignsInv, NEW q \in Slots, ProcessFresh(q) \/ FailFresh(q)
  PROVE  TypeOK' /\ CampaignsInv'
<1> DEFINE c == req[q].campaign
           again == c \in Live /\ rows[c].BackgroundPendingKey = req[q].key
           r(step) == [req[q] EXCEPT !.row = rows[c], !.step = step]
<1>1. /\ req[q].op = "process" /\ req[q] \in Request /\ req[q].step \in {"fresh", "mark"}
      /\ UNCHANGED <<rows, store, urls, notices, deletions, purged, minted, asked, overtaken, undone, left>>
  BY InFlight DEF ProcessFresh, FailFresh, At
<1>2. \/ /\ req' = [req EXCEPT ![q] = r("ready")] /\ req[q].step = "fresh" /\ c \in Live
      \/ /\ req' = [req EXCEPT ![q] = r("fail")] /\ req[q].step = "mark" /\ c \in Live
      \/ /\ req' = [req EXCEPT ![q] = Idle] /\ ~again
  BY DEF ProcessFresh, FailFresh, At
<1>3. ASSUME NEW step \in {"ready", "fail"}, req' = [req EXCEPT ![q] = r(step)], c \in Live,
             step = "ready" <=> req[q].step = "fresh"
      PROVE  TypeOK' /\ CampaignsInv'
  <2>2. rows[c] \in Campaign
    BY <1>3, RowFacts
  <2>3. /\ r(step) \in Request /\ r(step).step = step /\ r(step).op = "process" /\ r(step).campaign = c
        /\ r(step).key = req[q].key /\ r(step).row = rows[c]
    BY <1>1, <2>2 DEF Request, Steps
  <2>4. req'[q] = r(step)
    BY <1>3, <2>3, RequestReplaced
  <2>5. Mounted(q)' = Mounted(q) /\ Dropped(q)' = Dropped(q)
    BY <1>1, <1>3, <2>3, <2>4 DEF Mounted, Dropped, At
  <2> QED BY <1>1, <1>3, <2>3, <2>5, GoesOn
<1>4. CASE req' = [req EXCEPT ![q] = Idle] /\ ~again
  <2>1. ASSUME Undisturbed PROVE FALSE
    <3>1. c \in Live /\ rows[c].BackgroundPendingKey = req[q].key
      BY <1>1, <2>1, Processing
    <3> QED BY <1>4, <3>1
  <2>2. LeftGrows /\ left' \in Leftovers
    BY <1>1 DEF TypeOK, LeftGrows
  <2> QED BY <1>1, <1>4, <2>1, <2>2, Ends
<1> QED BY <1>1, <1>2, <1>3, <1>4

\* A request goes on with the same read, or ends, after it has changed storage.
LEMMA StorageKeeps ==
  ASSUME TypeOK, CampaignsInv, NEW q \in Slots, req[q].op \in {"presign", "clear", "process"},
         NEW step \in Steps \ {"previous"},
         req' = [req EXCEPT ![q] = IF step = "none" THEN Idle ELSE [req[q] EXCEPT !.step = step]],
         UNCHANGED <<rows, notices, deletions, purged, minted, asked>>,
         store' \in [uploads : SUBSET Keys, thumbnails : [Ids -> Keys \cup {Nil}]],
         urls \subseteq urls', urls' \subseteq urls \cup ({req[q].key} \cap Keys), left' \in Leftovers, undone' = undone,
         overtaken' = Overtaking(Slots \ {q}, req[q].op, req[q].campaign)
  PROVE  /\ TypeOK' /\ Ledger' /\ Attached' /\ Room'
         /\ \A p \in Slots \ {q} : req'[p] = req[p]
         /\ step = "none" => req'[q] = Idle
         /\ step # "none" => req'[q] # Idle /\ req'[q] = [req[q] EXCEPT !.step = step]
         /\ req[q] \in Request /\ req[q] # Idle /\ req[q].campaign \in DOMAIN rows /\ Imaging(q, req[q].campaign)
         /\ Undisturbed' => Images /\ AloneAt(q, req[q].campaign) /\ Agrees(q)
<1> DEFINE r == IF step = "none" THEN Idle ELSE [req[q] EXCEPT !.step = step]
<1>1. req[q] \in Request /\ req[q] # Idle /\ Reads(q) /\ req[q].campaign \in DOMAIN rows /\ Imaging(q, req[q].campaign)
  <2>1. req[q] \in Request /\ req[q] # Idle
    BY InFlight
  <2> QED BY <2>1 DEF CampaignsInv, Attached, Reads, Imaging, ImageRequests, Busy
<1>2. r \in Request \cup {Idle}
  BY <1>1 DEF Request
<1>3. req' \in [Slots -> Request \cup {Idle}] /\ req'[q] = r /\ \A p \in Slots \ {q} : req'[p] = req[p]
  BY <1>2, RequestReplaced
<1>4. step # "none" => r # Idle /\ r = [req[q] EXCEPT !.step = step] /\ r.step = step /\ r.op = req[q].op
                       /\ r.campaign = req[q].campaign /\ r.key = req[q].key /\ r.row = req[q].row
  <2>1. step # "none" => r = [req[q] EXCEPT !.step = step]
    OBVIOUS
  <2>2. step # "none" => r.op # "idle"
    BY <1>1, <2>1 DEF Request
  <2> QED BY <1>1, <2>1, <2>2 DEF Request, Idle
<1>5. req[q].op \in Ops \cap ImageWriters
  BY DEF Ops, ImageWriters
<1>6. /\ overtaken \subseteq overtaken' /\ overtaken' \subseteq (Ops \cup {"purge"}) \X Ops
      /\ Undisturbed' => AloneAt(q, req[q].campaign)
  <2>1. Slots \ {q} \in SUBSET Slots /\ req[q].op \in Ops \cup {"purge"}
    BY <1>5
  <2> QED BY <1>5, <2>1, Overtaken DEF AloneAt
<1>7. TypeOK'
  BY <1>3, <1>6 DEF TypeOK
<1>8. minted \in Nat
  BY CampaignsAssumption DEF TypeOK
<1>9. req'[q] # Idle => Reads(q)'
  <2>1. PICK row : row = req[q].row
    OBVIOUS
  <2>2. Sound(row)' /\ req[q].key <= minted'
    BY <1>1, <2>1 DEF Reads, Sound
  <2> QED BY <1>1, <1>3, <1>4, <2>1, <2>2 DEF Reads, At
<1>10. Ledger' /\ Attached' /\ Room'
  <2>1. \A d \in DOMAIN rows : rows'[d].IsDefault = rows[d].IsDefault /\ Sound(rows[d])'
    BY DEF Sound, CampaignsInv, Ledger
  <2>2. minted' >= minted
    BY <1>8
  <2>3. req'[q].op # "create"
    BY <1>3, <1>4 DEF Idle
  <2>4. \A k \in urls' : k \in urls \/ k <= minted'
    BY <1>1 DEF Reads
  <2> QED BY <1>3, <1>6, <1>7, <1>9, <2>1, <2>2, <2>3, <2>4, Steady DEF CampaignsInv
<1>11. Undisturbed' => Images /\ Agrees(q)
  BY <1>6, UndisturbedBefore DEF CampaignsInv, InStep, Images, Fresh
<1> QED BY <1>1, <1>3, <1>4, <1>6, <1>7, <1>10, <1>11

\* Storage without an upload.
LEMMA DeleteFacts ==
  ASSUME TypeOK, NEW k
  PROVE  /\ DeleteObject(store, k) \in [uploads : SUBSET Keys, thumbnails : [Ids -> Keys \cup {Nil}]]
         /\ DeleteObject(store, k).uploads = store.uploads \ {k}
         /\ DeleteObject(store, k).thumbnails = store.thumbnails
<1>1. store \in [uploads : SUBSET Keys, thumbnails : [Ids -> Keys \cup {Nil}]]
  BY DEF TypeOK
<1> QED BY <1>1 DEF DeleteObject

\* Storage with another thumbnail of a campaign, or none.
LEMMA ThumbnailFacts ==
  ASSUME TypeOK, NEW c \in Ids, NEW k \in Keys \cup {Nil}
  PROVE  /\ PutThumbnail(store, c, k) \in [uploads : SUBSET Keys, thumbnails : [Ids -> Keys \cup {Nil}]]
         /\ PutThumbnail(store, c, k).uploads = store.uploads
         /\ PutThumbnail(store, c, k).thumbnails[c] = k
         /\ \A d \in Ids \ {c} : PutThumbnail(store, c, k).thumbnails[d] = store.thumbnails[d]
         /\ DeleteThumbnail(store, c) = PutThumbnail(store, c, Nil)
<1>1. store \in [uploads : SUBSET Keys, thumbnails : [Ids -> Keys \cup {Nil}]]
  BY DEF TypeOK
<1> QED BY <1>1 DEF DeleteThumbnail, PutThumbnail

\* The upload that is waited for no longer is deleted, and the URL goes out.
LEMMA PresignReplyStep ==
  ASSUME TypeOK, CampaignsInv, NEW q \in Slots, PresignReply(q)
  PROVE  TypeOK' /\ CampaignsInv'
<1> DEFINE previous == req[q].row.BackgroundPendingKey
           c == req[q].campaign
<1>1. /\ At(q, "presign", "previous") /\ req' = [req EXCEPT ![q] = Idle] /\ urls' \in {urls, urls \cup {req[q].key}}
      /\ overtaken' = Overtaking(Slots \ {q}, "presign", req[q].campaign)
      /\ UNCHANGED <<rows, notices, deletions, purged, minted, asked, undone>>
      /\ (store' = DeleteObject(store, previous) /\ left' = left) \/ (store' = store /\ left' = LeaveUpload(previous))
  BY DEF PresignReply
<1>2. req[q] # Idle /\ req[q] \in Request /\ previous \in Keys \cup {Nil} /\ req[q].op = "presign"
  BY <1>1, InFlight DEF At, Campaign
<1>3. /\ store' \in [uploads : SUBSET Keys, thumbnails : [Ids -> Keys \cup {Nil}]]
      /\ store'.uploads \subseteq store.uploads /\ store.uploads \ store'.uploads \subseteq {previous}
      /\ store'.thumbnails = store.thumbnails
      /\ previous \notin store'.uploads \ left'.uploads
      /\ LeftGrows /\ left' \in Leftovers
  <2>1. store \in [uploads : SUBSET Keys, thumbnails : [Ids -> Keys \cup {Nil}]] /\ Nil \notin store.uploads
    BY RowFacts DEF TypeOK
  <2> QED BY <1>1, <1>2, <2>1, DeleteFacts, Leaving
<1>4. req[q].key \in Keys /\ req[q].key # previous
  <2>1. Reads(q) /\ req[q].key \in Keys \cup {Nil}
    BY <1>2, InFlight DEF CampaignsInv, Attached
  <2> QED BY <1>1, <2>1 DEF Reads
<1>5. /\ TypeOK' /\ Ledger' /\ Attached' /\ Room' /\ \A p \in Slots \ {q} : req'[p] = req[p]
      /\ req'[q] = Idle /\ c \in DOMAIN rows /\ Imaging(q, c)
      /\ Undisturbed' => Images /\ AloneAt(q, c) /\ Agrees(q)
  <2>1. "none" \in Steps \ {"previous"} /\ req' = [req EXCEPT ![q] = IF "none" = "none" THEN Idle ELSE [req[q] EXCEPT !.step = "none"]]
    BY <1>1 DEF Steps
  <2>2. urls \subseteq urls' /\ urls' \subseteq urls \cup ({req[q].key} \cap Keys)
    BY <1>1, <1>4
  <2>3. overtaken' = Overtaking(Slots \ {q}, req[q].op, req[q].campaign)
    BY <1>1, <1>2
  <2> QED BY <1>1, <1>2, <1>3, <2>1, <2>2, <2>3, StorageKeeps
<1>6. ASSUME Undisturbed' PROVE Images'
  <2>1. /\ ~At(q, "presign", "previous")' /\ ~At(q, "clear", "pending")' /\ ~Unmounting(q)' /\ ~Mounted(q)'
        /\ ~Dropped(q)' /\ \A d : ~Busy(q, d)'
    BY <1>5 DEF At, Clearing, Unmounting, Mounted, Dropped, Busy, Idle
  <2>2. ~Dropped(q) /\ ~Mounted(q) /\ ~Unmounting(q)
    BY <1>1 DEF At, Clearing, Unmounting, Mounted, Dropped
  <2>3. Agrees(q)'
    BY <2>1 DEF Agrees, Imaging, ImageRequests
  <2>4. ASSUME NEW d \in Live, rows[d].BackgroundPendingKey \in notices,
               rows[d].BackgroundPendingKey \in store.uploads \ store'.uploads
        PROVE  FALSE
    <3>1. rows[d].BackgroundPendingKey = previous /\ previous # Nil /\ d \in DOMAIN rows
      BY <1>3, <2>4, RowFacts DEF TypeOK
    <3>2. d = c
      BY <1>5, <1>6, <3>1 DEF Images, KeysApart, Others, Imaging, Busy
    <3>3. rows[c] = StartBackgroundUpload(req[q].row, req[q].key)
      BY <1>1, <1>5, <1>6 DEF Agrees, Imaging, ImageRequests
    <3>4. rows[c].BackgroundPendingKey = req[q].key
      BY <1>2, <1>4, <3>3, InFlight, Uploading
    <3> QED BY <1>4, <3>1, <3>2, <3>4
  <2> QED BY <1>1, <1>3, <1>5, <1>6, <2>1, <2>2, <2>3, <2>4, RowsStay DEF CampaignsInv
<1> QED BY <1>5, <1>6 DEF CampaignsInv, InStep, Images

\* DELETE background: the awaited upload goes.
LEMMA ClearPendingStep ==
  ASSUME TypeOK, CampaignsInv, NEW q \in Slots, ClearPending(q)
  PROVE  TypeOK' /\ CampaignsInv'
<1> DEFINE previous == req[q].row.BackgroundPendingKey
           c == req[q].campaign
<1>1. /\ At(q, "clear", "pending")
      /\ req' = [req EXCEPT ![q] = [req[q] EXCEPT !.step = "thumbnail"]]
      /\ overtaken' = Overtaking(Slots \ {q}, req[q].op, req[q].campaign)
      /\ UNCHANGED <<rows, urls, notices, deletions, purged, minted, asked, undone>>
      /\ (store' = DeleteObject(store, previous) /\ left' = left) \/ (store' = store /\ left' = LeaveUpload(previous))
  BY DEF ClearPending, Stored
<1>2. req[q] # Idle /\ req[q] \in Request /\ previous \in Keys \cup {Nil} /\ req[q].op = "clear"
  BY <1>1, InFlight DEF At, Campaign
<1>3. /\ store' \in [uploads : SUBSET Keys, thumbnails : [Ids -> Keys \cup {Nil}]]
      /\ store'.uploads \subseteq store.uploads /\ store.uploads \ store'.uploads \subseteq {previous}
      /\ store'.thumbnails = store.thumbnails
      /\ previous \notin store'.uploads \ left'.uploads
      /\ LeftGrows /\ left' \in Leftovers
  <2>1. store \in [uploads : SUBSET Keys, thumbnails : [Ids -> Keys \cup {Nil}]] /\ Nil \notin store.uploads
    BY RowFacts DEF TypeOK
  <2> QED BY <1>1, <1>2, <2>1, DeleteFacts, Leaving
<1>4. /\ TypeOK' /\ Ledger' /\ Attached' /\ Room' /\ \A p \in Slots \ {q} : req'[p] = req[p]
      /\ req'[q] # Idle /\ req'[q] = [req[q] EXCEPT !.step = "thumbnail"] /\ c \in DOMAIN rows /\ Imaging(q, c)
      /\ Undisturbed' => Images /\ AloneAt(q, c) /\ Agrees(q)
  <2>1. /\ "thumbnail" \in Steps \ {"previous"}
        /\ req' = [req EXCEPT ![q] = IF "thumbnail" = "none" THEN Idle ELSE [req[q] EXCEPT !.step = "thumbnail"]]
    BY <1>1 DEF Steps
  <2> QED BY <1>1, <1>2, <1>3, <2>1, StorageKeeps
<1>5. ASSUME Undisturbed' PROVE Images'
  <2>0. req'[q].op = "clear" /\ req'[q].step = "thumbnail" /\ req'[q].row = req[q].row /\ req'[q].campaign = c
    BY <1>2, <1>4 DEF Request
  <2>1. /\ ~At(q, "presign", "previous")' /\ ~At(q, "clear", "pending")' /\ ~Mounted(q)' /\ ~Dropped(q)' /\ Clearing(q)'
        /\ ~Dropped(q) /\ ~Mounted(q) /\ Clearing(q) /\ ~At(q, "presign", "previous")
    BY <1>1, <2>0 DEF At, Clearing, Mounted, Dropped
  <2>2. Unmounting(q) => Unmounting(q)'
    BY <2>0, <2>1 DEF Unmounting
  <2>3. rows[c] = ClearBackground(req[q].row) /\ ~rows[c].DeletedAt
    BY <1>4, <1>5, <2>1 DEF Agrees, Imaging, ImageRequests
  <2>4. Agrees(q)'
    BY <1>1, <2>0, <2>1, <2>3 DEF Agrees, Imaging, ImageRequests, Busy
  <2>5. ASSUME NEW d \in Live, rows[d].BackgroundPendingKey \in notices,
               rows[d].BackgroundPendingKey \in store.uploads \ store'.uploads
        PROVE  FALSE
    <3>1. rows[d].BackgroundPendingKey = previous /\ previous # Nil /\ d \in DOMAIN rows
      BY <1>3, <2>5, RowFacts DEF TypeOK
    <3>2. d = c
      BY <1>4, <1>5, <3>1 DEF Images, KeysApart, Others, Imaging, Busy
    <3>3. rows[c].BackgroundPendingKey = Nil
      <4>1. req[q].row \in Campaign
        BY <1>2, InFlight
      <4> QED BY <2>3, <4>1, Forgetting
    <3> QED BY <3>1, <3>2, <3>3
  <2>6. \A d \in DOMAIN rows : Busy(q, d)' => Others(d, req'[q].row.BackgroundPendingKey)
    BY <1>4, <1>5, <2>0 DEF Images, KeysApart, Busy, Imaging
  <2>7. Unmounting(q) => Unmounting(q)' /\ req'[q].campaign = req[q].campaign
    BY <2>0, <2>2
  <2> QED BY <1>1, <1>3, <1>4, <1>5, <2>1, <2>4, <2>5, <2>6, <2>7, RowsStay DEF CampaignsInv
<1> QED BY <1>4, <1>5 DEF CampaignsInv, InStep, Images

\* DELETE background: the thumbnail goes, if the row had one.
LEMMA ClearThumbnailStep ==
  ASSUME TypeOK, CampaignsInv, NEW q \in Slots, ClearThumbnail(q)
  PROVE  TypeOK' /\ CampaignsInv'
<1> DEFINE c == req[q].campaign
<1>1. /\ At(q, "clear", "thumbnail") /\ req[q].op = "clear"
      /\ req' = [req EXCEPT ![q] = Idle]
      /\ overtaken' = Overtaking(Slots \ {q}, req[q].op, req[q].campaign)
      /\ UNCHANGED <<rows, urls, notices, deletions, purged, minted, asked, undone>>
  BY DEF ClearThumbnail, Stored, At
<1>2. /\ req[q].row.BackgroundThumbnailKey =>
           \/ store' = DeleteThumbnail(store, c) /\ left' = left
           \/ store' = store /\ left' = LeaveThumbnail(store.thumbnails[c])
      /\ ~req[q].row.BackgroundThumbnailKey => store' = store /\ left' = left
  BY DEF ClearThumbnail, Stored
<1>3. req[q] # Idle /\ req[q] \in Request /\ req[q].row \in Campaign /\ c \in DOMAIN rows /\ c \in Ids
  <2>1. req[q] # Idle /\ req[q] \in Request /\ req[q].row \in Campaign
    BY <1>1, InFlight
  <2>2. c \in DOMAIN rows
    BY <1>1, <2>1 DEF CampaignsInv, Attached, Reads
  <2> QED BY <2>1, <2>2, RowFacts
<1>4. /\ store' \in [uploads : SUBSET Keys, thumbnails : [Ids -> Keys \cup {Nil}]]
      /\ store'.uploads = store.uploads
      /\ \A d \in Ids : store'.thumbnails[d] # store.thumbnails[d] => d = c /\ store'.thumbnails[d] = Nil
      /\ Unmounting(q) => store'.thumbnails[c] \in left'.thumbnails \cup {Nil}
      /\ LeftGrows /\ left' \in Leftovers
  <2>1. /\ store \in [uploads : SUBSET Keys, thumbnails : [Ids -> Keys \cup {Nil}]]
        /\ store.thumbnails[c] \in Keys \cup {Nil}
    BY <1>3 DEF TypeOK
  <2>2. /\ DeleteThumbnail(store, c) \in [uploads : SUBSET Keys, thumbnails : [Ids -> Keys \cup {Nil}]]
        /\ DeleteThumbnail(store, c).uploads = store.uploads
        /\ DeleteThumbnail(store, c).thumbnails[c] = Nil
        /\ \A d \in Ids \ {c} : DeleteThumbnail(store, c).thumbnails[d] = store.thumbnails[d]
    BY <1>3, ThumbnailFacts
  <2>3. CASE store' = DeleteThumbnail(store, c) /\ left' = left
    BY <2>1, <2>2, <2>3, Leaving
  <2>4. CASE store' = store /\ left' = LeaveThumbnail(store.thumbnails[c])
    BY <2>1, <2>4, Leaving
  <2>5. CASE ~req[q].row.BackgroundThumbnailKey /\ store' = store /\ left' = left
    BY <2>1, <2>5, Leaving DEF Unmounting
  <2> QED BY <1>2, <2>3, <2>4, <2>5
<1>5. /\ TypeOK' /\ Ledger' /\ Attached' /\ Room' /\ \A p \in Slots \ {q} : req'[p] = req[p]
      /\ req'[q] = Idle /\ Imaging(q, c)
      /\ Undisturbed' => Images /\ AloneAt(q, c) /\ Agrees(q)
  <2>1. "none" \in Steps \ {"previous"} /\ req' = [req EXCEPT ![q] = IF "none" = "none" THEN Idle ELSE [req[q] EXCEPT !.step = "none"]]
    BY <1>1 DEF Steps
  <2> QED BY <1>1, <1>3, <1>4, <2>1, StorageKeeps
<1>6. ASSUME Undisturbed' PROVE Images'
  <2>1. /\ ~At(q, "presign", "previous")' /\ ~At(q, "clear", "pending")' /\ ~Unmounting(q)' /\ ~Mounted(q)'
        /\ ~Dropped(q)' /\ \A d : ~Busy(q, d)'
    BY <1>5 DEF At, Clearing, Unmounting, Mounted, Dropped, Busy, Idle
  <2>2. ~Dropped(q) /\ ~Mounted(q) /\ ~At(q, "presign", "previous") /\ ~At(q, "clear", "pending") /\ Clearing(q)
    BY <1>1 DEF At, Clearing, Mounted, Dropped
  <2>3. Agrees(q)'
    BY <2>1 DEF Agrees, Imaging, ImageRequests
  <2>4. rows[c] = ClearBackground(req[q].row)
    BY <1>3, <1>5, <1>6, <2>2 DEF Agrees, Imaging, ImageRequests
  <2>5. ~rows[c].BackgroundThumbnailKey /\ rows[c].BackgroundStatus # "ready" /\ rows[c].BackgroundPendingKey = Nil
    BY <1>3, <2>4, Forgetting
  <2>6. \A d \in Ids : store'.thumbnails[d] # store.thumbnails[d] =>
            /\ AloneAt(q, d)
            /\ d \in Live => /\ rows[d].BackgroundThumbnailKey => store'.thumbnails[d] # Nil
                             /\ rows[d].BackgroundStatus # "ready"
                             /\ store'.thumbnails[d] = rows[d].BackgroundPendingKey \/ rows[d].BackgroundPendingKey = Nil
            /\ store'.thumbnails[d] \in left'.thumbnails \cup {Nil} \/ (Mounted(q)' /\ req'[q].campaign = d)
    BY <1>4, <1>5, <1>6, <2>5
  <2> QED BY <1>1, <1>4, <1>5, <1>6, <2>1, <2>2, <2>3, <2>6, RowsStay DEF CampaignsInv
<1> QED BY <1>5, <1>6 DEF CampaignsInv, InStep, Images

\* The thumbnail is stored, or that fails.
LEMMA ProcessPutStep ==
  ASSUME TypeOK, CampaignsInv, NEW q \in Slots, ProcessPut(q)
  PROVE  TypeOK' /\ CampaignsInv'
<1> DEFINE c == req[q].campaign
           k == req[q].key
<1>1. /\ At(q, "process", "put") /\ req[q].op = "process"
      /\ overtaken' = Overtaking(Slots \ {q}, req[q].op, req[q].campaign)
      /\ UNCHANGED <<rows, urls, notices, deletions, purged, minted, asked, undone, left>>
  BY DEF ProcessPut, Stored, At
<1>2. PICK step \in {"drop", "failed"} :
        /\ req' = [req EXCEPT ![q] = [req[q] EXCEPT !.step = step]]
        /\ IF step = "drop" THEN store' = PutThumbnail(store, c, k) ELSE store' = store
  BY DEF ProcessPut, Stored
<1>3. /\ req[q] \in Request /\ k \in Keys /\ c \in DOMAIN rows /\ c \in Ids
      /\ ~At(q, "presign", "previous") /\ ~At(q, "clear", "pending") /\ ~Clearing(q) /\ ~Unmounting(q)
  BY <1>1, Processing
<1>4. /\ store' \in [uploads : SUBSET Keys, thumbnails : [Ids -> Keys \cup {Nil}]]
      /\ store'.uploads = store.uploads
      /\ \A d \in Ids : store'.thumbnails[d] # store.thumbnails[d] => d = c /\ step = "drop"
      /\ step = "drop" => store'.thumbnails[c] = k
      /\ LeftGrows /\ left' \in Leftovers
  <2>1. store \in [uploads : SUBSET Keys, thumbnails : [Ids -> Keys \cup {Nil}]]
    BY DEF TypeOK
  <2>2. CASE step = "drop"
    BY <1>1, <1>2, <1>3, <2>1, <2>2, ThumbnailFacts, Leaving
  <2>3. CASE step = "failed"
    BY <1>1, <1>2, <2>1, <2>3, Leaving
  <2> QED BY <1>2, <2>2, <2>3
<1>5. /\ TypeOK' /\ Ledger' /\ Attached' /\ Room' /\ \A p \in Slots \ {q} : req'[p] = req[p]
      /\ req'[q] # Idle /\ req'[q] = [req[q] EXCEPT !.step = step] /\ Imaging(q, c)
      /\ Undisturbed' => Images /\ AloneAt(q, c) /\ Agrees(q)
  <2>1. /\ step \in Steps \ {"previous"} /\ step # "none"
        /\ req' = [req EXCEPT ![q] = IF step = "none" THEN Idle ELSE [req[q] EXCEPT !.step = step]]
    BY <1>2 DEF Steps
  <2> QED BY <1>1, <1>4, <2>1, StorageKeeps
<1>6. ASSUME Undisturbed' PROVE Images'
  <2>0. /\ req'[q].op = "process" /\ req'[q].step = step /\ req'[q].row = req[q].row /\ req'[q].campaign = c
        /\ req'[q].key = k
    BY <1>1, <1>3, <1>5 DEF Request
  <2>1. /\ ~At(q, "presign", "previous")' /\ ~At(q, "clear", "pending")' /\ ~Dropped(q)' /\ ~Clearing(q)' /\ ~Unmounting(q)'
        /\ ~Dropped(q) /\ ~Mounted(q) /\ (Mounted(q)' <=> step = "drop")
    BY <1>1, <1>2, <2>0 DEF At, Clearing, Unmounting, Mounted, Dropped
  <2>2. Undisturbed
    BY <1>1, <1>6 DEF Undisturbed, NoneCutsIn, NothingUndone, NoneOvertakes, Overtaking
  <2>3. c \in Live /\ rows[c] = req[q].row /\ rows[c].BackgroundPendingKey = k /\ rows[c].BackgroundStatus = "pending"
    BY <1>1, <2>2, Processing
  <2>4. Agrees(q)'
    BY <1>1, <2>0, <2>1, <2>3 DEF Agrees, Imaging, ImageRequests, Busy, Live
  <2>5. \A d \in DOMAIN rows : Busy(q, d)' => Others(d, req'[q].row.BackgroundPendingKey)
    BY <1>5, <1>6, <2>0 DEF Images, KeysApart, Busy, Imaging
  <2>6. \A d \in Ids : store'.thumbnails[d] # store.thumbnails[d] =>
            /\ AloneAt(q, d)
            /\ d \in Live => /\ rows[d].BackgroundThumbnailKey => store'.thumbnails[d] # Nil
                             /\ rows[d].BackgroundStatus # "ready"
                             /\ store'.thumbnails[d] = rows[d].BackgroundPendingKey \/ rows[d].BackgroundPendingKey = Nil
            /\ store'.thumbnails[d] \in left'.thumbnails \cup {Nil} \/ (Mounted(q)' /\ req'[q].campaign = d)
    BY <1>3, <1>4, <1>5, <1>6, <2>0, <2>1, <2>3, RowFacts
  <2>7. Mounted(q)' => store'.thumbnails[req'[q].campaign] = req'[q].key
    BY <1>4, <2>0, <2>1
  <2> QED BY <1>1, <1>3, <1>4, <1>5, <1>6, <2>1, <2>4, <2>5, <2>6, <2>7, RowsStay DEF CampaignsInv
<1> QED BY <1>5, <1>6 DEF CampaignsInv, InStep, Images

\* The upload goes once it is a thumbnail, or has failed.
LEMMA DropStep ==
  ASSUME TypeOK, CampaignsInv, NEW q \in Slots, ProcessDrop(q) \/ FailDrop(q)
  PROVE  TypeOK' /\ CampaignsInv'
<1> DEFINE c == req[q].campaign
           k == req[q].key
<1>1. /\ req[q].op = "process"
      /\ overtaken' = Overtaking(Slots \ {q}, req[q].op, req[q].campaign)
      /\ UNCHANGED <<rows, urls, notices, deletions, purged, minted, asked, undone>>
      /\ (store' = DeleteObject(store, k) /\ left' = left) \/ (store' = store /\ left' = LeaveUpload(k))
  BY DEF ProcessDrop, FailDrop, Stored, At
<1>2. PICK step \in {"fresh", "mark"} :
        /\ req' = [req EXCEPT ![q] = [req[q] EXCEPT !.step = step]]
        /\ IF step = "fresh" THEN req[q].step = "drop" ELSE req[q].step = "failed"
  BY DEF ProcessDrop, FailDrop, Stored, At
<1>3. /\ req[q] \in Request /\ k \in Keys /\ c \in DOMAIN rows /\ c \in Ids
      /\ ~At(q, "presign", "previous") /\ ~At(q, "clear", "pending") /\ ~Clearing(q) /\ ~Unmounting(q)
  BY <1>1, Processing
<1>4. /\ store' \in [uploads : SUBSET Keys, thumbnails : [Ids -> Keys \cup {Nil}]]
      /\ store'.uploads \subseteq store.uploads /\ store.uploads \ store'.uploads \subseteq {k}
      /\ store'.thumbnails = store.thumbnails
      /\ k \notin store'.uploads \ left'.uploads
      /\ LeftGrows /\ left' \in Leftovers
  <2>1. store \in [uploads : SUBSET Keys, thumbnails : [Ids -> Keys \cup {Nil}]] /\ Nil \notin store.uploads
    BY RowFacts DEF TypeOK
  <2> QED BY <1>1, <1>3, <2>1, DeleteFacts, Leaving
<1>5. /\ TypeOK' /\ Ledger' /\ Attached' /\ Room' /\ \A p \in Slots \ {q} : req'[p] = req[p]
      /\ req'[q] # Idle /\ req'[q] = [req[q] EXCEPT !.step = step] /\ Imaging(q, c)
      /\ Undisturbed' => Images /\ AloneAt(q, c) /\ Agrees(q)
  <2>1. /\ step \in Steps \ {"previous"} /\ step # "none"
        /\ req' = [req EXCEPT ![q] = IF step = "none" THEN Idle ELSE [req[q] EXCEPT !.step = step]]
    BY <1>2 DEF Steps
  <2> QED BY <1>1, <1>4, <2>1, StorageKeeps
<1>6. ASSUME Undisturbed' PROVE Images'
  <2>0. /\ req'[q].op = "process" /\ req'[q].step = step /\ req'[q].row = req[q].row /\ req'[q].campaign = c
        /\ req'[q].key = k
    BY <1>1, <1>3, <1>5 DEF Request
  <2>1. /\ ~At(q, "presign", "previous")' /\ ~At(q, "clear", "pending")' /\ ~Clearing(q)' /\ ~Unmounting(q)'
        /\ Dropped(q)' /\ ~Dropped(q) /\ (Mounted(q)' <=> Mounted(q))
    BY <1>1, <1>2, <2>0 DEF At, Clearing, Unmounting, Mounted, Dropped
  <2>2. Undisturbed
    BY <1>1, <1>6 DEF Undisturbed, NoneCutsIn, NothingUndone, NoneOvertakes, Overtaking
  <2>3. c \in Live /\ rows[c] = req[q].row /\ rows[c].BackgroundPendingKey = k
    BY <1>1, <2>2, Processing
  <2>4. Agrees(q)'
    BY <1>1, <2>0, <2>1, <2>3 DEF Agrees, Imaging, ImageRequests, Busy, Live
  <2>5. \A d \in DOMAIN rows : Busy(q, d)' => Others(d, req'[q].row.BackgroundPendingKey)
    BY <1>5, <1>6, <2>0 DEF Images, KeysApart, Busy, Imaging
  <2>6. ASSUME NEW d \in Live, rows[d].BackgroundPendingKey \in store.uploads \ store'.uploads
        PROVE  d = c
    <3>1. rows[d].BackgroundPendingKey = k /\ k # Nil /\ d \in DOMAIN rows
      BY <1>3, <1>4, <2>6, RowFacts
    <3> QED BY <1>3, <1>5, <1>6, <2>3, <3>1 DEF Images, KeysApart, Others
  <2>7. Mounted(q)' => store'.thumbnails[req'[q].campaign] = req'[q].key
    BY <1>4, <1>5, <1>6, <2>0, <2>1 DEF Images, Shown
  <2>8. \A d \in Live : (/\ rows[d].BackgroundPendingKey \in notices
             /\ \/ rows[d].BackgroundPendingKey \in store.uploads \ store'.uploads
                \/ Dropped(q) /\ req[q].campaign = d) => Dropped(q)' /\ req'[q].campaign = d
    BY <2>0, <2>1, <2>6
  <2>9. Dropped(q)' => req'[q].key \notin store'.uploads \ left'.uploads
    BY <1>4, <2>0
  <2>10. Mounted(q) \/ Unmounting(q) =>
            \/ store'.thumbnails[req[q].campaign] \in left'.thumbnails \cup {Nil}
            \/ (Mounted(q)' \/ Unmounting(q)') /\ req'[q].campaign = req[q].campaign
    BY <1>3, <2>0, <2>1
  <2>11. Attached
    BY DEF CampaignsInv
  <2> QED BY <1>1, <1>3, <1>4, <1>5, <1>6, <2>4, <2>5, <2>7, <2>8, <2>9, <2>10, <2>11, RowsStay
<1> QED BY <1>5, <1>6 DEF CampaignsInv, InStep, Images

-----------------------------------------------------------------------------
(* Saves *)

\* What a save keeps, whatever the row is made of.
LEMMA SaveKeeps ==
  ASSUME TypeOK, CampaignsInv, NEW q \in Slots, req[q].op \in {"presign", "clear", "process", "update"},
         NEW row \in Campaign, row.IsDefault = req[q].row.IsDefault, Sound(row)',
         rows' = [rows EXCEPT ![req[q].campaign] = row],
         minted' \in minted..MaxKeys, asked' = asked,
         NEW r \in Request \cup {Idle}, req' = [req EXCEPT ![q] = r],
         r # Idle => /\ r.op = req[q].op /\ r.campaign = req[q].campaign /\ r.row = req[q].row
                     /\ r.key = req[q].key \/ (r.key = minted' /\ r.op = "presign" /\ minted < minted')
                     /\ r.op = "presign" => r.key = minted' /\ minted < minted',
         UNCHANGED <<store, urls, notices, deletions, purged, left>>,
         overtaken' = Overtaking(Slots \ {q}, req[q].op, req[q].campaign),
         undone \subseteq undone', undone' \subseteq Ids
  PROVE  /\ TypeOK' /\ Ledger' /\ Attached' /\ Room'
         /\ req'[q] = r /\ \A p \in Slots \ {q} : req'[p] = req[p]
         /\ req[q] \in Request /\ req[q] # Idle /\ req[q].campaign \in DOMAIN rows /\ Busy(q, req[q].campaign)
         /\ req[q].row \in Campaign
         /\ req[q].op # "update" => Imaging(q, req[q].campaign)
         /\ Undisturbed' => Images /\ Agrees(q) /\ (req[q].op # "update" => AloneAt(q, req[q].campaign))
<1> DEFINE c == req[q].campaign
<1>1. /\ req[q] \in Request /\ req[q] # Idle /\ Reads(q) /\ c \in DOMAIN rows /\ Busy(q, c)
      /\ req[q].row \in Campaign /\ req[q].op \in Ops /\ rows[c].IsDefault = req[q].row.IsDefault
      /\ req[q].key \in Keys \cup {Nil}
  <2>1. req[q] \in Request /\ req[q] # Idle /\ req[q].row \in Campaign /\ req[q].op \in Ops /\ req[q].key \in Keys \cup {Nil}
    BY InFlight
  <2> QED BY <2>1 DEF CampaignsInv, Attached, Reads, Busy
<1>2. req' \in [Slots -> Request \cup {Idle}] /\ req'[q] = r /\ \A p \in Slots \ {q} : req'[p] = req[p]
  BY RequestReplaced
<1>3. /\ rows' \in Seq(Campaign) /\ Len(rows') = Len(rows) /\ DOMAIN rows' = DOMAIN rows /\ rows'[c] = row
      /\ \A d \in DOMAIN rows \ {c} : rows'[d] = rows[d]
  BY <1>1, RowReplaced
<1>4. /\ overtaken \subseteq overtaken' /\ overtaken' \subseteq (Ops \cup {"purge"}) \X Ops
      /\ Undisturbed' => (req[q].op # "update" => AloneAt(q, c))
  <2>1. Slots \ {q} \in SUBSET Slots /\ req[q].op \in Ops \cup {"purge"}
    BY <1>1
  <2>2. req[q].op # "update" => req[q].op \in ImageWriters
    BY DEF ImageWriters
  <2> QED BY <2>1, <2>2, Overtaken DEF AloneAt
<1>5. minted \in Nat /\ minted' \in Nat /\ minted' >= minted /\ minted' \in 0..MaxKeys
  BY CampaignsAssumption DEF TypeOK
<1>6. TypeOK'
  BY <1>2, <1>3, <1>4, <1>5 DEF TypeOK
<1>7. \A d \in DOMAIN rows : rows'[d].IsDefault = rows[d].IsDefault /\ Sound(rows[d])'
  <2> SUFFICES ASSUME NEW d \in DOMAIN rows
               PROVE  rows'[d].IsDefault = rows[d].IsDefault /\ Sound(rows[d])'
    OBVIOUS
  <2>1. CASE d = c
    BY <1>1, <1>3, <2>1
  <2>2. CASE d # c
    <3>1. rows'[d] = rows[d] /\ Sound(rows[d]) /\ rows[d].BackgroundPendingKey \in Nat
      BY <1>3, <2>2, RowFacts DEF CampaignsInv, Ledger, Campaign, Keys, Nil
    <3> QED BY <1>5, <3>1 DEF Sound
  <2> QED BY <2>1, <2>2
<1>8. r # Idle => Reads(q)'
  <2> SUFFICES ASSUME r # Idle PROVE Reads(q)'
    OBVIOUS
  <2>1. PICK old : old = req[q].row
    OBVIOUS
  <2>2. Sound(old) /\ old.BackgroundPendingKey \in Nat /\ old.BackgroundPendingKey <= minted
    BY <1>1, <2>1 DEF Reads, Sound, Campaign, Keys, Nil
  <2>3. Sound(old)'
    BY <1>5, <2>2 DEF Sound
  <2>4. r.key <= minted' /\ (r.op = "presign" => r.key \notin {Nil, old.BackgroundPendingKey})
    <3>1. req[q].key <= minted /\ req[q].key \in Nat
      BY <1>1 DEF Reads, Keys, Nil
    <3> QED BY <1>5, <2>2, <3>1 DEF Nil
  <2> QED BY <1>1, <1>2, <1>3, <1>7, <2>1, <2>3, <2>4 DEF Reads, At
<1>9. Ledger' /\ Attached' /\ Room'
  <2>1. req'[q].op # "create"
    BY <1>2 DEF Idle
  <2> QED BY <1>2, <1>3, <1>4, <1>5, <1>6, <1>7, <1>8, <2>1, Steady DEF CampaignsInv
<1>10. Undisturbed' => Images /\ Agrees(q)
  BY <1>4, UndisturbedBefore DEF CampaignsInv, InStep, Images, Fresh
<1>11. req[q].op # "update" => Imaging(q, c)
  BY <1>1 DEF Imaging, ImageRequests
<1> QED BY <1>1, <1>2, <1>4, <1>6, <1>9, <1>10, <1>11

\* PUT /campaigns: what is saved is what was read.
LEMMA UpdateStep ==
  ASSUME TypeOK, CampaignsInv, NEW q \in Slots, UpdateCampaign(q)
  PROVE  TypeOK' /\ CampaignsInv'
<1> DEFINE c == req[q].campaign
<1> PICK row : row = req[q].row
  OBVIOUS
<1>1. /\ req[q].op = "update" /\ rows' = [rows EXCEPT ![c] = row] /\ req' = [req EXCEPT ![q] = Idle]
      /\ overtaken' = Overtaking(Slots \ {q}, req[q].op, c)
      /\ undone' = undone \cup {d \in {c} : rows[d] # row}
      /\ UNCHANGED <<store, urls, notices, deletions, purged, minted, asked, left>>
  BY DEF UpdateCampaign, Save, ApplyUpdate
<1>2. row \in Campaign /\ Sound(row) /\ c \in Ids
  BY <1>1, InFlight, RowFacts DEF CampaignsInv, Attached, Reads
<1>3. Sound(row)' /\ minted' \in minted..MaxKeys /\ undone \subseteq undone' /\ undone' \subseteq Ids
  BY <1>1, <1>2, CampaignsAssumption DEF Sound, TypeOK
<1>4. /\ TypeOK' /\ Ledger' /\ Attached' /\ Room'
      /\ req'[q] = Idle /\ \A p \in Slots \ {q} : req'[p] = req[p]
      /\ c \in DOMAIN rows /\ Busy(q, c)
      /\ Undisturbed' => Images /\ Agrees(q)
  BY <1>1, <1>2, <1>3, SaveKeeps
<1>5. ASSUME Undisturbed' PROVE Images'
  <2>1. /\ ~At(q, "presign", "previous") /\ ~Clearing(q) /\ ~At(q, "clear", "pending") /\ ~Unmounting(q)
        /\ ~Mounted(q) /\ ~Dropped(q)
    BY <1>1 DEF At, Clearing, Unmounting, Mounted, Dropped
  <2>2. /\ ~At(q, "presign", "previous")' /\ ~Clearing(q)' /\ ~At(q, "clear", "pending")' /\ ~Unmounting(q)'
        /\ ~Mounted(q)' /\ ~Dropped(q)' /\ \A d : ~Busy(q, d)'
    BY <1>4 DEF At, Clearing, Unmounting, Mounted, Dropped, Busy, Idle
  <2>3. rows[c] = row
    BY <1>1, <1>5 DEF Undisturbed, NothingUndone
  <2>4. rows' = rows
    <3>1. rows \in [1..Len(rows) -> Campaign]
      BY DEF TypeOK
    <3> QED BY <1>1, <2>3, <3>1
  <2>5. Agrees(q)'
    BY <2>2 DEF Agrees, Imaging, ImageRequests
  <2> QED BY <1>1, <1>4, <1>5, <2>1, <2>2, <2>4, <2>5, RowsStay DEF CampaignsInv, LeftGrows
<1> QED BY <1>4, <1>5 DEF CampaignsInv, InStep, Images

\* POST presign: the row waits for a key nobody has seen.
LEMMA PresignSaveStep ==
  ASSUME TypeOK, CampaignsInv, NEW q \in Slots, PresignSave(q)
  PROVE  TypeOK' /\ CampaignsInv'
<1> DEFINE c == req[q].campaign
           k == minted + 1
           r == [req[q] EXCEPT !.step = "previous", !.key = k]
<1> PICK row : row = StartBackgroundUpload(req[q].row, k)
  OBVIOUS
<1>1. /\ At(q, "presign", "save") /\ k \in Keys /\ rows' = [rows EXCEPT ![c] = row] /\ minted' = k
      /\ req' = [req EXCEPT ![q].step = "previous", ![q].key = k]
      /\ overtaken' = Overtaking(Slots \ {q}, "presign", c)
      /\ UNCHANGED <<store, urls, notices, deletions, purged, asked, undone, left>>
  BY DEF PresignSave
<1>2. req[q].op = "presign" /\ req[q].step = "save" /\ req[q] \in Request /\ req[q] # Idle /\ req[q].row \in Campaign
  BY <1>1, InFlight DEF At
<1>3. /\ row \in Campaign /\ row.IsDefault = req[q].row.IsDefault /\ row.DeletedAt = req[q].row.DeletedAt
      /\ row.BackgroundThumbnailKey = req[q].row.BackgroundThumbnailKey
      /\ row.BackgroundStatus = "pending" /\ row.BackgroundPendingKey = k /\ row.file = k
  BY <1>1, <1>2, Uploading
<1>4. minted \in Nat /\ k \in Nat /\ minted < k /\ k \in minted..MaxKeys /\ k # Nil
  BY <1>1, CampaignsAssumption DEF TypeOK, Keys, Nil
<1>5. /\ r \in Request /\ r.op = "presign" /\ r.step = "previous" /\ r.campaign = c /\ r.key = k /\ r.row = req[q].row
      /\ r # Idle /\ req' = [req EXCEPT ![q] = r]
  <2>1. /\ r \in Request /\ r.op = "presign" /\ r.step = "previous" /\ r.campaign = c /\ r.key = k /\ r.row = req[q].row
    BY <1>1, <1>2 DEF Request, Steps
  <2>2. req' = [req EXCEPT ![q] = r]
    BY <1>1
  <2> QED BY <2>1, <2>2 DEF Idle
<1>6. Sound(row)'
  BY <1>1, <1>3, <1>4 DEF Sound
<1>7. /\ TypeOK' /\ Ledger' /\ Attached' /\ Room'
      /\ req'[q] = r /\ \A p \in Slots \ {q} : req'[p] = req[p]
      /\ c \in DOMAIN rows /\ Busy(q, c) /\ Imaging(q, c)
      /\ Undisturbed' => Images /\ Agrees(q) /\ AloneAt(q, c)
  <2>1. /\ row \in Campaign /\ row.IsDefault = req[q].row.IsDefault /\ Sound(row)'
        /\ rows' = [rows EXCEPT ![req[q].campaign] = row] /\ asked' = asked
        /\ UNCHANGED <<store, urls, notices, deletions, purged, left>>
        /\ undone \subseteq undone' /\ undone' \subseteq Ids
    BY <1>1, <1>3, <1>6 DEF TypeOK
  <2>2. /\ req[q].op \in {"presign", "clear", "process", "update"}
        /\ overtaken' = Overtaking(Slots \ {q}, req[q].op, req[q].campaign)
    BY <1>1, <1>2
  <2>3. minted' \in minted..MaxKeys /\ minted < minted' /\ r.key = minted'
    BY <1>1, <1>4, <1>5
  <2>4. /\ r \in Request /\ r # Idle /\ req' = [req EXCEPT ![q] = r]
        /\ r.op = req[q].op /\ r.campaign = req[q].campaign /\ r.row = req[q].row /\ r.op = "presign"
    BY <1>2, <1>5
  <2> HIDE DEF r, k
  <2> QED BY <2>1, <2>2, <2>3, <2>4, SaveKeeps
<1>8. ASSUME Undisturbed' PROVE Images'
  <2>1. /\ ~At(q, "presign", "previous") /\ ~Clearing(q) /\ ~At(q, "clear", "pending") /\ ~Unmounting(q)
        /\ ~Mounted(q) /\ ~Dropped(q)
    BY <1>2 DEF At, Clearing, Unmounting, Mounted, Dropped
  <2>2. At(q, "presign", "previous")' /\ ~Clearing(q)' /\ ~Mounted(q)' /\ ~Dropped(q)'
    BY <1>5, <1>7 DEF At, Clearing, Mounted, Dropped
  <2>3. rows[c] = req[q].row /\ ~rows[c].DeletedAt
    BY <1>7, <1>8, <2>1 DEF Agrees, Imaging, ImageRequests
  <2>4. c \in Live /\ row.DeletedAt = FALSE /\ rows'[c] = row
    BY <1>1, <1>3, <1>7, <2>3, RowReplaced DEF Live, Campaign
  <2>5. Agrees(q)'
    <3>1. req'[q].row = req[q].row /\ req'[q].key = k /\ req'[q].op # "process" /\ req'[q].campaign = c
      BY <1>5, <1>7
    <3>2. rows'[c] = StartBackgroundUpload(req'[q].row, req'[q].key) /\ ~rows'[c].DeletedAt
      BY <2>4, <3>1
    <3>3. \A d : Imaging(q, d)' => d = c
      BY <3>1 DEF Imaging, Busy
    <3> QED BY <2>2, <3>1, <3>2, <3>3 DEF Agrees, Imaging, ImageRequests
  <2>6. minted + 1 \notin notices
    BY <1>4 DEF CampaignsInv, Ledger, TypeOK
  <2>7. row.BackgroundThumbnailKey => store.thumbnails[c] # Nil
    BY <1>3, <1>7, <1>8, <2>3, <2>4 DEF Images, Shown
  <2>8. rows[c].BackgroundThumbnailKey \/ Mounted(q) => row.BackgroundThumbnailKey = TRUE \/ Unmounting(q)'
    BY <1>2, <1>3, <2>1, <2>3 DEF Campaign
  <2>9. req'[q] # Idle => req'[q].campaign = c /\ req'[q].row = req[q].row
    BY <1>5, <1>7
  <2>10. row.BackgroundPendingKey = minted + 1 /\ row.BackgroundStatus # "ready"
    BY <1>3
  <2>11. req'[q].row.BackgroundPendingKey = rows[c].BackgroundPendingKey
    BY <1>5, <1>7, <2>3
  <2>12. Ledger /\ Attached
    BY DEF CampaignsInv
  <2>13. UNCHANGED <<store, notices, deletions, purged, left>> /\ rows' = [rows EXCEPT ![c] = row]
    BY <1>1
  <2> QED BY <1>3, <1>7, <1>8, <2>1, <2>2, <2>4, <2>5, <2>6, <2>7, <2>8, <2>9, <2>10, <2>11, <2>12, <2>13, RowSaved
<1> QED BY <1>7, <1>8 DEF CampaignsInv, InStep, Images

\* DELETE background: the row forgets the image before its objects go.
LEMMA ClearSaveStep ==
  ASSUME TypeOK, CampaignsInv, NEW q \in Slots, ClearSave(q)
  PROVE  TypeOK' /\ CampaignsInv'
<1> DEFINE c == req[q].campaign
           r == [req[q] EXCEPT !.step = "pending"]
<1> PICK row : row = ClearBackground(req[q].row)
  OBVIOUS
<1>1. /\ At(q, "clear", "save") /\ rows' = [rows EXCEPT ![c] = row] /\ req' = [req EXCEPT ![q] = r]
      /\ overtaken' = Overtaking(Slots \ {q}, req[q].op, c)
      /\ UNCHANGED <<store, urls, notices, deletions, purged, minted, asked, undone, left>>
  BY DEF ClearSave, Save
<1>2. req[q].op = "clear" /\ req[q].step = "save" /\ req[q] \in Request /\ req[q] # Idle /\ req[q].row \in Campaign
  BY <1>1, InFlight DEF At
<1>3. /\ row \in Campaign /\ row.IsDefault = req[q].row.IsDefault /\ row.DeletedAt = req[q].row.DeletedAt
      /\ row.BackgroundThumbnailKey = FALSE /\ row.BackgroundStatus = "none" /\ row.BackgroundPendingKey = Nil
  BY <1>2, Forgetting
<1>4. minted' \in minted..MaxKeys /\ minted \in Nat
  BY <1>1, CampaignsAssumption DEF TypeOK
<1>5. /\ r \in Request /\ r.op = "clear" /\ r.step = "pending" /\ r.campaign = c /\ r.key = req[q].key /\ r.row = req[q].row
      /\ r # Idle
  <2>1. /\ r \in Request /\ r.op = "clear" /\ r.step = "pending" /\ r.campaign = c /\ r.key = req[q].key /\ r.row = req[q].row
    BY <1>2 DEF Request, Steps
  <2> QED BY <2>1 DEF Idle
<1>6. Sound(row)'
  BY <1>1, <1>3, <1>4 DEF Sound, Nil
<1>7. /\ TypeOK' /\ Ledger' /\ Attached' /\ Room'
      /\ req'[q] = r /\ \A p \in Slots \ {q} : req'[p] = req[p]
      /\ c \in DOMAIN rows /\ Busy(q, c) /\ Imaging(q, c)
      /\ Undisturbed' => Images /\ Agrees(q) /\ AloneAt(q, c)
  <2>1. /\ row \in Campaign /\ row.IsDefault = req[q].row.IsDefault /\ Sound(row)'
        /\ rows' = [rows EXCEPT ![req[q].campaign] = row] /\ asked' = asked
        /\ UNCHANGED <<store, urls, notices, deletions, purged, left>>
        /\ undone \subseteq undone' /\ undone' \subseteq Ids
    BY <1>1, <1>3, <1>6 DEF TypeOK
  <2>2. /\ req[q].op \in {"presign", "clear", "process", "update"}
        /\ overtaken' = Overtaking(Slots \ {q}, req[q].op, req[q].campaign)
        /\ minted' \in minted..MaxKeys
    BY <1>1, <1>2, <1>4
  <2>3. /\ r \in Request /\ r # Idle /\ req' = [req EXCEPT ![q] = r]
        /\ r.op = req[q].op /\ r.campaign = req[q].campaign /\ r.row = req[q].row
        /\ r.key = req[q].key /\ r.op # "presign" /\ req[q].op # "update"
    BY <1>1, <1>2, <1>5
  <2> HIDE DEF r
  <2> QED BY <2>1, <2>2, <2>3, SaveKeeps
<1>8. ASSUME Undisturbed' PROVE Images'
  <2>1. /\ ~At(q, "presign", "previous") /\ ~Clearing(q) /\ ~At(q, "clear", "pending") /\ ~Unmounting(q)
        /\ ~Mounted(q) /\ ~Dropped(q)
    BY <1>2 DEF At, Clearing, Unmounting, Mounted, Dropped
  <2>2. ~At(q, "presign", "previous")' /\ At(q, "clear", "pending")' /\ Clearing(q)' /\ ~Mounted(q)' /\ ~Dropped(q)'
    BY <1>5, <1>7 DEF At, Clearing, Mounted, Dropped
  <2>3. rows[c] = req[q].row /\ ~rows[c].DeletedAt
    BY <1>7, <1>8, <2>1 DEF Agrees, Imaging, ImageRequests
  <2>4. c \in Live /\ row.DeletedAt = FALSE /\ rows'[c] = row
    BY <1>1, <1>3, <1>7, <2>3, RowReplaced DEF Live, Campaign
  <2>5. Agrees(q)'
    <3>1. req'[q].row = req[q].row /\ req'[q].op # "process" /\ req'[q].campaign = c
      BY <1>5, <1>7
    <3>2. rows'[c] = ClearBackground(req'[q].row) /\ ~rows'[c].DeletedAt
      BY <2>4, <3>1
    <3>3. \A d : Imaging(q, d)' => d = c
      BY <3>1 DEF Imaging, Busy
    <3> QED BY <2>2, <3>1, <3>2, <3>3 DEF Agrees, Imaging, ImageRequests
  <2>6. rows[c].BackgroundThumbnailKey \/ Mounted(q) => row.BackgroundThumbnailKey = TRUE \/ Unmounting(q)'
    BY <1>5, <1>7, <2>1, <2>2, <2>3 DEF Unmounting
  <2>7. req'[q] # Idle => req'[q].campaign = c /\ req'[q].row = req[q].row
    BY <1>5, <1>7
  <2>8. row.BackgroundPendingKey = Nil /\ row.BackgroundStatus # "ready" /\ ~row.BackgroundThumbnailKey
    BY <1>3
  <2>9. req'[q].row.BackgroundPendingKey = rows[c].BackgroundPendingKey
    BY <1>5, <1>7, <2>3
  <2>10. Ledger /\ Attached
    BY DEF CampaignsInv
  <2>11. UNCHANGED <<store, notices, deletions, purged, left>> /\ rows' = [rows EXCEPT ![c] = row]
    BY <1>1
  <2> QED BY <1>3, <1>7, <1>8, <2>1, <2>2, <2>4, <2>5, <2>6, <2>7, <2>8, <2>9, <2>10, <2>11, RowSaved
<1> QED BY <1>7, <1>8 DEF CampaignsInv, InStep, Images

\* The webhook's outcome is saved, and its request ends.
LEMMA OutcomeStep ==
  ASSUME TypeOK, CampaignsInv, NEW q \in Slots, ProcessReady(q) \/ FailSave(q)
  PROVE  TypeOK' /\ CampaignsInv'
<1> DEFINE c == req[q].campaign
<1>1. /\ req[q].op = "process" /\ req' = [req EXCEPT ![q] = Idle]
      /\ overtaken' = Overtaking(Slots \ {q}, req[q].op, c)
      /\ UNCHANGED <<store, urls, notices, deletions, purged, minted, asked, undone, left>>
  BY DEF ProcessReady, FailSave, Save, At
<1>2. req[q] \in Request /\ req[q] # Idle /\ req[q].row \in Campaign
  BY <1>1, InFlight
<1>3. PICK row \in Campaign :
        /\ rows' = [rows EXCEPT ![c] = row]
        /\ row.IsDefault = req[q].row.IsDefault /\ row.DeletedAt = req[q].row.DeletedAt
        /\ row.BackgroundPendingKey = Nil /\ row.BackgroundStatus \in {"ready", "failed"} /\ row.file = req[q].row.file
        /\ row.BackgroundStatus = "ready" => Mounted(q) /\ row.BackgroundThumbnailKey = TRUE
        /\ row.BackgroundStatus = "failed" => ~Mounted(q) /\ row.BackgroundThumbnailKey = req[q].row.BackgroundThumbnailKey
  <2>1. CASE ProcessReady(q)
    <3>1. At(q, "process", "ready") /\ rows' = [rows EXCEPT ![c] = ApplyBackgroundReady(req[q].row)] /\ Mounted(q)
      BY <2>1 DEF ProcessReady, Save, Mounted
    <3> QED BY <1>2, <3>1, BecomingReady
  <2>2. CASE FailSave(q)
    <3>1. At(q, "process", "fail") /\ rows' = [rows EXCEPT ![c] = MarkBackgroundFailed(req[q].row)] /\ ~Mounted(q)
      BY <2>2 DEF FailSave, Save, Mounted, At
    <3> QED BY <1>2, <3>1, Failing
  <2> QED BY <2>1, <2>2
<1>4. minted' \in minted..MaxKeys /\ minted \in Nat
  BY <1>1, CampaignsAssumption DEF TypeOK
<1>5. Sound(row)'
  BY <1>1, <1>3, <1>4 DEF Sound, Nil
<1>6. /\ TypeOK' /\ Ledger' /\ Attached' /\ Room'
      /\ req'[q] = Idle /\ \A p \in Slots \ {q} : req'[p] = req[p]
      /\ c \in DOMAIN rows /\ Busy(q, c) /\ Imaging(q, c)
      /\ Undisturbed' => Images /\ Agrees(q) /\ AloneAt(q, c)
  <2>1. undone \subseteq undone' /\ undone' \subseteq Ids /\ asked' = asked
    BY <1>1 DEF TypeOK
  <2> QED BY <1>1, <1>2, <1>3, <1>4, <1>5, <2>1, SaveKeeps
<1>7. ASSUME Undisturbed' PROVE Images'
  <2>1. Dropped(q) /\ ~At(q, "presign", "previous") /\ ~At(q, "clear", "pending") /\ ~Unmounting(q)
    BY <1>1 DEF ProcessReady, FailSave, Dropped, At, Unmounting, Clearing
  <2>2. /\ ~At(q, "presign", "previous")' /\ ~At(q, "clear", "pending")' /\ ~Unmounting(q)'
        /\ ~Mounted(q)' /\ ~Dropped(q)' /\ \A d : ~Busy(q, d)'
    BY <1>6 DEF At, Clearing, Unmounting, Mounted, Dropped, Busy, Idle
  <2>3. Undisturbed
    BY <1>1, <1>7 DEF Undisturbed, NoneCutsIn, NothingUndone, NoneOvertakes, Overtaking
  <2>4. /\ c \in Live /\ rows[c] = req[q].row /\ rows[c].BackgroundPendingKey = req[q].key
        /\ rows[c].BackgroundStatus = "pending" /\ rows[c].file = req[q].key
        /\ req[q].key \in Keys
    BY <1>1, <2>3, Processing
  <2>5. row.DeletedAt = FALSE
    BY <1>2, <1>3, <2>4 DEF Live, Campaign
  <2>6. Agrees(q)'
    BY <2>2 DEF Agrees, Imaging, ImageRequests
  <2>7. Mounted(q) => store.thumbnails[c] = req[q].key
    BY <1>6, <1>7 DEF Images, Shown
  <2>8. row.BackgroundThumbnailKey => store.thumbnails[c] # Nil
    <3>1. rows[c].BackgroundThumbnailKey => store.thumbnails[c] # Nil
      BY <1>6, <1>7, <2>4 DEF Images, Shown
    <3>2. Nil \notin Keys
      BY RowFacts
    <3>3. CASE row.BackgroundStatus = "ready"
      BY <1>3, <2>4, <2>7, <3>2, <3>3
    <3>4. CASE row.BackgroundStatus = "failed"
      BY <1>3, <2>4, <3>1, <3>4
    <3> QED BY <1>3, <3>3, <3>4
  <2>9. row.BackgroundStatus = "ready" => store.thumbnails[c] = row.file
    BY <1>3, <2>4, <2>7
  <2>10. rows[c].BackgroundPendingKey \notin store.uploads \ left.uploads
    BY <1>6, <1>7, <2>1, <2>4 DEF Images, DroppedGone
  <2>11. rows[c].BackgroundThumbnailKey \/ Mounted(q) => row.BackgroundThumbnailKey = TRUE \/ Unmounting(q)'
    <3>1. rows[c].BackgroundThumbnailKey \in BOOLEAN
      BY <1>2, <2>4 DEF Campaign
    <3>2. CASE row.BackgroundStatus = "ready"
      BY <1>3, <3>2
    <3>3. CASE row.BackgroundStatus = "failed"
      BY <1>3, <2>4, <3>1, <3>3
    <3> QED BY <1>3, <3>2, <3>3
  <2>12. Ledger /\ Attached
    BY DEF CampaignsInv
  <2>13. UNCHANGED <<store, notices, deletions, purged, left>> /\ rows' = [rows EXCEPT ![c] = row]
    BY <1>1, <1>3
  <2>14. row.BackgroundPendingKey = Nil
    BY <1>3
  <2> QED BY <1>6, <1>7, <2>1, <2>2, <2>4, <2>5, <2>6, <2>8, <2>9, <2>10, <2>11, <2>12, <2>13, <2>14, RowSaved
<1> QED BY <1>6, <1>7 DEF CampaignsInv, InStep, Images

-----------------------------------------------------------------------------
(* Creations, deletions and uploads *)

\* A creation takes the place it counted, unless another one overlaps.
LEMMA CreateStep ==
  ASSUME TypeOK, CampaignsInv, NEW q \in Slots, CreateCampaign(q)
  PROVE  TypeOK' /\ CampaignsInv'
<1> DEFINE n == Len(rows) + 1
<1> PICK row : row = req[q].row
  OBVIOUS
<1>1. /\ req[q].op = "create" /\ Len(rows) < MaxRows /\ rows' = Append(rows, row) /\ req' = [req EXCEPT ![q] = Idle]
      /\ overtaken' = Overtaking(Slots \ {q}, "create", Nil)
      /\ UNCHANGED <<store, urls, notices, deletions, purged, minted, asked, undone, left>>
  BY DEF CreateCampaign
<1>2. req[q] # Idle /\ Reads(q) /\ row \in Campaign
  BY <1>1, InFlight DEF CampaignsInv, Attached
<1>3. /\ ~row.IsDefault /\ ~row.DeletedAt /\ row.BackgroundStatus = "none" /\ row.BackgroundPendingKey = Nil
      /\ ~row.BackgroundThumbnailKey
  <2>1. PICK cl \in Clients : row = NewCampaign(cl)
    BY <1>1, <1>2 DEF Reads
  <2> QED BY <2>1 DEF NewCampaign, New
<1>4. /\ rows' \in Seq(Campaign) /\ Len(rows') = n /\ n <= MaxRows /\ DOMAIN rows' = DOMAIN rows \cup {n}
      /\ rows'[n] = row /\ \A d \in DOMAIN rows : rows'[d] = rows[d]
  BY <1>1, <1>2, RowAppended
<1>5. n \notin DOMAIN rows /\ DOMAIN rows \subseteq Ids /\ Live \subseteq DOMAIN rows
  BY RowFacts
<1>6. req' \in [Slots -> Request \cup {Idle}] /\ req'[q] = Idle /\ \A p \in Slots \ {q} : req'[p] = req[p]
  BY <1>1, RequestReplaced
<1>7. /\ overtaken \subseteq overtaken' /\ overtaken' \subseteq (Ops \cup {"purge"}) \X Ops
      /\ NoneOvertakes({"create"}, {"create"})' => \A p \in Slots \ {q} : Busy(p, Nil) => req[p].op # "create"
  <2>1. Slots \ {q} \in SUBSET Slots /\ "create" \in Ops \cup {"purge"}
    BY DEF Ops
  <2> QED BY <1>1, <2>1, Overtaken
<1>8. TypeOK'
  BY <1>1, <1>4, <1>6, <1>7 DEF TypeOK
<1>9. Ledger'
  <2>1. \A d \in DOMAIN rows : Sound(rows[d])'
    BY <1>1, <1>4 DEF CampaignsInv, Ledger, Sound
  <2>2. Sound(row)'
    BY <1>3, <1>8, NoWaitSound
  <2> QED BY <1>1, <1>4, <2>1, <2>2 DEF CampaignsInv, Ledger
<1>10. Attached'
  <2> SUFFICES ASSUME NEW p \in Slots, req'[p] # Idle PROVE Reads(p)'
    BY DEF Attached
  <2>1. req'[p] = req[p] /\ Reads(p)
    BY <1>6 DEF CampaignsInv, Attached
  <2> QED BY <1>1, <1>4, <2>1 DEF Reads, Sound, At
<1>11. Room'
  <2> SUFFICES ASSUME NoneOvertakes({"create"}, {"create"})'
               PROVE  /\ MaxCampaigns >= CountNonDefaultByWorkspaceID'
                      /\ \A p \in Slots : req'[p].op # "create"
    BY DEF Room
  <2> DEFINE S == {d \in DOMAIN rows : ~rows[d].IsDefault}
  <2>1. MaxCampaigns > CountNonDefaultByWorkspaceID
    BY <1>1, <1>7, NoneBefore DEF CampaignsInv, Room
  <2>2. {d \in DOMAIN rows' : ~rows'[d].IsDefault} = S \cup {n}
    BY <1>3, <1>4
  <2>3. Cardinality(S \cup {n}) = Cardinality(S) + 1
    <3>1. n \notin S
      BY <1>5
    <3>2. IsFiniteSet(S)
      BY CountIsNatural
    <3> HIDE DEF S
    <3> QED BY <3>1, <3>2, FS_AddElement
  <2>4. CountNonDefaultByWorkspaceID' = CountNonDefaultByWorkspaceID + 1
    BY <2>2, <2>3 DEF CountNonDefaultByWorkspaceID
  <2>5. ASSUME NEW p \in Slots PROVE req'[p].op # "create"
    <3>1. CASE p = q
      BY <1>6, <3>1 DEF Idle
    <3>2. CASE p # q
      <4>1. req'[p] = req[p] /\ (Busy(p, Nil) => req[p].op # "create")
        BY <1>6, <1>7, <3>2
      <4>2. req[p] # Idle /\ req[p].op = "create" => req[p].campaign = Nil
        BY DEF CampaignsInv, Attached, Reads
      <4>3. req[p].op = "create" => req[p] # Idle
        BY DEF Idle
      <4> QED BY <4>1, <4>2, <4>3 DEF Busy
    <3> QED BY <3>1, <3>2
  <2>6. MaxCampaigns \in Nat /\ CountNonDefaultByWorkspaceID \in Nat
    BY CountIsNatural, CampaignsAssumption
  <2> QED BY <2>1, <2>4, <2>5, <2>6
<1>12. ASSUME Undisturbed' PROVE Images'
  <2>1. Images
    BY <1>1, <1>7, <1>12, UndisturbedBefore DEF CampaignsInv, InStep, Images
  <2>2. Live' = Live \cup {n}
    BY <1>3, <1>4, <1>5 DEF Live
  <2>3. \A p \in Slots : /\ Mounted(p)' = Mounted(p) /\ Dropped(p)' = Dropped(p) /\ Unmounting(p)' = Unmounting(p)
                         /\ At(p, "presign", "previous")' = At(p, "presign", "previous")
                         /\ At(p, "clear", "pending")' = At(p, "clear", "pending")
                         /\ Mounted(p) \/ Dropped(p) \/ Unmounting(p) \/ At(p, "presign", "previous") \/ At(p, "clear", "pending")
                              => req'[p] = req[p]
    BY <1>1, <1>6 DEF Mounted, Dropped, Unmounting, Clearing, At, Idle
  <2>4. \A p \in Slots, d \in DOMAIN rows' : Busy(p, d)' => Busy(p, d) /\ d \in DOMAIN rows /\ req'[p] = req[p]
    <3> SUFFICES ASSUME NEW p \in Slots, NEW d \in DOMAIN rows', Busy(p, d)'
                 PROVE  Busy(p, d) /\ d \in DOMAIN rows /\ req'[p] = req[p]
      OBVIOUS
    <3>1. p # q /\ req'[p] = req[p] /\ Busy(p, d)
      BY <1>6 DEF Busy
    <3>2. d \in DOMAIN rows
      <4>1. req[p].campaign = Nil \/ req[p].campaign \in DOMAIN rows
        BY <3>1 DEF CampaignsInv, Attached, Reads, Busy
      <4>2. d # Nil
        BY <1>8, RowFacts DEF TypeOK, Ids, Nil
      <4> QED BY <3>1, <4>1, <4>2 DEF Busy
    <3> QED BY <3>1, <3>2
  <2>5. Fresh'
    BY <1>4, <2>1, <2>4 DEF Images, Fresh, Agrees, Imaging, ImageRequests, Clearing, At
  <2>6. Gone'
    BY <1>1, <1>4, <2>1 DEF Images, Gone, CampaignsInv, Ledger
  <2>7. KeysApart'
    <3>1. ASSUME NEW d, NEW k, Others(d, k) PROVE Others(d, k)'
      BY <1>3, <1>4, <3>1 DEF Others
    <3>2. Others(n, row.BackgroundPendingKey)'
      BY <1>3 DEF Others
    <3>3. \A d \in DOMAIN rows : Others(d, rows[d].BackgroundPendingKey)
      BY <2>1 DEF Images, KeysApart
    <3>4. ASSUME NEW d \in DOMAIN rows PROVE Others(d, rows[d].BackgroundPendingKey)'
      <4>1. PICK k : k = rows[d].BackgroundPendingKey
        OBVIOUS
      <4>2. Others(d, k)'
        BY <3>1, <3>3, <4>1
      <4> QED BY <1>4, <4>1, <4>2 DEF Others
    <3>5. ASSUME NEW p \in Slots, NEW d \in DOMAIN rows', Busy(p, d)' PROVE Others(d, req[p].row.BackgroundPendingKey)'
      <4>1. Busy(p, d) /\ d \in DOMAIN rows /\ req'[p] = req[p]
        BY <2>4, <3>5
      <4>2. PICK k : k = req[p].row.BackgroundPendingKey
        OBVIOUS
      <4>3. Others(d, k)
        BY <2>1, <4>1, <4>2 DEF Images, KeysApart
      <4>4. Others(d, k)'
        BY <3>1, <4>3
      <4> QED BY <4>1, <4>2, <4>4 DEF Others
    <3>6. \A e \in deletions : Others(e.campaign, e.pending)'
      BY <2>1, <3>1 DEF Images, KeysApart
    <3> QED BY <1>1, <1>4, <3>2, <3>4, <3>5, <3>6 DEF KeysApart, Others
  <2>8. Shown'
    BY <1>1, <1>3, <1>4, <1>5, <2>1, <2>2, <2>3 DEF Images, Shown
  <2>9. Awaited'
    <3>1. Nil \notin notices
      BY RowFacts DEF TypeOK
    <3> QED BY <1>1, <1>3, <1>4, <1>5, <2>1, <2>2, <2>3, <3>1 DEF Images, Awaited
  <2>10. UploadsHeld'
    BY <1>1, <1>4, <1>5, <2>1, <2>2, <2>3 DEF Images, UploadsHeld
  <2>11. ThumbnailsHeld'
    BY <1>1, <1>4, <1>5, <2>1, <2>2, <2>3 DEF Images, ThumbnailsHeld
  <2>12. DroppedGone'
    BY <1>1, <2>1, <2>3 DEF Images, DroppedGone
  <2> QED BY <2>5, <2>6, <2>7, <2>8, <2>9, <2>10, <2>11, <2>12 DEF Images
<1> QED BY <1>8, <1>9, <1>10, <1>11, <1>12 DEF CampaignsInv, InStep, Images

\* DELETE /campaigns: the row is marked, and the event takes over its objects.
LEMMA DeleteStep ==
  ASSUME TypeOK, CampaignsInv, NEW q \in Slots, NEW cl \in Clients, Delete(q, cl)
  PROVE  TypeOK' /\ CampaignsInv'
<1>1. PICK c \in Owned(cl) :
        /\ req[q] = Idle /\ asked < MaxRequests /\ asked' = asked + 1
        /\ rows' = [rows EXCEPT ![c] = SoftDelete(rows[c])]
        /\ deletions' = deletions \cup {[campaign |-> c, pending |-> rows[c].BackgroundPendingKey,
                                         thumbnail |-> rows[c].BackgroundThumbnailKey]}
        /\ overtaken' = Overtaking(Slots \ {q}, "delete", c)
        /\ UNCHANGED <<store, urls, notices, purged, req, minted, undone, left>>
  BY DEF Delete
<1> DEFINE row == SoftDelete(rows[c])
           e == [campaign |-> c, pending |-> rows[c].BackgroundPendingKey,
                 thumbnail |-> rows[c].BackgroundThumbnailKey]
<1>2. c \in Live /\ c \in DOMAIN rows /\ c \in Ids /\ rows[c] \in Campaign /\ ~rows[c].DeletedAt
  BY RowFacts DEF Owned, Live
<1>3. /\ row \in Campaign /\ row.IsDefault = rows[c].IsDefault /\ row.DeletedAt = TRUE
      /\ row.BackgroundThumbnailKey = rows[c].BackgroundThumbnailKey /\ row.file = rows[c].file
      /\ row.BackgroundStatus = rows[c].BackgroundStatus
      /\ row.BackgroundPendingKey = rows[c].BackgroundPendingKey
  BY <1>2, SoftDeleting
<1>4. /\ rows' \in Seq(Campaign) /\ Len(rows') = Len(rows) /\ DOMAIN rows' = DOMAIN rows /\ rows'[c] = row
      /\ \A d \in DOMAIN rows \ {c} : rows'[d] = rows[d]
  <2> HIDE DEF row
  <2> QED BY <1>1, <1>2, <1>3, RowReplaced DEF row
<1>5. e \in CampaignDeleted /\ e.campaign = c /\ e.pending = rows[c].BackgroundPendingKey
      /\ e.thumbnail = rows[c].BackgroundThumbnailKey
  BY <1>2 DEF CampaignDeleted, Campaign
<1>6. /\ overtaken \subseteq overtaken' /\ overtaken' \subseteq (Ops \cup {"purge"}) \X Ops
      /\ Undisturbed' => \A p \in Slots : ~Imaging(p, c)
  <2>1. Slots \ {q} \in SUBSET Slots /\ "delete" \in Ops \cup {"purge"} /\ "delete" \in ImageWriters
    BY DEF Ops, ImageWriters
  <2>2. ~Imaging(q, c)
    BY <1>1 DEF Imaging, Busy
  <2> QED BY <1>1, <2>1, <2>2, Overtaken
<1>7. asked' \in 0..MaxRequests
  BY <1>1, CampaignsAssumption DEF TypeOK
<1>8. TypeOK'
  BY <1>1, <1>4, <1>5, <1>6, <1>7 DEF TypeOK
<1>9. \A d \in DOMAIN rows : rows'[d].IsDefault = rows[d].IsDefault /\ Sound(rows[d])'
  <2> SUFFICES ASSUME NEW d \in DOMAIN rows
               PROVE  rows'[d].IsDefault = rows[d].IsDefault /\ Sound(rows[d])'
    OBVIOUS
  <2>1. Sound(rows[d]) /\ minted' = minted
    BY <1>1 DEF CampaignsInv, Ledger
  <2>2. CASE d = c
    BY <1>3, <1>4, <2>1, <2>2 DEF Sound
  <2>3. CASE d # c
    BY <1>4, <2>1, <2>3 DEF Sound
  <2> QED BY <2>2, <2>3
<1>10. Ledger' /\ Attached' /\ Room'
  <2>1. minted' >= minted
    BY <1>1, CampaignsAssumption DEF TypeOK
  <2>2. \A x \in deletions' : x \in deletions \/ (x.campaign \in DOMAIN rows /\ x.pending <= minted')
    <3>1. rows[c].BackgroundPendingKey <= minted
      BY <1>2 DEF CampaignsInv, Ledger, Sound
    <3> QED BY <1>1, <1>2, <1>5, <3>1
  <2>3. req'[q] = Idle /\ req'[q].op # "create" /\ \A p \in Slots \ {q} : req'[p] = req[p]
    BY <1>1 DEF Idle
  <2> QED BY <1>1, <1>4, <1>6, <1>8, <1>9, <2>1, <2>2, <2>3, Steady DEF CampaignsInv
<1>11. ASSUME Undisturbed' PROVE Images'
  <2>1. Images
    BY <1>1, <1>6, <1>11, UndisturbedBefore DEF CampaignsInv, InStep, Images
  <2>2. Live' = Live \ {c}
    BY <1>2, <1>3, <1>4 DEF Live
  <2>3. \A p \in Slots : /\ Mounted(p)' = Mounted(p) /\ Dropped(p)' = Dropped(p) /\ Unmounting(p)' = Unmounting(p)
                         /\ At(p, "presign", "previous")' = At(p, "presign", "previous")
                         /\ At(p, "clear", "pending")' = At(p, "clear", "pending")
                         /\ \A d : Busy(p, d)' = Busy(p, d)
    BY <1>1 DEF Mounted, Dropped, Unmounting, Clearing, At, Busy
  <2>4. Fresh'
    BY <1>1, <1>4, <1>6, <1>11, <2>1 DEF Images, Fresh, Agrees, Imaging, ImageRequests, Clearing, At, Busy
  <2>5. e \notin deletions /\ e \notin purged
    <3>1. \A x \in deletions : rows[x.campaign].DeletedAt
      BY <2>1 DEF Images, Gone
    <3> QED BY <1>2, <1>5, <3>1 DEF TypeOK
  <2>6. Gone'
    <3>1. ASSUME NEW x \in deletions' PROVE rows'[x.campaign].DeletedAt
      <4>1. CASE x = e
        BY <1>3, <1>4, <1>5, <4>1
      <4>2. CASE x \in deletions
        <5>1. x.campaign \in DOMAIN rows /\ rows[x.campaign].DeletedAt
          BY <2>1, <4>2 DEF Images, Gone, CampaignsInv, Ledger
        <5> QED BY <1>2, <1>4, <5>1
      <4> QED BY <1>1, <4>1, <4>2
    <3> QED BY <3>1 DEF Gone
  <2>7. KeysApart'
    <3>1. \A d \in DOMAIN rows : rows'[d].BackgroundPendingKey = rows[d].BackgroundPendingKey
      BY <1>3, <1>4
    <3>2. ASSUME NEW d, NEW k, Others(d, k) PROVE Others(d, k)'
      BY <1>4, <3>1, <3>2 DEF Others
    <3>3. ASSUME NEW d \in DOMAIN rows PROVE Others(d, rows[d].BackgroundPendingKey)'
      <4>1. Others(d, rows[d].BackgroundPendingKey)
        BY <2>1 DEF Images, KeysApart
      <4> QED BY <1>4, <3>1, <4>1 DEF Others
    <3>4. ASSUME NEW p \in Slots, NEW d \in DOMAIN rows, Busy(p, d) PROVE Others(d, req[p].row.BackgroundPendingKey)'
      <4>1. Others(d, req[p].row.BackgroundPendingKey)
        BY <2>1, <3>4 DEF Images, KeysApart
      <4> QED BY <1>1, <1>4, <3>1, <4>1 DEF Others
    <3>5. ASSUME NEW x \in deletions' PROVE Others(x.campaign, x.pending)'
      <4>1. CASE x = e
        <5>1. Others(c, rows[c].BackgroundPendingKey)
          BY <1>2, <2>1 DEF Images, KeysApart
        <5> QED BY <1>5, <3>2, <4>1, <5>1
      <4>2. CASE x \in deletions
        BY <2>1, <3>2, <4>2 DEF Images, KeysApart
      <4> QED BY <1>1, <4>1, <4>2
    <3> QED BY <1>4, <2>3, <3>3, <3>4, <3>5 DEF KeysApart
  <2>8. Shown'
    BY <1>1, <1>4, <2>1, <2>2, <2>3, RowFacts DEF Images, Shown
  <2>9. Awaited'
    BY <1>1, <1>4, <2>1, <2>2, <2>3, RowFacts DEF Images, Awaited
  <2>10. UploadsHeld'
    <3> SUFFICES ASSUME NEW k \in store.uploads \ left.uploads,
                        ~ \E d \in Live : d # c /\ rows'[d].BackgroundPendingKey = k,
                        ~ \E x \in deletions' \ purged : x.pending = k
                 PROVE  \E p \in Slots : /\ At(p, "presign", "previous") \/ At(p, "clear", "pending")
                                         /\ req[p].row.BackgroundPendingKey = k
      BY <1>1, <2>2, <2>3 DEF UploadsHeld
    <3>1. ~ \E d \in Live : rows[d].BackgroundPendingKey = k
      BY <1>1, <1>4, <1>5, <2>5, RowFacts
    <3>2. ~ \E x \in deletions \ purged : x.pending = k
      BY <1>1
    <3> QED BY <2>1, <3>1, <3>2 DEF Images, UploadsHeld
  <2>11. ThumbnailsHeld'
    <3> SUFFICES ASSUME NEW d \in Ids, store.thumbnails[d] \notin left.thumbnails \cup {Nil},
                        ~ (d \in Live /\ d # c /\ rows'[d].BackgroundThumbnailKey),
                        ~ \E x \in deletions' \ purged : x.thumbnail /\ x.campaign = d
                 PROVE  \E p \in Slots : (Mounted(p) \/ Unmounting(p)) /\ req[p].campaign = d
      BY <1>1, <2>2, <2>3 DEF ThumbnailsHeld
    <3>1. ~ (d \in Live /\ rows[d].BackgroundThumbnailKey)
      <4>1. CASE d = c
        BY <1>1, <1>5, <2>5, <4>1
      <4>2. CASE d # c
        BY <1>4, <4>2, RowFacts
      <4> QED BY <4>1, <4>2
    <3>2. ~ \E x \in deletions \ purged : x.thumbnail /\ x.campaign = d
      BY <1>1
    <3> QED BY <2>1, <3>1, <3>2 DEF Images, ThumbnailsHeld
  <2>12. DroppedGone'
    BY <1>1, <2>1, <2>3 DEF Images, DroppedGone
  <2> QED BY <2>4, <2>6, <2>7, <2>8, <2>9, <2>10, <2>11, <2>12 DEF Images
<1> QED BY <1>8, <1>10, <1>11 DEF CampaignsInv, InStep, Images

\* What a purge removes.
LEMMA PurgeFacts ==
  ASSUME TypeOK, NEW e \in deletions, e.campaign \in Ids
  PROVE  /\ Purge(store, e) \in [uploads : SUBSET Keys, thumbnails : [Ids -> Keys \cup {Nil}]]
         /\ Purge(store, e).uploads = store.uploads \ {e.pending}
         /\ \A d \in Ids : Purge(store, e).thumbnails[d] = store.thumbnails[d] \/ (d = e.campaign /\ e.thumbnail)
         /\ e.thumbnail => Purge(store, e).thumbnails[e.campaign] = Nil
<1> DEFINE s1 == IF e.pending # Nil THEN DeleteObject(store, e.pending) ELSE store
<1>1. store \in [uploads : SUBSET Keys, thumbnails : [Ids -> Keys \cup {Nil}]] /\ Nil \notin store.uploads
  BY RowFacts DEF TypeOK
<1>2. /\ s1 \in [uploads : SUBSET Keys, thumbnails : [Ids -> Keys \cup {Nil}]]
      /\ s1.uploads = store.uploads \ {e.pending} /\ s1.thumbnails = store.thumbnails
  BY <1>1, DeleteFacts
<1>3. Purge(store, e) = IF e.thumbnail THEN DeleteThumbnail(s1, e.campaign) ELSE s1
  BY DEF Purge
<1>4. CASE e.thumbnail
  <2> HIDE DEF s1
  <2> QED BY <1>1, <1>2, <1>3, <1>4 DEF DeleteThumbnail
<1>5. CASE ~e.thumbnail
  <2> HIDE DEF s1
  <2> QED BY <1>1, <1>2, <1>3, <1>5
<1> QED BY <1>4, <1>5

\* The objects of a deleted campaign go, at the first delivery of the event or
\* at a later one.
LEMMA PurgeStep ==
  ASSUME TypeOK, CampaignsInv, NEW e \in deletions, DeleteObjectsOnDeleted(e)
  PROVE  TypeOK' /\ CampaignsInv'
<1> DEFINE c == e.campaign
<1>1. /\ store' = Purge(store, e) /\ purged' = purged \cup {e} /\ overtaken' = Overtaking(Slots, "purge", c)
      /\ UNCHANGED <<rows, urls, notices, deletions, req, minted, asked, undone, left>>
  BY DEF DeleteObjectsOnDeleted
<1>2. c \in DOMAIN rows /\ c \in Ids
  BY RowFacts DEF CampaignsInv, Ledger
<1>3. /\ store' \in [uploads : SUBSET Keys, thumbnails : [Ids -> Keys \cup {Nil}]]
      /\ store'.uploads = store.uploads \ {e.pending}
      /\ \A d \in Ids : store'.thumbnails[d] = store.thumbnails[d] \/ (d = c /\ e.thumbnail)
      /\ e.thumbnail => store'.thumbnails[c] = Nil
  BY <1>1, <1>2, PurgeFacts
<1>4. /\ overtaken \subseteq overtaken' /\ overtaken' \subseteq (Ops \cup {"purge"}) \X Ops
      /\ Undisturbed' => \A p \in Slots : ~Imaging(p, c)
  <2>1. Slots \in SUBSET Slots /\ "purge" \in Ops \cup {"purge"} /\ "purge" \in ImageWriters
    BY DEF ImageWriters
  <2> QED BY <1>1, <2>1, Overtaken
<1>5. TypeOK'
  BY <1>1, <1>3, <1>4 DEF TypeOK
<1>6. Ledger' /\ Attached'
  BY <1>1 DEF CampaignsInv, Ledger, Attached, Reads, Sound, At
<1>7. Room'
  BY <1>1, <1>4, NoneBefore DEF CampaignsInv, Room, CountNonDefaultByWorkspaceID
<1>8. ASSUME Undisturbed' PROVE Images'
  <2>1. Images
    BY <1>1, <1>4, <1>8, UndisturbedBefore DEF CampaignsInv, InStep, Images
  <2>2. Live' = Live /\ c \notin Live
    BY <1>1, <2>1 DEF Live, Images, Gone
  <2>3. \A p \in Slots : /\ Mounted(p)' = Mounted(p) /\ Dropped(p)' = Dropped(p) /\ Unmounting(p)' = Unmounting(p)
                         /\ At(p, "presign", "previous")' = At(p, "presign", "previous")
                         /\ At(p, "clear", "pending")' = At(p, "clear", "pending")
    BY <1>1 DEF Mounted, Dropped, Unmounting, Clearing, At
  <2>4. Fresh' /\ Gone' /\ KeysApart'
    BY <1>1, <2>1 DEF Images, Fresh, Agrees, Imaging, ImageRequests, Clearing, At, Busy, Gone, KeysApart, Others
  <2>5. Shown'
    <3>1. ASSUME NEW d \in Live PROVE store'.thumbnails[d] = store.thumbnails[d]
      BY <1>3, <2>2, RowFacts
    <3>2. ASSUME NEW p \in Slots, Mounted(p) PROVE store'.thumbnails[req[p].campaign] = store.thumbnails[req[p].campaign]
      <4>1. req[p].op = "process"
        BY <3>2 DEF Mounted, At
      <4>2. Imaging(p, req[p].campaign) /\ req[p].campaign \in Ids
        BY <4>1, Processing DEF Imaging, ImageRequests, Busy
      <4> QED BY <1>3, <1>4, <1>8, <4>2
    <3> QED BY <1>1, <2>1, <2>2, <2>3, <3>1, <3>2 DEF Images, Shown
  <2>6. Awaited'
    <3>1. ASSUME NEW d \in Live, rows[d].BackgroundPendingKey \in notices
          PROVE  rows[d].BackgroundPendingKey # e.pending /\ store'.thumbnails[d] = store.thumbnails[d]
      <4>1. Others(c, e.pending) /\ d # c /\ d \in DOMAIN rows /\ d \in Ids
        BY <2>1, <2>2, RowFacts DEF Images, KeysApart
      <4>2. rows[d].BackgroundPendingKey # Nil
        BY <3>1, RowFacts DEF TypeOK
      <4> QED BY <1>3, <4>1, <4>2 DEF Others
    <3> QED BY <1>1, <1>3, <2>1, <2>2, <2>3, <3>1 DEF Images, Awaited
  <2>7. UploadsHeld'
    <3> SUFFICES ASSUME NEW k \in store'.uploads \ left.uploads,
                        ~ \E d \in Live : rows[d].BackgroundPendingKey = k,
                        ~ \E x \in deletions \ (purged \cup {e}) : x.pending = k
                 PROVE  \E p \in Slots : /\ At(p, "presign", "previous") \/ At(p, "clear", "pending")
                                         /\ req[p].row.BackgroundPendingKey = k
      BY <1>1, <2>2, <2>3 DEF UploadsHeld
    <3>1. ~ \E x \in deletions \ purged : x.pending = k
      BY <1>3
    <3> QED BY <1>3, <2>1, <3>1 DEF Images, UploadsHeld
  <2>8. ThumbnailsHeld'
    <3> SUFFICES ASSUME NEW d \in Ids, store'.thumbnails[d] \notin left.thumbnails \cup {Nil},
                        ~ (d \in Live /\ rows[d].BackgroundThumbnailKey),
                        ~ \E x \in deletions \ (purged \cup {e}) : x.thumbnail /\ x.campaign = d
                 PROVE  \E p \in Slots : (Mounted(p) \/ Unmounting(p)) /\ req[p].campaign = d
      BY <1>1, <2>2, <2>3 DEF ThumbnailsHeld
    <3>1. store'.thumbnails[d] = store.thumbnails[d]
      BY <1>3
    <3>2. ~ \E x \in deletions \ purged : x.thumbnail /\ x.campaign = d
      BY <1>3
    <3> QED BY <2>1, <3>1, <3>2 DEF Images, ThumbnailsHeld
  <2>9. DroppedGone'
    BY <1>1, <1>3, <2>1, <2>3 DEF Images, DroppedGone
  <2> QED BY <2>4, <2>5, <2>6, <2>7, <2>8, <2>9 DEF Images
<1> QED BY <1>5, <1>6, <1>7, <1>8 DEF CampaignsInv, InStep, Images

\* An upload arrives; one that nobody waits for, or that comes again, is late.
LEMMA UploadStep ==
  ASSUME TypeOK, CampaignsInv, NEW k \in Keys, Upload(k)
  PROVE  TypeOK' /\ CampaignsInv'
<1>1. /\ k \in urls /\ notices' = notices \cup {k} /\ store' = [store EXCEPT !.uploads = store.uploads \cup {k}]
      /\ left' = IF GetByBackgroundPendingKey(k) = {} \/ k \in notices THEN LeaveUpload(k) ELSE left
      /\ UNCHANGED <<rows, urls, deletions, purged, req, minted, asked, overtaken, undone>>
  BY DEF Upload
<1>2. /\ store' \in [uploads : SUBSET Keys, thumbnails : [Ids -> Keys \cup {Nil}]]
      /\ store'.uploads = store.uploads \cup {k} /\ store'.thumbnails = store.thumbnails
  BY <1>1 DEF TypeOK
<1>3. TypeOK' /\ LeftGrows /\ (left' = LeaveUpload(k) => k \in left'.uploads)
  <2>1. LeftGrows /\ left' \in Leftovers /\ (left' = LeaveUpload(k) => k \in left'.uploads)
    BY <1>1, Leaving, RowFacts
  <2> QED BY <1>1, <1>2, <2>1 DEF TypeOK
<1>4. Ledger' /\ Attached'
  BY <1>1 DEF CampaignsInv, Ledger, Attached, Reads, Sound, At
<1>5. Room'
  BY <1>1 DEF CampaignsInv, Room, CountNonDefaultByWorkspaceID, NoneOvertakes
<1>6. ASSUME Undisturbed' PROVE Images'
  <2>1. Images
    BY <1>1, <1>6 DEF CampaignsInv, InStep, Undisturbed, NoneCutsIn, NothingUndone, NoneOvertakes, Images
  <2>2. Live' = Live
    BY <1>1 DEF Live
  <2>3. \A p \in Slots : /\ Mounted(p)' = Mounted(p) /\ Dropped(p)' = Dropped(p) /\ Unmounting(p)' = Unmounting(p)
                         /\ At(p, "presign", "previous")' = At(p, "presign", "previous")
                         /\ At(p, "clear", "pending")' = At(p, "clear", "pending")
    BY <1>1 DEF Mounted, Dropped, Unmounting, Clearing, At
  <2>4. Fresh' /\ Gone' /\ KeysApart'
    BY <1>1, <2>1 DEF Images, Fresh, Agrees, Imaging, ImageRequests, Clearing, At, Busy, Gone, KeysApart, Others
  <2>5. Shown'
    BY <1>1, <1>2, <2>1, <2>2, <2>3 DEF Images, Shown
  <2>6. Awaited'
    <3> SUFFICES ASSUME NEW d \in Live, NEW k2 \in notices, rows[d].BackgroundPendingKey = k2, k2 # k
                 PROVE  \/ k2 \in store.uploads
                        \/ k2 \in left'.unsaved /\ store.thumbnails[d] = k2
                        \/ k2 \in left'.unmarked
                        \/ \E p \in Slots : Dropped(p) /\ req[p].campaign = d
      BY <1>1, <1>2, <2>2, <2>3 DEF Awaited
    <3> QED BY <1>3, <2>1 DEF Images, Awaited, LeftGrows
  <2>7. UploadsHeld'
    <3>1. k \in left'.uploads \/ \E d \in Live : rows[d].BackgroundPendingKey = k
      BY <1>1, <1>3 DEF GetByBackgroundPendingKey
    <3> QED BY <1>1, <1>2, <1>3, <2>1, <2>2, <2>3, <3>1 DEF Images, UploadsHeld, LeftGrows
  <2>8. ThumbnailsHeld'
    BY <1>1, <1>2, <1>3, <2>1, <2>2, <2>3 DEF Images, ThumbnailsHeld, LeftGrows
  <2>9. DroppedGone'
    <3>1. ASSUME NEW p \in Slots, Dropped(p), req[p].key = k PROVE k \in left'.uploads
      <4>1. req[p].op = "process"
        BY <3>1 DEF Dropped, At
      <4>2. k \in notices
        BY <3>1, <4>1, Processing
      <4> QED BY <1>1, <1>3, <4>2
    <3> QED BY <1>1, <1>2, <1>3, <2>1, <2>3, <3>1 DEF Images, DroppedGone, LeftGrows
  <2> QED BY <2>4, <2>5, <2>6, <2>7, <2>8, <2>9 DEF Images
<1> QED BY <1>3, <1>4, <1>5, <1>6 DEF CampaignsInv, InStep, Images

-----------------------------------------------------------------------------
(* Every step *)

\* The requests that read a live row and go on from there.
LEMMA ReadingStep ==
  ASSUME TypeOK, CampaignsInv, NEW q \in Slots, NEW cl \in Clients,
         Update(q, cl) \/ PresignBackground(q, cl) \/ ClearBackgroundRequest(q, cl)
  PROVE  TypeOK' /\ CampaignsInv'
<1>1. \A c \in Live : rows[c] \in Campaign /\ c \in Ids
  BY RowFacts
<1>2. PICK c \in Live, r \in Request :
        /\ Begin(q, r) /\ r.op \in {"update", "presign", "clear"} /\ r.step \in {"none", "save"}
        /\ r.campaign = c /\ r.row = rows[c] /\ r.key = Nil
  <2>1. CASE Update(q, cl)
    <3>1. PICK c \in Live : Begin(q, [Idle EXCEPT !.op = "update", !.campaign = c, !.row = rows[c]])
      BY <2>1 DEF Update, Owned
    <3> DEFINE r == [Idle EXCEPT !.op = "update", !.campaign = c, !.row = rows[c]]
    <3>2. r \in Request /\ r.op = "update" /\ r.step = "none" /\ r.campaign = c /\ r.row = rows[c] /\ r.key = Nil
      BY <1>1 DEF Idle, Request, Ops, Steps, Nil
    <3>3. Begin(q, r)
      BY <3>1
    <3> HIDE DEF r
    <3> QED BY <3>2, <3>3
  <2>2. CASE PresignBackground(q, cl)
    <3>1. PICK c \in Live :
            Begin(q, [Idle EXCEPT !.op = "presign", !.step = "save", !.campaign = c, !.row = rows[c]])
      BY <2>2 DEF PresignBackground, Owned
    <3> DEFINE r == [Idle EXCEPT !.op = "presign", !.step = "save", !.campaign = c, !.row = rows[c]]
    <3>2. r \in Request /\ r.op = "presign" /\ r.step = "save" /\ r.campaign = c /\ r.row = rows[c] /\ r.key = Nil
      BY <1>1 DEF Idle, Request, Ops, Steps, Nil
    <3>3. Begin(q, r)
      BY <3>1
    <3> HIDE DEF r
    <3> QED BY <3>2, <3>3
  <2>3. CASE ClearBackgroundRequest(q, cl)
    <3>1. PICK c \in Live :
            Begin(q, [Idle EXCEPT !.op = "clear", !.step = "save", !.campaign = c, !.row = rows[c]])
      BY <2>3 DEF ClearBackgroundRequest, Owned
    <3> DEFINE r == [Idle EXCEPT !.op = "clear", !.step = "save", !.campaign = c, !.row = rows[c]]
    <3>2. r \in Request /\ r.op = "clear" /\ r.step = "save" /\ r.campaign = c /\ r.row = rows[c] /\ r.key = Nil
      BY <1>1 DEF Idle, Request, Ops, Steps, Nil
    <3>3. Begin(q, r)
      BY <3>1
    <3> HIDE DEF r
    <3> QED BY <3>2, <3>3
  <2> QED BY <2>1, <2>2, <2>3
<1>3. r.op \in Ops \ {"create"} /\ r.op # "process" /\ r.step \in {"none", "save", "get"}
  BY <1>2 DEF Ops
<1>4. r.key = Nil
  BY <1>2
<1>5. Begin(q, r) /\ r.campaign = c /\ r.row = rows[c]
  BY <1>2
<1>6. r.key = Nil \/ (r.key \in notices /\ r.key = rows[c].BackgroundPendingKey)
  BY <1>4
<1>7. r.op = "process" => r.key # Nil
  BY <1>3
<1> QED BY <1>3, <1>5, <1>6, <1>7, BeginStep

\* A webhook that finds the row which waits for its upload.
LEMMA ObjectCreatedStep ==
  ASSUME TypeOK, CampaignsInv, NEW q \in Slots, NEW k \in notices, ObjectCreated(q, k)
  PROVE  TypeOK' /\ CampaignsInv'
<1>1. PICK c \in GetByBackgroundPendingKey(k) :
        Begin(q, [Idle EXCEPT !.op = "process", !.step = "get", !.campaign = c, !.key = k, !.row = rows[c]])
  BY DEF ObjectCreated
<1> DEFINE r == [Idle EXCEPT !.op = "process", !.step = "get", !.campaign = c, !.key = k, !.row = rows[c]]
<1>2. c \in Live /\ rows[c].BackgroundPendingKey = k /\ rows[c] \in Campaign /\ c \in Ids
  BY RowFacts DEF GetByBackgroundPendingKey
<1>3. k \in Keys /\ k # Nil
  BY RowFacts DEF TypeOK
<1>4. /\ r \in Request /\ r.op \in Ops \ {"create"} /\ r.step \in {"none", "save", "get"}
      /\ r.campaign = c /\ r.row = rows[c] /\ r.key = k
  BY <1>2, <1>3 DEF Idle, Request, Ops, Steps
<1>5. Begin(q, r)
  BY <1>1
<1>6. r.key = Nil \/ (r.key \in notices /\ r.key = rows[c].BackgroundPendingKey)
  BY <1>2, <1>4
<1>7. r.op = "process" => r.key # Nil
  BY <1>3, <1>4
<1> HIDE DEF r
<1> QED BY <1>2, <1>4, <1>5, <1>6, <1>7, BeginStep

\* Every client has its default campaign, and nothing else exists.
LEMMA InitInv == Init => TypeOK /\ CampaignsInv
<1> SUFFICES ASSUME Init PROVE TypeOK /\ CampaignsInv
  OBVIOUS
<1> DEFINE n == Cardinality(Clients)
<1>1. n \in Nat /\ n <= MaxRows /\ MaxRows \in Nat /\ MaxKeys \in Nat /\ MaxRequests \in Nat /\ MaxCampaigns \in Nat
  BY CampaignsAssumption, FS_CardinalityType
<1>2. PICK f \in [1..n -> Clients] : rows = [c \in 1..n |-> NewDefaultCampaign(f[c])]
  BY DEF Init
<1>3. /\ store = [uploads |-> {}, thumbnails |-> [c \in Ids |-> Nil]]
      /\ urls = {} /\ notices = {} /\ deletions = {} /\ purged = {}
      /\ req = [q \in Slots |-> Idle] /\ minted = 0 /\ asked = 0 /\ overtaken = {} /\ undone = {}
      /\ left = [uploads |-> {}, thumbnails |-> {}, unsaved |-> {}, unmarked |-> {}]
  BY DEF Init
<1>4. ASSUME NEW cl \in Clients
      PROVE  /\ NewDefaultCampaign(cl) \in Campaign /\ NewDefaultCampaign(cl).IsDefault
             /\ NewDefaultCampaign(cl).BackgroundPendingKey = Nil
             /\ NewDefaultCampaign(cl).BackgroundStatus = "none"
             /\ ~NewDefaultCampaign(cl).BackgroundThumbnailKey
  BY DEF NewDefaultCampaign, New, Campaign, Status, Nil
<1>5. /\ rows \in Seq(Campaign) /\ Len(rows) = n /\ DOMAIN rows = 1..n
      /\ \A c \in DOMAIN rows : /\ rows[c].IsDefault /\ rows[c].BackgroundPendingKey = Nil
                                /\ rows[c].BackgroundStatus = "none" /\ ~rows[c].BackgroundThumbnailKey
  <2> HIDE DEF n
  <2>1. \A c \in 1..n : f[c] \in Clients
    OBVIOUS
  <2>2. rows \in [1..n -> Campaign]
    BY <1>2, <1>4, <2>1
  <2>3. rows \in Seq(Campaign) /\ Len(rows) = n
    <3>1. Len(rows) = n
      BY <1>1, <1>2
    <3>2. rows \in [1..Len(rows) -> Campaign]
      BY <2>2, <3>1
    <3> QED BY <1>1, <2>2, <3>1, SeqDef
  <2> QED BY <1>2, <1>4, <2>1, <2>3
<1>6. \A q \in Slots : req[q] = Idle /\ req[q].op = "idle" /\ req[q].step = "none"
  BY <1>3 DEF Idle
<1>7. store.uploads = {} /\ \A c \in Ids : store.thumbnails[c] = Nil
  BY <1>3
<1>8. TypeOK
  <2>1. store \in [uploads : SUBSET Keys, thumbnails : [Ids -> Keys \cup {Nil}]]
    BY <1>3
  <2>2. req \in [Slots -> Request \cup {Idle}]
    BY <1>3
  <2>3. minted \in 0..MaxKeys /\ asked \in 0..MaxRequests
    BY <1>1, <1>3
  <2>4. left \in Leftovers
    BY <1>3 DEF Leftovers
  <2> QED BY <1>1, <1>3, <1>5, <2>1, <2>2, <2>3, <2>4 DEF TypeOK
<1>9. Ledger
  <2>1. ASSUME NEW c \in DOMAIN rows PROVE Sound(rows[c])
    BY <1>3, <1>5 DEF Sound, Nil
  <2> QED BY <1>3, <2>1 DEF Ledger
<1>10. Attached
  BY <1>6 DEF Attached
<1>11. Room
  <2>1. {c \in DOMAIN rows : ~rows[c].IsDefault} = {}
    BY <1>5
  <2>2. CountNonDefaultByWorkspaceID = 0
    BY <2>1, FS_EmptySet DEF CountNonDefaultByWorkspaceID
  <2> QED BY <1>1, <1>6, <2>2 DEF Room
<1>12. InStep
  <2>1. \A q \in Slots : ~Mounted(q) /\ ~Dropped(q) /\ \A c : ~Busy(q, c)
    BY <1>6 DEF Mounted, Dropped, At, Busy
  <2>2. Fresh /\ Gone /\ DroppedGone
    BY <1>3, <2>1 DEF Fresh, Agrees, Imaging, ImageRequests, Gone, DroppedGone
  <2>3. KeysApart
    BY <1>3, <1>5, <2>1 DEF KeysApart, Others
  <2>4. Shown /\ Awaited
    BY <1>3, <1>5, <1>8, <2>1, RowFacts DEF Shown, Awaited
  <2>5. UploadsHeld /\ ThumbnailsHeld
    BY <1>7 DEF UploadsHeld, ThumbnailsHeld
  <2> QED BY <2>2, <2>3, <2>4, <2>5 DEF InStep
<1> QED BY <1>8, <1>9, <1>10, <1>11, <1>12 DEF CampaignsInv

\* Every request, webhook, upload and event keeps the invariant.
LEMMA NextInv == TypeOK /\ CampaignsInv /\ [Next]_vars => TypeOK' /\ CampaignsInv'
<1> SUFFICES ASSUME TypeOK, CampaignsInv, [Next]_vars PROVE TypeOK' /\ CampaignsInv'
  OBVIOUS
<1>1. ASSUME NEW q \in Slots, NEW cl \in Clients,
             Create(q, cl) \/ Update(q, cl) \/ Delete(q, cl)
               \/ PresignBackground(q, cl) \/ ClearBackgroundRequest(q, cl)
      PROVE  TypeOK' /\ CampaignsInv'
  BY <1>1, CreateStarts, ReadingStep, DeleteStep
<1>2. ASSUME NEW q \in Slots, NEW k \in notices, ObjectCreated(q, k) PROVE TypeOK' /\ CampaignsInv'
  BY <1>2, ObjectCreatedStep
<1>3. ASSUME NEW q \in Slots,
             CreateCampaign(q) \/ UpdateCampaign(q) \/ PresignSave(q) \/ PresignReply(q)
               \/ ClearSave(q) \/ ClearPending(q) \/ ClearThumbnail(q)
      PROVE  TypeOK' /\ CampaignsInv'
  BY <1>3, CreateStep, UpdateStep, PresignSaveStep, PresignReplyStep, ClearSaveStep, ClearPendingStep,
     ClearThumbnailStep
<1>4. ASSUME NEW q \in Slots, ProcessBackgroundUpload(q) PROVE TypeOK' /\ CampaignsInv'
  BY <1>4, ProcessGetStep, ProcessPutStep, DropStep, SecondReadStep, OutcomeStep DEF ProcessBackgroundUpload
<1>5. ASSUME NEW q \in Slots, Abandon(q) PROVE TypeOK' /\ CampaignsInv'
  BY <1>5, AbandonStep
<1>6. ASSUME NEW e \in deletions, DeleteObjectsOnDeleted(e) PROVE TypeOK' /\ CampaignsInv'
  BY <1>6, PurgeStep
<1>7. ASSUME NEW k \in Keys, Upload(k) PROVE TypeOK' /\ CampaignsInv'
  BY <1>7, UploadStep
<1>8. CASE UNCHANGED vars
  <2>1. UNCHANGED <<rows, store, urls, notices, deletions, purged, req, minted, asked, overtaken, undone, left>>
    BY <1>8 DEF vars
  <2>2. TypeOK'
    BY <2>1 DEF TypeOK
  <2>3. Ledger' /\ Attached' /\ Room'
    BY <2>1 DEF CampaignsInv, Ledger, Attached, Reads, Sound, At, Room, NoneOvertakes, CountNonDefaultByWorkspaceID
  <2>4. \A q \in Slots : /\ Mounted(q)' = Mounted(q) /\ Dropped(q)' = Dropped(q) /\ Unmounting(q)' = Unmounting(q)
                         /\ Clearing(q)' = Clearing(q)
                         /\ At(q, "presign", "previous")' = At(q, "presign", "previous")
                         /\ At(q, "clear", "pending")' = At(q, "clear", "pending")
                         /\ \A c : Busy(q, c)' = Busy(q, c)
    BY <2>1 DEF Mounted, Dropped, Unmounting, Clearing, At, Busy
  <2>5. ASSUME Images PROVE Images'
    <3>1. Live' = Live
      BY <2>1 DEF Live
    <3>2. Fresh' /\ Gone' /\ KeysApart'
      BY <2>1, <2>4, <2>5 DEF Images, Fresh, Agrees, Imaging, ImageRequests, Gone, KeysApart, Others
    <3>3. Shown' /\ Awaited' /\ UploadsHeld' /\ ThumbnailsHeld' /\ DroppedGone'
      BY <2>1, <2>4, <2>5, <3>1 DEF Images, Shown, Awaited, UploadsHeld, ThumbnailsHeld, DroppedGone
    <3> QED BY <3>2, <3>3 DEF Images
  <2>6. Undisturbed' => Undisturbed
    BY <2>1, UndisturbedBefore
  <2> QED BY <2>2, <2>3, <2>5, <2>6 DEF CampaignsInv, InStep, Images
<1> QED BY <1>1, <1>2, <1>3, <1>4, <1>5, <1>6, <1>7, <1>8 DEF Next

\* Hence every behaviour keeps it.
LEMMA Invariance == Spec => [](TypeOK /\ CampaignsInv)
BY InitInv, NextInv, PTL DEF Spec

-----------------------------------------------------------------------------
(* The properties *)

\* Every variable keeps its type: no request saves a row with a column it has
\* not, numbers a campaign or a key beyond its range, or acts for a stranger.
THEOREM CampaignsTypes == Spec => []TypeOK
BY Invariance, PTL

\* The campaigns ever created stay within the plan for any number of clients,
\* requests and campaigns, whatever the order of creations and deletions, as
\* long as no creation commits between another one's count and its commit.
THEOREM CampaignsStayBounded == Spec => []CampaignsBounded
<1>1. TypeOK /\ CampaignsInv => CampaignsBounded
  BY DEF CampaignsInv, Room, CampaignsBounded, CountNonDefaultByWorkspaceID
<1> QED BY <1>1, Invariance, PTL

\* A thumbnail URL that a response offers is answered with an image, and a ready
\* campaign shows the upload its row names, whatever fails, repeats or comes
\* late, unless an image request was cut into by another write of the image or
\* the campaign, or a rename saved a row that had changed since it was read.
THEOREM ThumbnailsAreServed == Spec => []ThumbnailServed
<1>1. ASSUME TypeOK, CampaignsInv PROVE ThumbnailServed
  <2> SUFFICES ASSUME Undisturbed, NEW c \in Live, BackgroundThumbnailURL(rows[c])
               PROVE  /\ GetThumbnail(rows[c].ClientID, c) # Nil
                      /\ rows[c].BackgroundStatus = "ready" => GetThumbnail(rows[c].ClientID, c) = rows[c].file
    BY DEF ThumbnailServed, Undisturbed
  <2>1. Shown
    BY <1>1 DEF CampaignsInv, InStep
  <2>2. rows[c].BackgroundThumbnailKey
    BY DEF BackgroundThumbnailURL
  <2>3. GetThumbnail(rows[c].ClientID, c) = store.thumbnails[c]
    BY DEF GetThumbnail
  <2> QED BY <2>1, <2>2, <2>3 DEF Shown
<1> QED BY <1>1, Invariance, PTL

\* Under the same two conditions, with no request open: an upload that has
\* arrived and is waited for is in storage, so the next delivery of its webhook
\* ends the wait; except that a webhook may have died after it deleted the
\* upload and before it saved the row, which leaves the thumbnail stored if the
\* upload was an image, and a row that a repetition marks failed.
THEOREM PendingUploadsFinish == Spec => []PendingCanFinish
<1>1. ASSUME TypeOK, CampaignsInv PROVE PendingCanFinish
  <2> SUFFICES ASSUME AtRest, Undisturbed, NEW c \in Live, NEW k \in notices, rows[c].BackgroundPendingKey = k
               PROVE  \/ k \in store.uploads
                      \/ k \in left.unsaved /\ store.thumbnails[c] = k
                      \/ k \in left.unmarked
    BY DEF PendingCanFinish, Undisturbed
  <2>1. Awaited
    BY <1>1 DEF CampaignsInv, InStep
  <2>2. \A q \in Slots : ~Dropped(q)
    BY DEF AtRest, Dropped, At, Idle
  <2> QED BY <2>1, <2>2 DEF Awaited
<1> QED BY <1>1, Invariance, PTL

\* Under the same two conditions, with no request open and every deletion event
\* handled: storage holds what the rows of live campaigns account for, and
\* beyond that only uploads that came late and objects whose deletion failed or
\* was not reached.
THEOREM StorageIsAccounted == Spec => []StorageAccounted
<1>1. ASSUME TypeOK, CampaignsInv PROVE StorageAccounted
  <2> SUFFICES ASSUME AtRest, Undisturbed
               PROVE  /\ store.uploads \subseteq left.uploads \cup {rows[c].BackgroundPendingKey : c \in Live}
                      /\ \A c \in Ids : store.thumbnails[c] \notin left.thumbnails \cup {Nil} =>
                           c \in Live /\ rows[c].BackgroundThumbnailKey
    BY DEF StorageAccounted, Undisturbed
  <2>1. UploadsHeld /\ ThumbnailsHeld
    BY <1>1 DEF CampaignsInv, InStep
  <2>2. \A q \in Slots : /\ ~Mounted(q) /\ ~Unmounting(q) /\ ~At(q, "presign", "previous") /\ ~At(q, "clear", "pending")
    BY DEF AtRest, Mounted, Unmounting, Clearing, At, Idle
  <2>3. deletions \ purged = {}
    BY DEF AtRest
  <2> QED BY <2>1, <2>2, <2>3 DEF UploadsHeld, ThumbnailsHeld
<1> QED BY <1>1, Invariance, PTL
=============================================================================
