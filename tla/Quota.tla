-------------------------------- MODULE Quota --------------------------------
(***************************************************************************)
(* What a workspace may still do under its plan, and the figures its       *)
(* members are shown, over the months of a calendar.                       *)
(*                                                                         *)
(* Limits are checked against sums over the rows of media and contents.    *)
(* Storage is checked before an upload is saved and no lock spans the two; *)
(* verifications are counted in a period that starts at the subscription's *)
(* anchor, by the day a media was finalized or, before that, the day of a  *)
(* content's verdict.  The steps of one media are those of MediaPipeline,  *)
(* whose interleavings within a handler are left to that module, but for   *)
(* those with the deletion of a campaign: a campaign is read without a     *)
(* lock before media are inserted into it, and handlers save whole media   *)
(* rows, deleted_at included, as they read them.  Time is counted in days. *)
(***************************************************************************)
EXTENDS Naturals, Sequences, FiniteSets, FiniteSetsExt

CONSTANTS
  MonthLengths,     \* the calendar: day 1 is the first day of its first month
  Days,             \* the days on which something happens
  Windows,          \* windows that are asked for: first and last day, or NoDay
  Anchors,          \* days on which the subscription may have started
  Plans,
  Quotas,           \* the quota of each plan
  Batches,          \* what is uploaded together: sequences of media types
  Sizes,            \* sizes of files, in bytes
  FrameSize,
  MaxPresignBatch,
  MaxHardFrames,    \* port.MaxHardFramesPerVideo
  Labels,
  MaxMedias,        \* bound: media rows
  MaxChanges        \* bound: changes of the subscription

CampaignIds == {"default", "launch"}
AllLabels   == {"human", "ai_generated", "uncertain"}
Statuses    == {"pending_upload", "uploaded", "processing", "analyzed", "failed"}
NoDay       == 0

\* The limits in force; sizes are in bytes here.
QuotaRow == [MaxVerificationsPerMonth : Nat, Grace : Nat, OveragePriceCents : Nat,
             MaxConcurrentAnalyses : Nat, MaxFileSize : Nat, MaxStorage : Nat,
             MaxBatchUploadSize : Nat, MaxFramesPerVideo : Nat, AllowsVideoAnalysis : BOOLEAN]

Total(f, S) == MapThenSumSet(LAMBDA x : f[x], S)

\* The first day of each month, and of the one after the last.
MonthStart == [k \in 1..(Len(MonthLengths) + 1) |-> 1 + Total(MonthLengths, 1..(k - 1))]
Horizon == MonthStart[Len(MonthLengths) + 1] - 1

ASSUME QuotaAssumption ==
  /\ MonthLengths \in Seq(28..31)
  /\ Days \subseteq 1..Horizon /\ Anchors \subseteq Days
  /\ Windows \subseteq (0..Horizon) \X (0..Horizon)
  /\ "free" \in Plans /\ Quotas \in [Plans -> QuotaRow]
  /\ Batches \subseteq Seq({"image", "video"})
  /\ Sizes \subseteq Nat \ {0} /\ FrameSize \in Nat
  /\ Labels \subseteq AllLabels
  /\ MaxPresignBatch \in Nat /\ MaxHardFrames \in Nat
  /\ MaxMedias \in Nat /\ MaxChanges \in Nat

VARIABLES
  today,
  sub,         \* the subscription: plan, active, QuotaPeriodStart, whether Stripe has a customer for it
  gone,        \* deleted campaigns: campaigns.deleted_at is set
  presigns,    \* requests for uploads that have found their campaign and insert next
  media,       \* media rows in the order of created_at
  contents,    \* contents of each media: image, or frames by index
  uploads,     \* size of each upload between its last check and its save
  reading,     \* deleted media that a handler read before the deletion and has yet to save
  changes,     \* changes of the subscription so far
  overlapped,  \* history: an upload was saved while another was being processed
  carried,     \* history: a media was finalized in a later period than a verdict of its contents
  late         \* history: a media was saved after the deletion of its campaign, which was not seen

vars == <<today, sub, gone, presigns, media, contents, uploads, reading,
          changes, overlapped, carried, late>>

Ids == 1..Len(media)

-----------------------------------------------------------------------------
(* Calendar *)

MonthOf(d) == CHOOSE k \in DOMAIN MonthLengths : MonthStart[k] <= d /\ d < MonthStart[k + 1]

\* AddDate(0, 1, 0): the same day of the next month; past its end, the days over
\* run into the month after (31 January becomes 3 March).
AddMonth(d) == MonthStart[MonthOf(d) + 1] + (d - MonthStart[MonthOf(d)])

\* The days on which the period is renewed, while the calendar lasts.
Renewed(d) == IF d <= Horizon THEN AddMonth(d) ELSE d
Renewals(anchor) ==
  LET next[k \in 0..Len(MonthLengths)] == IF k = 0 THEN anchor ELSE Renewed(next[k - 1])
  IN next

\* Mutant: on the day of the renewal the old period is still the current one.
RenewedLate(anchor, now) ==
  IF now < anchor THEN <<anchor, AddMonth(anchor)>>
  ELSE LET r == Renewals(anchor)
           k == CHOOSE j \in 1..Len(MonthLengths) : now <= r[j] /\ (j > 1 => r[j - 1] < now)
       IN <<r[k - 1], r[k]>>
CurrentQuotaPeriod(anchor, now) ==
  IF now < anchor THEN <<anchor, AddMonth(anchor)>>
  ELSE LET r == Renewals(anchor)
           k == CHOOSE j \in 1..Len(MonthLengths) : now < r[j] /\ r[j - 1] <= now
       IN <<r[k - 1], r[k]>>

\* quota_period_start is NOT NULL, so the other dates are never fallen back on.
Period(d) == CurrentQuotaPeriod(sub.QuotaPeriodStart, d)

-----------------------------------------------------------------------------
(* Usage: GetQuotaUsage *)

\* A subscription that is not active has the limits of the free plan.
Limits == IF sub.active THEN Quotas[sub.plan] ELSE Quotas["free"]

Parts == UNION {{<<m, i>> : i \in DOMAIN contents[m]} : m \in Ids}
Part(p) == contents[p[1]][p[2]]

\* Soft-deleted media count as well.
QuotaUnit(p, from, to) ==
  LET day == IF media[p[1]].analyzedAt # NoDay THEN media[p[1]].analyzedAt ELSE Part(p).updated
  IN \/ Part(p).status = "analyzing"
     \/ Part(p).status = "analyzed" /\ from <= day /\ day < to
\* Mutant: a verification is counted once it is over.
CountQuotaUnitsEnded(from, to) ==
  Cardinality({p \in Parts : QuotaUnit(p, from, to) /\ Part(p).status = "analyzed"})
CountQuotaUnits(from, to) == Cardinality({p \in Parts : QuotaUnit(p, from, to)})
CountByStatus(s) == Cardinality({p \in Parts : Part(p).status = s})

MediaBytes == Total([m \in Ids |-> media[m].size], Ids)
\* Media and extracted frames; the content of an image is the media's own file.
SumStorageBytes ==
  MediaBytes + FrameSize * Cardinality({p \in Parts : media[p[1]].type = "video"})

Usage == [verifications |-> CountQuotaUnits(Period(today)[1], Period(today)[2]),
          concurrent    |-> CountByStatus("analyzing"),
          storage       |-> SumStorageBytes]

-----------------------------------------------------------------------------
(* AssertCreateAllowed *)

AssertMediaUpload(type, size) ==
  /\ type = "video" => Limits.AllowsVideoAnalysis
  /\ Limits.MaxFileSize > 0 => size <= Limits.MaxFileSize
AssertBatchUpload(n) ==
  n <= IF Limits.MaxBatchUploadSize = 0 THEN MaxPresignBatch
       ELSE Min({Limits.MaxBatchUploadSize, MaxPresignBatch})
\* Mutant: the file itself is not counted.
AssertStorageLeft(bytes) == Limits.MaxStorage > 0 => Usage.storage <= Limits.MaxStorage
AssertStorageReserve(bytes) == Limits.MaxStorage > 0 => Usage.storage + bytes <= Limits.MaxStorage
assertVerificationSlots(n) ==
  \/ Limits.OveragePriceCents > 0
  \/ Usage.verifications + n <= Limits.MaxVerificationsPerMonth + Limits.Grace
assertConcurrentSlot == Usage.concurrent < Limits.MaxConcurrentAnalyses

-----------------------------------------------------------------------------
(* The library: GET /medias, GET /medias/stats *)

Visible == {m \in Ids : ~media[m].deleted}

\* deleted_at IS NULL.
CampaignFound(c) == c \notin gone

\* Both days are inclusive; no campaign means all of them.
InWindow(m, from, to, campaigns) ==
  /\ from <= media[m].created /\ media[m].created <= to
  /\ campaigns # {} => media[m].campaign \in campaigns

\* Status and verdict filters are alternatives.
FindPageByClientID(from, to, campaigns, statuses, verdicts) ==
  {m \in Visible :
     /\ InWindow(m, from, to, campaigns)
     /\ statuses \cup verdicts # {} => media[m].status \in statuses \/ media[m].label \in verdicts}

\* Filtering by a deleted campaign is answered with 404.
ListByClient(from, to, campaigns, statuses, verdicts) ==
  IF from <= to /\ \A c \in campaigns : CampaignFound(c)
  THEN FindPageByClientID(from, to, campaigns, statuses, verdicts) ELSE {}

\* Rows are taken in the order of created_at, newest first.
Offset(page, limit) == (page - 1) * limit
\* Mutant: the first page is skipped.
PaginateFromOne(rows, page, limit) ==
  {m \in rows : LET before == Cardinality({n \in rows : n > m})
                IN page * limit <= before /\ before < page * limit + limit}
Paginate(rows, page, limit) ==
  {m \in rows : LET before == Cardinality({n \in rows : n > m})
                IN Offset(page, limit) <= before /\ before < Offset(page, limit) + limit}
TotalPages(total, limit) == (total + limit - 1) \div limit

\* No dates, no window; from alone reaches until today, to alone has no beginning.
ParseOptionalMediaPeriod(from, to) ==
  IF from = NoDay /\ to = NoDay THEN <<NoDay, Horizon>> ELSE <<from, IF to = NoDay THEN today ELSE to>>
List(from, to, page, limit) ==
  LET w == ParseOptionalMediaPeriod(from, to)
  IN Paginate(ListByClient(w[1], w[2], {}, {}, {}), page, limit)

\* Mutant: deleted media are counted too.
CountWithDeleted(from, to, campaigns) ==
  LET rows == {m \in Ids : InWindow(m, from, to, campaigns)}
  IN [status |-> [s \in Statuses |-> Cardinality({m \in rows : media[m].status = s})],
      label  |-> [l \in AllLabels |-> Cardinality({m \in rows : media[m].label = l})]]
CountStatsByClientID(from, to, campaigns) ==
  LET rows == {m \in Visible : InWindow(m, from, to, campaigns)}
  IN [status |-> [s \in Statuses |-> Cardinality({m \in rows : media[m].status = s})],
      label  |-> [l \in AllLabels |-> Cardinality({m \in rows : media[m].label = l})]]
\* The same figures for each day of the window that has any.
CountDailyControls(from, to, campaigns) ==
  [d \in {media[m].created : m \in {n \in Visible : InWindow(n, from, to, campaigns)}} |->
     CountStatsByClientID(d, d, campaigns)]

\* The counters beside a campaign in GET /campaigns, which has no window.
AttachContentCounts(c) ==
  LET rows == {m \in Visible : media[m].campaign = c}
  IN [status |-> [s \in Statuses |-> Cardinality({m \in rows : media[m].status = s})],
      label  |-> [l \in AllLabels |-> Cardinality({m \in rows : media[m].label = l})]]

\* Without dates, the calendar month of today; from alone reaches until today.
ParseMediaStatsPeriod(from, to) ==
  IF from = NoDay THEN <<MonthStart[MonthOf(today)], MonthStart[MonthOf(today) + 1] - 1>>
  ELSE <<from, IF to = NoDay THEN today ELSE to>>

\* The month before a calendar month, otherwise as many days before the window.
PreviousStatsPeriod(from, to) ==
  IF from = MonthStart[MonthOf(from)] /\ to = MonthStart[MonthOf(from) + 1] - 1
  THEN <<IF MonthOf(from) = 1 THEN 0 ELSE MonthStart[MonthOf(from) - 1], from - 1>>
  ELSE <<IF to + 1 - from < from THEN from - (to + 1 - from) ELSE 0, from - 1>>

Verified(from, to, campaigns, labels) ==
  Cardinality({m \in Visible : /\ media[m].status = "analyzed"
                               /\ from <= media[m].analyzedAt /\ media[m].analyzedAt <= to
                               /\ campaigns # {} => media[m].campaign \in campaigns
                               /\ media[m].label \in labels})
\* In tenths of a percent, rounded half up.
RatePercent(part, total) == IF total = 0 THEN 0 ELSE (2000 * part + total) \div (2 * total)

DashboardKPIs(from, to, campaigns) ==
  LET prev  == PreviousStatsPeriod(from, to)
      n(l)  == Verified(from, to, campaigns, l)
      total == n(AllLabels)
  IN [verifications |-> total, validated |-> n({"human"}), toReview |-> n({"uncertain"}),
      aiGenerated |-> n({"ai_generated"}),
      previous |-> Verified(prev[1], prev[2], campaigns, AllLabels),
      authenticityRate |-> RatePercent(n({"human"}), total),
      aiShare |-> RatePercent(n({"ai_generated"}), total)]

Stats(w, campaigns) ==
  [counts |-> CountStatsByClientID(w[1], w[2], campaigns),
   daily  |-> CountDailyControls(w[1], w[2], campaigns),
   kpis   |-> DashboardKPIs(w[1], w[2], campaigns)]

-----------------------------------------------------------------------------
MediaRow == [type : {"image", "video"}, campaign : CampaignIds, status : Statuses,
             size : Nat, created : Days, analyzedAt : Days \cup {NoDay},
             label : AllLabels \cup {"none"}, deleted : BOOLEAN]
ContentRow == [status : {"uploaded", "analyzing", "analyzed", "failed"},
               updated : Days, label : AllLabels \cup {"none"}]

TypeOK ==
  /\ today \in Days
  /\ sub \in [plan : Plans, active : BOOLEAN, QuotaPeriodStart : Days, customer : BOOLEAN]
  /\ gone \subseteq {"launch"}
  /\ presigns \subseteq [batch : Batches, campaign : CampaignIds]
  /\ media \in Seq(MediaRow) /\ Len(media) <= MaxMedias
  /\ contents \in [Ids -> Seq(ContentRow)]
  /\ DOMAIN uploads \subseteq Ids
  /\ \A m \in DOMAIN uploads : uploads[m] \in Sizes /\ media[m].status = "pending_upload"
  /\ reading \subseteq Ids
  /\ changes \in 0..MaxChanges
  /\ overlapped \in BOOLEAN /\ carried \in BOOLEAN /\ late \in BOOLEAN

Init ==
  /\ today \in Anchors
  /\ \E p \in Plans : sub = [plan |-> p, active |-> TRUE, QuotaPeriodStart |-> today,
                           customer |-> p # "free"]
  /\ gone = {} /\ presigns = {} /\ reading = {}
  /\ media = <<>> /\ contents = <<>> /\ uploads = <<>>
  /\ changes = 0 /\ overlapped = FALSE /\ carried = FALSE /\ late = FALSE

-----------------------------------------------------------------------------
(* Uploads *)

\* A deleted campaign takes no more media.
ResolveCampaign(c) == CampaignFound(c)

\* The checks, and the read of the campaign, which locks nothing.  Requests only
\* insert rows: one at a time is open (bound).
PresignMedia(batch, campaign) ==
  /\ presigns = {} /\ Len(media) + Len(batch) <= MaxMedias
  /\ Len(batch) > 0 /\ AssertBatchUpload(Len(batch))
  /\ \A i \in DOMAIN batch : AssertMediaUpload(batch[i], 0)
  /\ ResolveCampaign(campaign)
  /\ presigns' = presigns \cup {[batch |-> batch, campaign |-> campaign]}
  /\ UNCHANGED <<today, sub, gone, media, contents, uploads, reading, changes, overlapped, carried, late>>

NewPendingUpload(type, campaign) ==
  [type |-> type, campaign |-> campaign, status |-> "pending_upload", size |-> 0,
   created |-> today, analyzedAt |-> NoDay, label |-> "none", deleted |-> FALSE]

\* The rows are inserted under the campaign that was read, or the transaction fails.
PresignSave(r) ==
  /\ r \in presigns
  /\ presigns' = presigns \ {r}
  /\ \/ /\ Len(media) + Len(r.batch) <= MaxMedias
        /\ media' = media \o [i \in DOMAIN r.batch |-> NewPendingUpload(r.batch[i], r.campaign)]
        /\ contents' = contents \o [i \in DOMAIN r.batch |-> <<>>]
        /\ late' = (late \/ r.campaign \in gone)
     \/ UNCHANGED <<media, contents, late>>
  /\ UNCHANGED <<today, sub, gone, uploads, reading, changes, overlapped, carried>>

\* A handler works on a media it finds: one that is live, or was when the handler
\* read it.  Of one deleted media one such handler is left at most (bound).
Handles(m) ==
  /\ m \in Visible \cup reading
  /\ reading' = reading \ {m}

\* Handlers save the row as they read it, before any deletion.
AsRead(m) == late' = (late \/ media[m].deleted)

\* Mutant: the reason ends up in the status.
MarkFailedWith(m) ==
  media' = [media EXCEPT ![m].status = "quota_exceeded", ![m].deleted = FALSE] /\ AsRead(m)
MarkFailed(m) ==
  media' = [media EXCEPT ![m].status = "failed", ![m].deleted = FALSE] /\ AsRead(m)

\* The webhook of an upload: within the limits it is fetched and saved later; over
\* one of them, or if it cannot be fetched, its media fails.
ProcessUpload(m, size) ==
  /\ m \notin DOMAIN uploads /\ Handles(m)
  /\ media[m].status = "pending_upload"
  /\ \/ /\ AssertMediaUpload(media[m].type, size) /\ AssertStorageReserve(size)
        /\ uploads' = [n \in DOMAIN uploads \cup {m} |-> IF n = m THEN size ELSE uploads[n]]
        /\ UNCHANGED <<media, late>>
     \/ MarkFailed(m) /\ UNCHANGED uploads
  /\ UNCHANGED <<today, sub, gone, presigns, contents, changes, overlapped, carried>>

NewContent == [status |-> "uploaded", updated |-> today, label |-> "none"]

Fetched(m) == uploads' = [n \in DOMAIN uploads \ {m} |-> uploads[n]]

\* The row is read again, the whole row saved; an image gets its content with it.
UploadSave(m) ==
  /\ m \in DOMAIN uploads /\ Fetched(m)
  /\ Handles(m)
  /\ media' = [media EXCEPT ![m].status = "processing", ![m].size = uploads[m], ![m].deleted = FALSE]
  /\ contents' = IF media[m].type = "image" THEN [contents EXCEPT ![m] = <<NewContent>>] ELSE contents
  /\ overlapped' = (overlapped \/ DOMAIN uploads # {m})
  /\ AsRead(m)
  /\ UNCHANGED <<today, sub, gone, presigns, changes, carried>>

\* No thumbnail can be made or stored of the image that was fetched.
UploadFails(m) ==
  /\ m \in DOMAIN uploads /\ Fetched(m)
  /\ Handles(m)
  /\ media[m].type = "image" /\ MarkFailed(m)
  /\ UNCHANGED <<today, sub, gone, presigns, contents, changes, overlapped, carried>>

\* A media deleted before the row is read again is left alone.
UploadEnds(m) ==
  /\ m \in DOMAIN uploads /\ Fetched(m)
  /\ media[m].deleted
  /\ UNCHANGED <<today, sub, gone, presigns, media, contents, reading, changes, overlapped, carried, late>>

\* Frames are not checked against the storage limit.
ExtractFrames(m, n) ==
  /\ Handles(m)
  /\ media[m].type = "video" /\ media[m].status = "processing" /\ contents[m] = <<>>
  /\ IF Limits.MaxFramesPerVideo = 0 THEN MarkFailed(m) /\ UNCHANGED contents
     ELSE /\ n <= Limits.MaxFramesPerVideo /\ n <= MaxHardFrames
          /\ contents' = [contents EXCEPT ![m] = [i \in 1..n |-> NewContent]]
          /\ UNCHANGED <<media, late>>
  /\ UNCHANGED <<today, sub, gone, presigns, uploads, changes, overlapped, carried>>

-----------------------------------------------------------------------------
(* Analysis *)

SetPart(m, i, status, label) ==
  contents' = [contents EXCEPT ![m][i] = [status |-> status, updated |-> today, label |-> label]]

\* AssertAnalyze and the save under the workspace's lock: a slot is taken, or the
\* content and its media fail for the month, or the event is put off.
AnalyzeContent(m, i) ==
  /\ Handles(m)
  /\ i \in DOMAIN contents[m] /\ contents[m][i].status = "uploaded"
  /\ \/ /\ assertVerificationSlots(1) /\ assertConcurrentSlot
        /\ SetPart(m, i, "analyzing", "none")
        /\ UNCHANGED <<media, late>>
     \/ /\ ~assertVerificationSlots(1)
        /\ SetPart(m, i, "failed", "none")
        /\ IF media[m].status = "processing" THEN MarkFailed(m) ELSE UNCHANGED <<media, late>>
  /\ UNCHANGED <<today, sub, gone, presigns, uploads, changes, overlapped, carried>>

RenderVerdict(m, i, label) ==
  /\ Handles(m)
  /\ i \in DOMAIN contents[m] /\ contents[m][i].status = "analyzing"
  /\ SetPart(m, i, "analyzed", label)
  /\ UNCHANGED <<today, sub, gone, presigns, media, uploads, changes, overlapped, carried, late>>

AggregateMediaVerdict(parts) ==
  LET labels == {parts[i].label : i \in DOMAIN parts}
  IN IF "ai_generated" \in labels THEN "ai_generated"
     ELSE IF labels \cap {"uncertain", "none"} # {} THEN "uncertain" ELSE "human"

\* tryFinalizeMedia, when every content is terminal.
RenderGlobalVerdict(m) ==
  /\ Handles(m)
  /\ media[m].status = "processing" /\ contents[m] # <<>>
  /\ \A i \in DOMAIN contents[m] : contents[m][i].status \in {"analyzed", "failed"}
  /\ media' = [media EXCEPT ![m].status = "analyzed", ![m].analyzedAt = today,
                            ![m].label = AggregateMediaVerdict(contents[m]), ![m].deleted = FALSE]
  /\ AsRead(m)
  /\ carried' = (carried \/ \E i \in DOMAIN contents[m] :
                              Period(contents[m][i].updated) # Period(today))
  /\ UNCHANGED <<today, sub, gone, presigns, contents, uploads, changes, overlapped>>

\* The scheduler fails a media that has been processed for too long.
FailStale(m) ==
  /\ Handles(m)
  /\ media[m].status = "processing" /\ media[m].created < today
  /\ MarkFailed(m)
  /\ contents' = [contents EXCEPT ![m] =
       [i \in DOMAIN @ |-> IF @[i].status \in {"analyzed", "failed"} THEN @[i]
                           ELSE [@[i] EXCEPT !.status = "failed", !.updated = today]]]
  /\ UNCHANGED <<today, sub, gone, presigns, uploads, changes, overlapped, carried>>

\* The campaign is soft-deleted with its media, some of which a handler has read;
\* the default campaign stays.
DeleteCampaign(read) ==
  /\ CampaignFound("launch")
  /\ gone' = gone \cup {"launch"}
  /\ \A m \in read : media[m].campaign = "launch"
  /\ media' = [m \in Ids |-> IF media[m].campaign = "launch" THEN [media[m] EXCEPT !.deleted = TRUE]
                             ELSE media[m]]
  /\ reading' = read
  /\ UNCHANGED <<today, sub, presigns, contents, uploads, changes, overlapped, carried, late>>

-----------------------------------------------------------------------------
(* Billing changes the subscription, and time passes *)

SubscriptionChanges(new) ==
  /\ changes < MaxChanges /\ new # sub
  /\ sub' = new
  /\ changes' = changes + 1
  /\ UNCHANGED <<today, gone, presigns, media, contents, uploads, reading, overlapped, carried, late>>

\* A checkout of a free workspace counts its quota from the start of the period at
\* Stripe; that of a paid one keeps the day.
CheckoutCompleted(p, active, start) ==
  /\ p # "free" /\ start <= today
  /\ SubscriptionChanges([plan |-> p, active |-> active, customer |-> TRUE,
       QuotaPeriodStart |-> IF sub.plan = "free" THEN start ELSE sub.QuotaPeriodStart])

\* Updates, payments and the downgrade to the free plan keep the day; they find the
\* row by what a checkout has stored in it.  The status of a free plan changes nothing.
SubscriptionUpdated(p, active) ==
  /\ sub.customer /\ (p = "free" => active)
  /\ SubscriptionChanges([sub EXCEPT !.plan = p, !.active = active])

DaysPass(d) ==
  /\ today < d
  /\ today' = d
  /\ UNCHANGED <<sub, gone, presigns, media, contents, uploads, reading,
                 changes, overlapped, carried, late>>

Next ==
  \/ \E batch \in Batches, c \in CampaignIds : PresignMedia(batch, c)
  \/ \E r \in presigns : PresignSave(r)
  \/ \E m \in Ids :
       \/ \E size \in Sizes : ProcessUpload(m, size)
       \/ UploadSave(m) \/ UploadFails(m) \/ UploadEnds(m)
       \/ \E n \in 1..MaxHardFrames : ExtractFrames(m, n)
       \/ \E i \in 1..MaxHardFrames : AnalyzeContent(m, i) \/ \E l \in Labels : RenderVerdict(m, i, l)
       \/ RenderGlobalVerdict(m) \/ FailStale(m)
  \/ \E read \in SUBSET Visible : DeleteCampaign(read)
  \/ \E p \in Plans, a \in BOOLEAN :
       \/ \E start \in Days : CheckoutCompleted(p, a, start)
       \/ SubscriptionUpdated(p, a)
  \/ \E d \in Days : DaysPass(d)

Spec == Init /\ [][Next]_vars

-----------------------------------------------------------------------------
(* Properties *)

\* The quota periods of a subscription follow each other without gap or overlap:
\* today is in its own period, and the period of an earlier day is the same one
\* or over.  None is shorter than February or longer than 31 days, from whatever
\* day of the month they are counted.  Earlier days are those since the day the
\* periods are counted from now; a checkout of a free workspace sets that day anew.
PeriodsTile ==
  LET p == Period(today)
  IN /\ p[1] <= today /\ today < p[2]
     /\ p[2] - p[1] \in 28..31
     /\ \A d \in sub.QuotaPeriodStart..today :
          LET q == Period(d)
          IN q[1] <= d /\ d < q[2] /\ (q = p \/ q[2] <= p[1])

\* While the subscription does not change, no quota period has more verifications
\* begun and rendered than the plan and its grace allow: analyses that run over the
\* end of a period are counted in the next one too.  A media finalized in a later
\* period than one of its verdicts takes that verdict along and may push the later
\* period over its limit; the second condition excludes it.
VerificationsPerPeriod ==
  changes = 0 /\ ~carried /\ Limits.OveragePriceCents = 0 =>
    Usage.verifications <= Limits.MaxVerificationsPerMonth + Limits.Grace

\* While the subscription does not change and no upload is saved while another is
\* between check and save, the files accepted fit the plan's storage.  Frames, which
\* are counted but not checked, may exceed it.
StorageBounded ==
  changes = 0 /\ ~overlapped /\ Limits.MaxStorage > 0 => MediaBytes <= Limits.MaxStorage

\* A window that is asked for and answered: no dates, or one that has begun by its end.
Asked == {w \in Windows : IF w[1] = NoDay THEN w[2] = NoDay
                          ELSE w[1] <= IF w[2] = NoDay THEN today ELSE w[2]}

\* Each figure of the dashboard is the length of the list it links to, the days
\* add up to the window, every analyzed media has exactly one verdict, a
\* verification is in the window or in the one it is compared with, never in both
\* or between them, and the counters of a campaign are the dashboard's over all time.
\* The figures of a deleted campaign are those of its list, none, unless a media was
\* saved after the deletion by a request or handler that had read before it: such a
\* media is counted, and its list is answered with 404.
DashboardAddsUp ==
  /\ \A w \in {ParseMediaStatsPeriod(x[1], x[2]) : x \in Asked}, campaigns \in {{}, {"launch"}} :
       LET stats == Stats(w, campaigns)
           total(s, l) == Cardinality(ListByClient(w[1], w[2], campaigns, s, l))
           listed == late => campaigns \cap gone = {}
       IN /\ \A s \in Statuses :
               /\ listed => stats.counts.status[s] = total({s}, {})
               /\ stats.counts.status[s] =
                    Total([d \in DOMAIN stats.daily |-> stats.daily[d].status[s]], DOMAIN stats.daily)
          /\ \A l \in AllLabels : listed => stats.counts.label[l] = total({}, {l})
          /\ stats.counts.status["analyzed"] = Total(stats.counts.label, AllLabels)
          /\ stats.kpis.verifications = stats.kpis.validated + stats.kpis.toReview + stats.kpis.aiGenerated
          /\ stats.kpis.verifications + stats.kpis.previous =
               Verified(PreviousStatsPeriod(w[1], w[2])[1], w[2], campaigns, AllLabels)
          /\ stats.kpis.authenticityRate + stats.kpis.aiShare <= 1001
  /\ \A c \in CampaignIds : AttachContentCounts(c) = CountStatsByClientID(1, Horizon, {c})

\* Leafing through GET /medias shows every media created since the given day, or
\* ever, exactly once.
PagesCoverList ==
  \A limit \in 1..MaxMedias, from \in Days \cup {NoDay} :
    LET rows  == {m \in Visible : from <= media[m].created}
        pages == 1..TotalPages(Cardinality(rows), limit)
    IN /\ UNION {List(from, NoDay, p, limit) : p \in pages} = rows
       /\ \A p, q \in pages : p # q => List(from, NoDay, p, limit) \cap List(from, NoDay, q, limit) = {}

-----------------------------------------------------------------------------
(* The inductive invariant behind the properties *)

\* Nothing is dated after today or, while the subscription does not change, before
\* its start.
Dated ==
  /\ sub.QuotaPeriodStart <= today
  /\ \A m \in Ids :
       /\ media[m].created <= today /\ media[m].analyzedAt <= today
       /\ \A i \in DOMAIN contents[m] :
            /\ contents[m][i].updated <= today
            /\ changes = 0 => sub.QuotaPeriodStart <= contents[m][i].updated

\* A media has its verdict and the day of it when it is analyzed, and no size
\* before it is uploaded; a content of an image or at most the frames of a video.
Progress ==
  \A m \in Ids :
    /\ media[m].status = "analyzed" <=> media[m].analyzedAt # NoDay
    /\ media[m].status = "analyzed" <=> media[m].label # "none"
    /\ media[m].status = "pending_upload" => media[m].size = 0
    /\ Len(contents[m]) <= MaxHardFrames + 1

\* A deleted campaign has no media, as long as none is saved late.
Together == ~late => \A m \in Visible : media[m].campaign \notin gone

\* An upload that was checked still fits, while none is saved before it.
Reserved ==
  changes = 0 /\ ~overlapped /\ Limits.MaxStorage > 0 =>
    \A m \in DOMAIN uploads : MediaBytes + uploads[m] <= Limits.MaxStorage

QuotaInv ==
  Dated /\ Progress /\ Together /\ Reserved /\ VerificationsPerPeriod /\ StorageBounded
=============================================================================
