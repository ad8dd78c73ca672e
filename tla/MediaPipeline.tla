--------------------------- MODULE MediaPipeline ---------------------------
(***************************************************************************)
(* The life of the media of one campaign: presign, upload processing,      *)
(* frame extraction, analysis, the media verdict, the scheduler's recovery *)
(* of stale media, and the deletion of the campaign.                       *)
(*                                                                         *)
(* Handlers run in several processes against one Postgres database at READ *)
(* COMMITTED.  GetByID and ListByMediaID take no row lock and Update saves *)
(* the whole row, so a transaction is two or more steps here: its reads,   *)
(* and the writes that commit.  A write made from an older read overwrites *)
(* what others committed in between, deleted_at included.                  *)
(*                                                                         *)
(* The row a handler writes follows from what its guard read: a row read   *)
(* as pending or processing is not deleted and has no verdict, a content   *)
(* read as uploaded or analyzing has no label.  So a task keeps no copy of *)
(* the rows it has read, only what it decided from them.                   *)
(*                                                                         *)
(* An event is handled, given back for another attempt, or gone: dead      *)
(* lettered, or lost with the process that handled it (EventDelivery).     *)
(***************************************************************************)
EXTENDS Naturals, FiniteSets

CONSTANTS
  Images, Videos,    \* the media of one campaign
  FramesPerVideo,    \* frames the extractor returns
  Workers,           \* goroutines of the api, the worker and the analysis processes
  Scheduler,         \* the one goroutine of the scheduler process
  NoWorker,          \* nobody holds the advisory lock
  NoEntity,          \* an idle goroutine works on nothing
  Jobs,              \* the kinds of work this instance takes on
  MaxConcurrent,     \* plan: max_concurrent_analyses
  MaxVerifications,  \* plan: max_verifications_per_month plus the grace
  Labels,            \* what the detectors may conclude
  MaxEvents,         \* bound: undelivered events told apart, per entity
  MaxFaults          \* bound: handlers that fail or die midway

Medias   == Images \cup Videos
Procs    == Workers \cup {Scheduler}
\* Contents are identified by what their unique object_key is built from.
Contents == (Images \X {0}) \cup (Videos \X (1..FramesPerVideo))
Owner(c) == c[1]
Parts(m) == {c \in Contents : Owner(c) = m}

AllLabels == {"human", "ai_generated", "uncertain"}
JobKinds  == {"upload", "duplicate", "extract", "analyze", "recover", "delete"}

ASSUME PipelineAssumption ==
  /\ Images \cap Videos = {} /\ Medias \cap Contents = {}
  /\ NoEntity \notin Medias \cup Contents
  /\ IsFiniteSet(Images) /\ IsFiniteSet(Videos)
  /\ FramesPerVideo \in Nat \ {0}
  /\ MaxConcurrent \in Nat
  /\ MaxVerifications \in Nat
  /\ Labels \subseteq AllLabels
  /\ Jobs \subseteq JobKinds
  /\ MaxEvents \in Nat \ {0}
  /\ MaxFaults \in Nat
  /\ Scheduler \notin Workers
  /\ NoWorker \notin Workers \cup {Scheduler}

VARIABLES
  campaignDeleted,  \* the campaign row's deleted_at
  media,            \* media rows
  content,          \* content rows
  stale,            \* media and contents with updated_at before the cutoff
  old,              \* media with created_at before the max-age cutoff
  objects,          \* object storage: <<media, "original" | "derived">>
  extracts,         \* undelivered media.uploaded events of a video
  analyses,         \* undelivered content.uploaded events of a content
  deletes,          \* undelivered media.deleted events: <<media, derived keys known>>
  analysisLock,     \* pg_advisory_xact_lock of the workspace
  task,             \* what each goroutine is doing and has decided
  faults            \* faults so far

rowVars   == <<media, content, stale>>
eventVars == <<extracts, analyses, deletes>>
vars == <<campaignDeleted, rowVars, old, objects, eventVars, analysisLock,
          task, faults>>

Row(s, v)  == [status |-> s, deleted |-> FALSE, verdict |-> v]
Part(s, l) == [status |-> s, label |-> l]
NoTask     == [pc |-> "idle", of |-> NoEntity, label |-> "none", due |-> {}]

\* The rows that the methods of Media and Content leave to be saved.
NewPendingUpload       == Row("pending_upload", "none")
StartProcessing        == Row("processing", "none")
RenderGlobalVerdict(v) == Row("analyzed", v)
MarkFailed             == Row("failed", "none")
Touch                  == Row("processing", "none")
RequeueUploaded        == Row("processing", "none")

NewFromMedia    == Part("uploaded", "none")
StartAnalysis   == Part("analyzing", "none")
RenderVerdict(l) == Part("analyzed", l)
MarkPartFailed  == Part("failed", "none")
RequeueAnalysis == Part("uploaded", "none")

MediaRows ==
  [status : {"none", "pending_upload", "processing", "analyzed", "failed"},
   deleted : BOOLEAN, verdict : AllLabels \cup {"none"}]
ContentRows ==
  [status : {"none", "uploaded", "analyzing", "analyzed", "failed"},
   label : AllLabels \cup {"none"}]

MediaSteps ==
  {"presign", "upload", "upload_tx", "upload_save", "upload_failed",
   "upload_fail_save", "extract", "extract_tx", "extract_save",
   "extract_failed", "extract_fail_save", "fail_tx", "fail_list",
   "fail_save", "requeue_tx", "requeue_list", "requeue_lost",
   "requeue_verdict", "requeue_parts"}
ContentSteps ==
  {"start", "assert", "start_save", "quota_failed", "quota_fail_part",
   "quota_fail_both", "detect", "verdict", "verdict_save", "finalize",
   "finalize_list", "finalize_save"}

Tasks == [pc : {"idle"}, of : {NoEntity}, label : {"none"}, due : {{}}]
         \cup [pc : MediaSteps, of : Medias, label : AllLabels \cup {"none"},
               due : SUBSET Contents]
         \cup [pc : ContentSteps, of : Contents, label : AllLabels \cup {"none"},
               due : {{}}]

TypeOK ==
  /\ campaignDeleted \in BOOLEAN
  /\ media \in [Medias -> MediaRows]
  /\ content \in [Contents -> ContentRows]
  /\ stale \subseteq Medias \cup Contents
  /\ old \subseteq Medias
  /\ objects \subseteq Medias \X {"original", "derived"}
  /\ extracts \in [Medias -> 0..MaxEvents]
  /\ analyses \in [Contents -> 0..MaxEvents]
  /\ deletes \subseteq Medias \X BOOLEAN
  /\ analysisLock \in Workers \cup {NoWorker}
  /\ task \in [Procs -> Tasks]
  /\ faults \in 0..MaxFaults

Init ==
  /\ campaignDeleted = FALSE
  /\ media = [m \in Medias |-> Row("none", "none")]
  /\ content = [c \in Contents |-> Part("none", "none")]
  /\ stale = {}
  /\ old = {}
  /\ objects = {}
  /\ extracts = [m \in Medias |-> 0]
  /\ analyses = [c \in Contents |-> 0]
  /\ deletes = {}
  /\ analysisLock = NoWorker
  /\ task = [w \in Procs |-> NoTask]
  /\ faults = 0

-----------------------------------------------------------------------------
(* Rows, events and tasks *)

\* What GetByID and ListByMediaID see: rows of media that are not deleted.
Visible(m)     == media[m].status # "none" /\ ~media[m].deleted
Is(m, s)       == Visible(m) /\ media[m].status = s
Existing(m)    == {c \in Parts(m) : content[c].status # "none"}
Listed(m)      == IF Visible(m) THEN Existing(m) ELSE {}
MediaEnded(m)  == media[m].status \in {"analyzed", "failed"}
IsTerminal(c)  == content[c].status \in {"analyzed", "failed"}
Analyzing      == {c \in Contents : content[c].status = "analyzing"}
Charged        == {c \in Contents : content[c].status \in {"analyzing", "analyzed"}}

\* Update saves the whole row, with a new updated_at.
SaveMedia(m, row)   == media' = [media EXCEPT ![m] = row]
SaveContents(S, row) ==
  content' = [c \in Contents |-> IF c \in S THEN row ELSE content[c]]
Fresh(S) == stale' = stale \ S

\* AggregateMediaVerdict over a set of contents.
AggregateMediaVerdict(S) ==
  LET labels == {content[c].label : c \in {d \in S : content[d].status # "failed"}}
      failed == \E c \in S : content[c].status = "failed"
  IN  IF "ai_generated" \in labels THEN "ai_generated"
      ELSE IF failed \/ labels \cap {"uncertain", "none"} # {} THEN "uncertain"
      ELSE "human"

More(n) == IF n < MaxEvents THEN n + 1 ELSE n

\* The outbox takes a content.uploaded event for each content of S.
AddAnalyses(S) ==
  analyses' = [c \in Contents |-> IF c \in S THEN More(analyses[c]) ELSE analyses[c]]

At(w, pc)     == task[w].pc = pc
Of(w)         == task[w].of
Goes(w, t)    == task' = [task EXCEPT ![w] = t]
Starts(w, pc, x) == Goes(w, [NoTask EXCEPT !.pc = pc, !.of = x])
Step(w, pc)   == Goes(w, [task[w] EXCEPT !.pc = pc])
Ends(w)       == Goes(w, NoTask)
Takes(w, job) == At(w, "idle") /\ w \in Workers /\ job \in Jobs

\* A failed attempt: the event is given back, or dead lettered when its retry
\* budget is spent.
Retry(w) ==
  /\ Ends(w)
  /\ \/ UNCHANGED <<extracts, analyses>>
     \/ /\ Of(w) \in Medias
        /\ extracts' = [extracts EXCEPT ![Of(w)] = More(@)]
        /\ UNCHANGED analyses
     \/ /\ Of(w) \in Contents
        /\ AddAnalyses({Of(w)})
        /\ UNCHANGED extracts

-----------------------------------------------------------------------------
(* Presign and upload *)

\* The presign transaction finds the campaign active ...
PresignRead(w, m) ==
  /\ Takes(w, "upload")
  /\ media[m].status = "none"
  /\ \A v \in Workers : Of(v) # m
  /\ ~campaignDeleted
  /\ Starts(w, "presign", m)
  /\ UNCHANGED <<campaignDeleted, rowVars, old, objects, eventVars, analysisLock, faults>>

\* ... and creates the row; the campaign is not locked.
PresignSave(w) ==
  /\ At(w, "presign")
  /\ SaveMedia(Of(w), NewPendingUpload)
  /\ Ends(w)
  /\ UNCHANGED <<campaignDeleted, content, stale, old, objects, eventVars, analysisLock, faults>>

\* The client uses the presigned URL while the row waits for it; a file that is put
\* once the row has changed is left out.
PutOriginal(m) ==
  /\ media[m].status = "pending_upload"
  /\ objects' = objects \cup {<<m, "original">>}
  /\ objects' # objects
  /\ UNCHANGED <<campaignDeleted, rowVars, old, eventVars, analysisLock, task, faults>>

\* A storage webhook finds the row pending.  Storage may notify twice: in
\* instances with "duplicate" while the first webhook is at work.
ProcessUpload(w, m) ==
  /\ Takes(w, "upload")
  /\ "duplicate" \in Jobs \/ \A v \in Workers : Of(v) # m
  /\ <<m, "original">> \in objects
  /\ Is(m, "pending_upload")
  /\ Starts(w, "upload", m)
  /\ UNCHANGED <<campaignDeleted, rowVars, old, objects, eventVars, analysisLock, faults>>

\* Size and quota checks passed, the object was read, an image has a thumbnail.
UploadReady(w) ==
  /\ At(w, "upload")
  /\ <<Of(w), "original">> \in objects
  /\ objects' = objects \cup (IF Of(w) \in Images THEN {<<Of(w), "derived">>} ELSE {})
  /\ Step(w, "upload_tx")
  /\ UNCHANGED <<campaignDeleted, rowVars, old, eventVars, analysisLock, faults>>

\* handleImage, handleVideo: the transaction reads the row again.
UploadRead(w) ==
  /\ At(w, "upload_tx")
  /\ IF Is(Of(w), "pending_upload") THEN Step(w, "upload_save") ELSE Ends(w)
  /\ UNCHANGED <<campaignDeleted, rowVars, old, objects, eventVars, analysisLock, faults>>

\* MarkUploaded, StartProcessing; an image gets its one content, unless the
\* unique object_key rolls the transaction back.
UploadImageSave(w) ==
  /\ At(w, "upload_save")
  /\ Of(w) \in Images
  /\ IF Existing(Of(w)) = {}
       THEN /\ SaveMedia(Of(w), StartProcessing)
            /\ SaveContents(Parts(Of(w)), NewFromMedia)
            /\ AddAnalyses(Parts(Of(w)))
            /\ Fresh({Of(w)} \cup Parts(Of(w)))
       ELSE UNCHANGED <<rowVars, analyses>>
  /\ Ends(w)
  /\ UNCHANGED <<campaignDeleted, old, objects, extracts, deletes, analysisLock, faults>>

UploadVideoSave(w) ==
  /\ At(w, "upload_save")
  /\ Of(w) \in Videos
  /\ SaveMedia(Of(w), StartProcessing)
  /\ Fresh({Of(w)})
  /\ extracts' = [extracts EXCEPT ![Of(w)] = More(@)]
  /\ Ends(w)
  /\ UNCHANGED <<campaignDeleted, content, old, objects, analyses, deletes, analysisLock, faults>>

\* fail: any check, read or thumbnail error first deletes the uploaded object.
UploadFails(w) ==
  /\ At(w, "upload")
  /\ objects' = objects \ {<<Of(w), "original">>}
  /\ Step(w, "upload_failed")
  /\ UNCHANGED <<campaignDeleted, rowVars, old, eventVars, analysisLock, faults>>

UploadFailRead(w) ==
  /\ At(w, "upload_failed")
  /\ IF Is(Of(w), "pending_upload") THEN Step(w, "upload_fail_save") ELSE Ends(w)
  /\ UNCHANGED <<campaignDeleted, rowVars, old, objects, eventVars, analysisLock, faults>>

UploadFailSave(w) ==
  /\ At(w, "upload_fail_save")
  /\ SaveMedia(Of(w), MarkFailed)
  /\ Fresh({Of(w)})
  /\ Ends(w)
  /\ UNCHANGED <<campaignDeleted, content, old, objects, eventVars, analysisLock, faults>>

-----------------------------------------------------------------------------
(* Frame extraction: one attempt at a media.uploaded event of a video *)

ExtractFrames(w, m) ==
  /\ Takes(w, "extract")
  /\ extracts[m] > 0
  /\ extracts' = [extracts EXCEPT ![m] = @ - 1]
  /\ IF Is(m, "processing") /\ Listed(m) = {} THEN Starts(w, "extract", m) ELSE Ends(w)
  /\ UNCHANGED <<campaignDeleted, rowVars, old, objects, analyses, deletes, analysisLock, faults>>

\* The frames are extracted and every frame is put into storage.
ExtractPut(w) ==
  /\ At(w, "extract")
  /\ <<Of(w), "original">> \in objects
  /\ objects' = objects \cup {<<Of(w), "derived">>}
  /\ Step(w, "extract_tx")
  /\ UNCHANGED <<campaignDeleted, rowVars, old, eventVars, analysisLock, faults>>

\* The quota lookup or a Put fails, after some frames or none.
ExtractPutFails(w) ==
  /\ At(w, "extract")
  /\ \/ UNCHANGED objects
     \/ /\ <<Of(w), "original">> \in objects
        /\ objects' = objects \cup {<<Of(w), "derived">>}
  /\ Retry(w)
  /\ UNCHANGED <<campaignDeleted, rowVars, old, deletes, analysisLock, faults>>

\* The plan allows no video, or the download or ffmpeg fails: failMedia.
ExtractFails(w) ==
  /\ At(w, "extract")
  /\ Step(w, "extract_failed")
  /\ UNCHANGED <<campaignDeleted, rowVars, old, objects, eventVars, analysisLock, faults>>

ExtractFailRead(w) ==
  /\ At(w, "extract_failed")
  /\ IF Visible(Of(w)) /\ ~MediaEnded(Of(w))
       THEN Step(w, "extract_fail_save") /\ UNCHANGED <<extracts, analyses>>
       ELSE Retry(w)
  /\ UNCHANGED <<campaignDeleted, rowVars, old, objects, deletes, analysisLock, faults>>

ExtractFailSave(w) ==
  /\ At(w, "extract_fail_save")
  /\ SaveMedia(Of(w), MarkFailed)
  /\ Fresh({Of(w)})
  /\ Retry(w)
  /\ UNCHANGED <<campaignDeleted, content, old, objects, deletes, analysisLock, faults>>

\* The transaction checks the media exists and still has no contents; the
\* status is not looked at again.
ExtractRead(w) ==
  /\ At(w, "extract_tx")
  /\ IF Visible(Of(w)) /\ Listed(Of(w)) = {} THEN Step(w, "extract_save") ELSE Ends(w)
  /\ UNCHANGED <<campaignDeleted, rowVars, old, objects, eventVars, analysisLock, faults>>

\* Mutant: no unique index on the object_key of contents.
ExtractSaveAgain(w) ==
  /\ At(w, "extract_save")
  /\ SaveContents(Parts(Of(w)), NewFromMedia)
  /\ AddAnalyses(Parts(Of(w)))
  /\ Fresh(Parts(Of(w)))
  /\ Ends(w)
  /\ UNCHANGED <<campaignDeleted, media, old, objects, extracts, deletes, analysisLock, faults>>

ExtractSave(w) ==
  /\ At(w, "extract_save")
  /\ Existing(Of(w)) = {}
  /\ SaveContents(Parts(Of(w)), NewFromMedia)
  /\ AddAnalyses(Parts(Of(w)))
  /\ Fresh(Parts(Of(w)))
  /\ Ends(w)
  /\ UNCHANGED <<campaignDeleted, media, old, objects, extracts, deletes, analysisLock, faults>>

\* Another extraction committed first: the unique object_key is violated.
ExtractConflict(w) ==
  /\ At(w, "extract_save")
  /\ Existing(Of(w)) # {}
  /\ Retry(w)
  /\ UNCHANGED <<campaignDeleted, rowVars, old, objects, deletes, analysisLock, faults>>

UploadNext(w) ==
  \/ \E m \in Medias : PresignRead(w, m) \/ ProcessUpload(w, m)
  \/ PresignSave(w)
  \/ UploadReady(w) \/ UploadRead(w) \/ UploadImageSave(w) \/ UploadVideoSave(w)
  \/ UploadFails(w) \/ UploadFailRead(w) \/ UploadFailSave(w)

ExtractNext(w) ==
  \/ \E m \in Videos : ExtractFrames(w, m)
  \/ ExtractPut(w) \/ ExtractPutFails(w) \/ ExtractFails(w) \/ ExtractFailRead(w)
  \/ ExtractFailSave(w) \/ ExtractRead(w) \/ ExtractSave(w) \/ ExtractConflict(w)

-----------------------------------------------------------------------------
(* Analysis: one attempt at a content.uploaded event *)

AnalyzeContent(w, c) ==
  /\ Takes(w, "analyze")
  /\ analyses[c] > 0
  /\ analyses' = [analyses EXCEPT ![c] = @ - 1]
  /\ LET status == IF Visible(Owner(c)) THEN content[c].status ELSE "none" IN
       \/ status = "analyzed" /\ Starts(w, "finalize", c)
       \/ status = "analyzing" /\ Starts(w, "detect", c)
       \/ status = "uploaded" /\ Starts(w, "start", c)
       \/ status \in {"none", "failed"} /\ Ends(w)
  /\ UNCHANGED <<campaignDeleted, rowVars, old, objects, extracts, deletes, analysisLock, faults>>

\* The media is gone when it is read after the content: an error.
StartMediaGone(w) ==
  /\ At(w, "start")
  /\ ~Visible(Owner(Of(w)))
  /\ Retry(w)
  /\ UNCHANGED <<campaignDeleted, rowVars, old, objects, deletes, analysisLock, faults>>

\* The transaction reads the content again; if it is gone or no longer
\* uploaded the handler goes on to the detectors all the same.
StartRead(w) ==
  /\ At(w, "start")
  /\ Step(w, IF Visible(Owner(Of(w))) /\ content[Of(w)].status = "uploaded"
               THEN "assert" ELSE "detect")
  /\ UNCHANGED <<campaignDeleted, rowVars, old, objects, eventVars, analysisLock, faults>>

VerificationLeft == Cardinality(Charged) < MaxVerifications
SlotLeft         == Cardinality(Analyzing) < MaxConcurrent

\* Mutant: the usage is read without the lock.
AssertUnlocked(w) ==
  /\ At(w, "assert")
  /\ VerificationLeft /\ SlotLeft
  /\ analysisLock' = w
  /\ Step(w, "start_save")
  /\ UNCHANGED <<campaignDeleted, rowVars, old, objects, eventVars, faults>>

\* AssertAnalyze: take the workspace lock, then read the usage.  The counts
\* include the contents of deleted media.
AssertAnalyze(w) ==
  /\ At(w, "assert")
  /\ analysisLock = NoWorker
  /\ VerificationLeft /\ SlotLeft
  /\ analysisLock' = w
  /\ Step(w, "start_save")
  /\ UNCHANGED <<campaignDeleted, rowVars, old, objects, eventVars, faults>>

\* No slot: rolled back and deferred.
AnalyzeDeferred(w) ==
  /\ At(w, "assert")
  /\ analysisLock = NoWorker
  /\ VerificationLeft /\ ~SlotLeft
  /\ Retry(w)
  /\ UNCHANGED <<campaignDeleted, rowVars, old, objects, deletes, analysisLock, faults>>

\* No verification left: rolled back, then failQuotaBlockedAnalysis.
AnalyzeBlocked(w) ==
  /\ At(w, "assert")
  /\ analysisLock = NoWorker
  /\ ~VerificationLeft
  /\ Step(w, "quota_failed")
  /\ UNCHANGED <<campaignDeleted, rowVars, old, objects, eventVars, analysisLock, faults>>

\* StartAnalysis commits, which releases the lock.
StartSave(w) ==
  /\ At(w, "start_save")
  /\ SaveContents({Of(w)}, StartAnalysis)
  /\ Fresh({Of(w)})
  /\ analysisLock' = NoWorker
  /\ Step(w, "detect")
  /\ UNCHANGED <<campaignDeleted, media, old, objects, eventVars, faults>>

\* Mutant: the media is left alone when the quota blocks a content.
QuotaFailPartOnly(w) ==
  /\ At(w, "quota_failed")
  /\ Step(w, "quota_fail_part")
  /\ UNCHANGED <<campaignDeleted, rowVars, old, objects, eventVars, analysisLock, faults>>

\* The content is written from the handler's first read, not read again.
QuotaFailRead(w) ==
  /\ At(w, "quota_failed")
  /\ Step(w, IF Visible(Owner(Of(w))) /\ ~MediaEnded(Owner(Of(w)))
               THEN "quota_fail_both" ELSE "quota_fail_part")
  /\ UNCHANGED <<campaignDeleted, rowVars, old, objects, eventVars, analysisLock, faults>>

QuotaFailSave(w) ==
  /\ \/ /\ At(w, "quota_fail_both")
        /\ SaveMedia(Owner(Of(w)), MarkFailed)
        /\ Fresh({Owner(Of(w)), Of(w)})
     \/ /\ At(w, "quota_fail_part")
        /\ UNCHANGED media
        /\ Fresh({Of(w)})
  /\ SaveContents({Of(w)}, MarkPartFailed)
  /\ Ends(w)
  /\ UNCHANGED <<campaignDeleted, old, objects, eventVars, analysisLock, faults>>

\* The detectors' results are aggregated into a label.
Detect(w, l) ==
  /\ At(w, "detect")
  /\ Goes(w, [task[w] EXCEPT !.pc = "verdict", !.label = l])
  /\ UNCHANGED <<campaignDeleted, rowVars, old, objects, eventVars, analysisLock, faults>>

VerdictRead(w) ==
  /\ At(w, "verdict")
  /\ Step(w, IF Visible(Owner(Of(w))) /\ content[Of(w)].status = "analyzing"
               THEN "verdict_save" ELSE "finalize")
  /\ UNCHANGED <<campaignDeleted, rowVars, old, objects, eventVars, analysisLock, faults>>

\* Mutant: RenderVerdict without ValidateLabel.
VerdictUnchecked(w) ==
  /\ At(w, "verdict_save")
  /\ SaveContents({Of(w)}, RenderVerdict("unknown"))
  /\ Fresh({Of(w)})
  /\ Step(w, "finalize")
  /\ UNCHANGED <<campaignDeleted, media, old, objects, eventVars, analysisLock, faults>>

VerdictSave(w) ==
  /\ At(w, "verdict_save")
  /\ SaveContents({Of(w)}, RenderVerdict(task[w].label))
  /\ Fresh({Of(w)})
  /\ Step(w, "finalize")
  /\ UNCHANGED <<campaignDeleted, media, old, objects, eventVars, analysisLock, faults>>

\* tryFinalizeMedia reads the media, then its contents, then saves.
FinalizeRead(w) ==
  /\ At(w, "finalize")
  /\ IF Visible(Owner(Of(w))) /\ ~MediaEnded(Owner(Of(w)))
       THEN Step(w, "finalize_list") ELSE Ends(w)
  /\ UNCHANGED <<campaignDeleted, rowVars, old, objects, eventVars, analysisLock, faults>>

\* Mutant: a verdict as soon as one content is terminal.
FinalizeEarly(w) ==
  /\ At(w, "finalize_list")
  /\ LET parts == Listed(Owner(Of(w))) IN
       IF \E c \in parts : IsTerminal(c)
         THEN Goes(w, [task[w] EXCEPT !.pc = "finalize_save",
                                      !.label = AggregateMediaVerdict(parts)])
         ELSE Ends(w)
  /\ UNCHANGED <<campaignDeleted, rowVars, old, objects, eventVars, analysisLock, faults>>

FinalizeList(w) ==
  /\ At(w, "finalize_list")
  /\ LET parts == Listed(Owner(Of(w))) IN
       IF parts # {} /\ \A c \in parts : IsTerminal(c)
         THEN Goes(w, [task[w] EXCEPT !.pc = "finalize_save",
                                      !.label = AggregateMediaVerdict(parts)])
         ELSE Ends(w)
  /\ UNCHANGED <<campaignDeleted, rowVars, old, objects, eventVars, analysisLock, faults>>

FinalizeSave(w) ==
  /\ At(w, "finalize_save")
  /\ SaveMedia(Owner(Of(w)), RenderGlobalVerdict(task[w].label))
  /\ Fresh({Owner(Of(w))})
  /\ Ends(w)
  /\ UNCHANGED <<campaignDeleted, content, old, objects, eventVars, analysisLock, faults>>

AnalyzeNext(w) ==
  \/ \E c \in Contents : AnalyzeContent(w, c)
  \/ StartMediaGone(w) \/ StartRead(w)
  \/ AssertAnalyze(w) \/ AnalyzeDeferred(w) \/ AnalyzeBlocked(w) \/ StartSave(w)
  \/ QuotaFailRead(w) \/ QuotaFailSave(w)
  \/ \E l \in Labels : Detect(w, l)
  \/ VerdictRead(w) \/ VerdictSave(w)
  \/ FinalizeRead(w) \/ FinalizeList(w) \/ FinalizeSave(w)

-----------------------------------------------------------------------------
(* The scheduler's recovery of stale media, one media at a time *)

\* Mutant: the max age is never looked at.
RecoverAgeless(m) ==
  /\ At(Scheduler, "idle")
  /\ "recover" \in Jobs
  /\ Is(m, "processing")
  /\ m \in stale
  /\ Starts(Scheduler, "requeue_tx", m)
  /\ UNCHANGED <<campaignDeleted, rowVars, old, objects, eventVars, analysisLock, faults>>

\* ListProcessingUpdatedBefore, and the choice by created_at.
RecoverPick(m) ==
  /\ At(Scheduler, "idle")
  /\ "recover" \in Jobs
  /\ Is(m, "processing")
  /\ m \in stale
  /\ Starts(Scheduler, IF m \in old THEN "fail_tx" ELSE "requeue_tx", m)
  /\ UNCHANGED <<campaignDeleted, rowVars, old, objects, eventVars, analysisLock, faults>>

RecoverRead ==
  /\ task[Scheduler].pc \in {"fail_tx", "requeue_tx"}
  /\ IF Is(Of(Scheduler), "processing")
       THEN Step(Scheduler, IF At(Scheduler, "fail_tx") THEN "fail_list" ELSE "requeue_list")
       ELSE Ends(Scheduler)
  /\ UNCHANGED <<campaignDeleted, rowVars, old, objects, eventVars, analysisLock, faults>>

\* failMedia: the contents to fail are those not terminal.
FailList ==
  /\ At(Scheduler, "fail_list")
  /\ Goes(Scheduler, [task[Scheduler] EXCEPT
            !.pc = "fail_save",
            !.due = {c \in Listed(Of(Scheduler)) : ~IsTerminal(c)}])
  /\ UNCHANGED <<campaignDeleted, rowVars, old, objects, eventVars, analysisLock, faults>>

FailSave ==
  /\ At(Scheduler, "fail_save")
  /\ SaveMedia(Of(Scheduler), MarkFailed)
  /\ SaveContents(task[Scheduler].due, MarkPartFailed)
  /\ Fresh({Of(Scheduler)} \cup task[Scheduler].due)
  /\ Ends(Scheduler)
  /\ UNCHANGED <<campaignDeleted, old, objects, eventVars, analysisLock, faults>>

\* requeueMedia decides from the listed contents: none; all terminal; or some
\* still uploaded and stale.
RequeueList ==
  /\ At(Scheduler, "requeue_list")
  /\ LET parts == Listed(Of(Scheduler))
         due   == {c \in parts \cap stale : content[c].status = "uploaded"}
         Then(pc) == Goes(Scheduler, [task[Scheduler] EXCEPT
                             !.pc = pc, !.due = due,
                             !.label = AggregateMediaVerdict(parts)])
     IN  \/ parts = {} /\ Then("requeue_lost")
         \/ parts # {} /\ (\A c \in parts : IsTerminal(c)) /\ Then("requeue_verdict")
         \/ due # {} /\ Then("requeue_parts")
         \/ due = {} /\ (\E c \in parts : ~IsTerminal(c)) /\ Ends(Scheduler)
  /\ UNCHANGED <<campaignDeleted, rowVars, old, objects, eventVars, analysisLock, faults>>

\* No contents: an image is failed, a video's media.uploaded is emitted again.
RequeueLost ==
  /\ At(Scheduler, "requeue_lost")
  /\ LET m == Of(Scheduler) IN
       \/ /\ m \in Images
          /\ SaveMedia(m, MarkFailed)
          /\ UNCHANGED extracts
       \/ /\ m \in Videos
          /\ SaveMedia(m, RequeueUploaded)
          /\ extracts' = [extracts EXCEPT ![m] = More(@)]
  /\ Fresh({Of(Scheduler)})
  /\ Ends(Scheduler)
  /\ UNCHANGED <<campaignDeleted, content, old, objects, analyses, deletes, analysisLock, faults>>

RequeueVerdict ==
  /\ At(Scheduler, "requeue_verdict")
  /\ SaveMedia(Of(Scheduler), RenderGlobalVerdict(task[Scheduler].label))
  /\ Fresh({Of(Scheduler)})
  /\ Ends(Scheduler)
  /\ UNCHANGED <<campaignDeleted, content, old, objects, eventVars, analysisLock, faults>>

\* RequeueAnalysis of each stale uploaded content, then Touch of the media.
RequeueParts ==
  /\ At(Scheduler, "requeue_parts")
  /\ SaveContents(task[Scheduler].due, RequeueAnalysis)
  /\ AddAnalyses(task[Scheduler].due)
  /\ SaveMedia(Of(Scheduler), Touch)
  /\ Fresh({Of(Scheduler)} \cup task[Scheduler].due)
  /\ Ends(Scheduler)
  /\ UNCHANGED <<campaignDeleted, old, objects, extracts, deletes, analysisLock, faults>>

RecoverNext ==
  \/ \E m \in Medias : RecoverPick(m)
  \/ RecoverRead
  \/ FailList \/ FailSave
  \/ RequeueList \/ RequeueLost \/ RequeueVerdict \/ RequeueParts

\* Time passes: updated_at falls behind now - staleAfter.
GoesStale(x) ==
  /\ "recover" \in Jobs
  /\ x \notin stale
  /\ \/ x \in Medias /\ Is(x, "processing")
     \/ x \in Contents /\ content[x].status = "uploaded"
  /\ stale' = stale \cup {x}
  /\ UNCHANGED <<campaignDeleted, media, content, old, objects, eventVars, analysisLock, task, faults>>

\* Time passes: created_at falls behind now - maxAge.
GoesOld(m) ==
  /\ "recover" \in Jobs
  /\ m \notin old
  /\ Is(m, "processing")
  /\ old' = old \cup {m}
  /\ UNCHANGED <<campaignDeleted, rowVars, objects, eventVars, analysisLock, task, faults>>

-----------------------------------------------------------------------------
(* Deletion of the campaign, and faults *)

\* The campaign and its media rows are locked FOR UPDATE, so this transaction
\* is one step.  An image's thumbnail key is derived from its id, the keys of
\* frames come from the contents there are.
DeleteCampaign ==
  /\ "delete" \in Jobs
  /\ ~campaignDeleted
  /\ campaignDeleted' = TRUE
  /\ media' = [m \in Medias |-> IF Visible(m) THEN [media[m] EXCEPT !.deleted = TRUE]
                                ELSE media[m]]
  /\ deletes' = deletes \cup
       {<<m, m \in Images \/ Existing(m) # {}>> : m \in {n \in Medias : Visible(n)}}
  /\ stale' = stale \ {m \in Medias : Visible(m)}
  /\ UNCHANGED <<content, old, objects, extracts, analyses, analysisLock, task, faults>>

\* The media.deleted handler purges the keys its event names.
PurgeObjects(m, derived) ==
  /\ <<m, derived>> \in deletes
  /\ deletes' = deletes \ {<<m, derived>>}
  /\ objects' = objects \ ({<<m, "original">>} \cup IF derived THEN {<<m, "derived">>} ELSE {})
  /\ UNCHANGED <<campaignDeleted, rowVars, old, extracts, analyses, analysisLock, task, faults>>

DeleteNext ==
  DeleteCampaign \/ \E m \in Medias, d \in BOOLEAN : PurgeObjects(m, d)

\* Steps of the attempts at an event, and not of a request or the scheduler.
EventSteps ==
  ContentSteps \cup {"extract", "extract_tx", "extract_save",
                     "extract_failed", "extract_fail_save"}

\* A call fails or the process dies: the open transaction is rolled back and
\* its lock released; an event is given back or gone.
Interrupted(w) ==
  /\ ~At(w, "idle")
  /\ faults < MaxFaults
  /\ faults' = faults + 1
  /\ IF task[w].pc \in EventSteps THEN Retry(w) ELSE Ends(w) /\ UNCHANGED <<extracts, analyses>>
  /\ analysisLock' = IF analysisLock = w THEN NoWorker ELSE analysisLock
  /\ UNCHANGED <<campaignDeleted, rowVars, old, objects, deletes>>

Next ==
  \/ \E w \in Workers : UploadNext(w) \/ ExtractNext(w) \/ AnalyzeNext(w)
  \/ \E m \in Medias : PutOriginal(m) \/ GoesOld(m)
  \/ \E x \in Medias \cup Contents : GoesStale(x)
  \/ \E w \in Procs : Interrupted(w)
  \/ RecoverNext
  \/ DeleteNext

Spec == Init /\ [][Next]_vars

(* Fairness.  The scheduler's poller keeps ticking and time passes: media  *)
(* that stay in processing become stale and then old.  Each tick goes      *)
(* through all media it listed, so none is passed over for ever.  Nothing  *)
(* is assumed of the workers, the broker or the clients.                   *)
Fairness ==
  /\ WF_vars(RecoverNext)
  /\ \A m \in Medias :
       WF_vars(GoesStale(m)) /\ WF_vars(GoesOld(m)) /\ SF_vars(RecoverPick(m))

FairSpec == Spec /\ Fairness

-----------------------------------------------------------------------------
(* Properties *)

\* The lock is held exactly from the usage check to the commit, which leaves
\* the slot it found free to the holder.
SlotReserved ==
  \A w \in Workers : At(w, "start_save") => analysisLock = w /\ SlotLeft

(* AssertAnalyze: never more contents in analyzing than the plan's         *)
(* max_concurrent_analyses, whatever is duplicated, requeued, deleted or   *)
(* written from an older read.                                             *)
ConcurrentBounded == Cardinality(Analyzing) <= MaxConcurrent

(* docs/billing.md: the advisory lock avoids overshoot of the monthly      *)
(* verifications (contents analyzing or analyzed) under concurrent workers. *)
VerificationsBounded == Cardinality(Charged) <= MaxVerifications

(* tryFinalizeMedia: no lost wakeup.  When the last content of a media in  *)
(* processing has become terminal, a worker is still to finalize the media, *)
(* although each worker reads its siblings without a lock.                 *)
FinalizedByLast ==
  \A m \in Medias :
    Is(m, "processing") /\ Existing(m) # {} /\ (\A c \in Existing(m) : IsTerminal(c))
      => \E w \in Workers : /\ task[w].pc \in {"finalize", "finalize_list", "finalize_save"}
                            /\ Owner(Of(w)) = m

(* AggregateMediaVerdict: the verdict of an analyzed media is that of its  *)
(* contents, all of them terminal, and stays so.                           *)
VerdictMatches ==
  \A m \in Medias : media[m].status = "analyzed" =>
    /\ \A c \in Existing(m) : IsTerminal(c)
    /\ media[m].verdict = AggregateMediaVerdict(Existing(m))

(* extract_frames.go, analyze_content.go: without the scheduler's requeues *)
(* the outcome of a content is final: duplicate webhooks, repeated frame   *)
(* extractions and retried events never reset it.                          *)
OutcomeKept ==
  [][\A c \in Contents : IsTerminal(c) => content'[c] = content[c]]_vars

(* recover_stale_processing.go: a media in processing does not stay there, *)
(* whatever handler, event or process is lost.                             *)
EventuallyTerminal ==
  \A m \in Medias : Is(m, "processing") ~> ~Is(m, "processing")

-----------------------------------------------------------------------------
(* The inductive invariants behind the properties *)

Attempts(w, c)   == task[w].pc \in ContentSteps /\ Of(w) = c
Handling(steps)  == {w \in Workers : task[w].pc \in steps}
Settled(m)       == Existing(m) # {} /\ \A c \in Existing(m) : IsTerminal(c)

\* Without the scheduler a content has one event in all, undelivered or in the
\* hands of one worker.
OneAttempt ==
  /\ task[Scheduler].pc = "idle"
  /\ \A c \in Contents :
       /\ analyses[c] <= 1
       /\ content[c].status = "none" => analyses[c] = 0
       /\ \A w \in Workers : Attempts(w, c) =>
            /\ content[c].status # "none" /\ analyses[c] = 0
            /\ \A v \in Workers : Attempts(v, c) => v = w

\* So what a worker has read of its content still holds when it writes it.
StartingSteps == {"assert", "start_save", "quota_failed", "quota_fail_part", "quota_fail_both"}
Timely ==
  /\ \A w \in Handling(StartingSteps) : content[Of(w)].status = "uploaded"
  /\ \A w \in Handling({"verdict_save"}) : content[Of(w)].status = "analyzing"

\* The verification that was counted is left to the holder of the lock.
VerificationReserved == Handling({"start_save"}) # {} => VerificationLeft

\* A verdict, given or about to be saved, is that of contents which have ended.
Concluded ==
  /\ \A m \in Medias : media[m].status = "analyzed" =>
       Settled(m) /\ media[m].verdict = AggregateMediaVerdict(Existing(m))
  /\ \A w \in Handling({"finalize_save"}) :
       Settled(Owner(Of(w))) /\ task[w].label = AggregateMediaVerdict(Existing(Owner(Of(w))))

Outcomes == OneAttempt /\ Timely /\ VerificationReserved /\ VerificationsBounded /\ Concluded
OutcomeInv == "recover" \notin Jobs => Outcomes

\* Each upload is announced once, nothing is requeued and nothing fails midway.
Smooth == Jobs \cap {"duplicate", "recover"} = {} /\ MaxFaults = 0

\* Until its upload is processed a media has no contents, and one worker at most.
UploadSteps  == {"presign", "upload", "upload_tx", "upload_save", "upload_failed", "upload_fail_save"}
ExtractSteps == {"extract", "extract_tx", "extract_save", "extract_failed", "extract_fail_save"}
Awaiting(m)  == media[m].status \in {"none", "pending_upload"}
OneUpload ==
  /\ \A m \in Medias : Awaiting(m) => Existing(m) = {}
  /\ \A w \in Handling(ExtractSteps) : ~Awaiting(Of(w))
  /\ \A w \in Handling(UploadSteps) :
       Awaiting(Of(w)) /\ \A v \in Workers : Of(v) = Of(w) => v = w

\* A content is failed on its own only when its media has ended or is gone.
PartFailsLast == \A w \in Handling({"quota_fail_part"}) : ~Is(Owner(Of(w)), "processing")

Wakes   == OneUpload /\ PartFailsLast /\ FinalizedByLast
WakeInv == Smooth => Wakes
=============================================================================
