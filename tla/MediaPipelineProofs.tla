------------------------ MODULE MediaPipelineProofs ------------------------
(***************************************************************************)
(* MediaPipeline keeps its types, and the advisory lock keeps the number   *)
(* of contents in analyzing within the plan, for every set of media,       *)
(* workers, jobs and every bound.                                          *)
(***************************************************************************)
EXTENDS MediaPipeline, FiniteSetTheorems, TLAPS

TaskType == task \in [Procs -> Tasks]

\* The saved rows are abbreviations of Row and Part.
USE DEF NewPendingUpload, StartProcessing, RenderGlobalVerdict, MarkFailed, Touch,
        RequeueUploaded, NewFromMedia, StartAnalysis, RenderVerdict, MarkPartFailed,
        RequeueAnalysis

-----------------------------------------------------------------------------
(* What the helpers of the actions preserve *)

\* A goroutine on a media step works on a media, one on a content step on a content.
LEMMA TaskFields ==
  ASSUME TaskType, NEW w \in Procs
  PROVE  /\ task[w] \in Tasks
         /\ task[w].pc \in MediaSteps => /\ Of(w) \in Medias
                                         /\ task[w].label \in AllLabels \cup {"none"}
                                         /\ task[w].due \subseteq Contents
         /\ task[w].pc \in ContentSteps => /\ Of(w) \in Contents
                                           /\ task[w].label \in AllLabels \cup {"none"}
                                           /\ task[w].due = {}
  <1>1. task[w] \in Tasks
    BY DEF TaskType
  <1>2. MediaSteps \cap ContentSteps = {} /\ "idle" \notin MediaSteps \cup ContentSteps
    BY DEF MediaSteps, ContentSteps
  <1> QED
    BY <1>1, <1>2 DEF Tasks, Of

\* A goroutine on a media step keeps its media, one on a content step its content.
LEMMA TaskOfMedia ==
  ASSUME TaskType, NEW w \in Procs, task[w].pc \in MediaSteps
  PROVE  task[w] \in [pc : MediaSteps, of : Medias, label : AllLabels \cup {"none"},
                      due : SUBSET Contents]
  <1>1. task[w].pc \notin ContentSteps \cup {"idle"}
    BY DEF MediaSteps, ContentSteps
  <1> QED
    BY <1>1 DEF TaskType, Tasks

LEMMA TaskOfContent ==
  ASSUME TaskType, NEW w \in Procs, task[w].pc \in ContentSteps
  PROVE  task[w] \in [pc : ContentSteps, of : Contents, label : AllLabels \cup {"none"},
                      due : {{}}]
  <1>1. task[w].pc \notin MediaSteps \cup {"idle"}
    BY DEF MediaSteps, ContentSteps
  <1> QED
    BY <1>1 DEF TaskType, Tasks

\* A goroutine that goes on to a task of the right shape keeps the type of tasks.
LEMMA GoesType ==
  ASSUME TaskType, NEW w \in Procs, NEW t \in Tasks, Goes(w, t)
  PROVE  TaskType'
  BY DEF TaskType, Goes

\* Ending a task keeps the type of tasks.
LEMMA EndsType ==
  ASSUME TaskType, NEW w \in Procs, Ends(w)
  PROVE  TaskType'
  <1>1. NoTask \in Tasks
    BY DEF NoTask, Tasks
  <1> QED
    BY <1>1, GoesType DEF Ends

\* Taking up a media keeps the type of tasks.
LEMMA StartsMedia ==
  ASSUME TaskType, NEW w \in Procs, NEW p \in MediaSteps, NEW m \in Medias, Starts(w, p, m)
  PROVE  TaskType'
  <1>1. [NoTask EXCEPT !.pc = p, !.of = m] \in Tasks
    BY DEF NoTask, Tasks
  <1> QED
    BY <1>1, GoesType DEF Starts

\* Taking up a content keeps the type of tasks.
LEMMA StartsContent ==
  ASSUME TaskType, NEW w \in Procs, NEW p \in ContentSteps, NEW c \in Contents, Starts(w, p, c)
  PROVE  TaskType'
  <1>1. [NoTask EXCEPT !.pc = p, !.of = c] \in Tasks
    BY DEF NoTask, Tasks
  <1> QED
    BY <1>1, GoesType DEF Starts

\* A step within the same kind of task keeps the type of tasks.
LEMMA StepType ==
  ASSUME TaskType, NEW w \in Procs, NEW p, Step(w, p),
         \/ task[w].pc \in MediaSteps /\ p \in MediaSteps
         \/ task[w].pc \in ContentSteps /\ p \in ContentSteps
  PROVE  TaskType'
  <1>1. [task[w] EXCEPT !.pc = p] \in Tasks
    BY TaskFields DEF Tasks, Of
  <1> QED
    BY <1>1, GoesType DEF Step

\* A saved media row keeps the type of the media table.
LEMMA SaveMediaType ==
  ASSUME media \in [Medias -> MediaRows], NEW m, NEW r \in MediaRows, SaveMedia(m, r)
  PROVE  media' \in [Medias -> MediaRows]
  BY DEF SaveMedia

\* Saved content rows keep the type of the contents table.
LEMMA SaveContentsType ==
  ASSUME content \in [Contents -> ContentRows], NEW S, NEW r \in ContentRows,
         SaveContents(S, r)
  PROVE  content' \in [Contents -> ContentRows]
  BY DEF SaveContents

\* The rows the handlers write are rows of the tables.
LEMMA RowTypes ==
  /\ \A s \in {"none", "pending_upload", "processing", "analyzed", "failed"},
        v \in AllLabels \cup {"none"} : Row(s, v) \in MediaRows
  /\ \A s \in {"none", "uploaded", "analyzing", "analyzed", "failed"},
        l \in AllLabels \cup {"none"} : Part(s, l) \in ContentRows
  BY DEF Row, Part, MediaRows, ContentRows

\* The number of undelivered events stays within its bound.
LEMMA MoreType ==
  ASSUME NEW n \in 0..MaxEvents
  PROVE  More(n) \in 0..MaxEvents
  BY PipelineAssumption DEF More

\* Emitting content.uploaded events keeps the type of the queue.
LEMMA AddAnalysesType ==
  ASSUME analyses \in [Contents -> 0..MaxEvents], NEW S, AddAnalyses(S)
  PROVE  analyses' \in [Contents -> 0..MaxEvents]
  BY MoreType DEF AddAnalyses

\* Giving an event back or dropping it keeps the types of queues and tasks.
LEMMA RetryType ==
  ASSUME TypeOK, NEW w \in Procs, Retry(w)
  PROVE  /\ TaskType'
         /\ extracts' \in [Medias -> 0..MaxEvents]
         /\ analyses' \in [Contents -> 0..MaxEvents]
  <1>1. TaskType'
    BY EndsType DEF Retry, TypeOK, TaskType
  <1>2. extracts' \in [Medias -> 0..MaxEvents]
    BY MoreType DEF Retry, TypeOK
  <1>3. analyses' \in [Contents -> 0..MaxEvents]
    BY AddAnalysesType DEF Retry, TypeOK
  <1> QED
    BY <1>1, <1>2, <1>3





-----------------------------------------------------------------------------
(* Types are kept, action by action *)

\* The verdict of any contents is a label.
LEMMA VerdictLabel ==
  \A S : AggregateMediaVerdict(S) \in AllLabels
  BY DEF AggregateMediaVerdict, AllLabels

\* The contents listed for a media are contents.
LEMMA ListedParts ==
  \A m : Listed(m) \subseteq Contents
  BY DEF Listed, Existing, Parts

\* Presign and upload processing.
LEMMA UploadTypes ==
  ASSUME TypeOK, NEW w \in Workers, UploadNext(w)
  PROVE  TypeOK'
  <1> USE PipelineAssumption
  <1> w \in Procs
    BY DEF Procs
  <1>1. CASE \E m \in Medias : PresignRead(w, m)
    <2>1. PICK m \in Medias : PresignRead(w, m)
      BY <1>1
    <2>2. TaskType'
      BY <2>1, StartsMedia DEF PresignRead, TypeOK, TaskType, MediaSteps
    <2> QED
      BY <2>1, <2>2 DEF PresignRead, TypeOK, TaskType, rowVars, eventVars
  <1>2. CASE \E m \in Medias : ProcessUpload(w, m)
    <2>1. PICK m \in Medias : ProcessUpload(w, m)
      BY <1>2
    <2>2. TaskType'
      BY <2>1, StartsMedia DEF ProcessUpload, TypeOK, TaskType, MediaSteps
    <2> QED
      BY <2>1, <2>2 DEF ProcessUpload, TypeOK, TaskType, rowVars, eventVars
  <1>3. CASE PresignSave(w)
    BY <1>3, TaskFields, EndsType, SaveMediaType, RowTypes
       DEF PresignSave, TypeOK, TaskType, rowVars, eventVars, At, Fresh,
           MediaSteps, ContentSteps
  <1>4. CASE UploadReady(w)
    BY <1>4, TaskFields, StepType
       DEF UploadReady, TypeOK, TaskType, rowVars, eventVars, At, Fresh,
           MediaSteps, ContentSteps
  <1>5. CASE UploadRead(w)
    BY <1>5, TaskFields, StepType, EndsType
       DEF UploadRead, TypeOK, TaskType, rowVars, eventVars, At, Fresh,
           MediaSteps, ContentSteps
  <1>6. CASE UploadImageSave(w)
    BY <1>6, EndsType, SaveMediaType, SaveContentsType, AddAnalysesType, RowTypes
       DEF UploadImageSave, TypeOK, TaskType, rowVars, eventVars, At, Fresh,
           MediaSteps, ContentSteps
  <1>7. CASE UploadVideoSave(w)
    BY <1>7, EndsType, SaveMediaType, RowTypes, MoreType
       DEF UploadVideoSave, TypeOK, TaskType, rowVars, eventVars, At, Fresh,
           MediaSteps, ContentSteps
  <1>8. CASE UploadFails(w)
    BY <1>8, TaskFields, StepType
       DEF UploadFails, TypeOK, TaskType, rowVars, eventVars, At, Fresh,
           MediaSteps, ContentSteps
  <1>9. CASE UploadFailRead(w)
    BY <1>9, TaskFields, StepType, EndsType
       DEF UploadFailRead, TypeOK, TaskType, rowVars, eventVars, At, Fresh,
           MediaSteps, ContentSteps
  <1>10. CASE UploadFailSave(w)
    BY <1>10, TaskFields, EndsType, SaveMediaType, RowTypes
       DEF UploadFailSave, TypeOK, TaskType, rowVars, eventVars, At, Fresh,
           MediaSteps, ContentSteps
  <1> QED
    BY <1>1, <1>2, <1>3, <1>4, <1>5, <1>6, <1>7, <1>8, <1>9, <1>10 DEF UploadNext

\* Frame extraction.
LEMMA ExtractTypes ==
  ASSUME TypeOK, NEW w \in Workers, ExtractNext(w)
  PROVE  TypeOK'
  <1> USE PipelineAssumption
  <1> w \in Procs
    BY DEF Procs
  <1>1. CASE \E m \in Videos : ExtractFrames(w, m)
    <2>1. PICK m \in Videos : ExtractFrames(w, m)
      BY <1>1
    <2>2. TaskType'
      BY <2>1, StartsMedia, EndsType DEF ExtractFrames, TypeOK, TaskType, MediaSteps, Medias
    <2> QED
      BY <2>1, <2>2 DEF ExtractFrames, TypeOK, TaskType, rowVars, eventVars, Medias
  <1>2. CASE ExtractPut(w)
    BY <1>2, TaskFields, StepType
       DEF ExtractPut, TypeOK, TaskType, rowVars, eventVars, At, Fresh,
           MediaSteps, ContentSteps
  <1>3. CASE ExtractPutFails(w)
    BY <1>3, TaskFields, RetryType
       DEF ExtractPutFails, TypeOK, TaskType, rowVars, eventVars, At, Fresh,
           MediaSteps, ContentSteps
  <1>4. CASE ExtractFails(w)
    BY <1>4, TaskFields, StepType
       DEF ExtractFails, TypeOK, TaskType, rowVars, eventVars, At, Fresh,
           MediaSteps, ContentSteps
  <1>5. CASE ExtractFailRead(w)
    BY <1>5, TaskFields, StepType, RetryType
       DEF ExtractFailRead, TypeOK, TaskType, rowVars, eventVars, At, Fresh,
           MediaSteps, ContentSteps
  <1>6. CASE ExtractFailSave(w)
    BY <1>6, TaskFields, RetryType, SaveMediaType, RowTypes
       DEF ExtractFailSave, TypeOK, TaskType, rowVars, eventVars, At, Fresh,
           MediaSteps, ContentSteps
  <1>7. CASE ExtractRead(w)
    BY <1>7, TaskFields, StepType, EndsType
       DEF ExtractRead, TypeOK, TaskType, rowVars, eventVars, At, Fresh,
           MediaSteps, ContentSteps
  <1>8. CASE ExtractSave(w)
    BY <1>8, EndsType, SaveContentsType, AddAnalysesType, RowTypes
       DEF ExtractSave, TypeOK, TaskType, rowVars, eventVars, At, Fresh,
           MediaSteps, ContentSteps
  <1>9. CASE ExtractConflict(w)
    BY <1>9, RetryType
       DEF ExtractConflict, TypeOK, TaskType, rowVars, eventVars, At, Fresh,
           MediaSteps, ContentSteps
  <1> QED
    BY <1>1, <1>2, <1>3, <1>4, <1>5, <1>6, <1>7, <1>8, <1>9 DEF ExtractNext

\* Analysis and the media verdict.
LEMMA AnalyzeTypes ==
  ASSUME TypeOK, NEW w \in Workers, AnalyzeNext(w)
  PROVE  TypeOK'
  <1> USE PipelineAssumption
  <1> w \in Procs
    BY DEF Procs
  <1>1. CASE \E c \in Contents : AnalyzeContent(w, c)
    BY <1>1, StartsContent, EndsType
       DEF AnalyzeContent, TypeOK, TaskType, rowVars, eventVars, At, Fresh,
           MediaSteps, ContentSteps
  <1>2. CASE StartMediaGone(w)
    BY <1>2, RetryType
       DEF StartMediaGone, TypeOK, TaskType, rowVars, eventVars, At, Fresh,
           MediaSteps, ContentSteps
  <1>3. CASE StartRead(w)
    BY <1>3, TaskFields, StepType
       DEF StartRead, TypeOK, TaskType, rowVars, eventVars, At, Fresh,
           MediaSteps, ContentSteps
  <1>4. CASE AssertAnalyze(w)
    BY <1>4, TaskFields, StepType
       DEF AssertAnalyze, TypeOK, TaskType, rowVars, eventVars, At, Fresh,
           MediaSteps, ContentSteps
  <1>5. CASE AnalyzeDeferred(w)
    BY <1>5, RetryType
       DEF AnalyzeDeferred, TypeOK, TaskType, rowVars, eventVars, At, Fresh,
           MediaSteps, ContentSteps
  <1>6. CASE AnalyzeBlocked(w)
    BY <1>6, TaskFields, StepType
       DEF AnalyzeBlocked, TypeOK, TaskType, rowVars, eventVars, At, Fresh,
           MediaSteps, ContentSteps
  <1>7. CASE StartSave(w)
    BY <1>7, TaskFields, StepType, SaveContentsType, RowTypes
       DEF StartSave, TypeOK, TaskType, rowVars, eventVars, At, Fresh,
           MediaSteps, ContentSteps
  <1>8. CASE QuotaFailRead(w)
    BY <1>8, TaskFields, StepType
       DEF QuotaFailRead, TypeOK, TaskType, rowVars, eventVars, At, Fresh,
           MediaSteps, ContentSteps
  <1>9. CASE QuotaFailSave(w)
    BY <1>9, EndsType, SaveMediaType, SaveContentsType, RowTypes
       DEF QuotaFailSave, TypeOK, TaskType, rowVars, eventVars, At, Fresh,
           MediaSteps, ContentSteps
  <1>10. CASE \E l \in Labels : Detect(w, l)
    <2>1. PICK l \in Labels : Detect(w, l)
      BY <1>10
    <2> DEFINE t == [task[w] EXCEPT !.pc = "verdict", !.label = l]
    <2>2. /\ TaskType /\ task[w].pc = "detect"
          /\ l \in AllLabels
      BY <2>1 DEF Detect, At, TypeOK, TaskType
    <2>3. t \in Tasks
      <3>1. "verdict" \in ContentSteps /\ task[w].pc \in ContentSteps
        BY <2>2 DEF ContentSteps
      <3> QED
        BY <2>2, <3>1, TaskOfContent DEF Tasks
    <2>4. TaskType'
      BY <2>1, <2>2, <2>3, GoesType DEF Detect
    <2> QED
      BY <2>1, <2>4 DEF Detect, TypeOK, TaskType, rowVars, eventVars
  <1>11. CASE VerdictRead(w)
    BY <1>11, TaskFields, StepType
       DEF VerdictRead, TypeOK, TaskType, rowVars, eventVars, At, Fresh,
           MediaSteps, ContentSteps
  <1>12. CASE VerdictSave(w)
    BY <1>12, TaskFields, StepType, SaveContentsType, RowTypes
       DEF VerdictSave, TypeOK, TaskType, rowVars, eventVars, At, Fresh,
           MediaSteps, ContentSteps
  <1>13. CASE FinalizeRead(w)
    BY <1>13, TaskFields, StepType, EndsType
       DEF FinalizeRead, TypeOK, TaskType, rowVars, eventVars, At, Fresh,
           MediaSteps, ContentSteps
  <1>14. CASE FinalizeList(w)
    <2> DEFINE parts == Listed(Owner(Of(w)))
               t == [task[w] EXCEPT !.pc = "finalize_save",
                                    !.label = AggregateMediaVerdict(parts)]
    <2>1. /\ TaskType /\ task[w].pc = "finalize_list"
          /\ AggregateMediaVerdict(parts) \in AllLabels
      BY <1>14, VerdictLabel DEF FinalizeList, At, TypeOK, TaskType
    <2>2. t \in Tasks
      <3> HIDE DEF parts
      <3>1. "finalize_save" \in ContentSteps /\ task[w].pc \in ContentSteps
        BY <2>1 DEF ContentSteps
      <3> QED
        BY <2>1, <3>1, TaskOfContent DEF Tasks
    <2>3. Goes(w, t) \/ Ends(w)
      BY <1>14 DEF FinalizeList
    <2>4. TaskType'
      <3> HIDE DEF t
      <3> QED
        BY <2>1, <2>2, <2>3, GoesType, EndsType
    <2> QED
      BY <1>14, <2>4 DEF FinalizeList, TypeOK, TaskType, rowVars, eventVars
  <1>15. CASE FinalizeSave(w)
    BY <1>15, TaskFields, EndsType, SaveMediaType, RowTypes
       DEF FinalizeSave, TypeOK, TaskType, rowVars, eventVars, At, Fresh,
           MediaSteps, ContentSteps
  <1> QED
    BY <1>1, <1>2, <1>3, <1>4, <1>5, <1>6, <1>7, <1>8, <1>9, <1>10, <1>11, <1>12, <1>13, <1>14, <1>15 DEF AnalyzeNext

\* The scheduler.
LEMMA RecoverTypes ==
  ASSUME TypeOK, RecoverNext
  PROVE  TypeOK'
  <1> USE PipelineAssumption
  <1> Scheduler \in Procs
    BY DEF Procs
  <1>1. CASE \E m \in Medias : RecoverPick(m)
    <2>1. PICK m \in Medias : RecoverPick(m)
      BY <1>1
    <2>2. TaskType'
      BY <2>1, StartsMedia DEF RecoverPick, TypeOK, TaskType, MediaSteps
    <2> QED
      BY <2>1, <2>2 DEF RecoverPick, TypeOK, TaskType, rowVars, eventVars
  <1>2. CASE RecoverRead
    BY <1>2, TaskFields, StepType, EndsType
       DEF RecoverRead, TypeOK, TaskType, rowVars, eventVars, At, Fresh,
           MediaSteps, ContentSteps
  <1>3. CASE FailList
    <2> DEFINE t == [task[Scheduler] EXCEPT
                       !.pc = "fail_save",
                       !.due = {c \in Listed(Of(Scheduler)) : ~IsTerminal(c)}]
    <2>1. TaskType /\ task[Scheduler].pc = "fail_list"
      BY <1>3 DEF FailList, At, TypeOK, TaskType
    <2>2. t \in Tasks
      <3>1. "fail_save" \in MediaSteps /\ task[Scheduler].pc \in MediaSteps
        BY <2>1 DEF MediaSteps
      <3> QED
        BY <2>1, <3>1, TaskOfMedia, ListedParts DEF Tasks
    <2>3. TaskType'
      BY <1>3, <2>1, <2>2, GoesType DEF FailList
    <2> QED
      BY <1>3, <2>3 DEF FailList, TypeOK, TaskType, rowVars, eventVars
  <1>4. CASE FailSave
    BY <1>4, TaskFields, EndsType, SaveMediaType, SaveContentsType, RowTypes
       DEF FailSave, TypeOK, TaskType, rowVars, eventVars, At, Fresh,
           MediaSteps, ContentSteps
  <1>5. CASE RequeueList
    <2> DEFINE parts   == Listed(Of(Scheduler))
               due     == {c \in parts \cap stale : content[c].status = "uploaded"}
               Deciding(pc) == [task[Scheduler] EXCEPT
                                 !.pc = pc, !.due = due,
                                 !.label = AggregateMediaVerdict(parts)]
    <2>1. /\ TaskType
          /\ task[Scheduler].pc = "requeue_list"
      BY <1>5 DEF RequeueList, At, TypeOK, TaskType
    <2>2. task[Scheduler] \in [pc : MediaSteps, of : Medias,
                              label : AllLabels \cup {"none"}, due : SUBSET Contents]
      <3>1. task[Scheduler].pc \in MediaSteps
        BY <2>1 DEF MediaSteps
      <3> QED
        BY <2>1, <3>1, TaskOfMedia
    <2>3. due \subseteq Contents /\ AggregateMediaVerdict(parts) \in AllLabels
      BY ListedParts, VerdictLabel
    <2>4. \A pc \in MediaSteps : Deciding(pc) \in Tasks
      <3> HIDE DEF due, parts
      <3> QED
        BY <2>2, <2>3 DEF Tasks
    <2>5. \/ Goes(Scheduler, Deciding("requeue_lost"))
          \/ Goes(Scheduler, Deciding("requeue_verdict"))
          \/ Goes(Scheduler, Deciding("requeue_parts"))
          \/ Ends(Scheduler)
      BY <1>5 DEF RequeueList
    <2>6. {"requeue_lost", "requeue_verdict", "requeue_parts"} \subseteq MediaSteps
      BY DEF MediaSteps
    <2>7. TaskType'
      <3> HIDE DEF Deciding
      <3> QED
        BY <2>1, <2>4, <2>5, <2>6, GoesType, EndsType
    <2> QED
      BY <1>5, <2>7 DEF RequeueList, TypeOK, TaskType, rowVars, eventVars
  <1>6. CASE RequeueLost
    BY <1>6, EndsType, SaveMediaType, RowTypes, MoreType
       DEF RequeueLost, TypeOK, TaskType, rowVars, eventVars, At, Fresh,
           MediaSteps, ContentSteps
  <1>7. CASE RequeueVerdict
    BY <1>7, TaskFields, EndsType, SaveMediaType, RowTypes
       DEF RequeueVerdict, TypeOK, TaskType, rowVars, eventVars, At, Fresh,
           MediaSteps, ContentSteps
  <1>8. CASE RequeueParts
    BY <1>8, EndsType, SaveMediaType, SaveContentsType, AddAnalysesType, RowTypes
       DEF RequeueParts, TypeOK, TaskType, rowVars, eventVars, At, Fresh,
           MediaSteps, ContentSteps
  <1> QED
    BY <1>1, <1>2, <1>3, <1>4, <1>5, <1>6, <1>7, <1>8 DEF RecoverNext

\* Clients, time, deletion and faults.
LEMMA OtherTypes ==
  ASSUME TypeOK,
         \/ \E m \in Medias : PutOriginal(m) \/ GoesOld(m)
         \/ \E x \in Medias \cup Contents : GoesStale(x)
         \/ \E w \in Procs : Interrupted(w)
         \/ DeleteNext
  PROVE  TypeOK'
  <1>1. CASE \E m \in Medias : PutOriginal(m) \/ GoesOld(m)
    BY <1>1 DEF PutOriginal, GoesOld, TypeOK, rowVars, eventVars
  <1>2. CASE \E x \in Medias \cup Contents : GoesStale(x)
    BY <1>2 DEF GoesStale, TypeOK, eventVars
  <1>3. CASE \E w \in Procs : Interrupted(w)
    BY <1>3, RetryType, EndsType, PipelineAssumption
       DEF Interrupted, TypeOK, TaskType, rowVars
  <1>4. CASE DeleteCampaign
    <2>1. \A m \in Medias : [media[m] EXCEPT !.deleted = TRUE] \in MediaRows
      BY DEF TypeOK, MediaRows
    <2>2. media' \in [Medias -> MediaRows]
      BY <1>4, <2>1 DEF DeleteCampaign, TypeOK
    <2>3. deletes' \subseteq Medias \X BOOLEAN
      <3>1. \A m \in Medias : <<m, m \in Images \/ Existing(m) # {}>> \in Medias \X BOOLEAN
        OBVIOUS
      <3> QED
        BY <1>4, <3>1, Zenon DEF DeleteCampaign, TypeOK
    <2> QED
      BY <1>4, <2>2, <2>3 DEF DeleteCampaign, TypeOK
  <1>5. CASE \E m \in Medias, d \in BOOLEAN : PurgeObjects(m, d)
    BY <1>5 DEF PurgeObjects, TypeOK, rowVars
  <1> QED
    BY <1>1, <1>2, <1>3, <1>4, <1>5 DEF DeleteNext

\* Every step keeps the types.
LEMMA TypeStep ==
  ASSUME TypeOK, [Next]_vars
  PROVE  TypeOK'
  <1>1. CASE UNCHANGED vars
    BY <1>1 DEF vars, rowVars, eventVars, TypeOK
  <1>2. CASE Next
    BY <1>2, UploadTypes, ExtractTypes, AnalyzeTypes, RecoverTypes, OtherTypes DEF Next
  <1> QED
    BY <1>1, <1>2

-----------------------------------------------------------------------------
(* The analysis slots *)

\* A step that starts no analysis and reaches no commit of one.
Quiet ==
  /\ Analyzing' \subseteq Analyzing
  /\ \A v \in Workers : task'[v].pc = "start_save" => task[v].pc = "start_save"

\* Only a task set to start_save brings a worker there.
LEMMA GoesQuiet ==
  ASSUME TaskType, NEW w \in Procs, NEW t, t.pc # "start_save", Goes(w, t)
  PROVE  \A v \in Workers : task'[v].pc = "start_save" => task[v].pc = "start_save"
  BY DEF TaskType, Goes, Procs

\* The same for the ways a task ends, starts or goes on.
LEMMA MovesQuiet ==
  ASSUME TaskType, NEW w \in Procs,
         \/ Ends(w)
         \/ \E p \in MediaSteps \cup (ContentSteps \ {"start_save"}) :
              Step(w, p) \/ \E x \in Medias \cup Contents : Starts(w, p, x)
  PROVE  \A v \in Workers : task'[v].pc = "start_save" => task[v].pc = "start_save"
  <1>1. CASE Ends(w)
    <2>1. NoTask.pc # "start_save"
      BY DEF NoTask
    <2> QED
      BY <1>1, <2>1, GoesQuiet DEF Ends
  <1>2. ASSUME NEW p \in MediaSteps \cup (ContentSteps \ {"start_save"}), Step(w, p)
        PROVE  \A v \in Workers : task'[v].pc = "start_save" => task[v].pc = "start_save"
    <2>1. [task[w] EXCEPT !.pc = p].pc # "start_save"
      BY TaskFields DEF MediaSteps, Tasks
    <2> QED
      BY <1>2, <2>1, GoesQuiet DEF Step
  <1>3. ASSUME NEW p \in MediaSteps \cup (ContentSteps \ {"start_save"}),
               NEW x \in Medias \cup Contents, Starts(w, p, x)
        PROVE  \A v \in Workers : task'[v].pc = "start_save" => task[v].pc = "start_save"
    <2>1. [NoTask EXCEPT !.pc = p, !.of = x].pc # "start_save"
      BY DEF NoTask, MediaSteps
    <2> QED
      BY <1>3, <2>1, GoesQuiet DEF Starts
  <1> QED
    BY <1>1, <1>2, <1>3

\* A written content row that is not analyzing adds no analyzing content.
LEMMA SaveQuiet ==
  ASSUME content \in [Contents -> ContentRows], NEW S, NEW st, NEW l,
         st # "analyzing", SaveContents(S, Part(st, l))
  PROVE  Analyzing' \subseteq Analyzing
  BY DEF SaveContents, Analyzing, Part

\* Contents left alone are as analyzing as before.
LEMMA SameQuiet ==
  ASSUME UNCHANGED content
  PROVE  Analyzing' \subseteq Analyzing
  BY DEF Analyzing

\* Presign and upload processing start no analysis.
LEMMA UploadQuiet ==
  ASSUME TypeOK, NEW w \in Workers, UploadNext(w)
  PROVE  Quiet
  <1> w \in Procs
    BY DEF Procs
  <1>1. CASE \E m \in Medias : PresignRead(w, m)
    BY <1>1, MovesQuiet, SameQuiet
       DEF PresignRead, Quiet, TypeOK, TaskType, rowVars, At,
           MediaSteps, ContentSteps
  <1>2. CASE \E m \in Medias : ProcessUpload(w, m)
    BY <1>2, MovesQuiet, SameQuiet
       DEF ProcessUpload, Quiet, TypeOK, TaskType, rowVars, At,
           MediaSteps, ContentSteps
  <1>3. CASE PresignSave(w)
    BY <1>3, MovesQuiet, SameQuiet
       DEF PresignSave, Quiet, TypeOK, TaskType, rowVars, At,
           MediaSteps, ContentSteps
  <1>4. CASE UploadReady(w)
    BY <1>4, MovesQuiet, SameQuiet
       DEF UploadReady, Quiet, TypeOK, TaskType, rowVars, At,
           MediaSteps, ContentSteps
  <1>5. CASE UploadRead(w)
    BY <1>5, MovesQuiet, SameQuiet
       DEF UploadRead, Quiet, TypeOK, TaskType, rowVars, At,
           MediaSteps, ContentSteps
  <1>6. CASE UploadImageSave(w)
    BY <1>6, MovesQuiet, SaveQuiet, SameQuiet
       DEF UploadImageSave, Quiet, TypeOK, TaskType, rowVars, At,
           MediaSteps, ContentSteps
  <1>7. CASE UploadVideoSave(w)
    BY <1>7, MovesQuiet, SameQuiet
       DEF UploadVideoSave, Quiet, TypeOK, TaskType, rowVars, At,
           MediaSteps, ContentSteps
  <1>8. CASE UploadFails(w)
    BY <1>8, MovesQuiet, SameQuiet
       DEF UploadFails, Quiet, TypeOK, TaskType, rowVars, At,
           MediaSteps, ContentSteps
  <1>9. CASE UploadFailRead(w)
    BY <1>9, MovesQuiet, SameQuiet
       DEF UploadFailRead, Quiet, TypeOK, TaskType, rowVars, At,
           MediaSteps, ContentSteps
  <1>10. CASE UploadFailSave(w)
    BY <1>10, MovesQuiet, SameQuiet
       DEF UploadFailSave, Quiet, TypeOK, TaskType, rowVars, At,
           MediaSteps, ContentSteps
  <1> QED
    BY <1>1, <1>2, <1>3, <1>4, <1>5, <1>6, <1>7, <1>8, <1>9, <1>10 DEF UploadNext

\* Nor does frame extraction.
LEMMA ExtractQuiet ==
  ASSUME TypeOK, NEW w \in Workers, ExtractNext(w)
  PROVE  Quiet
  <1> w \in Procs
    BY DEF Procs
  <1>1. CASE \E m \in Videos : ExtractFrames(w, m)
    BY <1>1, MovesQuiet, SameQuiet
       DEF ExtractFrames, Quiet, TypeOK, TaskType, rowVars, At, Medias,
           MediaSteps, ContentSteps
  <1>2. CASE ExtractPut(w)
    BY <1>2, MovesQuiet, SameQuiet
       DEF ExtractPut, Quiet, TypeOK, TaskType, rowVars, At,
           MediaSteps, ContentSteps
  <1>3. CASE ExtractPutFails(w)
    BY <1>3, MovesQuiet, SameQuiet
       DEF ExtractPutFails, Quiet, TypeOK, TaskType, rowVars, At, Retry,
           MediaSteps, ContentSteps
  <1>4. CASE ExtractFails(w)
    BY <1>4, MovesQuiet, SameQuiet
       DEF ExtractFails, Quiet, TypeOK, TaskType, rowVars, At,
           MediaSteps, ContentSteps
  <1>5. CASE ExtractFailRead(w)
    BY <1>5, MovesQuiet, SameQuiet
       DEF ExtractFailRead, Quiet, TypeOK, TaskType, rowVars, At, Retry,
           MediaSteps, ContentSteps
  <1>6. CASE ExtractFailSave(w)
    BY <1>6, MovesQuiet, SameQuiet
       DEF ExtractFailSave, Quiet, TypeOK, TaskType, rowVars, At, Retry,
           MediaSteps, ContentSteps
  <1>7. CASE ExtractRead(w)
    BY <1>7, MovesQuiet, SameQuiet
       DEF ExtractRead, Quiet, TypeOK, TaskType, rowVars, At,
           MediaSteps, ContentSteps
  <1>8. CASE ExtractSave(w)
    BY <1>8, MovesQuiet, SaveQuiet
       DEF ExtractSave, Quiet, TypeOK, TaskType, rowVars, At,
           MediaSteps, ContentSteps
  <1>9. CASE ExtractConflict(w)
    BY <1>9, MovesQuiet, SameQuiet
       DEF ExtractConflict, Quiet, TypeOK, TaskType, rowVars, At, Retry,
           MediaSteps, ContentSteps
  <1> QED
    BY <1>1, <1>2, <1>3, <1>4, <1>5, <1>6, <1>7, <1>8, <1>9 DEF ExtractNext

\* Nor do the steps of an analysis other than AssertAnalyze and StartSave.
LEMMA AnalyzeQuiet ==
  ASSUME TypeOK, NEW w \in Workers, AnalyzeNext(w)
  PROVE  Quiet \/ AssertAnalyze(w) \/ StartSave(w)
  <1> w \in Procs
    BY DEF Procs
  <1>1. CASE \E c \in Contents : AnalyzeContent(w, c)
    BY <1>1, MovesQuiet, SameQuiet
       DEF AnalyzeContent, Quiet, TypeOK, TaskType, rowVars, At,
           MediaSteps, ContentSteps
  <1>2. CASE StartMediaGone(w)
    BY <1>2, MovesQuiet, SameQuiet
       DEF StartMediaGone, Quiet, TypeOK, TaskType, rowVars, At, Retry,
           MediaSteps, ContentSteps
  <1>3. CASE StartRead(w)
    BY <1>3, MovesQuiet, SameQuiet
       DEF StartRead, Quiet, TypeOK, TaskType, rowVars, At,
           MediaSteps, ContentSteps
  <1>4. CASE AnalyzeDeferred(w)
    BY <1>4, MovesQuiet, SameQuiet
       DEF AnalyzeDeferred, Quiet, TypeOK, TaskType, rowVars, At, Retry,
           MediaSteps, ContentSteps
  <1>5. CASE AnalyzeBlocked(w)
    BY <1>5, MovesQuiet, SameQuiet
       DEF AnalyzeBlocked, Quiet, TypeOK, TaskType, rowVars, At,
           MediaSteps, ContentSteps
  <1>6. CASE QuotaFailRead(w)
    BY <1>6, MovesQuiet, SameQuiet
       DEF QuotaFailRead, Quiet, TypeOK, TaskType, rowVars, At,
           MediaSteps, ContentSteps
  <1>7. CASE QuotaFailSave(w)
    BY <1>7, MovesQuiet, SaveQuiet
       DEF QuotaFailSave, Quiet, TypeOK, TaskType, rowVars, At,
           MediaSteps, ContentSteps
  <1>8. CASE \E l \in Labels : Detect(w, l)
    BY <1>8, MovesQuiet, GoesQuiet, TaskFields, SameQuiet
       DEF Detect, Quiet, TypeOK, TaskType, rowVars, At, Tasks,
           MediaSteps, ContentSteps
  <1>9. CASE VerdictRead(w)
    BY <1>9, MovesQuiet, SameQuiet
       DEF VerdictRead, Quiet, TypeOK, TaskType, rowVars, At,
           MediaSteps, ContentSteps
  <1>10. CASE VerdictSave(w)
    BY <1>10, MovesQuiet, SaveQuiet
       DEF VerdictSave, Quiet, TypeOK, TaskType, rowVars, At,
           MediaSteps, ContentSteps
  <1>11. CASE FinalizeRead(w)
    BY <1>11, MovesQuiet, SameQuiet
       DEF FinalizeRead, Quiet, TypeOK, TaskType, rowVars, At,
           MediaSteps, ContentSteps
  <1>12. CASE FinalizeList(w)
    BY <1>12, MovesQuiet, GoesQuiet, TaskFields, SameQuiet
       DEF FinalizeList, Quiet, TypeOK, TaskType, rowVars, At, Tasks,
           MediaSteps, ContentSteps
  <1>13. CASE FinalizeSave(w)
    BY <1>13, MovesQuiet, SameQuiet
       DEF FinalizeSave, Quiet, TypeOK, TaskType, rowVars, At,
           MediaSteps, ContentSteps
  <1> QED
    BY <1>1, <1>2, <1>3, <1>4, <1>5, <1>6, <1>7, <1>8, <1>9, <1>10, <1>11, <1>12, <1>13 DEF AnalyzeNext

\* Nor does the scheduler.
LEMMA RecoverQuiet ==
  ASSUME TypeOK, RecoverNext
  PROVE  Quiet
  <1> Scheduler \in Procs
    BY DEF Procs
  <1>1. CASE \E m \in Medias : RecoverPick(m)
    BY <1>1, MovesQuiet, SameQuiet
       DEF RecoverPick, Quiet, TypeOK, TaskType, rowVars, At,
           MediaSteps, ContentSteps
  <1>2. CASE RecoverRead
    BY <1>2, MovesQuiet, SameQuiet
       DEF RecoverRead, Quiet, TypeOK, TaskType, rowVars, At,
           MediaSteps, ContentSteps
  <1>3. CASE FailList
    BY <1>3, MovesQuiet, GoesQuiet, TaskFields, SameQuiet
       DEF FailList, Quiet, TypeOK, TaskType, rowVars, At, Tasks,
           MediaSteps, ContentSteps
  <1>4. CASE FailSave
    BY <1>4, MovesQuiet, SaveQuiet
       DEF FailSave, Quiet, TypeOK, TaskType, rowVars, At,
           MediaSteps, ContentSteps
  <1>5. CASE RequeueList
    <2>1. \/ Ends(Scheduler)
          \/ \E p \in MediaSteps : \E l, d :
               Goes(Scheduler, [task[Scheduler] EXCEPT !.pc = p, !.due = d, !.label = l])
      BY <1>5 DEF RequeueList, MediaSteps
    <2>2. \A p, l, d : [task[Scheduler] EXCEPT !.pc = p, !.due = d, !.label = l].pc = p
      BY TaskFields DEF TypeOK, TaskType, Tasks
    <2>3. "start_save" \notin MediaSteps
      BY DEF MediaSteps
    <2>4. \A v \in Workers : task'[v].pc = "start_save" => task[v].pc = "start_save"
      <3>1. CASE Ends(Scheduler)
        BY <3>1, MovesQuiet DEF TypeOK, TaskType
      <3>2. ASSUME NEW p \in MediaSteps, NEW l, NEW d,
                   Goes(Scheduler, [task[Scheduler] EXCEPT !.pc = p, !.due = d, !.label = l])
            PROVE  \A v \in Workers : task'[v].pc = "start_save" => task[v].pc = "start_save"
        <4>1. [task[Scheduler] EXCEPT !.pc = p, !.due = d, !.label = l].pc # "start_save"
          BY <2>2, <2>3
        <4> QED
          BY <3>2, <4>1, GoesQuiet DEF TypeOK, TaskType
      <3> QED
        BY <2>1, <3>1, <3>2
    <2> QED
      BY <1>5, <2>4, SameQuiet DEF RequeueList, Quiet, rowVars
  <1>6. CASE RequeueLost
    BY <1>6, MovesQuiet, SameQuiet
       DEF RequeueLost, Quiet, TypeOK, TaskType, rowVars, At,
           MediaSteps, ContentSteps
  <1>7. CASE RequeueVerdict
    BY <1>7, MovesQuiet, SameQuiet
       DEF RequeueVerdict, Quiet, TypeOK, TaskType, rowVars, At,
           MediaSteps, ContentSteps
  <1>8. CASE RequeueParts
    BY <1>8, MovesQuiet, SaveQuiet
       DEF RequeueParts, Quiet, TypeOK, TaskType, rowVars, At,
           MediaSteps, ContentSteps
  <1> QED
    BY <1>1, <1>2, <1>3, <1>4, <1>5, <1>6, <1>7, <1>8 DEF RecoverNext

\* There are finitely many contents.
LEMMA ContentsFinite == IsFiniteSet(Contents)
  <1>1. IsFiniteSet({0})
    BY FS_Singleton
  <1>2. IsFiniteSet(1..FramesPerVideo)
    <2>1. FramesPerVideo \in Int /\ 1 \in Int
      BY PipelineAssumption
    <2> QED
      BY <2>1, FS_Interval
  <1>3. IsFiniteSet(Images \X {0}) /\ IsFiniteSet(Videos \X (1..FramesPerVideo))
    BY <1>1, <1>2, FS_Product, PipelineAssumption
  <1> QED
    BY <1>3, FS_Union DEF Contents

\* The contents in analyzing can be counted, and fewer of them count less.
LEMMA Counting ==
  /\ IsFiniteSet(Analyzing)
  /\ Cardinality(Analyzing) \in Nat
  /\ \A S : S \subseteq Analyzing =>
       Cardinality(S) \in Nat /\ Cardinality(S) <= Cardinality(Analyzing)
  <1>1. IsFiniteSet(Analyzing)
    BY ContentsFinite, FS_Subset DEF Analyzing
  <1> QED
    BY <1>1, FS_Subset, FS_CardinalityType

\* A quiet step that keeps the lock of a worker about to commit keeps the slots.
LEMMA QuietStep ==
  ASSUME TypeOK, SlotReserved, ConcurrentBounded, Quiet,
         \A v \in Workers : task'[v].pc = "start_save" => analysisLock' = analysisLock
  PROVE  SlotReserved' /\ ConcurrentBounded'
  <1>1. Cardinality(Analyzing') \in Nat /\ Cardinality(Analyzing') <= Cardinality(Analyzing)
    BY Counting DEF Quiet
  <1>2. Cardinality(Analyzing) \in Nat
    BY Counting
  <1>3. ConcurrentBounded'
    BY <1>1, <1>2, PipelineAssumption DEF ConcurrentBounded
  <1>4. ASSUME NEW v \in Workers, task'[v].pc = "start_save"
        PROVE  analysisLock' = v /\ SlotLeft'
    <2>1. analysisLock = v /\ SlotLeft
      BY <1>4 DEF Quiet, SlotReserved, At
    <2> QED
      BY <1>1, <1>2, <1>4, <2>1, PipelineAssumption DEF SlotLeft
  <1>5. SlotReserved'
    BY <1>4 DEF SlotReserved, At
  <1> QED
    BY <1>3, <1>5

\* The worker that takes the lock has found a slot, and nobody else is there.
LEMMA AssertStep ==
  ASSUME TypeOK, SlotReserved, ConcurrentBounded, NEW w \in Workers, AssertAnalyze(w)
  PROVE  SlotReserved' /\ ConcurrentBounded'
  <1>1. Analyzing' = Analyzing
    BY DEF AssertAnalyze, rowVars, Analyzing
  <1>2. ConcurrentBounded' /\ SlotLeft'
    BY <1>1 DEF AssertAnalyze, ConcurrentBounded, SlotLeft
  <1>3. \A v \in Workers : v # w => task'[v] = task[v]
    BY DEF AssertAnalyze, Step, Goes, TypeOK, Procs
  <1>4. \A v \in Workers : task'[v].pc = "start_save" => v = w
    BY <1>3, PipelineAssumption DEF AssertAnalyze, SlotReserved, At
  <1>5. analysisLock' = w
    BY DEF AssertAnalyze
  <1> QED
    BY <1>2, <1>4, <1>5 DEF SlotReserved, At

\* The commit uses the slot the lock has reserved.
LEMMA SaveStep ==
  ASSUME TypeOK, SlotReserved, ConcurrentBounded, NEW w \in Workers, StartSave(w)
  PROVE  SlotReserved' /\ ConcurrentBounded'
  <1>1. analysisLock = w /\ Cardinality(Analyzing) < MaxConcurrent
    BY DEF StartSave, SlotReserved, SlotLeft
  <1>2. Analyzing' \subseteq Analyzing \cup {Of(w)}
    BY DEF StartSave, SaveContents, Analyzing
  <1>3. Cardinality(Analyzing') <= Cardinality(Analyzing) + 1
    <2>1. IsFiniteSet(Analyzing) /\ Cardinality(Analyzing) \in Nat
      BY Counting
    <2>2. /\ IsFiniteSet(Analyzing \cup {Of(w)})
          /\ Cardinality(Analyzing \cup {Of(w)}) \in Nat
          /\ Cardinality(Analyzing \cup {Of(w)}) <= Cardinality(Analyzing) + 1
      BY <2>1, FS_AddElement, FS_CardinalityType
    <2>3. /\ Cardinality(Analyzing') \in Nat
          /\ Cardinality(Analyzing') <= Cardinality(Analyzing \cup {Of(w)})
      BY <1>2, <2>2, FS_Subset, FS_CardinalityType
    <2> QED
      BY <2>1, <2>2, <2>3
  <1>4. ConcurrentBounded'
    <2>1. Cardinality(Analyzing) \in Nat /\ Cardinality(Analyzing') \in Nat
      BY <1>2, Counting, FS_AddElement, FS_Subset, FS_CardinalityType
    <2> QED
      BY <1>1, <1>3, <2>1, PipelineAssumption DEF ConcurrentBounded
  <1>5. \A v \in Workers : v # w => task'[v] = task[v]
    BY DEF StartSave, Step, Goes, TypeOK, Procs
  <1>6. task'[w].pc = "detect"
    BY TaskFields DEF StartSave, Step, Goes, TypeOK, TaskType, Procs, Tasks
  <1>7. \A v \in Workers : task'[v].pc # "start_save"
    BY <1>1, <1>5, <1>6 DEF SlotReserved, At
  <1> QED
    BY <1>4, <1>7 DEF SlotReserved, At

\* Every step keeps the slots.
LEMMA SlotStep ==
  ASSUME TypeOK, SlotReserved, ConcurrentBounded, [Next]_vars
  PROVE  SlotReserved' /\ ConcurrentBounded'
  <1>1. CASE UNCHANGED vars
    BY <1>1 DEF vars, rowVars, SlotReserved, ConcurrentBounded, SlotLeft, Analyzing, At
  <1>2. ASSUME NEW w \in Workers, UploadNext(w)
        PROVE  SlotReserved' /\ ConcurrentBounded'
    <2>1. UNCHANGED analysisLock
      BY <1>2 DEF UploadNext, PresignRead, ProcessUpload, PresignSave, UploadReady,
                  UploadRead, UploadImageSave, UploadVideoSave, UploadFails,
                  UploadFailRead, UploadFailSave
    <2> QED
      BY <1>2, <2>1, UploadQuiet, QuietStep
  <1>3. ASSUME NEW w \in Workers, ExtractNext(w)
        PROVE  SlotReserved' /\ ConcurrentBounded'
    <2>1. UNCHANGED analysisLock
      BY <1>3 DEF ExtractNext, ExtractFrames, ExtractPut, ExtractPutFails, ExtractFails,
                  ExtractFailRead, ExtractFailSave, ExtractRead, ExtractSave, ExtractConflict
    <2> QED
      BY <1>3, <2>1, ExtractQuiet, QuietStep
  <1>4. ASSUME NEW w \in Workers, AnalyzeNext(w)
        PROVE  SlotReserved' /\ ConcurrentBounded'
    <2>1. UNCHANGED analysisLock \/ AssertAnalyze(w) \/ StartSave(w)
      BY <1>4 DEF AnalyzeNext, AnalyzeContent, StartMediaGone, StartRead, AnalyzeDeferred,
                  AnalyzeBlocked, QuotaFailRead, QuotaFailSave, Detect, VerdictRead,
                  VerdictSave, FinalizeRead, FinalizeList, FinalizeSave
    <2> QED
      BY <1>4, <2>1, AnalyzeQuiet, QuietStep, AssertStep, SaveStep
  <1>5. CASE RecoverNext
    <2>1. UNCHANGED analysisLock
      BY <1>5 DEF RecoverNext, RecoverPick, RecoverRead, FailList, FailSave, RequeueList,
                  RequeueLost, RequeueVerdict, RequeueParts
    <2> QED
      BY <1>5, <2>1, RecoverQuiet, QuietStep
  <1>6. CASE \/ \E m \in Medias : PutOriginal(m) \/ GoesOld(m)
             \/ \E x \in Medias \cup Contents : GoesStale(x)
             \/ DeleteNext
    <2>1. UNCHANGED <<analysisLock, content, task>>
      BY <1>6 DEF PutOriginal, GoesOld, GoesStale, DeleteNext, DeleteCampaign, PurgeObjects,
                  rowVars
    <2> QED
      BY <2>1, SameQuiet, QuietStep DEF Quiet
  <1>7. ASSUME NEW w \in Procs, Interrupted(w)
        PROVE  SlotReserved' /\ ConcurrentBounded'
    <2>1. Ends(w) /\ UNCHANGED content
      BY <1>7 DEF Interrupted, Retry, rowVars
    <2>2. Quiet
      BY <2>1, MovesQuiet, SameQuiet DEF Quiet, TypeOK, TaskType
    <2>3. task'[w].pc = "idle"
      BY <2>1 DEF Ends, Goes, NoTask, TypeOK
    <2>4. \A v \in Workers : task'[v].pc = "start_save" => analysisLock' = analysisLock
      BY <1>7, <2>2, <2>3 DEF Quiet, SlotReserved, Interrupted, At
    <2> QED
      BY <2>2, <2>4, QuietStep
  <1> QED
    BY <1>1, <1>2, <1>3, <1>4, <1>5, <1>6, <1>7 DEF Next

-----------------------------------------------------------------------------
(* Theorems *)

\* The initial state has the types, and no analysis has begun.
LEMMA InitSlots ==
  Init => TypeOK /\ SlotReserved /\ ConcurrentBounded
  <1> SUFFICES ASSUME Init PROVE TypeOK /\ SlotReserved /\ ConcurrentBounded
    OBVIOUS
  <1>1. TypeOK
    <2>1. NoTask \in Tasks
      BY DEF NoTask, Tasks
    <2>2. Row("none", "none") \in MediaRows /\ Part("none", "none") \in ContentRows
      BY RowTypes
    <2>3. 0 \in 0..MaxEvents /\ 0 \in 0..MaxFaults
      BY PipelineAssumption
    <2> QED
      BY <2>1, <2>2, <2>3 DEF Init, TypeOK
  <1>2. Analyzing = {}
    BY DEF Init, Analyzing, Part
  <1>3. ConcurrentBounded
    BY <1>2, FS_EmptySet, PipelineAssumption DEF ConcurrentBounded
  <1>4. SlotReserved
    BY DEF Init, SlotReserved, At, NoTask, Procs
  <1> QED
    BY <1>1, <1>3, <1>4

(* The types, and the reservation of the slot by the advisory lock between *)
(* the usage check of AssertAnalyze and the commit of StartAnalysis.       *)
THEOREM SlotsInvariant == Spec => [](TypeOK /\ SlotReserved /\ ConcurrentBounded)
  <1>1. Init => TypeOK /\ SlotReserved /\ ConcurrentBounded
    BY InitSlots
  <1>2. TypeOK /\ SlotReserved /\ ConcurrentBounded /\ [Next]_vars
        => (TypeOK /\ SlotReserved /\ ConcurrentBounded)'
    BY TypeStep, SlotStep
  <1> QED
    BY <1>1, <1>2, PTL DEF Spec

(* max_concurrent_analyses is never exceeded: AssertAnalyze's lock holds   *)
(* against every interleaving of handlers, scheduler, deletion and faults. *)
THEOREM ConcurrencyRespected == Spec => []ConcurrentBounded
  BY SlotsInvariant, PTL

(* Every reachable state of the pipeline has its types. *)
THEOREM PipelineTypes == Spec => []TypeOK
  BY SlotsInvariant, PTL
=============================================================================
