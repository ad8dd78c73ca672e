--------------------------- MODULE OutcomeProofs ---------------------------
(***************************************************************************)
(* What becomes of contents and media in MediaPipeline when the scheduler  *)
(* requeues nothing: the outcome of a content is final, the verdict of a   *)
(* media is that of its contents, the verifications stay within the plan;  *)
(* and the worker that ends the last content finalizes the media.          *)
(***************************************************************************)
EXTENDS MediaPipelineProofs

USE DEF NewPendingUpload, StartProcessing, RenderGlobalVerdict, MarkFailed, Touch,
        RequeueUploaded, NewFromMedia, StartAnalysis, RenderVerdict, MarkPartFailed,
        RequeueAnalysis

\* The step keeps what has ended.
Kept == \A c \in Contents : IsTerminal(c) => content'[c] = content[c]

-----------------------------------------------------------------------------
(* Tasks *)

\* A step of one goroutine is no step of another.
LEMMA GoesFrame ==
  ASSUME TypeOK, NEW w \in Workers, NEW t, Goes(w, t)
  PROVE  /\ task'[w] = t
         /\ \A v \in Workers \ {w} : task'[v] = task[v]
         /\ task'[Scheduler] = task[Scheduler]
  BY PipelineAssumption DEF TypeOK, Goes, Procs

\* A worker that ends its task is idle.
LEMMA EndsFrame ==
  ASSUME TypeOK, NEW w \in Workers, Ends(w)
  PROVE  /\ task'[w] = NoTask /\ task'[w].pc = "idle"
         /\ \A v \in Workers \ {w} : task'[v] = task[v]
         /\ task'[Scheduler] = task[Scheduler]
  <1>1. NoTask.pc = "idle"
    BY DEF NoTask
  <1> QED
    BY <1>1, GoesFrame DEF Ends

\* A worker that takes up a task works on what it took up.
LEMMA StartsFrame ==
  ASSUME TypeOK, NEW w \in Workers, NEW p, NEW x, Starts(w, p, x)
  PROVE  /\ task'[w].pc = p /\ task'[w].of = x
         /\ \A v \in Workers \ {w} : task'[v] = task[v]
         /\ task'[Scheduler] = task[Scheduler]
  <1>1. [NoTask EXCEPT !.pc = p, !.of = x].pc = p /\ [NoTask EXCEPT !.pc = p, !.of = x].of = x
    BY DEF NoTask
  <1> QED
    BY <1>1, GoesFrame DEF Starts

\* A worker that goes on with its task works on the same.
LEMMA StepFrame ==
  ASSUME TypeOK, NEW w \in Workers, NEW p, Step(w, p)
  PROVE  /\ task'[w].pc = p /\ task'[w].of = task[w].of /\ task'[w].label = task[w].label
         /\ \A v \in Workers \ {w} : task'[v] = task[v]
         /\ task'[Scheduler] = task[Scheduler]
  <1>1. task[w] \in Tasks
    BY DEF TypeOK, Procs
  <1>2. /\ [task[w] EXCEPT !.pc = p].pc = p
        /\ [task[w] EXCEPT !.pc = p].of = task[w].of
        /\ [task[w] EXCEPT !.pc = p].label = task[w].label
    BY <1>1 DEF Tasks
  <1> QED
    BY <1>2, GoesFrame DEF Step

\* The media steps, the content steps and idling are apart.
LEMMA StepsApart ==
  /\ MediaSteps \cap ContentSteps = {}
  /\ "idle" \notin MediaSteps \cup ContentSteps
  /\ StartingSteps \subseteq ContentSteps
  /\ UploadSteps \cup ExtractSteps \subseteq MediaSteps
  BY DEF MediaSteps, ContentSteps, StartingSteps, UploadSteps, ExtractSteps

\* No analysis begins or goes on.
TasksAside ==
  /\ task'[Scheduler] = task[Scheduler]
  /\ \A v \in Workers : task'[v].pc \in ContentSteps => task'[v] = task[v]

\* A worker that ends, or takes up or goes on with a media, leaves the analyses alone.
LEMMA AsideTasks ==
  ASSUME TypeOK, NEW w \in Workers,
         \/ Ends(w)
         \/ \E p \in MediaSteps : \E x : Starts(w, p, x)
         \/ \E p \in MediaSteps : Step(w, p)
  PROVE  TasksAside
  <1>1. CASE Ends(w)
    BY <1>1, EndsFrame, StepsApart DEF TasksAside
  <1>2. CASE \E p \in MediaSteps : \E x : Starts(w, p, x)
    BY <1>2, StartsFrame, StepsApart DEF TasksAside
  <1>3. CASE \E p \in MediaSteps : Step(w, p)
    BY <1>3, StepFrame, StepsApart DEF TasksAside
  <1> QED
    BY <1>1, <1>2, <1>3

\* No media gets a verdict.
MediaAside ==
  \A m \in Medias : media'[m].status = "analyzed" =>
    media[m].status = "analyzed" /\ media'[m].verdict = media[m].verdict

\* A saved row without a verdict gives none.
LEMMA SaveAside ==
  ASSUME TypeOK, NEW m, NEW r, SaveMedia(m, r), r.status # "analyzed"
  PROVE  MediaAside
  BY DEF TypeOK, SaveMedia, MediaAside

-----------------------------------------------------------------------------
(* What kinds of step keep the outcomes *)

\* The verdict of a set of contents is the same as long as they are.
LEMMA SameVerdict ==
  \A S : (\A c \in S : content'[c] = content[c])
    => AggregateMediaVerdict(S)' = AggregateMediaVerdict(S)
  <1> SUFFICES ASSUME NEW S, \A c \in S : content'[c] = content[c]
               PROVE  AggregateMediaVerdict(S)' = AggregateMediaVerdict(S)
    OBVIOUS
  <1>1. {d \in S : content'[d].status # "failed"} = {d \in S : content[d].status # "failed"}
    OBVIOUS
  <1>2. {content'[c].label : c \in {d \in S : content'[d].status # "failed"}}
        = {content[c].label : c \in {d \in S : content[d].status # "failed"}}
    BY <1>1
  <1>3. (\E c \in S : content'[c].status = "failed") <=> (\E c \in S : content[c].status = "failed")
    OBVIOUS
  <1> QED
    BY <1>2, <1>3 DEF AggregateMediaVerdict

\* A media whose contents are left alone is as settled as before.
LEMMA SameParts ==
  ASSUME NEW m, \A c \in Parts(m) : content'[c] = content[c]
  PROVE  /\ Existing(m)' = Existing(m)
         /\ Settled(m)' = Settled(m)
         /\ AggregateMediaVerdict(Existing(m))' = AggregateMediaVerdict(Existing(m))
  <1>1. Existing(m)' = Existing(m)
    BY DEF Existing, Parts
  <1>2. \A c \in Existing(m) : content'[c] = content[c]
    BY DEF Existing
  <1>3. Settled(m)' = Settled(m)
    BY <1>1, <1>2 DEF Settled, IsTerminal
  <1> QED
    BY <1>1, <1>2, <1>3, SameVerdict

\* The steps that rely on an earlier read.
Relying == StartingSteps \cup {"verdict_save", "finalize_save"}

\* A media gets a verdict only as that of its contents, which have ended.
MediaSound ==
  \A m \in Medias : media'[m].status = "analyzed" =>
    \/ media[m].status = "analyzed" /\ media'[m].verdict = media[m].verdict
    \/ Settled(m) /\ media'[m].verdict = AggregateMediaVerdict(Existing(m))

\* A step that saves no content and brings no analysis to such a step.
LEMMA StillKeeps ==
  ASSUME TypeOK, Outcomes, content' = content, MediaSound,
         \A v \in Workers : task'[v].pc \in Relying => task'[v] = task[v]
  PROVE  Timely' /\ VerificationReserved' /\ VerificationsBounded' /\ Concluded' /\ Kept
  <1>1. \A S : S \subseteq Relying =>
          \A v \in Handling(S)' : v \in Handling(S) /\ task'[v] = task[v] /\ Of(v)' = Of(v)
    BY DEF Handling, Of
  <1>2. /\ StartingSteps \subseteq Relying /\ {"verdict_save"} \subseteq Relying
        /\ {"start_save"} \subseteq Relying /\ {"finalize_save"} \subseteq Relying
    BY DEF Relying, StartingSteps
  <1>3. Timely'
    <2>1. \A v \in Handling(StartingSteps)' : v \in Handling(StartingSteps) /\ Of(v)' = Of(v)
      BY <1>1, <1>2
    <2>2. \A v \in Handling({"verdict_save"})' : v \in Handling({"verdict_save"}) /\ Of(v)' = Of(v)
      BY <1>1, <1>2
    <2> QED
      BY <2>1, <2>2 DEF Outcomes, Timely
  <1>4. Charged' = Charged
    BY DEF Charged
  <1>5. VerificationReserved' /\ VerificationsBounded'
    <2>1. \A v \in Handling({"start_save"})' : v \in Handling({"start_save"})
      BY <1>1, <1>2
    <2> QED
      BY <1>4, <2>1 DEF Outcomes, VerificationReserved, VerificationLeft, VerificationsBounded
  <1>6. Concluded'
    <2>1. \A n : /\ Settled(n)' = Settled(n) /\ Existing(n)' = Existing(n)
                 /\ AggregateMediaVerdict(Existing(n))' = AggregateMediaVerdict(Existing(n))
      BY SameParts
    <2>2. \A v \in Handling({"finalize_save"})' :
            v \in Handling({"finalize_save"}) /\ task'[v] = task[v] /\ Owner(Of(v))' = Owner(Of(v))
      BY <1>1, <1>2 DEF Owner
    <2>3. \A v \in Handling({"finalize_save"})' :
            /\ Settled(Owner(Of(v)))'
            /\ task'[v].label = AggregateMediaVerdict(Existing(Owner(Of(v))))'
      BY <2>1, <2>2 DEF Outcomes, Concluded
    <2>4. \A n \in Medias : media'[n].status = "analyzed" =>
            Settled(n)' /\ media'[n].verdict = AggregateMediaVerdict(Existing(n))'
      BY <2>1 DEF Outcomes, Concluded, MediaSound
    <2> QED
      BY <2>3, <2>4 DEF Concluded
  <1> QED
    BY <1>3, <1>5, <1>6 DEF Kept

\* A step of anything but an analysis.
Elsewhere == TasksAside /\ MediaAside /\ UNCHANGED <<content, analyses>>

\* Such a step keeps the outcomes.
LEMMA ElsewhereKeeps ==
  ASSUME TypeOK, Outcomes, Elsewhere
  PROVE  Outcomes' /\ Kept
  <1>1. /\ content' = content /\ analyses' = analyses
        /\ \A v \in Workers : task'[v].pc \in ContentSteps => task'[v] = task[v]
        /\ task'[Scheduler] = task[Scheduler]
    BY DEF Elsewhere, TasksAside
  <1>2. OneAttempt'
    <2>1. \A v \in Workers, c \in Contents : Attempts(v, c)' => Attempts(v, c)
      BY <1>1 DEF Attempts, Of
    <2> QED
      BY <1>1, <2>1 DEF Outcomes, OneAttempt
  <1>3. \A v \in Workers : task'[v].pc \in Relying => task'[v] = task[v]
    BY <1>1 DEF Relying, StartingSteps, ContentSteps
  <1>4. MediaSound
    BY DEF Elsewhere, MediaAside, MediaSound
  <1> QED
    BY <1>1, <1>2, <1>3, <1>4, StillKeeps DEF Outcomes

\* An undelivered event more.
LEMMA MoreThanNone == More(0) = 1
  BY PipelineAssumption DEF More

\* A step that creates the contents of a media that has none.
Creates(m) ==
  /\ TasksAside /\ MediaAside
  /\ Existing(m) = {}
  /\ SaveContents(Parts(m), NewFromMedia)
  /\ AddAnalyses(Parts(m))

\* Such a step keeps the outcomes.
LEMMA CreatesKeeps ==
  ASSUME TypeOK, Outcomes, NEW m \in Medias, Creates(m)
  PROVE  Outcomes' /\ Kept
  <1>1. \A c \in Parts(m) :
          /\ c \in Contents /\ content[c].status = "none"
          /\ content'[c].status = "uploaded"
          /\ analyses'[c] = 1 /\ \A v \in Workers : ~Attempts(v, c)
    <2> SUFFICES ASSUME NEW c \in Parts(m)
                 PROVE  /\ c \in Contents /\ content[c].status = "none"
                        /\ content'[c].status = "uploaded"
                        /\ analyses'[c] = 1 /\ \A v \in Workers : ~Attempts(v, c)
      OBVIOUS
    <2>1. c \in Contents /\ content[c].status = "none"
      BY DEF Creates, Existing, Parts
    <2>2. analyses[c] = 0 /\ \A v \in Workers : ~Attempts(v, c)
      BY <2>1 DEF Outcomes, OneAttempt
    <2>3. content'[c].status = "uploaded"
      BY <2>1 DEF Creates, SaveContents, Part
    <2>4. analyses'[c] = 1
      BY <2>1, <2>2, MoreThanNone DEF Creates, AddAnalyses
    <2> QED
      BY <2>1, <2>2, <2>3, <2>4
  <1>2. \A c \in Contents \ Parts(m) : content'[c] = content[c] /\ analyses'[c] = analyses[c]
    BY DEF Creates, SaveContents, AddAnalyses
  <1>3. /\ task'[Scheduler] = task[Scheduler]
        /\ \A v \in Workers : task'[v].pc \in ContentSteps =>
             /\ task'[v] = task[v] /\ Of(v) \in Contents
             /\ content'[Of(v)] = content[Of(v)]
    <2>1. ASSUME NEW v \in Workers, task'[v].pc \in ContentSteps
          PROVE  task'[v] = task[v] /\ Of(v) \in Contents /\ content'[Of(v)] = content[Of(v)]
      <3>1. task'[v] = task[v]
        BY <2>1 DEF Creates, TasksAside
      <3>2. Of(v) \in Contents /\ Attempts(v, Of(v))
        BY <2>1, <3>1, TaskFields DEF TypeOK, TaskType, Procs, Attempts
      <3> QED
        BY <1>1, <1>2, <3>1, <3>2
    <2> QED
      BY <2>1 DEF Creates, TasksAside
  <1>4. OneAttempt'
    <2>1. \A v \in Workers, c \in Contents : Attempts(v, c)' => Attempts(v, c)
      BY <1>3 DEF Attempts, Of
    <2>2. task'[Scheduler].pc = "idle"
      BY <1>3 DEF Outcomes, OneAttempt
    <2>3. ASSUME NEW c \in Contents
          PROVE  /\ analyses'[c] <= 1
                 /\ content'[c].status = "none" => analyses'[c] = 0
                 /\ \A w \in Workers : Attempts(w, c)' =>
                      /\ content'[c].status # "none" /\ analyses'[c] = 0
                      /\ \A v \in Workers : Attempts(v, c)' => v = w
      <3>1. CASE c \in Parts(m)
        BY <1>1, <2>1, <3>1
      <3>2. CASE c \notin Parts(m)
        BY <1>2, <2>1, <3>2 DEF Outcomes, OneAttempt
      <3> QED
        BY <3>1, <3>2
    <2> QED
      BY <2>2, <2>3 DEF OneAttempt
  <1>5. Timely'
    <2>1. \A w \in Handling(StartingSteps)' :
            w \in Handling(StartingSteps) /\ Of(w)' = Of(w) /\ content'[Of(w)] = content[Of(w)]
      BY <1>3, StepsApart DEF Handling, Of
    <2>2. "verdict_save" \in ContentSteps
      BY DEF ContentSteps
    <2>3. \A w \in Handling({"verdict_save"})' :
            w \in Handling({"verdict_save"}) /\ Of(w)' = Of(w) /\ content'[Of(w)] = content[Of(w)]
      BY <1>3, <2>2 DEF Handling, Of
    <2> QED
      BY <2>1, <2>3 DEF Outcomes, Timely
  <1>6. Charged' = Charged
    BY <1>1, <1>2 DEF Charged
  <1>7. VerificationReserved' /\ VerificationsBounded'
    <2>1. "start_save" \in ContentSteps
      BY DEF ContentSteps
    <2>2. \A w \in Handling({"start_save"})' : w \in Handling({"start_save"})
      BY <1>3, <2>1 DEF Handling
    <2> QED
      BY <1>6, <2>2 DEF Outcomes, VerificationReserved, VerificationLeft, VerificationsBounded
  <1>8. \A n : n # m => /\ Settled(n)' = Settled(n) /\ Existing(n)' = Existing(n)
                        /\ AggregateMediaVerdict(Existing(n))' = AggregateMediaVerdict(Existing(n))
    <2>1. \A n : n # m => \A c \in Parts(n) : content'[c] = content[c]
      BY <1>2 DEF Parts
    <2> QED
      BY <2>1, SameParts
  <1>9. ~Settled(m)
    BY DEF Creates, Settled
  <1>10. Concluded'
    <2>1. "finalize_save" \in ContentSteps
      BY DEF ContentSteps
    <2>2. \A w \in Handling({"finalize_save"})' :
            w \in Handling({"finalize_save"}) /\ task'[w] = task[w] /\ Of(w)' = Of(w)
      BY <1>3, <2>1 DEF Handling, Of
    <2>3. ASSUME NEW n \in Medias, media'[n].status = "analyzed"
          PROVE  Settled(n)' /\ media'[n].verdict = AggregateMediaVerdict(Existing(n))'
      <3>1. /\ media[n].status = "analyzed" /\ media'[n].verdict = media[n].verdict
            /\ Settled(n) /\ media[n].verdict = AggregateMediaVerdict(Existing(n))
        BY <2>3 DEF Creates, MediaAside, Outcomes, Concluded
      <3> QED
        BY <1>8, <1>9, <3>1
    <2>4. ASSUME NEW w \in Handling({"finalize_save"})'
          PROVE  /\ Settled(Owner(Of(w)))'
                 /\ task'[w].label = AggregateMediaVerdict(Existing(Owner(Of(w))))'
      <3>1. /\ Settled(Owner(Of(w)))
            /\ task[w].label = AggregateMediaVerdict(Existing(Owner(Of(w))))
        BY <2>2, <2>4 DEF Outcomes, Concluded
      <3>2. Owner(Of(w)) # m
        BY <1>9, <3>1
      <3>3. \A n : n # m /\ Settled(n) /\ task[w].label = AggregateMediaVerdict(Existing(n))
              => Settled(n)' /\ task'[w].label = AggregateMediaVerdict(Existing(n))'
        BY <1>8, <2>2, <2>4
      <3>4. Of(w)' = Of(w)
        BY <2>2, <2>4
      <3> QED
        BY <3>1, <3>2, <3>3, <3>4 DEF Owner
    <2> QED
      BY <2>3, <2>4 DEF Concluded
  <1>11. Kept
    BY <1>1, <1>2 DEF Kept, IsTerminal
  <1> QED
    BY <1>4, <1>5, <1>7, <1>10, <1>11 DEF Outcomes

\* A step of an analysis that saves nothing, with what it has decided from.
Moves(w) ==
  /\ task[w].pc \in ContentSteps /\ task'[w].pc \in ContentSteps
  /\ task'[w].of = task[w].of
  /\ task'[Scheduler] = task[Scheduler]
  /\ \A v \in Workers \ {w} : task'[v] = task[v]
  /\ UNCHANGED <<content, analyses, media>>
  /\ task'[w].pc \in StartingSteps => content[Of(w)].status = "uploaded"
  /\ task'[w].pc = "verdict_save" => content[Of(w)].status = "analyzing"
  /\ task'[w].pc = "start_save" => VerificationLeft
  /\ task'[w].pc = "finalize_save" =>
       /\ Settled(Owner(Of(w)))
       /\ task'[w].label = AggregateMediaVerdict(Existing(Owner(Of(w))))

\* Such a step keeps the outcomes.
LEMMA MovesKeeps ==
  ASSUME TypeOK, Outcomes, NEW w \in Workers, Moves(w)
  PROVE  Outcomes' /\ Kept
  <1>1. /\ content' = content /\ analyses' = analyses /\ media' = media
        /\ \A v \in Workers : Of(v)' = Of(v)
        /\ \A v \in Workers \ {w} : task'[v] = task[v]
    BY DEF Moves, Of
  <1>2. OneAttempt'
    <2>1. \A v \in Workers, c \in Contents : Attempts(v, c)' => Attempts(v, c)
      BY <1>1 DEF Attempts, Moves
    <2>2. task'[Scheduler].pc = "idle"
      BY DEF Moves, Outcomes, OneAttempt
    <2> QED
      BY <1>1, <2>1, <2>2 DEF Outcomes, OneAttempt
  <1>3. Timely'
    <2>1. \A v \in Handling(StartingSteps)' : content'[Of(v)].status = "uploaded"
      BY <1>1 DEF Handling, Moves, Outcomes, Timely
    <2>2. \A v \in Handling({"verdict_save"})' : content'[Of(v)].status = "analyzing"
      BY <1>1 DEF Handling, Moves, Outcomes, Timely
    <2> QED
      BY <1>1, <2>1, <2>2 DEF Timely, Handling
  <1>4. Charged' = Charged
    BY <1>1 DEF Charged
  <1>5. VerificationReserved' /\ VerificationsBounded'
    <2>1. Handling({"start_save"})' # {} => VerificationLeft
      BY <1>1 DEF Handling, Moves, Outcomes, VerificationReserved
    <2> QED
      BY <1>4, <2>1 DEF Outcomes, VerificationReserved, VerificationLeft, VerificationsBounded
  <1>6. Concluded'
    <2>1. \A n : /\ Settled(n)' = Settled(n) /\ Existing(n)' = Existing(n)
                 /\ AggregateMediaVerdict(Existing(n))' = AggregateMediaVerdict(Existing(n))
      BY <1>1, SameParts
    <2>2. ASSUME NEW v \in Handling({"finalize_save"})'
          PROVE  /\ Settled(Owner(Of(v)))
                 /\ task'[v].label = AggregateMediaVerdict(Existing(Owner(Of(v))))
      <3>1. CASE v = w
        BY <2>2, <3>1 DEF Moves, Handling
      <3>2. CASE v # w
        <4>1. v \in Handling({"finalize_save"}) /\ task'[v] = task[v]
          BY <1>1, <2>2, <3>2 DEF Handling
        <4> QED
          BY <4>1 DEF Outcomes, Concluded
      <3> QED
        BY <3>1, <3>2
    <2>3. \A v \in Handling({"finalize_save"})' : Owner(Of(v))' = Owner(Of(v))
      BY <1>1 DEF Handling, Owner
    <2>4. \A v \in Handling({"finalize_save"})' :
            /\ Settled(Owner(Of(v)))'
            /\ task'[v].label = AggregateMediaVerdict(Existing(Owner(Of(v))))'
      BY <2>1, <2>2, <2>3
    <2>5. \A n \in Medias : media'[n].status = "analyzed" =>
            Settled(n)' /\ media'[n].verdict = AggregateMediaVerdict(Existing(n))'
      BY <1>1, <2>1 DEF Outcomes, Concluded
    <2> QED
      BY <2>4, <2>5 DEF Concluded
  <1>7. Kept
    BY <1>1 DEF Kept
  <1> QED
    BY <1>2, <1>3, <1>5, <1>6, <1>7 DEF Outcomes

\* Taking an event keeps the outcomes: the event was the only one of its content.
LEMMA TakeKeeps ==
  ASSUME TypeOK, Outcomes, NEW w \in Workers, NEW c \in Contents, AnalyzeContent(w, c)
  PROVE  Outcomes' /\ Kept
  <1>1. /\ task'[Scheduler] = task[Scheduler]
        /\ \A v \in Workers \ {w} : task'[v] = task[v]
        /\ \/ task'[w].pc = "idle"
           \/ /\ task'[w].pc \in {"start", "detect", "finalize"} /\ task'[w].of = c
              /\ content[c].status # "none"
    <2>1. \/ Ends(w)
          \/ \E p \in {"start", "detect", "finalize"} : Starts(w, p, c) /\ content[c].status # "none"
      BY DEF AnalyzeContent
    <2> QED
      BY <2>1, EndsFrame, StartsFrame
  <1>2. analyses[c] = 1 /\ analyses' = [analyses EXCEPT ![c] = 0]
    <2>1. analyses[c] \in 0..MaxEvents /\ analyses[c] > 0 /\ analyses[c] <= 1
      BY DEF TypeOK, AnalyzeContent, Outcomes, OneAttempt
    <2>2. analyses[c] = 1
      BY <2>1, PipelineAssumption
    <2>3. analyses[c] - 1 = 0
      BY <2>2
    <2> QED
      BY <2>2, <2>3 DEF AnalyzeContent
  <1>3. content' = content /\ media' = media
    BY DEF AnalyzeContent, rowVars
  <1>4. \A v \in Workers : task'[v].pc \in Relying => task'[v] = task[v]
    BY <1>1 DEF Relying, StartingSteps
  <1>5. OneAttempt'
    <2>1. \A v \in Workers : ~Attempts(v, c)
      BY <1>2 DEF Outcomes, OneAttempt
    <2>2. \A v \in Workers, d \in Contents :
            Attempts(v, d)' => Attempts(v, d) \/ (v = w /\ d = c /\ content[c].status # "none")
      <3>1. \A d \in Contents : Attempts(w, d)' => d = c /\ content[c].status # "none"
        BY <1>1, StepsApart DEF Attempts, Of
      <3>2. \A v \in Workers \ {w}, d \in Contents : Attempts(v, d)' => Attempts(v, d)
        BY <1>1 DEF Attempts, Of
      <3> QED
        BY <3>1, <3>2
    <2>3. task'[Scheduler].pc = "idle"
      BY <1>1 DEF Outcomes, OneAttempt
    <2>4. ASSUME NEW d \in Contents
          PROVE  /\ analyses'[d] <= 1
                 /\ content'[d].status = "none" => analyses'[d] = 0
                 /\ \A u \in Workers : Attempts(u, d)' =>
                      /\ content'[d].status # "none" /\ analyses'[d] = 0
                      /\ \A v \in Workers : Attempts(v, d)' => v = u
      <3>1. CASE d = c
        <4>1. analyses'[d] = 0
          BY <1>2, <3>1 DEF TypeOK
        <4> QED
          BY <1>3, <2>1, <2>2, <3>1, <4>1
      <3>2. CASE d # c
        <4>1. analyses'[d] = analyses[d]
          BY <1>2, <3>2 DEF TypeOK
        <4> QED
          BY <1>3, <2>2, <3>2, <4>1 DEF Outcomes, OneAttempt
      <3> QED
        BY <3>1, <3>2
    <2> QED
      BY <2>3, <2>4 DEF OneAttempt
  <1> QED
    BY <1>3, <1>4, <1>5, StillKeeps DEF Outcomes, MediaSound

\* An attempt that saves nothing and is given up, its event given back or gone.
LEMMA ReturnKeeps ==
  ASSUME TypeOK, Outcomes, NEW w \in Workers, task[w].pc \in ContentSteps,
         Retry(w), content' = content, media' = media
  PROVE  Outcomes' /\ Kept
  <1> DEFINE c == Of(w)
  <1>1. c \in Contents /\ Attempts(w, c)
    BY TaskFields DEF TypeOK, TaskType, Procs, Attempts
  <1>2. /\ task'[Scheduler] = task[Scheduler] /\ task'[w].pc = "idle"
        /\ \A v \in Workers \ {w} : task'[v] = task[v]
    BY EndsFrame DEF Retry
  <1>3. \A v \in Workers : task'[v].pc \in Relying => task'[v] = task[v]
    BY <1>2 DEF Relying, StartingSteps
  <1>4. /\ analyses[c] = 0 /\ content[c].status # "none"
        /\ \A v \in Workers : Attempts(v, c) => v = w
    BY <1>1 DEF Outcomes, OneAttempt
  <1>5. analyses'[c] \in {0, 1} /\ \A d \in Contents \ {c} : analyses'[d] = analyses[d]
    BY <1>1, <1>4, MoreThanNone DEF Retry, AddAnalyses
  <1>6. OneAttempt'
    <2>1. \A v \in Workers, d \in Contents : Attempts(v, d)' => Attempts(v, d) /\ v # w
      BY <1>2, StepsApart DEF Attempts, Of
    <2>2. task'[Scheduler].pc = "idle"
      BY <1>2 DEF Outcomes, OneAttempt
    <2>3. ASSUME NEW d \in Contents
          PROVE  /\ analyses'[d] <= 1
                 /\ content'[d].status = "none" => analyses'[d] = 0
                 /\ \A u \in Workers : Attempts(u, d)' =>
                      /\ content'[d].status # "none" /\ analyses'[d] = 0
                      /\ \A v \in Workers : Attempts(v, d)' => v = u
      <3>1. CASE d = c
        BY <1>4, <1>5, <2>1, <3>1
      <3>2. CASE d # c
        BY <1>5, <2>1, <3>2 DEF Outcomes, OneAttempt
      <3> QED
        BY <3>1, <3>2
    <2> QED
      BY <2>2, <2>3 DEF OneAttempt
  <1> QED
    BY <1>3, <1>6, StillKeeps DEF Outcomes, MediaSound

\* The worker that saves a verdict has seen its contents ended, and they still are.
LEMMA FinalizeKeeps ==
  ASSUME TypeOK, Outcomes, NEW w \in Workers, FinalizeSave(w)
  PROVE  Outcomes' /\ Kept
  <1>1. /\ task'[Scheduler] = task[Scheduler] /\ task'[w].pc = "idle"
        /\ \A v \in Workers \ {w} : task'[v] = task[v]
    BY EndsFrame DEF FinalizeSave
  <1>2. content' = content /\ analyses' = analyses
    BY DEF FinalizeSave, eventVars
  <1>3. OneAttempt'
    <2>1. \A v \in Workers, d \in Contents : Attempts(v, d)' => Attempts(v, d)
      BY <1>1, StepsApart DEF Attempts, Of
    <2>2. task'[Scheduler].pc = "idle"
      BY <1>1 DEF Outcomes, OneAttempt
    <2> QED
      BY <1>2, <2>1, <2>2 DEF Outcomes, OneAttempt
  <1>4. \A v \in Workers : task'[v].pc \in Relying => task'[v] = task[v]
    BY <1>1 DEF Relying, StartingSteps
  <1>5. MediaSound
    <2> DEFINE m == Owner(Of(w))
    <2>1. Settled(m) /\ task[w].label = AggregateMediaVerdict(Existing(m))
      BY DEF FinalizeSave, At, Handling, Outcomes, Concluded
    <2>2. media' = [media EXCEPT ![m] = Row("analyzed", task[w].label)]
      BY DEF FinalizeSave, SaveMedia
    <2>3. m \in Medias => media'[m].verdict = task[w].label
      BY <2>2 DEF TypeOK, Row
    <2>4. \A n \in Medias : n # m => media'[n] = media[n]
      BY <2>2 DEF TypeOK
    <2> HIDE DEF m
    <2> QED
      BY <2>1, <2>3, <2>4 DEF MediaSound
  <1> QED
    BY <1>2, <1>3, <1>4, <1>5, StillKeeps DEF Outcomes

\* A step that saves the content of its task, read when it had not ended.
Saves(w, r) ==
  /\ task[w].pc \in ContentSteps
  /\ content[Of(w)].status \in {"uploaded", "analyzing"}
  /\ SaveContents({Of(w)}, r) /\ r.status # "none"
  /\ task'[Scheduler] = task[Scheduler]
  /\ \A v \in Workers \ {w} : task'[v] = task[v]
  /\ \/ task'[w].pc = "idle"
     \/ task'[w].pc \in {"detect", "finalize"} /\ task'[w].of = task[w].of
  /\ MediaAside
  /\ analyses' = analyses
  /\ \/ Charged' \subseteq Charged
     \/ /\ Charged' \subseteq Charged \cup {Of(w)}
        /\ VerificationLeft
        /\ Handling({"start_save"}) \subseteq {w}

\* A verification more, if one was left.
LEMMA ChargedCount ==
  ASSUME VerificationsBounded, NEW c,
         \/ Charged' \subseteq Charged
         \/ Charged' \subseteq Charged \cup {c} /\ VerificationLeft
  PROVE  /\ VerificationsBounded'
         /\ Charged' \subseteq Charged => Cardinality(Charged') <= Cardinality(Charged)
  <1>1. IsFiniteSet(Charged) /\ Cardinality(Charged) \in Nat
    BY ContentsFinite, FS_Subset, FS_CardinalityType DEF Charged
  <1>2. /\ IsFiniteSet(Charged \cup {c})
        /\ Cardinality(Charged \cup {c}) \in Nat
        /\ Cardinality(Charged \cup {c}) <= Cardinality(Charged) + 1
    BY <1>1, FS_AddElement, FS_CardinalityType
  <1>3. CASE Charged' \subseteq Charged
    <2>1. Cardinality(Charged') \in Nat /\ Cardinality(Charged') <= Cardinality(Charged)
      BY <1>1, <1>3, FS_Subset, FS_CardinalityType
    <2> QED
      BY <1>1, <2>1, PipelineAssumption DEF VerificationsBounded
  <1>4. CASE Charged' \subseteq Charged \cup {c} /\ VerificationLeft /\ ~(Charged' \subseteq Charged)
    <2>1. Cardinality(Charged') \in Nat /\ Cardinality(Charged') <= Cardinality(Charged \cup {c})
      BY <1>2, <1>4, FS_Subset, FS_CardinalityType
    <2>2. Cardinality(Charged) < MaxVerifications
      BY <1>4 DEF VerificationLeft
    <2>3. Cardinality(Charged') <= MaxVerifications
      BY <1>1, <1>2, <2>1, <2>2, PipelineAssumption
    <2> QED
      BY <1>4, <2>3 DEF VerificationsBounded
  <1> QED
    BY <1>3, <1>4

\* Such a step keeps the outcomes: nobody else is at the content, and its
\* media has no verdict.
LEMMA SavesKeeps ==
  ASSUME TypeOK, Outcomes, NEW w \in Workers, NEW r, Saves(w, r)
  PROVE  Outcomes' /\ Kept
  <1> DEFINE c == Of(w)
             m == Owner(c)
  <1>1. c \in Contents /\ Attempts(w, c) /\ \A v \in Workers : Attempts(v, c) => v = w
    BY TaskFields DEF Saves, TypeOK, TaskType, Procs, Attempts, Outcomes, OneAttempt
  <1>2. /\ content'[c].status # "none"
        /\ \A d \in Contents \ {c} : content'[d] = content[d]
    BY <1>1 DEF Saves, SaveContents
  <1>3. ~IsTerminal(c) /\ content[c].status # "none" /\ ~Settled(m)
    <2>1. ~IsTerminal(c) /\ content[c].status # "none"
      BY DEF Saves, IsTerminal
    <2>2. c \in Existing(m)
      BY <1>1, <2>1 DEF Existing, Parts
    <2> QED
      BY <2>1, <2>2 DEF Settled
  <1> HIDE DEF c, m
  <1>4. \A v \in Workers : task'[v].pc \in Relying =>
          /\ v # w /\ task'[v] = task[v] /\ Of(v)' = Of(v)
    <2>1. \A v \in Workers : task'[v].pc \in Relying => v # w
      BY DEF Saves, Relying, StartingSteps
    <2> QED
      BY <2>1 DEF Saves, Of
  <1>5. \A S : S \subseteq Relying =>
          \A v \in Handling(S)' : /\ v \in Handling(S) /\ v # w
                                  /\ task'[v] = task[v] /\ Of(v)' = Of(v)
    BY <1>4 DEF Handling
  <1>6. /\ StartingSteps \subseteq Relying /\ {"verdict_save"} \subseteq Relying
        /\ {"start_save"} \subseteq Relying /\ {"finalize_save"} \subseteq Relying
        /\ Relying \subseteq ContentSteps
    BY DEF Relying, StartingSteps, ContentSteps
  <1>7. OneAttempt'
    <2>1. \A v \in Workers, d \in Contents : Attempts(v, d)' => Attempts(v, d)
      <3>1. \A d \in Contents : Attempts(w, d)' => Attempts(w, d)
        BY StepsApart DEF Attempts, Of, Saves
      <3>2. \A v \in Workers \ {w}, d \in Contents : Attempts(v, d)' => Attempts(v, d)
        BY DEF Attempts, Of, Saves
      <3> QED
        BY <3>1, <3>2
    <2>2. task'[Scheduler].pc = "idle"
      BY DEF Saves, Outcomes, OneAttempt
    <2>3. \A d \in Contents : content'[d].status = "none" <=> content[d].status = "none"
      BY <1>2, <1>3
    <2>4. analyses' = analyses
      BY DEF Saves
    <2> QED
      BY <2>1, <2>2, <2>3, <2>4 DEF Outcomes, OneAttempt
  <1>8. Timely'
    <2>1. \A v \in Workers : v # w /\ task[v].pc \in Relying => content'[Of(v)] = content[Of(v)]
      <3>1. ASSUME NEW v \in Workers, v # w, task[v].pc \in Relying
            PROVE  content'[Of(v)] = content[Of(v)]
        <4>1. Of(v) \in Contents /\ Attempts(v, Of(v))
          BY <1>6, <3>1, TaskFields DEF TypeOK, TaskType, Procs, Attempts
        <4>2. Of(v) # c
          BY <1>1, <3>1, <4>1
        <4> QED
          BY <1>2, <4>1, <4>2
      <3> QED
        BY <3>1
    <2>2. \A v \in Handling(StartingSteps)' :
            v \in Handling(StartingSteps) /\ Of(v)' = Of(v) /\ content'[Of(v)] = content[Of(v)]
      BY <1>5, <1>6, <2>1 DEF Handling
    <2>3. \A v \in Handling({"verdict_save"})' :
            v \in Handling({"verdict_save"}) /\ Of(v)' = Of(v) /\ content'[Of(v)] = content[Of(v)]
      BY <1>5, <1>6, <2>1 DEF Handling
    <2> QED
      BY <2>2, <2>3 DEF Outcomes, Timely
  <1>9. VerificationsBounded'
    BY ChargedCount DEF Saves, Outcomes
  <1>10. VerificationReserved'
    <2> SUFFICES ASSUME Handling({"start_save"})' # {} PROVE VerificationLeft'
      BY DEF VerificationReserved
    <2>1. PICK v \in Handling({"start_save"})' : TRUE
      OBVIOUS
    <2>2. v \in Handling({"start_save"}) /\ v # w
      BY <1>5, <1>6, <2>1
    <2>3. VerificationLeft /\ Charged' \subseteq Charged
      BY <2>2 DEF Outcomes, VerificationReserved, Saves
    <2>4. Cardinality(Charged') <= Cardinality(Charged) /\ Cardinality(Charged) < MaxVerifications
      BY <2>3, ChargedCount DEF Outcomes, VerificationLeft
    <2>5. Cardinality(Charged') \in Nat /\ Cardinality(Charged) \in Nat
      BY <2>3, ContentsFinite, FS_Subset, FS_CardinalityType DEF Charged
    <2> QED
      BY <2>4, <2>5, PipelineAssumption DEF VerificationLeft
  <1>11. Concluded'
    <2>1. \A n : n # m => /\ Settled(n)' = Settled(n) /\ Existing(n)' = Existing(n)
                          /\ AggregateMediaVerdict(Existing(n))' = AggregateMediaVerdict(Existing(n))
      <3>1. \A n : n # m => \A d \in Parts(n) : content'[d] = content[d]
        BY <1>2 DEF Parts, m
      <3> QED
        BY <3>1, SameParts
    <2>2. \A n \in Medias : media'[n].status = "analyzed" =>
            Settled(n)' /\ media'[n].verdict = AggregateMediaVerdict(Existing(n))'
      BY <1>3, <2>1 DEF Outcomes, Concluded, Saves, MediaAside
    <2>3. \A v \in Handling({"finalize_save"})' :
            v \in Handling({"finalize_save"}) /\ task'[v] = task[v] /\ Owner(Of(v))' = Owner(Of(v))
      BY <1>5, <1>6 DEF Owner
    <2>4. \A v \in Handling({"finalize_save"})' :
            /\ Settled(Owner(Of(v)))'
            /\ task'[v].label = AggregateMediaVerdict(Existing(Owner(Of(v))))'
      BY <1>3, <2>1, <2>3 DEF Outcomes, Concluded
    <2> QED
      BY <2>2, <2>4 DEF Concluded
  <1>12. Kept
    BY <1>2, <1>3 DEF Kept
  <1> QED
    BY <1>7, <1>8, <1>9, <1>10, <1>11, <1>12 DEF Outcomes

-----------------------------------------------------------------------------
(* Every step is of one of these kinds *)

\* Presign and upload processing.
LEMMA UploadKeeps ==
  ASSUME TypeOK, Outcomes, NEW w \in Workers, UploadNext(w)
  PROVE  Outcomes' /\ Kept
  <1>1. ASSUME NEW m \in Medias, PresignRead(w, m) PROVE Elsewhere
    BY <1>1, AsideTasks DEF PresignRead, Elsewhere, MediaAside, MediaSteps, rowVars, eventVars
  <1>2. ASSUME NEW m \in Medias, ProcessUpload(w, m) PROVE Elsewhere
    BY <1>2, AsideTasks DEF ProcessUpload, Elsewhere, MediaAside, MediaSteps, rowVars, eventVars
  <1>3. ASSUME PresignSave(w) PROVE Elsewhere
    BY <1>3, AsideTasks, SaveAside DEF PresignSave, Elsewhere, Row, MediaSteps, rowVars, eventVars
  <1>4. ASSUME UploadReady(w) PROVE Elsewhere
    BY <1>4, AsideTasks DEF UploadReady, Elsewhere, MediaAside, MediaSteps, rowVars, eventVars
  <1>5. ASSUME UploadRead(w) PROVE Elsewhere
    BY <1>5, AsideTasks DEF UploadRead, Elsewhere, MediaAside, MediaSteps, rowVars, eventVars
  <1>6. ASSUME UploadVideoSave(w) PROVE Elsewhere
    BY <1>6, AsideTasks, SaveAside DEF UploadVideoSave, Elsewhere, Row, MediaSteps, rowVars, eventVars
  <1>7. ASSUME UploadFails(w) PROVE Elsewhere
    BY <1>7, AsideTasks DEF UploadFails, Elsewhere, MediaAside, MediaSteps, rowVars, eventVars
  <1>8. ASSUME UploadFailRead(w) PROVE Elsewhere
    BY <1>8, AsideTasks DEF UploadFailRead, Elsewhere, MediaAside, MediaSteps, rowVars, eventVars
  <1>9. ASSUME UploadFailSave(w) PROVE Elsewhere
    BY <1>9, AsideTasks, SaveAside DEF UploadFailSave, Elsewhere, Row, MediaSteps, rowVars, eventVars
  <1>10. ASSUME UploadImageSave(w) PROVE Elsewhere \/ \E m \in Medias : Creates(m)
    <2>1. TasksAside
      BY <1>10, AsideTasks DEF UploadImageSave
    <2>2. Of(w) \in Medias
      BY <1>10 DEF UploadImageSave, Medias
    <2>3. CASE Existing(Of(w)) = {}
      <3>1. MediaAside
        BY <1>10, <2>3, SaveAside DEF UploadImageSave, Row
      <3> QED
        BY <1>10, <2>1, <2>2, <2>3, <3>1 DEF UploadImageSave, Creates
    <2>4. CASE Existing(Of(w)) # {}
      BY <1>10, <2>1, <2>4 DEF UploadImageSave, Elsewhere, MediaAside, rowVars
    <2> QED
      BY <2>3, <2>4
  <1> QED
    BY <1>1, <1>2, <1>3, <1>4, <1>5, <1>6, <1>7, <1>8, <1>9, <1>10, ElsewhereKeeps, CreatesKeeps DEF UploadNext

\* An attempt at an extraction gives no event of a content back.
LEMMA RetryAside ==
  ASSUME TypeOK, NEW w \in Workers, Retry(w), task[w].pc \in MediaSteps
  PROVE  TasksAside /\ analyses' = analyses
  <1>1. Of(w) \in Medias
    BY TaskFields DEF TypeOK, TaskType, Procs
  <1> QED
    BY <1>1, AsideTasks, PipelineAssumption DEF Retry

\* Frame extraction.
LEMMA ExtractKeeps ==
  ASSUME TypeOK, Outcomes, NEW w \in Workers, ExtractNext(w)
  PROVE  Outcomes' /\ Kept
  <1>1. ASSUME NEW m \in Videos, ExtractFrames(w, m) PROVE Elsewhere
    BY <1>1, AsideTasks DEF ExtractFrames, Elsewhere, MediaAside, MediaSteps, rowVars
  <1>2. ASSUME ExtractPut(w) PROVE Elsewhere
    BY <1>2, AsideTasks DEF ExtractPut, At, Elsewhere, MediaAside, MediaSteps, rowVars, eventVars
  <1>3. ASSUME ExtractPutFails(w) PROVE Elsewhere
    BY <1>3, RetryAside DEF ExtractPutFails, At, Elsewhere, MediaAside, MediaSteps, rowVars, eventVars
  <1>4. ASSUME ExtractFails(w) PROVE Elsewhere
    BY <1>4, AsideTasks DEF ExtractFails, At, Elsewhere, MediaAside, MediaSteps, rowVars, eventVars
  <1>5. ASSUME ExtractFailRead(w) PROVE Elsewhere
    BY <1>5, AsideTasks, RetryAside DEF ExtractFailRead, At, Elsewhere, MediaAside, MediaSteps, rowVars, eventVars
  <1>6. ASSUME ExtractFailSave(w) PROVE Elsewhere
    BY <1>6, RetryAside, SaveAside DEF ExtractFailSave, At, Elsewhere, Row, MediaSteps, rowVars, eventVars
  <1>7. ASSUME ExtractRead(w) PROVE Elsewhere
    BY <1>7, AsideTasks DEF ExtractRead, At, Elsewhere, MediaAside, MediaSteps, rowVars, eventVars
  <1>8. ASSUME ExtractConflict(w) PROVE Elsewhere
    BY <1>8, RetryAside DEF ExtractConflict, At, Elsewhere, MediaAside, MediaSteps, rowVars, eventVars
  <1>9. ASSUME ExtractSave(w) PROVE \E m \in Medias : Creates(m)
    <2>1. TasksAside
      BY <1>9, AsideTasks DEF ExtractSave
    <2>2. Of(w) \in Medias
      BY <1>9, TaskFields DEF ExtractSave, At, MediaSteps, TypeOK, TaskType, Procs
    <2> QED
      BY <1>9, <2>1, <2>2 DEF ExtractSave, Creates, MediaAside
  <1> QED
    BY <1>1, <1>2, <1>3, <1>4, <1>5, <1>6, <1>7, <1>8, <1>9, ElsewhereKeeps, CreatesKeeps DEF ExtractNext

\* A worker on a content step is at that step of an attempt at its content.
LEMMA StepMoves ==
  ASSUME TypeOK, NEW w \in Workers, NEW p \in ContentSteps, Step(w, p),
         task[w].pc \in ContentSteps, UNCHANGED <<content, analyses, media>>,
         p \in StartingSteps => content[Of(w)].status = "uploaded",
         p = "verdict_save" => content[Of(w)].status = "analyzing",
         p = "start_save" => VerificationLeft, p # "finalize_save"
  PROVE  Moves(w)
  BY StepFrame DEF Moves

\* Analysis and the media verdict.
LEMMA AnalyzeKeeps ==
  ASSUME TypeOK, SlotReserved, Outcomes, NEW w \in Workers, AnalyzeNext(w)
  PROVE  Outcomes' /\ Kept
  <1> DEFINE c == Of(w)
  <1>0. /\ task[w].pc \in StartingSteps => content[c].status = "uploaded"
        /\ task[w].pc = "verdict_save" => content[c].status = "analyzing"
        /\ task[w].pc \in ContentSteps => c \in Contents
    <2>1. task[w].pc \in ContentSteps => c \in Contents
      BY TaskFields DEF TypeOK, TaskType, Procs
    <2> QED
      BY <2>1 DEF Outcomes, Timely, Handling
  <1> HIDE DEF c
  <1>1. ASSUME NEW d \in Contents, AnalyzeContent(w, d) PROVE Outcomes' /\ Kept
    BY <1>1, TakeKeeps
  <1>2. ASSUME StartMediaGone(w) \/ AnalyzeDeferred(w) PROVE Outcomes' /\ Kept
    BY <1>2, ReturnKeeps DEF StartMediaGone, AnalyzeDeferred, At, ContentSteps, rowVars
  <1>3. ASSUME StartRead(w) PROVE Moves(w)
    <2>1. CASE Step(w, "assert") /\ content[c].status = "uploaded"
      BY <1>3, <2>1, StepMoves
         DEF StartRead, At, ContentSteps, StartingSteps, rowVars, eventVars, c
    <2>2. CASE Step(w, "detect")
      BY <1>3, <2>2, StepMoves
         DEF StartRead, At, ContentSteps, StartingSteps, rowVars, eventVars, c
    <2> QED
      BY <1>3, <2>1, <2>2 DEF StartRead, c
  <1>4. ASSUME AssertAnalyze(w) PROVE Moves(w)
    BY <1>0, <1>4, StepMoves
       DEF AssertAnalyze, At, ContentSteps, StartingSteps, rowVars, eventVars, c
  <1>5. ASSUME AnalyzeBlocked(w) PROVE Moves(w)
    BY <1>0, <1>5, StepMoves
       DEF AnalyzeBlocked, At, ContentSteps, StartingSteps, rowVars, eventVars, c
  <1>6. ASSUME StartSave(w) PROVE Saves(w, StartAnalysis)
    <2>1. task[w].pc = "start_save" /\ task[w].pc \in StartingSteps /\ task[w].pc \in ContentSteps
      BY <1>6 DEF StartSave, At, StartingSteps, ContentSteps
    <2>2. VerificationLeft
      BY <2>1 DEF Outcomes, VerificationReserved, Handling
    <2>3. Handling({"start_save"}) \subseteq {w}
      BY <2>1 DEF SlotReserved, At, Handling
    <2>4. Charged' \subseteq Charged \cup {c}
      BY <1>6 DEF StartSave, SaveContents, Charged, c
    <2>5. /\ task'[w].pc = "detect" /\ task'[w].of = task[w].of
          /\ \A v \in Workers \ {w} : task'[v] = task[v]
          /\ task'[Scheduler] = task[Scheduler]
      BY <1>6, StepFrame DEF StartSave
    <2>6. MediaAside /\ analyses' = analyses /\ SaveContents({Of(w)}, StartAnalysis)
      BY <1>6 DEF StartSave, MediaAside, eventVars
    <2>7. StartAnalysis.status # "none"
      BY DEF Part
    <2> QED
      BY <1>0, <2>1, <2>2, <2>3, <2>4, <2>5, <2>6, <2>7 DEF Saves, c
  <1>7. ASSUME QuotaFailRead(w) PROVE Moves(w)
    <2>1. CASE Step(w, "quota_fail_both")
      BY <1>0, <1>7, <2>1, StepMoves
         DEF QuotaFailRead, At, ContentSteps, StartingSteps, rowVars, eventVars, c
    <2>2. CASE Step(w, "quota_fail_part")
      BY <1>0, <1>7, <2>2, StepMoves
         DEF QuotaFailRead, At, ContentSteps, StartingSteps, rowVars, eventVars, c
    <2> QED
      BY <1>7, <2>1, <2>2 DEF QuotaFailRead
  <1>8. ASSUME QuotaFailSave(w) PROVE Saves(w, MarkPartFailed)
    <2>1. task[w].pc \in StartingSteps /\ task[w].pc \in ContentSteps
      BY <1>8 DEF QuotaFailSave, At, StartingSteps, ContentSteps
    <2>2. Charged' \subseteq Charged
      BY <1>8 DEF QuotaFailSave, SaveContents, Charged, Part
    <2>3. /\ task'[w].pc = "idle"
          /\ \A v \in Workers \ {w} : task'[v] = task[v]
          /\ task'[Scheduler] = task[Scheduler]
      BY <1>8, EndsFrame DEF QuotaFailSave
    <2>4. MediaAside
      <3>1. CASE media' = media
        BY <3>1 DEF MediaAside
      <3>2. CASE SaveMedia(Owner(Of(w)), MarkFailed)
        <4>1. MarkFailed.status # "analyzed"
          BY DEF Row
        <4> QED
          BY <3>2, <4>1, SaveAside
      <3> QED
        BY <1>8, <3>1, <3>2 DEF QuotaFailSave
    <2>5. analyses' = analyses /\ SaveContents({Of(w)}, MarkPartFailed) /\ MarkPartFailed.status # "none"
      BY <1>8 DEF QuotaFailSave, eventVars, Part
    <2> QED
      BY <1>0, <2>1, <2>2, <2>3, <2>4, <2>5 DEF Saves, c
  <1>9. ASSUME NEW l \in Labels, Detect(w, l) PROVE Moves(w)
    <2> DEFINE t == [task[w] EXCEPT !.pc = "verdict", !.label = l]
    <2>1. t.pc = "verdict" /\ t.of = task[w].of
      BY DEF TypeOK, Tasks, Procs
    <2>2. Goes(w, t)
      BY <1>9 DEF Detect
    <2> HIDE DEF t
    <2>3. /\ task'[w] = t
          /\ \A v \in Workers \ {w} : task'[v] = task[v]
          /\ task'[Scheduler] = task[Scheduler]
      BY <2>2, GoesFrame
    <2> QED
      BY <1>9, <2>1, <2>3 DEF Detect, Moves, At, ContentSteps, StartingSteps, rowVars, eventVars
  <1>10. ASSUME VerdictRead(w) PROVE Moves(w)
    <2>1. CASE Step(w, "verdict_save") /\ content[c].status = "analyzing"
      BY <1>10, <2>1, StepMoves
         DEF VerdictRead, At, ContentSteps, StartingSteps, rowVars, eventVars, c
    <2>2. CASE Step(w, "finalize")
      BY <1>10, <2>2, StepMoves
         DEF VerdictRead, At, ContentSteps, StartingSteps, rowVars, eventVars, c
    <2> QED
      BY <1>10, <2>1, <2>2 DEF VerdictRead, c
  <1>11. ASSUME VerdictSave(w) PROVE Saves(w, RenderVerdict(task[w].label))
    <2>1. task[w].pc = "verdict_save" /\ task[w].pc \in ContentSteps
      BY <1>11 DEF VerdictSave, At, ContentSteps
    <2>2. Charged' \subseteq Charged
      <3>1. c \in Charged
        BY <1>0, <2>1 DEF Charged
      <3>2. \A d \in Contents \ {c} : content'[d] = content[d]
        BY <1>11 DEF VerdictSave, SaveContents, c
      <3> QED
        BY <3>1, <3>2 DEF Charged
    <2>3. /\ task'[w].pc = "finalize" /\ task'[w].of = task[w].of
          /\ \A v \in Workers \ {w} : task'[v] = task[v]
          /\ task'[Scheduler] = task[Scheduler]
      BY <1>11, StepFrame DEF VerdictSave
    <2>4. /\ MediaAside /\ analyses' = analyses
          /\ SaveContents({Of(w)}, RenderVerdict(task[w].label))
          /\ RenderVerdict(task[w].label).status # "none"
      BY <1>11 DEF VerdictSave, MediaAside, eventVars, Part
    <2> QED
      BY <1>0, <2>1, <2>2, <2>3, <2>4 DEF Saves, c
  <1>12. ASSUME FinalizeRead(w) PROVE Moves(w) \/ Elsewhere
    <2>1. CASE Step(w, "finalize_list")
      BY <1>12, <2>1, StepMoves
         DEF FinalizeRead, At, ContentSteps, StartingSteps, rowVars, eventVars, c
    <2>2. CASE Ends(w)
      BY <1>12, <2>2, AsideTasks DEF FinalizeRead, Elsewhere, MediaAside, rowVars, eventVars
    <2> QED
      BY <1>12, <2>1, <2>2 DEF FinalizeRead
  <1>13. ASSUME FinalizeList(w) PROVE Moves(w) \/ Elsewhere
    <2> DEFINE parts == Listed(Owner(Of(w)))
               t == [task[w] EXCEPT !.pc = "finalize_save", !.label = AggregateMediaVerdict(parts)]
    <2>1. CASE Ends(w)
      BY <1>13, <2>1, AsideTasks DEF FinalizeList, Elsewhere, MediaAside, rowVars, eventVars
    <2>2. CASE Goes(w, t) /\ parts # {} /\ \A d \in parts : IsTerminal(d)
      <3>1. parts = Existing(Owner(Of(w)))
        BY <2>2 DEF Listed
      <3>2. t.pc = "finalize_save" /\ t.of = task[w].of /\ t.label = AggregateMediaVerdict(parts)
        BY DEF TypeOK, Tasks, Procs
      <3>3. Settled(Owner(Of(w)))
        BY <2>2, <3>1 DEF Settled
      <3> HIDE DEF t, parts
      <3>4. /\ task'[w] = t
            /\ \A v \in Workers \ {w} : task'[v] = task[v]
            /\ task'[Scheduler] = task[Scheduler]
        BY <2>2, GoesFrame
      <3> QED
        BY <1>13, <3>1, <3>2, <3>3, <3>4
           DEF FinalizeList, Moves, At, ContentSteps, StartingSteps, rowVars, eventVars
    <2> QED
      BY <1>13, <2>1, <2>2 DEF FinalizeList
  <1>14. ASSUME FinalizeSave(w) PROVE Outcomes' /\ Kept
    BY <1>14, FinalizeKeeps
  <1>15. (\E r : Saves(w, r)) => Outcomes' /\ Kept
    BY SavesKeeps
  <1>16. Moves(w) \/ Elsewhere => Outcomes' /\ Kept
    BY MovesKeeps, ElsewhereKeeps
  <1> QED
    BY <1>1, <1>2, <1>3, <1>4, <1>5, <1>6, <1>7, <1>8, <1>9, <1>10, <1>11, <1>12,
       <1>13, <1>14, <1>15, <1>16 DEF AnalyzeNext

\* A fault ends the attempt of a worker; the scheduler has none.
LEMMA InterruptKeeps ==
  ASSUME TypeOK, Outcomes, NEW w \in Procs, Interrupted(w)
  PROVE  Outcomes' /\ Kept
  <1>1. w \in Workers
    BY DEF Procs, Interrupted, At, Outcomes, OneAttempt
  <1>2. content' = content /\ media' = media
    BY DEF Interrupted, rowVars
  <1>3. CASE task[w].pc \in ContentSteps
    BY <1>1, <1>2, <1>3, ReturnKeeps DEF Interrupted, EventSteps
  <1>4. CASE task[w].pc \in EventSteps \ ContentSteps
    <2>1. task[w].pc \in MediaSteps /\ Retry(w)
      BY <1>4 DEF EventSteps, MediaSteps, Interrupted
    <2> QED
      BY <1>1, <1>2, <2>1, RetryAside, ElsewhereKeeps DEF Elsewhere, MediaAside
  <1>5. CASE task[w].pc \notin EventSteps
    <2>1. Ends(w) /\ analyses' = analyses
      BY <1>5 DEF Interrupted
    <2> QED
      BY <1>1, <1>2, <2>1, AsideTasks, ElsewhereKeeps DEF Elsewhere, MediaAside
  <1> QED
    BY <1>3, <1>4, <1>5

\* Every step keeps the outcomes.
LEMMA OutcomeStep ==
  ASSUME TypeOK, SlotReserved, "recover" \notin Jobs, Outcomes, [Next]_vars
  PROVE  Outcomes' /\ Kept
  <1>1. ASSUME UNCHANGED vars PROVE Elsewhere
    BY <1>1 DEF vars, rowVars, eventVars, Elsewhere, TasksAside, MediaAside
  <1>2. ASSUME NEW w \in Workers, UploadNext(w) \/ ExtractNext(w) \/ AnalyzeNext(w)
        PROVE  Outcomes' /\ Kept
    BY <1>2, UploadKeeps, ExtractKeeps, AnalyzeKeeps
  <1>3. ASSUME \/ \E m \in Medias : PutOriginal(m) \/ GoesOld(m)
               \/ \E x \in Medias \cup Contents : GoesStale(x)
               \/ \E m \in Medias, d \in BOOLEAN : PurgeObjects(m, d)
        PROVE  Elsewhere
    BY <1>3 DEF PutOriginal, GoesOld, GoesStale, PurgeObjects, rowVars, eventVars,
                Elsewhere, TasksAside, MediaAside
  <1>4. ASSUME DeleteCampaign PROVE Elsewhere
    <2>1. \A m \in Medias : media'[m].status = media[m].status /\ media'[m].verdict = media[m].verdict
      BY <1>4 DEF DeleteCampaign, TypeOK, MediaRows
    <2> QED
      BY <1>4, <2>1 DEF DeleteCampaign, Elsewhere, TasksAside, MediaAside
  <1>5. ASSUME NEW w \in Procs, Interrupted(w) PROVE Outcomes' /\ Kept
    BY <1>5, InterruptKeeps
  <1>6. ~RecoverNext
    BY DEF RecoverNext, RecoverPick, RecoverRead, FailList, FailSave, RequeueList,
           RequeueLost, RequeueVerdict, RequeueParts, At, Outcomes, OneAttempt
  <1> QED
    BY <1>1, <1>2, <1>3, <1>4, <1>5, <1>6, ElsewhereKeeps DEF Next, DeleteNext

\* Nothing has begun in the initial state.
LEMMA InitOutcomes ==
  Init => Outcomes
  <1> SUFFICES ASSUME Init PROVE Outcomes
    OBVIOUS
  <1>1. \A w \in Procs : task[w].pc = "idle"
    BY DEF Init, NoTask
  <1>2. \A c \in Contents : content[c].status = "none" /\ analyses[c] = 0
    BY DEF Init, Part
  <1>3. \A m \in Medias : media[m].status = "none"
    BY DEF Init, Row
  <1>4. \A S : "idle" \notin S => Handling(S) = {}
    BY <1>1 DEF Handling, Procs
  <1>5. OneAttempt
    BY <1>1, <1>2, StepsApart DEF OneAttempt, Attempts, Procs
  <1>6. Timely /\ VerificationReserved
    BY <1>4, StepsApart DEF Timely, VerificationReserved
  <1>7. Concluded
    BY <1>3, <1>4 DEF Concluded
  <1>8. VerificationsBounded
    <2>1. Charged = {}
      BY <1>2 DEF Charged
    <2> QED
      BY <2>1, FS_EmptySet, PipelineAssumption DEF VerificationsBounded
  <1> QED
    BY <1>5, <1>6, <1>7, <1>8 DEF Outcomes

-----------------------------------------------------------------------------
(* The last content of a media *)

Last(m) == Is(m, "processing") /\ Settled(m)
FinalizeSteps == {"finalize", "finalize_list", "finalize_save"}
Finalizing(v, m) == task[v].pc \in FinalizeSteps /\ Owner(Of(v)) = m

\* A content belongs to a media.
LEMMA OwnerType ==
  \A c \in Contents : Owner(c) \in Medias
  BY DEF Contents, Owner, Medias

\* A worker on a content step is at a content of a media that awaits no upload.
LEMMA AttemptFacts ==
  ASSUME TypeOK, Outcomes, OneUpload, NEW w \in Workers, task[w].pc \in ContentSteps
  PROVE  /\ Of(w) \in Contents /\ Owner(Of(w)) \in Medias
         /\ Of(w) \in Existing(Owner(Of(w))) /\ ~Awaiting(Owner(Of(w)))
  <1>1. Of(w) \in Contents /\ Attempts(w, Of(w))
    BY TaskFields DEF TypeOK, TaskType, Procs, Attempts
  <1>2. content[Of(w)].status # "none"
    BY <1>1 DEF Outcomes, OneAttempt
  <1>3. Owner(Of(w)) \in Medias /\ Of(w) \in Existing(Owner(Of(w)))
    BY <1>1, <1>2, OwnerType DEF Existing, Parts
  <1> QED
    BY <1>1, <1>3 DEF OneUpload

\* What worker w goes on to is its own upload, or something nobody uploads.
Proper(w) ==
  /\ task'[w].pc \in UploadSteps =>
       Awaiting(task'[w].of) /\ \A v \in Workers : Of(v) = task'[w].of => v = w
  /\ task'[w].pc \in ExtractSteps => ~Awaiting(task'[w].of)
  /\ task'[w].of \in Medias => task'[w].pc \in UploadSteps \cup ExtractSteps

\* A worker that ends its task is proper.
LEMMA EndsProper ==
  ASSUME TypeOK, NEW w \in Workers, Ends(w)
  PROVE  Proper(w)
  <1>1. task'[w].pc = "idle" /\ task'[w].of = NoEntity
    BY EndsFrame DEF NoTask
  <1> QED
    BY <1>1, PipelineAssumption DEF Proper, UploadSteps, ExtractSteps

\* So is a worker that goes on within its kind of task.
LEMMA StepProper ==
  ASSUME TypeOK, OneUpload, NEW w \in Workers, NEW p, Step(w, p),
         \/ task[w].pc \in UploadSteps /\ p \in UploadSteps
         \/ task[w].pc \in ExtractSteps /\ p \in ExtractSteps
         \/ task[w].pc \in ContentSteps /\ p \in ContentSteps
  PROVE  Proper(w)
  <1>1. task'[w].pc = p /\ task'[w].of = Of(w)
    BY StepFrame DEF Of
  <1>2. UploadSteps \cap ExtractSteps = {}
    BY DEF UploadSteps, ExtractSteps
  <1>3. CASE task[w].pc \in UploadSteps /\ p \in UploadSteps
    BY <1>1, <1>2, <1>3 DEF OneUpload, Handling, Proper
  <1>4. CASE task[w].pc \in ExtractSteps /\ p \in ExtractSteps
    BY <1>1, <1>2, <1>4 DEF OneUpload, Handling, Proper
  <1>5. CASE task[w].pc \in ContentSteps /\ p \in ContentSteps
    <2>1. Of(w) \notin Medias
      BY <1>5, TaskFields, PipelineAssumption DEF TypeOK, TaskType, Procs
    <2> QED
      BY <1>1, <1>5, <2>1, StepsApart DEF Proper
  <1> QED
    BY <1>3, <1>4, <1>5

\* A task on a media step is of a media.
LEMMA MediaTask ==
  \A t \in Tasks : t.pc \in UploadSteps \cup ExtractSteps => t.of \in Medias
  BY StepsApart DEF Tasks

\* A step that takes no media past its upload, and goes on with a proper task.
LEMMA ProperStep ==
  ASSUME TypeOK, TypeOK', OneUpload, NEW w \in Workers, Proper(w),
         \A v \in Workers \ {w} : task'[v] = task[v],
         \A m \in Medias : Awaiting(m)' <=> Awaiting(m),
         \A m \in Medias : Awaiting(m) => Existing(m)' = Existing(m)
  PROVE  OneUpload'
  <1>1. \A m \in Medias : Awaiting(m)' => Existing(m)' = {}
    BY DEF OneUpload
  <1>2. \A v \in Workers : task'[v].pc \in UploadSteps \cup ExtractSteps => Of(v)' \in Medias
    BY MediaTask DEF TypeOK, Procs, Of
  <1>3. ASSUME NEW v \in Workers, task'[v].pc \in ExtractSteps PROVE ~Awaiting(Of(v))'
    <2>1. ~Awaiting(task'[v].of)
      BY <1>3 DEF Proper, OneUpload, Handling, Of
    <2> QED
      BY <1>2, <1>3, <2>1 DEF Of, Awaiting
  <1>4. ASSUME NEW v \in Workers, task'[v].pc \in UploadSteps
        PROVE  Awaiting(Of(v))' /\ \A u \in Workers : Of(u)' = Of(v)' => u = v
    <2>1. Awaiting(task'[v].of) /\ task'[v].of \in Medias
      BY <1>2, <1>4 DEF Proper, OneUpload, Handling, Of
    <2>2. ASSUME NEW u \in Workers, task'[u].of = task'[v].of, u # v PROVE FALSE
      <3>1. CASE v = w
        BY <1>4, <2>2, <3>1 DEF Proper, Of
      <3>2. CASE u = w
        <4>1. task'[w].pc \in UploadSteps
          BY <2>1, <2>2, <3>2 DEF Proper
        <4> QED
          BY <2>2, <3>2, <4>1 DEF Proper, Of
      <3>3. CASE v # w /\ u # w
        BY <1>4, <2>2, <3>3 DEF OneUpload, Handling, Of
      <3> QED
        BY <3>1, <3>2, <3>3
    <2> QED
      BY <2>1, <2>2 DEF Of, Awaiting
  <1> QED
    BY <1>1, <1>3, <1>4 DEF OneUpload, Handling

\* The upload task of a media saves its row and ends.
LEMMA UploadEnds ==
  ASSUME TypeOK, TypeOK', OneUpload, NEW w \in Workers, task[w].pc \in UploadSteps, Ends(w),
         NEW m \in Medias, Of(w) = m,
         \A n \in Medias \ {m} : media'[n] = media[n] /\ Existing(n)' = Existing(n),
         Awaiting(m)' => Existing(m)' = Existing(m)
  PROVE  OneUpload'
  <1>1. \A v \in Workers : task'[v].pc \in UploadSteps \cup ExtractSteps =>
          v # w /\ task'[v] = task[v] /\ Of(v) \in Medias
    <2>1. task'[w].pc = "idle" /\ \A v \in Workers \ {w} : task'[v] = task[v]
      BY EndsFrame
    <2>2. "idle" \notin UploadSteps \cup ExtractSteps
      BY DEF UploadSteps, ExtractSteps
    <2> QED
      BY <2>1, <2>2, MediaTask DEF TypeOK, Procs, Of
  <1>2. Of(w) \in Medias /\ Awaiting(Of(w)) /\ \A v \in Workers : Of(v) = Of(w) => v = w
    BY MediaTask DEF OneUpload, Handling, TypeOK, Procs, Of
  <1>3. \A n \in Medias : Awaiting(n)' => Existing(n)' = {}
    BY <1>2 DEF OneUpload, Awaiting
  <1>4. ASSUME NEW v \in Workers, task'[v].pc \in ExtractSteps PROVE ~Awaiting(Of(v))'
    <2>1. ~Awaiting(Of(v)) /\ Of(v)' = Of(v) /\ Of(v) \in Medias
      BY <1>1, <1>4 DEF OneUpload, Handling, Of
    <2>2. media'[Of(v)] = media[Of(v)]
      BY <1>2, <2>1
    <2> QED
      BY <2>1, <2>2 DEF Awaiting
  <1>5. ASSUME NEW v \in Workers, task'[v].pc \in UploadSteps
        PROVE  Awaiting(Of(v))' /\ \A u \in Workers : Of(u)' = Of(v)' => u = v
    <2>1. v # w /\ Awaiting(Of(v)) /\ Of(v)' = Of(v) /\ Of(v) \in Medias
      BY <1>1, <1>5 DEF OneUpload, Handling, Of
    <2>2. media'[Of(v)] = media[Of(v)]
      BY <1>2, <2>1
    <2>3. ASSUME NEW u \in Workers, Of(u)' = Of(v)' PROVE u = v
      <3>1. CASE u = w
        <4>1. Of(u)' = NoEntity
          BY <3>1, EndsFrame DEF NoTask, Of
        <4> QED
          BY <2>1, <2>3, <4>1, PipelineAssumption
      <3>2. CASE u # w
        <4>1. Of(u)' = Of(u)
          BY <3>2, EndsFrame DEF Of
        <4> QED
          BY <1>1, <1>5, <2>1, <2>3, <4>1 DEF OneUpload, Handling
      <3> QED
        BY <3>1, <3>2
    <2> QED
      BY <2>1, <2>2, <2>3 DEF Awaiting
  <1> QED
    BY <1>3, <1>4, <1>5 DEF OneUpload, Handling

\* A step that takes no media back to processing, and blocks a content on its
\* own only under a media that is not.
LEMMA PartStep ==
  ASSUME TypeOK, Outcomes, OneUpload, PartFailsLast,
         \A m \in Medias : ~Awaiting(m) /\ Is(m, "processing")' => Is(m, "processing"),
         \A v \in Workers : task'[v].pc = "quota_fail_part" =>
           task'[v] = task[v] \/ ~Is(Owner(Of(v)), "processing")'
  PROVE  PartFailsLast'
  <1> SUFFICES ASSUME NEW v \in Workers, task'[v].pc = "quota_fail_part", task'[v] = task[v]
               PROVE  ~Is(Owner(Of(v)), "processing")'
    BY DEF PartFailsLast, Handling
  <1>1. task[v].pc = "quota_fail_part" /\ task[v].pc \in ContentSteps
    BY DEF ContentSteps
  <1>2. ~Is(Owner(Of(v)), "processing") /\ Owner(Of(v)) \in Medias /\ ~Awaiting(Owner(Of(v)))
    BY <1>1, AttemptFacts DEF PartFailsLast, Handling
  <1>3. Owner(Of(v))' = Owner(Of(v))
    BY DEF Of, Owner
  <1> QED
    BY <1>2, <1>3

\* A step after which each media whose contents have ended keeps its worker or gets one.
LEMMA LastStep ==
  ASSUME FinalizedByLast,
         \A m \in Medias : Last(m)' =>
           \/ Last(m) /\ \A v \in Workers : Finalizing(v, m) => Finalizing(v, m)'
           \/ \E v \in Workers : Finalizing(v, m)'
  PROVE  FinalizedByLast'
  <1>1. \A m \in Medias : Last(m)' => \E v \in Workers : Finalizing(v, m)'
    BY DEF FinalizedByLast, Last, Settled, Finalizing, FinalizeSteps
  <1> QED
    BY <1>1 DEF FinalizedByLast, Last, Settled, Finalizing, FinalizeSteps

\* A step of a worker that saves nothing.
LEMMA PlainStep ==
  ASSUME TypeOK, TypeOK', Outcomes, Wakes, NEW w \in Workers, Proper(w),
         \A v \in Workers \ {w} : task'[v] = task[v],
         content' = content, media' = media,
         task'[w].pc = "quota_fail_part" => ~Is(Owner(task'[w].of), "processing"),
         \A m \in Medias : Last(m) /\ Finalizing(w, m) => Finalizing(w, m)'
  PROVE  Wakes'
  <1>1. \A m : /\ Awaiting(m)' <=> Awaiting(m)
               /\ Existing(m)' = Existing(m)
               /\ Is(m, "processing")' <=> Is(m, "processing")
               /\ Last(m)' <=> Last(m)
    BY DEF Awaiting, Existing, Is, Visible, Last, Settled, IsTerminal
  <1>2. OneUpload'
    BY <1>1, ProperStep DEF Wakes
  <1>3. PartFailsLast'
    <2>1. task'[w].pc = "quota_fail_part" => ~Is(Owner(Of(w)), "processing")'
      BY DEF Is, Visible, Of, Owner
    <2> QED
      BY <1>1, <2>1, PartStep DEF Wakes
  <1>4. FinalizedByLast'
    <2>1. \A v \in Workers \ {w}, m \in Medias : Finalizing(v, m) => Finalizing(v, m)'
      BY DEF Finalizing, Of, Owner
    <2> QED
      BY <1>1, <2>1, LastStep DEF Wakes
  <1> QED
    BY <1>2, <1>3, <1>4 DEF Wakes

\* The upload task of a media saves its row, and contents only with it.
LEMMA UploadSaved ==
  ASSUME TypeOK, TypeOK', Outcomes, Wakes, NEW w \in Workers, task[w].pc \in UploadSteps, Ends(w),
         NEW m \in Medias, Of(w) = m,
         \A n \in Medias \ {m} : media'[n] = media[n],
         \A c \in Contents \ Parts(m) : content'[c] = content[c],
         \/ content' = content
         \/ ~Awaiting(m)' /\ \A c \in Parts(m) : content'[c].status = "uploaded"
  PROVE  Wakes'
  <1>1. \A n \in Medias \ {m} : /\ Existing(n)' = Existing(n)
                                /\ Is(n, "processing")' <=> Is(n, "processing")
                                /\ Last(n)' <=> Last(n)
    <2>1. \A n \in Medias \ {m} : \A c \in Parts(n) : content'[c] = content[c]
      BY DEF Parts
    <2> QED
      BY <2>1, SameParts DEF Is, Visible, Last
  <1>2. Awaiting(m) /\ Existing(m) = {}
    BY DEF Wakes, OneUpload, Handling
  <1>3. OneUpload'
    <2>1. Awaiting(m)' => Existing(m)' = Existing(m)
      BY DEF Existing
    <2> QED
      BY <1>1, <2>1, UploadEnds DEF Wakes
  <1>4. PartFailsLast'
    <2>1. \A v \in Workers : task'[v].pc = "quota_fail_part" => task'[v] = task[v]
      BY EndsFrame
    <2> QED
      BY <1>1, <1>2, <2>1, PartStep DEF Wakes
  <1>5. FinalizedByLast'
    <2>1. ~Settled(m)'
      <3>1. CASE content' = content
        BY <1>2, <3>1 DEF Settled, Existing
      <3>2. CASE \A c \in Parts(m) : content'[c].status = "uploaded"
        BY <3>2 DEF Settled, Existing, IsTerminal
      <3> QED
        BY <3>1, <3>2
    <2>2. \A v \in Workers, n \in Medias : Finalizing(v, n) => Finalizing(v, n)'
      <3>1. task[w].pc \notin FinalizeSteps
        BY DEF UploadSteps, FinalizeSteps
      <3> QED
        BY <3>1, EndsFrame DEF Finalizing, Of, Owner
    <2>3. ~Last(m)'
      BY <2>1 DEF Last
    <2> QED
      BY <1>1, <2>2, <2>3, LastStep DEF Wakes
  <1> QED
    BY <1>3, <1>4, <1>5 DEF Wakes

\* A step of a worker on a media that saves nothing.
LEMMA MediaPlain ==
  ASSUME TypeOK, TypeOK', Outcomes, Wakes, NEW w \in Workers, task[w].pc \notin ContentSteps,
         content' = content, media' = media,
         \/ Ends(w)
         \/ \E p \in UploadSteps : Step(w, p) /\ task[w].pc \in UploadSteps
         \/ \E p \in ExtractSteps : Step(w, p) /\ task[w].pc \in ExtractSteps
         \/ \E p \in UploadSteps, m \in Medias :
              Starts(w, p, m) /\ Awaiting(m) /\ \A v \in Workers : Of(v) # m
         \/ \E p \in ExtractSteps, m \in Medias : Starts(w, p, m) /\ ~Awaiting(m)
  PROVE  Wakes'
  <1>1. UploadSteps \cap ExtractSteps = {}
    BY DEF UploadSteps, ExtractSteps
  <1>2. ASSUME NEW p \in UploadSteps, NEW m \in Medias, Starts(w, p, m), Awaiting(m),
               \A v \in Workers : Of(v) # m
        PROVE  Proper(w)
    BY <1>1, <1>2, StartsFrame DEF Proper
  <1>3. ASSUME NEW p \in ExtractSteps, NEW m \in Medias, Starts(w, p, m), ~Awaiting(m)
        PROVE  Proper(w)
    BY <1>1, <1>3, StartsFrame DEF Proper
  <1>4. Proper(w)
    BY <1>2, <1>3, EndsProper, StepProper DEF Wakes
  <1>5. \A v \in Workers \ {w} : task'[v] = task[v]
    BY EndsFrame, StepFrame, StartsFrame
  <1>6. task'[w].pc # "quota_fail_part"
    <2>1. task'[w].pc = "idle" \/ task'[w].pc \in UploadSteps \cup ExtractSteps
      BY EndsFrame, StepFrame, StartsFrame
    <2> QED
      BY <2>1 DEF UploadSteps, ExtractSteps
  <1>7. \A m : ~Finalizing(w, m)
    BY DEF Finalizing, FinalizeSteps, ContentSteps
  <1> QED
    BY <1>4, <1>5, <1>6, <1>7, PlainStep

\* Presign and upload processing.
LEMMA UploadWakes ==
  ASSUME TypeOK, TypeOK', Smooth, Outcomes, Wakes, NEW w \in Workers, UploadNext(w)
  PROVE  Wakes'
  <1>1. ASSUME NEW m \in Medias, PresignRead(w, m) PROVE Wakes'
    BY <1>1, MediaPlain DEF PresignRead, Takes, At, Awaiting, UploadSteps, ContentSteps, rowVars
  <1>2. ASSUME NEW m \in Medias, ProcessUpload(w, m) PROVE Wakes'
    BY <1>2, MediaPlain
       DEF ProcessUpload, Takes, At, Is, Awaiting, Smooth, UploadSteps, ContentSteps, rowVars
  <1>3. ASSUME UploadReady(w) PROVE Wakes'
    BY <1>3, MediaPlain DEF UploadReady, At, UploadSteps, ContentSteps, rowVars
  <1>4. ASSUME UploadRead(w) PROVE Wakes'
    BY <1>4, MediaPlain DEF UploadRead, At, UploadSteps, ContentSteps, rowVars
  <1>5. ASSUME UploadFails(w) PROVE Wakes'
    BY <1>5, MediaPlain DEF UploadFails, At, UploadSteps, ContentSteps, rowVars
  <1>6. ASSUME UploadFailRead(w) PROVE Wakes'
    BY <1>6, MediaPlain DEF UploadFailRead, At, UploadSteps, ContentSteps, rowVars
  <1>7. ASSUME PresignSave(w) \/ UploadVideoSave(w) \/ UploadFailSave(w) \/ UploadImageSave(w)
        PROVE  Wakes'
    <2> DEFINE m == Of(w)
    <2>1. task[w].pc \in UploadSteps /\ Ends(w)
      BY <1>7 DEF PresignSave, UploadVideoSave, UploadFailSave, UploadImageSave, At, UploadSteps
    <2>2. m \in Medias /\ Existing(m) = {}
      BY <2>1, MediaTask DEF TypeOK, Procs, Of, Wakes, OneUpload, Handling
    <2>3. \A n \in Medias \ {m} : media'[n] = media[n]
      BY <1>7 DEF PresignSave, UploadVideoSave, UploadFailSave, UploadImageSave, SaveMedia, rowVars, TypeOK
    <2>4. \A c \in Contents \ Parts(m) : content'[c] = content[c]
      BY <1>7 DEF PresignSave, UploadVideoSave, UploadFailSave, UploadImageSave, SaveContents, rowVars
    <2>5. CASE content' = content
      BY <2>1, <2>2, <2>3, <2>4, <2>5, UploadSaved
    <2>6. CASE UploadImageSave(w)
      <3>1. SaveMedia(m, StartProcessing) /\ SaveContents(Parts(m), NewFromMedia)
        BY <2>2, <2>6 DEF UploadImageSave
      <3>2. media'[m].status = "processing"
        BY <2>2, <3>1 DEF SaveMedia, Row, TypeOK
      <3>3. \A c \in Parts(m) : content'[c].status = "uploaded"
        BY <3>1 DEF SaveContents, Part, Parts
      <3>4. \A n : n = m => media'[n].status = "processing"
                         /\ \A c \in Parts(n) : content'[c].status = "uploaded"
        BY <3>2, <3>3
      <3>5. ASSUME NEW n \in Medias, n = m PROVE Wakes'
        <4>1. ~Awaiting(n)' /\ \A c \in Parts(n) : content'[c].status = "uploaded"
          BY <3>4, <3>5 DEF Awaiting
        <4> QED
          BY <2>1, <2>3, <2>4, <3>5, <4>1, UploadSaved
      <3> QED
        BY <2>2, <3>5
    <2> QED
      BY <1>7, <2>5, <2>6 DEF PresignSave, UploadVideoSave, UploadFailSave, rowVars
  <1> QED
    BY <1>1, <1>2, <1>3, <1>4, <1>5, <1>6, <1>7 DEF UploadNext

\* Frame extraction.
LEMMA ExtractWakes ==
  ASSUME TypeOK, TypeOK', Smooth, Outcomes, Wakes, NEW w \in Workers, ExtractNext(w)
  PROVE  Wakes'
  <1>1. ASSUME NEW m \in Videos, ExtractFrames(w, m) PROVE Wakes'
    <2>1. Ends(w) \/ (Starts(w, "extract", m) /\ ~Awaiting(m))
      BY <1>1 DEF ExtractFrames, Is, Awaiting
    <2> QED
      BY <1>1, <2>1, MediaPlain DEF ExtractFrames, Takes, At, Medias, ExtractSteps, ContentSteps, rowVars
  <1>2. ASSUME ExtractPut(w) PROVE Wakes'
    BY <1>2, MediaPlain DEF ExtractPut, Retry, At, ExtractSteps, ContentSteps, rowVars
  <1>3. ASSUME ExtractPutFails(w) PROVE Wakes'
    BY <1>3, MediaPlain DEF ExtractPutFails, Retry, At, ExtractSteps, ContentSteps, rowVars
  <1>4. ASSUME ExtractFails(w) PROVE Wakes'
    BY <1>4, MediaPlain DEF ExtractFails, Retry, At, ExtractSteps, ContentSteps, rowVars
  <1>5. ASSUME ExtractFailRead(w) PROVE Wakes'
    BY <1>5, MediaPlain DEF ExtractFailRead, Retry, At, ExtractSteps, ContentSteps, rowVars
  <1>6. ASSUME ExtractRead(w) PROVE Wakes'
    BY <1>6, MediaPlain DEF ExtractRead, Retry, At, ExtractSteps, ContentSteps, rowVars
  <1>7. ASSUME ExtractConflict(w) PROVE Wakes'
    BY <1>7, MediaPlain DEF ExtractConflict, Retry, At, ExtractSteps, ContentSteps, rowVars
  <1>8. ASSUME ExtractFailSave(w) \/ ExtractSave(w) PROVE Wakes'
    <2>1. task[w].pc \in ExtractSteps /\ Ends(w)
      BY <1>8 DEF ExtractFailSave, ExtractSave, Retry, At, ExtractSteps
    <2>2. Of(w) \in Medias /\ ~Awaiting(Of(w))
      BY <2>1, MediaTask DEF TypeOK, Procs, Of, Wakes, OneUpload, Handling
    <2>3. PICK m \in Medias : m = Of(w)
      BY <2>2
    <2>4. \A n \in Medias \ {m} : media'[n] = media[n] /\ \A c \in Parts(n) : content'[c] = content[c]
      BY <1>8, <2>3 DEF ExtractFailSave, ExtractSave, SaveMedia, SaveContents, rowVars, TypeOK, Parts
    <2>5. \A n \in Medias \ {m} :
            /\ Awaiting(n)' <=> Awaiting(n)
            /\ Existing(n)' = Existing(n)
            /\ Is(n, "processing")' <=> Is(n, "processing")
            /\ Last(n)' <=> Last(n)
      BY <2>4, SameParts DEF Awaiting, Is, Visible, Last
    <2>6. /\ ~Awaiting(m) /\ ~Awaiting(m)'
          /\ Is(m, "processing")' => Is(m, "processing")
          /\ ~Last(m)'
      <3>1. CASE ExtractFailSave(w)
        <4>1. media'[m].status = "failed"
          BY <2>3, <3>1 DEF ExtractFailSave, SaveMedia, Row, TypeOK
        <4> QED
          BY <2>2, <2>3, <4>1 DEF Awaiting, Is, Last
      <3>2. CASE ExtractSave(w)
        <4>1. media' = media
          BY <3>2 DEF ExtractSave
        <4>2. \A c \in Parts(m) : content'[c].status = "uploaded"
          BY <2>3, <3>2 DEF ExtractSave, SaveContents, Part, Parts
        <4>3. ~Settled(m)'
          BY <4>2 DEF Settled, Existing, IsTerminal
        <4> QED
          BY <2>2, <2>3, <4>1, <4>3 DEF Awaiting, Is, Visible, Last
      <3> QED
        BY <1>8, <3>1, <3>2
    <2>7. \A v \in Workers \ {w} : task'[v] = task[v]
      BY <2>1, EndsFrame
    <2>8. OneUpload'
      BY <2>1, <2>5, <2>6, <2>7, EndsProper, ProperStep DEF Wakes
    <2>9. PartFailsLast'
      <3>1. task'[w].pc # "quota_fail_part"
        BY <2>1, EndsFrame
      <3> QED
        BY <2>5, <2>6, <2>7, <3>1, PartStep DEF Wakes
    <2>10. FinalizedByLast'
      <3>1. \A v \in Workers, n \in Medias : Finalizing(v, n) => Finalizing(v, n)'
        <4>1. task[w].pc \notin FinalizeSteps
          BY <2>1 DEF ExtractSteps, FinalizeSteps
        <4> QED
          BY <2>7, <4>1 DEF Finalizing, Of, Owner
      <3> QED
        BY <2>5, <2>6, <3>1, LastStep DEF Wakes
    <2> QED
      BY <2>8, <2>9, <2>10 DEF Wakes
  <1> QED
    BY <1>1, <1>2, <1>3, <1>4, <1>5, <1>6, <1>7, <1>8 DEF ExtractNext

\* A worker at an analysis saves its content, or the end of its media, and has
\* the media finalized if the content was the last.
LEMMA AnalysisSaved ==
  ASSUME TypeOK, TypeOK', Outcomes, Wakes, NEW w \in Workers, task[w].pc \in ContentSteps,
         Proper(w), task'[w].pc # "quota_fail_part",
         \A v \in Workers \ {w} : task'[v] = task[v],
         NEW m \in Medias, Owner(Of(w)) = m,
         \A n \in Medias \ {m} : media'[n] = media[n],
         media' = media \/ media'[m].status \in {"analyzed", "failed"},
         \A c \in Contents \ {Of(w)} : content'[c] = content[c],
         content'[Of(w)].status # "none",
         Last(m)' => Finalizing(w, m)'
  PROVE  Wakes'
  <1>1. /\ Of(w) \in Contents /\ Of(w) \in Parts(m) /\ ~Awaiting(m)
        /\ content[Of(w)].status # "none"
    BY AttemptFacts DEF Wakes, Existing
  <1>2. \A n \in Medias : /\ Awaiting(n)' <=> Awaiting(n)
                          /\ Existing(n)' = Existing(n)
                          /\ Is(n, "processing")' => Is(n, "processing")
    <2>1. \A n \in Medias \ {m} : \A c \in Parts(n) : content'[c] = content[c]
      BY <1>1 DEF Parts
    <2>2. Existing(m)' = Existing(m)
      BY <1>1 DEF Existing, Parts
    <2>3. /\ Awaiting(m)' <=> Awaiting(m)
          /\ Is(m, "processing")' => Is(m, "processing")
      BY <1>1 DEF Awaiting, Is, Visible
    <2> QED
      BY <2>1, <2>2, <2>3, SameParts DEF Awaiting, Is, Visible
  <1>3. \A n \in Medias \ {m} : Last(n)' => Last(n)
    <2>1. \A n \in Medias \ {m} : \A c \in Parts(n) : content'[c] = content[c]
      BY <1>1 DEF Parts
    <2> QED
      BY <1>2, <2>1, SameParts DEF Last
  <1>4. OneUpload'
    BY <1>2, ProperStep DEF Wakes
  <1>5. PartFailsLast'
    BY <1>2, PartStep DEF Wakes
  <1>6. FinalizedByLast'
    <2>1. \A n \in Medias \ {m} : \A v \in Workers : Finalizing(v, n) => Finalizing(v, n)'
      BY DEF Finalizing, Of, Owner
    <2> QED
      BY <1>3, <2>1, LastStep DEF Wakes
  <1> QED
    BY <1>4, <1>5, <1>6 DEF Wakes

\* A step of an analysis that saves nothing.
LEMMA AnalysisPlain ==
  ASSUME TypeOK, TypeOK', Outcomes, Wakes, NEW w \in Workers,
         content' = content, media' = media,
         \/ Ends(w) /\ \A m : Last(m) => ~Finalizing(w, m)
         \/ /\ task[w].pc \in ContentSteps /\ task'[w].of = task[w].of
            /\ task'[w].pc \in ContentSteps
            /\ task[w].pc \in FinalizeSteps => task'[w].pc \in FinalizeSteps
            /\ task'[w].pc = "quota_fail_part" => ~Is(Owner(Of(w)), "processing")
            /\ \A v \in Workers \ {w} : task'[v] = task[v]
         \/ /\ task[w].pc = "idle"
            /\ \E c \in Contents, p \in {"start", "detect", "finalize"} : Starts(w, p, c)
  PROVE  Wakes'
  <1>1. CASE Ends(w) /\ \A m : Last(m) => ~Finalizing(w, m)
    <2>1. task'[w].pc # "quota_fail_part"
      BY <1>1, EndsFrame
    <2> QED
      BY <1>1, <2>1, EndsFrame, EndsProper, PlainStep
  <1>2. CASE /\ task[w].pc \in ContentSteps /\ task'[w].of = task[w].of
             /\ task'[w].pc \in ContentSteps
             /\ task[w].pc \in FinalizeSteps => task'[w].pc \in FinalizeSteps
             /\ task'[w].pc = "quota_fail_part" => ~Is(Owner(Of(w)), "processing")
             /\ \A v \in Workers \ {w} : task'[v] = task[v]
    <2>1. Of(w) \notin Medias
      BY <1>2, TaskFields, PipelineAssumption DEF TypeOK, TaskType, Procs
    <2>2. Proper(w)
      BY <1>2, <2>1, StepsApart DEF Proper, Of
    <2>3. \A m \in Medias : Finalizing(w, m) => Finalizing(w, m)'
      BY <1>2 DEF Finalizing, Of, Owner
    <2>4. task'[w].pc = "quota_fail_part" => ~Is(Owner(task'[w].of), "processing")
      BY <1>2 DEF Of
    <2> QED
      BY <1>2, <2>2, <2>3, <2>4, PlainStep
  <1>3. ASSUME task[w].pc = "idle", NEW c \in Contents, NEW p \in {"start", "detect", "finalize"},
               Starts(w, p, c)
        PROVE  Wakes'
    <2>1. /\ task'[w].pc = p /\ task'[w].of = c
          /\ \A v \in Workers \ {w} : task'[v] = task[v]
      BY <1>3, StartsFrame
    <2>2. Proper(w) /\ task'[w].pc # "quota_fail_part"
      BY <1>3, <2>1, PipelineAssumption DEF Proper, UploadSteps, ExtractSteps
    <2>3. \A m : ~Finalizing(w, m)
      BY <1>3 DEF Finalizing, FinalizeSteps
    <2> QED
      BY <2>1, <2>2, <2>3, PlainStep
  <1> QED
    BY <1>1, <1>2, <1>3

\* Analysis and the media verdict.
LEMMA AnalyzeWakes ==
  ASSUME TypeOK, TypeOK', Smooth, Outcomes, Wakes, NEW w \in Workers, AnalyzeNext(w)
  PROVE  Wakes'
  <1>0. task[w].pc \in ContentSteps \ FinalizeSteps => \A m : ~Finalizing(w, m)
    BY DEF Finalizing
  <1>1. ASSUME NEW c \in Contents, AnalyzeContent(w, c) PROVE Wakes'
    <2>1. task[w].pc = "idle" /\ content' = content /\ media' = media
      BY <1>1 DEF AnalyzeContent, Takes, At, rowVars
    <2>2. Ends(w) \/ \E p \in {"start", "detect", "finalize"} : Starts(w, p, c)
      BY <1>1 DEF AnalyzeContent
    <2>3. \A m : ~Finalizing(w, m)
      BY <2>1 DEF Finalizing, FinalizeSteps
    <2> QED
      BY <2>1, <2>2, <2>3, AnalysisPlain
  <1>2. ASSUME StartMediaGone(w) \/ AnalyzeDeferred(w) PROVE Wakes'
    <2>1. /\ Ends(w) /\ content' = content /\ media' = media
          /\ task[w].pc \in ContentSteps \ FinalizeSteps
      BY <1>2 DEF StartMediaGone, AnalyzeDeferred, Retry, At, ContentSteps, FinalizeSteps, rowVars
    <2> QED
      BY <1>0, <2>1, AnalysisPlain
  <1>3. ASSUME StartRead(w) \/ AssertAnalyze(w) \/ AnalyzeBlocked(w) \/ QuotaFailRead(w) \/ VerdictRead(w)
        PROVE  Wakes'
    <2>1. /\ content' = content /\ media' = media
          /\ task[w].pc \in ContentSteps \ FinalizeSteps
          /\ \E p \in ContentSteps :
               Step(w, p) /\ (p = "quota_fail_part" => ~Is(Owner(Of(w)), "processing"))
      BY <1>3 DEF StartRead, AssertAnalyze, AnalyzeBlocked, QuotaFailRead, VerdictRead, At,
                  ContentSteps, FinalizeSteps, rowVars, Is, MediaEnded
    <2>2. /\ task'[w].of = task[w].of /\ task'[w].pc \in ContentSteps
          /\ task'[w].pc = "quota_fail_part" => ~Is(Owner(Of(w)), "processing")
          /\ \A v \in Workers \ {w} : task'[v] = task[v]
      BY <2>1, StepFrame
    <2> QED
      BY <2>1, <2>2, AnalysisPlain
  <1>4. ASSUME NEW l \in Labels, Detect(w, l) PROVE Wakes'
    <2> DEFINE t == [task[w] EXCEPT !.pc = "verdict", !.label = l]
    <2>1. t.pc = "verdict" /\ t.of = task[w].of
      BY DEF TypeOK, Tasks, Procs
    <2>2. Goes(w, t)
      BY <1>4 DEF Detect
    <2> HIDE DEF t
    <2>3. task'[w] = t /\ \A v \in Workers \ {w} : task'[v] = task[v]
      BY <2>2, GoesFrame
    <2>4. task[w].pc \in ContentSteps \ FinalizeSteps /\ t.pc \in ContentSteps /\ t.pc # "quota_fail_part"
      BY <1>4, <2>1 DEF Detect, At, ContentSteps, FinalizeSteps
    <2> QED
      BY <1>4, <2>1, <2>3, <2>4, AnalysisPlain DEF Detect, rowVars
  <1>5. ASSUME FinalizeRead(w) PROVE Wakes'
    <2>1. content' = content /\ media' = media /\ task[w].pc = "finalize"
      BY <1>5 DEF FinalizeRead, At, rowVars
    <2>2. CASE Step(w, "finalize_list")
      BY <2>1, <2>2, StepFrame, AnalysisPlain DEF ContentSteps, FinalizeSteps
    <2>3. CASE Ends(w) /\ ~(Visible(Owner(Of(w))) /\ ~MediaEnded(Owner(Of(w))))
      <3>1. \A m : Last(m) => ~Finalizing(w, m)
        BY <2>3 DEF Last, Finalizing, Is, MediaEnded
      <3> QED
        BY <2>1, <2>3, <3>1, AnalysisPlain
    <2> QED
      BY <1>5, <2>2, <2>3 DEF FinalizeRead
  <1>6. ASSUME FinalizeList(w) PROVE Wakes'
    <2> DEFINE parts == Listed(Owner(Of(w)))
               t == [task[w] EXCEPT !.pc = "finalize_save", !.label = AggregateMediaVerdict(parts)]
    <2>1. content' = content /\ media' = media /\ task[w].pc = "finalize_list"
      BY <1>6 DEF FinalizeList, At, rowVars
    <2>2. t.pc = "finalize_save" /\ t.of = task[w].of
      BY DEF TypeOK, Tasks, Procs
    <2>3. \/ Goes(w, t)
          \/ Ends(w) /\ ~(parts # {} /\ \A c \in parts : IsTerminal(c))
      BY <1>6 DEF FinalizeList
    <2> HIDE DEF t
    <2>4. CASE Goes(w, t)
      <3>1. task'[w] = t /\ \A v \in Workers \ {w} : task'[v] = task[v]
        BY <2>4, GoesFrame
      <3> QED
        BY <2>1, <2>2, <3>1, AnalysisPlain DEF ContentSteps, FinalizeSteps
    <2>5. CASE Ends(w) /\ ~(parts # {} /\ \A c \in parts : IsTerminal(c))
      <3>1. \A m : Last(m) => ~Finalizing(w, m)
        BY <2>5 DEF Last, Finalizing, Is, Settled, Listed
      <3> QED
        BY <2>1, <2>5, <3>1, AnalysisPlain
    <2> QED
      BY <2>3, <2>4, <2>5
  <1>7. ASSUME StartSave(w) \/ QuotaFailSave(w) \/ VerdictSave(w) \/ FinalizeSave(w) PROVE Wakes'
    <2>1. task[w].pc \in ContentSteps
      BY <1>7 DEF StartSave, QuotaFailSave, VerdictSave, FinalizeSave, At, ContentSteps
    <2>2. /\ Of(w) \in Contents /\ Owner(Of(w)) \in Medias
          /\ Of(w) \in Existing(Owner(Of(w)))
      BY <2>1, AttemptFacts DEF Wakes
    <2>3. PICK m \in Medias : m = Owner(Of(w))
      BY <2>2
    <2>4. \A n \in Medias \ {m} : media'[n] = media[n]
      BY <1>7, <2>3 DEF StartSave, QuotaFailSave, VerdictSave, FinalizeSave, SaveMedia, TypeOK
    <2>5. media' = media \/ media'[m].status \in {"analyzed", "failed"}
      BY <1>7, <2>3 DEF StartSave, QuotaFailSave, VerdictSave, FinalizeSave, SaveMedia, Row, TypeOK
    <2>6. \A c \in Contents \ {Of(w)} : content'[c] = content[c]
      BY <1>7 DEF StartSave, QuotaFailSave, VerdictSave, FinalizeSave, SaveContents
    <2>7. content'[Of(w)].status # "none"
      BY <1>7, <2>2 DEF StartSave, QuotaFailSave, VerdictSave, FinalizeSave, SaveContents, Part, Existing
    <2>8. /\ \A v \in Workers \ {w} : task'[v] = task[v]
          /\ task'[w].pc # "quota_fail_part"
          /\ Proper(w)
      <3>1. CASE Ends(w)
        BY <3>1, EndsFrame, EndsProper
      <3>2. CASE Step(w, "detect") \/ Step(w, "finalize")
        <4>1. \E p \in {"detect", "finalize"} : Step(w, p) /\ p \in ContentSteps
          BY <3>2 DEF ContentSteps
        <4> QED
          BY <2>1, <4>1, StepFrame, StepProper DEF Wakes
      <3> QED
        BY <1>7, <3>1, <3>2 DEF StartSave, QuotaFailSave, VerdictSave, FinalizeSave
    <2>9. Last(m)' => Finalizing(w, m)'
      <3>1. CASE StartSave(w)
        <4>1. content'[Of(w)].status = "analyzing"
          BY <2>2, <3>1 DEF StartSave, SaveContents, Part
        <4>2. ~Settled(m)'
          BY <2>2, <2>3, <4>1 DEF Settled, Existing, Parts, IsTerminal
        <4> QED
          BY <4>2 DEF Last
      <3>2. CASE QuotaFailSave(w)
        <4>1. CASE media' = media /\ task[w].pc = "quota_fail_part"
          <5>1. ~Is(m, "processing")
            BY <2>3, <4>1 DEF Wakes, PartFailsLast, Handling
          <5> QED
            BY <4>1, <5>1 DEF Last, Is, Visible
        <4>2. CASE SaveMedia(Owner(Of(w)), MarkFailed)
          <5>1. media'[m].status = "failed"
            BY <2>3, <4>2 DEF SaveMedia, Row, TypeOK
          <5> QED
            BY <5>1 DEF Last, Is
        <4> QED
          BY <3>2, <4>1, <4>2 DEF QuotaFailSave, At
      <3>3. CASE VerdictSave(w)
        <4>1. task'[w].pc = "finalize" /\ task'[w].of = task[w].of
          BY <3>3, StepFrame DEF VerdictSave
        <4> QED
          BY <2>3, <4>1 DEF Finalizing, FinalizeSteps, Of, Owner
      <3>4. CASE FinalizeSave(w)
        <4>1. media'[m].status = "analyzed"
          BY <2>3, <3>4 DEF FinalizeSave, SaveMedia, Row, TypeOK
        <4> QED
          BY <4>1 DEF Last, Is
      <3> QED
        BY <1>7, <3>1, <3>2, <3>3, <3>4
    <2> QED
      BY <2>1, <2>3, <2>4, <2>5, <2>6, <2>7, <2>8, <2>9, AnalysisSaved
  <1> QED
    BY <1>1, <1>2, <1>3, <1>4, <1>5, <1>6, <1>7 DEF AnalyzeNext

\* Every step keeps what wakes the finalizer.
LEMMA WakeStep ==
  ASSUME TypeOK, TypeOK', Smooth, Outcomes, Wakes, [Next]_vars
  PROVE  Wakes'
  <1>1. CASE UNCHANGED vars
    BY <1>1 DEF vars, rowVars, Wakes, OneUpload, PartFailsLast, FinalizedByLast, Awaiting,
                Existing, Handling, Is, Visible, IsTerminal, Of
  <1>2. ASSUME NEW w \in Workers, UploadNext(w) \/ ExtractNext(w) \/ AnalyzeNext(w)
        PROVE  Wakes'
    BY <1>2, UploadWakes, ExtractWakes, AnalyzeWakes
  <1>3. ASSUME \/ \E m \in Medias : PutOriginal(m) \/ GoesOld(m)
               \/ \E x \in Medias \cup Contents : GoesStale(x)
               \/ DeleteNext
        PROVE  Wakes'
    <2>1. content' = content /\ task' = task
      BY <1>3 DEF PutOriginal, GoesOld, GoesStale, DeleteNext, DeleteCampaign, PurgeObjects, rowVars
    <2>2. \A m \in Medias : /\ media'[m].status = media[m].status
                            /\ media[m].deleted => media'[m].deleted
      <3>1. CASE media' = media
        BY <3>1
      <3>2. CASE DeleteCampaign
        <4>1. \A m \in Medias : media[m] \in MediaRows
          BY DEF TypeOK
        <4>2. \A r \in MediaRows : /\ [r EXCEPT !.deleted = TRUE].status = r.status
                                   /\ [r EXCEPT !.deleted = TRUE].deleted
          BY DEF MediaRows
        <4>3. \A m \in Medias : media'[m] = media[m] \/ media'[m] = [media[m] EXCEPT !.deleted = TRUE]
          BY <3>2 DEF DeleteCampaign
        <4> QED
          BY <4>1, <4>2, <4>3
      <3> QED
        BY <1>3, <3>1, <3>2 DEF PutOriginal, GoesOld, GoesStale, DeleteNext, PurgeObjects, rowVars
    <2>3. \A m \in Medias : /\ Awaiting(m)' <=> Awaiting(m)
                            /\ Existing(m)' = Existing(m)
                            /\ Is(m, "processing")' => Is(m, "processing")
                            /\ Last(m)' => Last(m)
      BY <2>1, <2>2 DEF Awaiting, Existing, Is, Visible, Last, Settled, IsTerminal
    <2>4. OneUpload'
      BY <2>1, <2>3, MediaTask DEF Wakes, OneUpload, Handling, Of, TypeOK, Procs
    <2>5. PartFailsLast'
      BY <2>1, <2>3, PartStep DEF Wakes
    <2>6. FinalizedByLast'
      <3>1. \A v \in Workers, n \in Medias : Finalizing(v, n) => Finalizing(v, n)'
        BY <2>1 DEF Finalizing, Of
      <3> QED
        BY <2>3, <3>1, LastStep DEF Wakes
    <2> QED
      BY <2>4, <2>5, <2>6 DEF Wakes
  <1>4. ASSUME NEW w \in Procs, Interrupted(w) PROVE FALSE
    BY <1>4 DEF Interrupted, Smooth, TypeOK
  <1>5. ~RecoverNext
    BY DEF RecoverNext, RecoverPick, RecoverRead, FailList, FailSave, RequeueList, Smooth,
           RequeueLost, RequeueVerdict, RequeueParts, At, Outcomes, OneAttempt
  <1> QED
    BY <1>1, <1>2, <1>3, <1>4, <1>5 DEF Next

\* No media has contents yet, and nobody is at work.
LEMMA InitWakes ==
  Init => Wakes
  <1> SUFFICES ASSUME Init PROVE Wakes
    OBVIOUS
  <1>1. \A w \in Workers : task[w].pc = "idle"
    BY DEF Init, NoTask, Procs
  <1>2. \A m : Existing(m) = {}
    BY DEF Init, Part, Existing, Parts
  <1> QED
    BY <1>1, <1>2 DEF Wakes, OneUpload, PartFailsLast, FinalizedByLast, Handling, UploadSteps, ExtractSteps

-----------------------------------------------------------------------------
(* Theorems *)

(* Without the scheduler each content has one event and one attempt at a   *)
(* time, what the attempt has read holds when it writes, and verdicts are  *)
(* those of contents that have ended.                                      *)
THEOREM OutcomesInvariant == Spec => []OutcomeInv
  <1>1. Init => OutcomeInv
    BY InitOutcomes DEF OutcomeInv
  <1>2. OutcomeInv /\ TypeOK /\ SlotReserved /\ [Next]_vars => OutcomeInv'
    BY OutcomeStep DEF OutcomeInv
  <1> QED
    BY <1>1, <1>2, SlotsInvariant, PTL DEF Spec

(* If uploads are announced once and nothing is requeued or fails midway,  *)
(* a media has one upload, and a finalizer when its contents have ended.   *)
THEOREM WakesInvariant == Spec => []WakeInv
  <1>1. Init => WakeInv
    BY InitWakes DEF WakeInv
  <1>2. /\ WakeInv /\ OutcomeInv /\ TypeOK /\ TypeOK' /\ [Next]_vars
        => WakeInv'
    BY WakeStep DEF WakeInv, OutcomeInv, Smooth
  <1> QED
    BY <1>1, <1>2, OutcomesInvariant, SlotsInvariant, PTL DEF Spec

(* extract_frames.go, analyze_content.go: unless the scheduler requeues,   *)
(* no repeated webhook, extraction or event and no fault changes a content *)
(* that has been analyzed or has failed.                                   *)
THEOREM OutcomesAreFinal ==
  ASSUME "recover" \notin Jobs
  PROVE  Spec => OutcomeKept
  <1>1. TypeOK /\ SlotReserved /\ OutcomeInv /\ [Next]_vars
        => [\A c \in Contents : IsTerminal(c) => content'[c] = content[c]]_vars
    BY OutcomeStep DEF OutcomeInv, Kept
  <1> QED
    BY <1>1, OutcomesInvariant, SlotsInvariant, PTL DEF Spec, OutcomeKept

(* AggregateMediaVerdict: unless the scheduler requeues, the verdict of a  *)
(* media is that of all its contents, none of which is still open, however *)
(* many workers finalize it at the same time.                              *)
THEOREM VerdictsMatchContents ==
  ASSUME "recover" \notin Jobs
  PROVE  Spec => []VerdictMatches
  <1>1. OutcomeInv => VerdictMatches
    BY DEF OutcomeInv, Outcomes, Concluded, Settled, VerdictMatches
  <1> QED
    BY <1>1, OutcomesInvariant, PTL

(* docs/billing.md: unless the scheduler requeues, the monthly             *)
(* verifications are not overshot by concurrent workers, repeated events   *)
(* or faults.                                                              *)
THEOREM VerificationsStayBounded ==
  ASSUME "recover" \notin Jobs
  PROVE  Spec => []VerificationsBounded
  <1>1. OutcomeInv => VerificationsBounded
    BY DEF OutcomeInv, Outcomes
  <1> QED
    BY <1>1, OutcomesInvariant, PTL

(* tryFinalizeMedia: of any number of workers that end the contents of a   *)
(* media at the same time, reading each other's without a lock, one is     *)
(* left to finalize the media.                                             *)
THEOREM LastFinalizes ==
  ASSUME Jobs \cap {"duplicate", "recover"} = {}, MaxFaults = 0
  PROVE  Spec => []FinalizedByLast
  <1>1. WakeInv => FinalizedByLast
    BY DEF WakeInv, Smooth, Wakes
  <1> QED
    BY <1>1, WakesInvariant, PTL
=============================================================================
