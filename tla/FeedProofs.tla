----------------------------- MODULE FeedProofs -----------------------------
(* Theorems about Feed: types, one announcement, and nobody left out. *)
EXTENDS Feed, TLAPS

USE FeedAssumption

EventRecord == [type : Types, detail : Details, user : Users, members : SUBSET Users]
Steps == {"mark", "body", "announce", "send"}
Job == [event : Stored, at : 1..3, todo : SUBSET Users, step : Steps]

(* Every event is published first, and some are projected after that. *)
LEMMA HandlersFacts ==
  ASSUME NEW type
  PROVE  /\ Len(Handlers(type)) \in {1, 2}
         /\ Handlers(type)[1] = "publish"
         /\ Len(Handlers(type)) = 2 => Handlers(type)[2] = "project"
         /\ \A n \in 1..3 : Len(Handlers(type)) >= n => Handlers(type)[n] \in {"publish", "project"}
BY DEF Handlers

(* A worker with a job handles a stored event. *)
LEMMA Working ==
  ASSUME TypeOK, NEW w \in Workers, job[w] # Idle
  PROVE  /\ job[w] \in Job
         /\ job[w].event \in Stored /\ job[w].event \in Ids
         /\ Event(w) \in EventRecord
         /\ \A step : At(w, step) => Pair(w) \in Stored \X {"publish", "project"}
<1>1. job[w] \in Job
  BY DEF TypeOK, Job, Steps
<1>2. job[w].event \in Stored /\ job[w].event \in Ids
  BY <1>1 DEF Job, TypeOK, Stored, Ids
<1>3. Event(w) \in EventRecord
  <2>1. log \in Seq(EventRecord)
    BY DEF TypeOK, EventRecord
  <2> QED BY <1>2, <2>1 DEF Event, Stored
<1>4. ASSUME NEW step, At(w, step) PROVE Pair(w) \in Stored \X {"publish", "project"}
  <2>1. Handler(w) \in {"publish", "project"}
    BY <1>1, <1>4, HandlersFacts DEF At, Handler, Job
  <2> QED BY <1>2, <2>1 DEF Pair
<1> QED BY <1>1, <1>2, <1>3, <1>4

(* A step other than the idle one is one of a worker with a job. *)
LEMMA Busy ==
  ASSUME TypeOK, NEW w \in Workers, job[w].step \in Steps
  PROVE  job[w] # Idle
BY DEF Idle, Steps

(* The jobs keep their shape when one of them is replaced. *)
Jobs(j) ==
  /\ j \in [Workers -> {Idle} \cup Job]
  /\ \A v \in Workers : j[v] # Idle => j[v].at <= Len(Handlers(log[j[v].event].type)) + 1

\* One worker takes another job, the others keep theirs.
LEMMA JobsReplaced ==
  ASSUME TypeOK, NEW w \in Workers, NEW t, job' = [job EXCEPT ![w] = t],
         t = Idle \/ (t \in Job /\ t.at <= Len(Handlers(log[t.event].type)) + 1)
  PROVE  /\ Jobs(job')
         /\ job'[w] = t
         /\ \A v \in Workers \ {w} : job'[v] = job[v]
<1>1. Jobs(job)
  BY DEF TypeOK, Jobs, Job, Steps, Event
<1> QED BY <1>1 DEF Jobs

-----------------------------------------------------------------------------
(* What a step does to the jobs: worker w leaves its handler, or stays in   *)
(* it at another step, and the other workers stay where they are.           *)
Elsewhere(w) ==
  \A v \in Workers \ {w} :
    /\ job'[v] = job[v]
    /\ Inside(v)' <=> Inside(v)
    /\ Inside(v) => Pair(v)' = Pair(v) /\ Handler(v)' = Handler(v)

Leaves(w) == Jobs(job') /\ Elsewhere(w) /\ ~Inside(w)'

Stays(w, next, todo) ==
  /\ Jobs(job') /\ Elsewhere(w)
  /\ Inside(w)' /\ Pair(w)' = Pair(w) /\ Handler(w)' = Handler(w)
  /\ job'[w].event = job[w].event
  /\ job'[w].step = next /\ job'[w].todo = todo

\* A step of one worker leaves the others where they were.
LEMMA OthersStay ==
  ASSUME NEW w \in Workers, log' = log, \A v \in Workers \ {w} : job'[v] = job[v]
  PROVE  Elsewhere(w)
BY DEF Elsewhere, Inside, At, Pair, Handler, Event

\* A worker that rests or marks is inside no handler.
LEMMA OutsideSteps ==
  ASSUME NEW w \in Workers, job'[w].step \in {"idle", "mark"}
  PROVE  ~Inside(w)'
BY DEF Inside, At

(* The next handler of the event, if any. *)
LEMMA AdvanceLeaves ==
  ASSUME TypeOK, NEW w \in Workers, NEW step \in Steps, At(w, step), Advance(w), log' = log
  PROVE  Leaves(w)
<1> DEFINE t == [job[w] EXCEPT !.at = @ + 1, !.step = "mark", !.todo = {}]
<1>1. job[w] # Idle /\ job[w] \in Job
  BY Busy, Working DEF At
<1>2. job[w].at <= 2 /\ job[w].at + 1 <= Len(Handlers(Event(w).type)) + 1
  BY <1>1, HandlersFacts DEF At, Job
<1>3. job \in [Workers -> {Idle} \cup Job]
  BY DEF TypeOK, Job, Steps
<1>4. job' = [job EXCEPT ![w] = t]
  BY <1>3 DEF Advance
<1>5. t \in Job /\ t.at = job[w].at + 1 /\ t.event = job[w].event /\ t.step = "mark"
  <2>1. job[w].at + 1 \in 1..3 /\ "mark" \in Steps
    BY <1>1, <1>2 DEF Job, Steps
  <2>2. t \in Job
    BY <1>1, <2>1 DEF Job
  <2>3. t.at = job[w].at + 1 /\ t.event = job[w].event /\ t.step = "mark"
    BY <1>1 DEF Job
  <2> QED BY <2>2, <2>3
<1>6. t.at <= Len(Handlers(log[t.event].type)) + 1
  BY <1>2, <1>5 DEF Event
<1> HIDE DEF t
<1>7. Jobs(job') /\ job'[w] = t /\ \A v \in Workers \ {w} : job'[v] = job[v]
  BY <1>4, <1>5, <1>6, JobsReplaced
<1> QED BY <1>5, <1>7, OthersStay, OutsideSteps DEF Leaves

(* Another step of the same handler. *)
LEMMA StepStays ==
  ASSUME TypeOK, NEW w \in Workers, NEW step \in Steps, At(w, step),
         NEW next \in {"body", "announce", "send"}, NEW t \in Job,
         t.event = job[w].event, t.at = job[w].at, t.step = next,
         job' = [job EXCEPT ![w] = t], log' = log
  PROVE  Stays(w, next, t.todo)
<1>1. job[w] # Idle /\ job[w] \in Job
  BY Busy, Working DEF At
<1>2. t.at <= Len(Handlers(log[t.event].type)) + 1
  BY <1>1 DEF TypeOK, Event
<1>3. Jobs(job') /\ job'[w] = t /\ \A v \in Workers \ {w} : job'[v] = job[v]
  BY <1>2, JobsReplaced
<1>4. Inside(w)' /\ Pair(w)' = Pair(w) /\ Handler(w)' = Handler(w)
  BY <1>3 DEF Inside, At, Pair, Handler, Event
<1> QED BY <1>3, <1>4, OthersStay DEF Stays

\* A worker that becomes idle is inside no handler any more.
LEMMA IdleLeaves ==
  ASSUME TypeOK, NEW w \in Workers, job' = [job EXCEPT ![w] = Idle], log' = log
  PROVE  Leaves(w) /\ job'[w] = Idle
<1>1. Jobs(job') /\ job'[w] = Idle /\ \A v \in Workers \ {w} : job'[v] = job[v]
  BY JobsReplaced
<1> QED BY <1>1, OthersStay, OutsideSteps DEF Leaves, Idle

(* The messages are sent to a list of users, which may be empty. *)
LEMMA SendEffect ==
  ASSUME TypeOK, NEW w \in Workers, NEW step \in Steps, At(w, step), log' = log,
         NEW audience \in SUBSET Users, Send(w, audience)
  PROVE  IF audience = {} THEN Leaves(w) ELSE Stays(w, "send", audience)
<1>1. CASE audience = {}
  BY <1>1, AdvanceLeaves DEF Send
<1>2. CASE audience # {}
  <2> DEFINE t == [job[w] EXCEPT !.step = "send", !.todo = audience]
  <2>1. job[w] \in Job
    BY Busy, Working DEF At
  <2>2. job' = [job EXCEPT ![w] = t]
    BY <1>2 DEF Send, TypeOK
  <2>3. t \in Job /\ t.event = job[w].event /\ t.at = job[w].at /\ t.step = "send" /\ t.todo = audience
    BY <2>1 DEF Job, Steps
  <2> HIDE DEF t
  <2>4. Stays(w, "send", t.todo)
    BY <2>2, <2>3, StepStays
  <2> QED BY <1>2, <2>3, <2>4
<1> QED BY <1>1, <1>2

(* An error gives the mark back and puts the event aside or into the queue. *)
LEMMA RetryableEffect ==
  ASSUME TypeOK, NEW w \in Workers, NEW step \in Steps, At(w, step), Retryable(w)
  PROVE  /\ Leaves(w) /\ log' = log
         /\ processed' = processed \ {Pair(w)}
         /\ tries' \in [Ids -> 0..MaxRetries] /\ dead' \subseteq Stored
         /\ copies' \in [Ids -> Nat]
         /\ \A i \in Ids : copies'[i] > 0 => copies[i] > 0 \/ i \in Stored
         /\ UNCHANGED <<members, alive, joined, feed>>
<1>1. job[w].event \in Stored /\ job[w].event \in Ids
  BY Busy, Working DEF At
<1>2. Leaves(w) /\ log' = log
  BY IdleLeaves DEF Retryable
<1>3. CASE tries[job[w].event] < MaxRetries
  <2>1. tries \in [Ids -> 0..MaxRetries] /\ copies \in [Ids -> Nat] /\ dead \subseteq Stored
    BY DEF TypeOK
  <2>2. /\ tries' = [tries EXCEPT ![job[w].event] = @ + 1] /\ dead' = dead
        /\ copies' = [copies EXCEPT ![job[w].event] = @ + 1]
        /\ processed' = processed \ {Pair(w)} /\ UNCHANGED <<members, alive, joined, feed>>
    BY <1>3 DEF Retryable
  <2>3. tries' \in [Ids -> 0..MaxRetries]
    BY <1>1, <1>3, <2>1, <2>2 DEF FeedAssumption
  <2>4. copies' \in [Ids -> Nat] /\ \A i \in Ids : copies'[i] > 0 => copies[i] > 0 \/ i \in Stored
    BY <1>1, <2>1, <2>2
  <2> QED BY <1>2, <2>1, <2>2, <2>3, <2>4
<1>4. CASE ~(tries[job[w].event] < MaxRetries)
  BY <1>1, <1>2, <1>4 DEF Retryable, TypeOK
<1> QED BY <1>3, <1>4

(* An event is for users of the service. *)
LEMMA AudienceType ==
  ASSUME TypeOK, NEW e \in EventRecord
  PROVE  Audience(e) \in SUBSET Users
<1>1. e.type \in Types /\ e.user \in Users /\ e.members \in SUBSET Users
  BY DEF EventRecord
<1>2. FindByID \in SUBSET Users
  BY DEF TypeOK, FindByID
<1> QED
  BY <1>1, <1>2 DEF Audience, UserAudience, ClientAudience, CampaignAudience, MediaAudience,
     ContentAudience, Types

\* Receiving adds one to one message and lowers no count.
LEMMA ReceiveType ==
  ASSUME TypeOK, NEW w \in Workers, NEW step \in Steps, At(w, step), NEW u \in Users
  PROVE  /\ Message(w, u) \in Users \X Ids \X Interests
         /\ Receive(w, u) \in [Users \X Ids \X Interests -> 0..2]
         /\ \A x \in Users \X Ids \X Interests : Receive(w, u)[x] >= sent[x]
         /\ Receive(w, u)[Message(w, u)] > 0
         /\ \A x \in Users \X Ids \X Interests : x # Message(w, u) => Receive(w, u)[x] = sent[x]
         /\ sent[Message(w, u)] = 0 => Receive(w, u)[Message(w, u)] = 1
<1>1. job[w].event \in Ids
  BY Busy, Working DEF At
<1>2. InterestForEntity(Event(w).type) \in Interests /\ "activity" \in Interests
  BY DEF InterestForEntity, Interests
<1>3. Message(w, u) \in Users \X Ids \X Interests
  BY <1>1, <1>2 DEF Message
<1>4. sent \in [Users \X Ids \X Interests -> 0..2]
  BY DEF TypeOK
<1> DEFINE m == Message(w, u)
<1>5. Receive(w, u) = [sent EXCEPT ![m] = IF sent[m] < 2 THEN sent[m] + 1 ELSE sent[m]]
  BY <1>4 DEF Receive
<1> HIDE DEF m
<1>6. m \in Users \X Ids \X Interests
  BY <1>3 DEF m
<1>7. sent[m] \in 0..2
  BY <1>4, <1>6
<1>8. /\ Receive(w, u) \in [Users \X Ids \X Interests -> 0..2]
      /\ \A x \in Users \X Ids \X Interests : x # m => Receive(w, u)[x] = sent[x]
      /\ Receive(w, u)[m] = IF sent[m] < 2 THEN sent[m] + 1 ELSE sent[m]
  BY <1>4, <1>5, <1>6, <1>7
<1>9. Receive(w, u)[m] > 0 /\ Receive(w, u)[m] >= sent[m] /\ (sent[m] = 0 => Receive(w, u)[m] = 1)
  BY <1>7, <1>8
<1>10. \A x \in Users \X Ids \X Interests : Receive(w, u)[x] >= sent[x]
  BY <1>4, <1>8, <1>9
<1> QED BY <1>6, <1>8, <1>9, <1>10 DEF m

(* A new event leaves the earlier ones, and the workers, as they are. *)
LEMMA RecordEffect ==
  ASSUME TypeOK, Grounded, NEW u \in Users, NEW k, Record(k, u)
  PROVE  /\ log' \in Seq(EventRecord) /\ Len(log') = Len(log) + 1 /\ Len(log') <= MaxEvents
         /\ \A i \in Stored : i \in Stored' /\ log'[i] = log[i]
         /\ Len(log) + 1 \in Ids /\ Len(log) + 1 \notin Stored
         /\ \A i \in Stored' : i \in Stored \/ i = Len(log) + 1
         /\ job' = job
         /\ \A w \in Workers :
              /\ Inside(w)' <=> Inside(w)
              /\ Inside(w) => Pair(w)' = Pair(w) /\ Handler(w)' = Handler(w)
              /\ job'[w] # Idle => job'[w].at <= Len(Handlers(Event(w)'.type)) + 1
         /\ job' \in [Workers -> {Idle} \cup [event : Stored', at : 1..3, todo : SUBSET Users, step : Steps]]
         /\ copies' \in [Ids -> Nat]
         /\ \A i \in Ids : copies'[i] > 0 => i \in Stored'
         /\ UNCHANGED <<tries, dead, processed, sent, faults, broken>>
<1> DEFINE e == [type |-> k.type, detail |-> k.detail, user |-> u, members |-> members]
<1>1. log \in Seq(EventRecord) /\ Len(log) \in Nat /\ Len(log) < MaxEvents /\ MaxEvents \in Nat
  BY DEF TypeOK, EventRecord, Record, FeedAssumption
<1>2. e \in EventRecord
  BY DEF Record, TypeOK, EventRecord, FeedAssumption
<1>3. log' = Append(log, e)
  BY DEF Record
<1> HIDE DEF e
<1>4. /\ log' \in Seq(EventRecord) /\ Len(log') = Len(log) + 1 /\ Len(log') <= MaxEvents
      /\ \A i \in Stored : i \in Stored' /\ log'[i] = log[i]
      /\ Len(log) + 1 \in Ids /\ Len(log) + 1 \notin Stored
      /\ \A i \in Stored' : i \in Stored \/ i = Len(log) + 1
  BY <1>1, <1>2, <1>3 DEF Stored, Ids
<1>5. job' = job /\ UNCHANGED <<tries, dead, processed, sent, faults, broken>>
  BY DEF Record
<1>6. job' \in [Workers -> {Idle} \cup [event : Stored', at : 1..3, todo : SUBSET Users, step : Steps]]
  BY <1>4, <1>5 DEF TypeOK, Steps
<1>7. ASSUME NEW w \in Workers
      PROVE  /\ Inside(w)' <=> Inside(w)
             /\ Inside(w) => Pair(w)' = Pair(w) /\ Handler(w)' = Handler(w)
             /\ job'[w] # Idle => job'[w].at <= Len(Handlers(Event(w)'.type)) + 1
  <2>1. CASE job[w] = Idle
    BY <1>5, <2>1 DEF Inside, At, Idle
  <2>2. CASE job[w] # Idle
    <3>1. Event(w)' = Event(w)
      BY <1>4, <1>5, <2>2, Working DEF Event
    <3> QED BY <1>5, <2>2, <3>1 DEF Inside, At, Pair, Handler, TypeOK
  <2> QED BY <2>1, <2>2
<1>8. copies' \in [Ids -> Nat] /\ \A i \in Ids : copies'[i] > 0 => i \in Stored'
  <2>1. copies \in [Ids -> Nat] /\ copies' = [copies EXCEPT ![Len(log) + 1] = 1]
    BY DEF TypeOK, Record
  <2>2. Len(log) + 1 \in Stored'
    BY <1>1, <1>4 DEF Stored
  <2> QED BY <1>4, <2>1, <2>2 DEF Grounded
<1> QED BY <1>4, <1>5, <1>6, <1>7, <1>8

\* Appending an event, with or without its other effects, keeps the types.
LEMMA RecordTypes ==
  ASSUME TypeOK, Grounded, NEW u \in Users, NEW k, Record(k, u),
         members' \subseteq Users, alive' \in BOOLEAN, joined' \in [Users -> 0..MaxEvents],
         feed' = feed \/ feed' = <<>>
  PROVE  TypeOK'
<1>1. DOMAIN feed' \subseteq Stored /\ feed' = [i \in DOMAIN feed' |-> ActivityType(log[i])]
  <2>1. CASE feed' = <<>>
    <3>1. DOMAIN feed' = {}
      BY <2>1
    <3>2. <<>> = [i \in {} |-> ActivityType(log[i])]
      OBVIOUS
    <3> QED BY <2>1, <3>1, <3>2
  <2>2. CASE feed' = feed
    BY <2>2 DEF TypeOK
  <2> QED BY <2>1, <2>2
<1>2. DOMAIN feed' \subseteq Stored' /\ feed' = [i \in DOMAIN feed' |-> ActivityType(log'[i])]
  BY <1>1, RecordEffect
<1>3. dead' \subseteq Stored' /\ processed' \subseteq Stored' \X {"publish", "project"}
      /\ broken' \subseteq Stored' \X {"publish", "project"}
  BY SMTT(20), RecordEffect DEF TypeOK
<1> QED BY <1>2, <1>3, RecordEffect DEF TypeOK, EventRecord, Steps

(* A step of a worker has the types, given what it did to the jobs. *)
LEMMA WorkerTypes ==
  ASSUME TypeOK, Jobs(job'), UNCHANGED <<members, alive, joined, log>>,
         copies' \in [Ids -> Nat], tries' \in [Ids -> 0..MaxRetries], dead' \subseteq Stored,
         processed' \subseteq Stored \X {"publish", "project"},
         DOMAIN feed' \subseteq Stored, feed' = [i \in DOMAIN feed' |-> ActivityType(log[i])],
         sent' \in [Users \X Ids \X Interests -> 0..2], faults' \in 0..MaxFaults,
         broken' \subseteq Stored \X {"publish", "project"}
  PROVE  TypeOK'
BY DEF TypeOK, Jobs, Job, Steps, Event, Stored

(* Who is entitled to an event's message depends on the client alone. *)
LEMMA EntitledKept ==
  ASSUME UNCHANGED <<members, alive, joined, log>>
  PROVE  /\ Stored' = Stored
         /\ \A i : Entitled(i)' = Entitled(i) /\ Stable(i)' = Stable(i)
BY DEF Entitled, Stable, Stored

-----------------------------------------------------------------------------
(* The mark excludes a second worker, on leaving and on moving on. *)
LEMMA AloneLeaves ==
  ASSUME InsideAlone, NEW w \in Workers, Leaves(w),
         (Inside(w) /\ processed \ {Pair(w)} \subseteq processed') \/ processed \subseteq processed'
  PROVE  InsideAlone'
<1> SUFFICES ASSUME NEW v \in Workers, Inside(v)'
             PROVE  /\ Pair(v)' \in processed'
                    /\ job'[v].step = "announce" => Handler(v)' = "project"
                    /\ \A x \in Workers : Inside(x)' /\ Pair(x)' = Pair(v)' => x = v
  BY DEF InsideAlone
<1>1. v # w /\ Inside(v) /\ Pair(v)' = Pair(v) /\ Handler(v)' = Handler(v) /\ job'[v] = job[v]
  BY DEF Leaves, Elsewhere
<1>2. Pair(v) \in processed'
  BY <1>1 DEF InsideAlone
<1>3. ASSUME NEW x \in Workers, Inside(x)', Pair(x)' = Pair(v)' PROVE x = v
  BY <1>1, <1>3 DEF Leaves, Elsewhere, InsideAlone
<1> QED BY <1>1, <1>2, <1>3 DEF InsideAlone

\* A worker that goes on in its handler, or enters it by the mark, is alone in it.
LEMMA AloneStays ==
  ASSUME InsideAlone, NEW w \in Workers, NEW next, NEW todo, Stays(w, next, todo),
         Inside(w) \/ Pair(w) \notin processed,
         processed' = processed \cup {Pair(w)}, next = "announce" => Handler(w) = "project"
  PROVE  InsideAlone'
<1> SUFFICES ASSUME NEW v \in Workers, Inside(v)'
             PROVE  /\ Pair(v)' \in processed'
                    /\ job'[v].step = "announce" => Handler(v)' = "project"
                    /\ \A x \in Workers : Inside(x)' /\ Pair(x)' = Pair(v)' => x = v
  BY DEF InsideAlone
<1>1. \A x \in Workers : x # w /\ Inside(x)' =>
         Inside(x) /\ Pair(x)' = Pair(x) /\ Handler(x)' = Handler(x) /\ job'[x] = job[x]
  BY DEF Stays, Elsewhere
<1>2. Pair(w)' = Pair(w) /\ Handler(w)' = Handler(w) /\ job'[w].step = next
  BY DEF Stays
<1>3. \A x \in Workers : x # w /\ Inside(x)' => Pair(x) # Pair(w)
  BY <1>1 DEF InsideAlone
<1>4. CASE v = w
  BY <1>1, <1>2, <1>3, <1>4
<1>5. CASE v # w
  BY <1>1, <1>2, <1>3, <1>5 DEF InsideAlone
<1> QED BY <1>4, <1>5

-----------------------------------------------------------------------------
(* What a worker does outside its handlers changes nothing the others see. *)
LEMMA OutsideStep ==
  ASSUME TypeOK, FeedInv, NEW w \in Workers, ~Inside(w), Leaves(w),
         UNCHANGED <<members, alive, joined, log, tries, dead, processed, feed, sent, faults, broken>>,
         copies' \in [Ids -> Nat], \A i \in Ids : copies'[i] > 0 => i \in Stored
  PROVE  TypeOK' /\ FeedInv'
<1> USE EntitledKept
<1>1. TypeOK'
  BY WorkerTypes DEF TypeOK, Leaves
<1>2. Grounded'
  BY DEF Grounded, FeedInv
<1>3. InsideAlone'
  BY AloneLeaves DEF FeedInv
<1>4. \A v \in Workers : /\ Inside(v)' <=> Inside(v)
                         /\ Inside(v) => Pair(v)' = Pair(v) /\ Handler(v)' = Handler(v) /\ job'[v] = job[v]
  BY DEF Leaves, Elsewhere
<1>5. RowAdmits'
  BY <1>4 DEF RowAdmits, FeedInv, Projecting
<1>6. PublishOnTrack'
  BY <1>4 DEF PublishOnTrack, PublishFine, FeedInv
<1>7. ProjectOnTrack'
  BY <1>4 DEF ProjectOnTrack, ProjectFine, RowMarked, FeedInv
<1> QED BY <1>1, <1>2, <1>3, <1>5, <1>6, <1>7 DEF FeedInv

\* The consumer takes a copy.
LEMMA DeliverStep ==
  ASSUME TypeOK, FeedInv, NEW w \in Workers, NEW i \in Ids, Deliver(w, i)
  PROVE  TypeOK' /\ FeedInv'
<1> DEFINE t == [event |-> i, at |-> 1, step |-> "mark", todo |-> {}]
<1>1. i \in Stored
  BY DEF Deliver, FeedInv, Grounded
<1>2. job' = [job EXCEPT ![w] = t] /\ log' = log
  BY DEF Deliver
<1>3. t \in Job /\ t.at <= Len(Handlers(log[t.event].type)) + 1 /\ t.step = "mark"
  BY <1>1, HandlersFacts DEF Job, Steps
<1> HIDE DEF t
<1>4. Jobs(job') /\ job'[w] = t /\ \A v \in Workers \ {w} : job'[v] = job[v]
  BY <1>2, <1>3, JobsReplaced
<1>5. Leaves(w)
  BY <1>2, <1>3, <1>4, OthersStay, OutsideSteps DEF Leaves
<1>6. ~Inside(w)
  BY DEF Deliver, Inside, At, Idle
<1>7. copies' \in [Ids -> Nat] /\ \A j \in Ids : copies'[j] > 0 => j \in Stored
  BY DEF Deliver, TypeOK, FeedInv, Grounded
<1>8. UNCHANGED <<members, alive, joined, log, tries, dead, processed, feed, sent, faults, broken>>
  BY DEF Deliver
<1> QED BY <1>5, <1>6, <1>7, <1>8, OutsideStep

\* The copy is acknowledged.
LEMMA AckStep ==
  ASSUME TypeOK, FeedInv, NEW w \in Workers, Ack(w)
  PROVE  TypeOK' /\ FeedInv'
<1>1. Leaves(w)
  BY IdleLeaves DEF Ack
<1>2. ~Inside(w)
  BY DEF Ack, Inside, At
<1> QED BY <1>1, <1>2, OutsideStep DEF Ack, TypeOK, FeedInv, Grounded

(* The mark is taken, and the worker is inside with all still to do. *)
LEMMA WithStep ==
  ASSUME TypeOK, FeedInv, NEW w \in Workers, With(w)
  PROVE  TypeOK' /\ FeedInv'
<1>1. At(w, "mark") /\ ~Inside(w) /\ job[w] # Idle
  BY DEF With, Inside, At, Idle
<1>2. CASE Pair(w) \in processed
  <2>1. Leaves(w)
    BY <1>1, <1>2, AdvanceLeaves DEF With, Steps
  <2> QED BY <1>1, <1>2, <2>1, OutsideStep DEF With, TypeOK, FeedInv, Grounded
<1>3. CASE Pair(w) \notin processed
  <2> DEFINE t == [job[w] EXCEPT !.step = "body"]
  <2>1. job[w] \in Job /\ Pair(w) \in Stored \X {"publish", "project"}
    BY <1>1, Working
  <2>2. job' = [job EXCEPT ![w] = t] /\ processed' = processed \cup {Pair(w)}
    BY <1>3 DEF With, TypeOK
  <2>3. t \in Job /\ t.event = job[w].event /\ t.at = job[w].at /\ t.step = "body"
    BY <2>1 DEF Job, Steps
  <2> HIDE DEF t
  <2>4. UNCHANGED <<members, alive, joined, log, copies, tries, dead, feed, sent, faults, broken>>
    BY DEF With
  <2>5. Stays(w, "body", t.todo)
    BY <1>1, <2>2, <2>3, <2>4, StepStays DEF Steps
  <2> USE EntitledKept, <2>4
  <2>6. TypeOK'
    BY <2>1, <2>2, <2>5, WorkerTypes DEF TypeOK, Stays
  <2>7. Grounded'
    BY DEF Grounded, FeedInv
  <2>8. InsideAlone'
    BY <1>3, <2>2, <2>5, AloneStays DEF FeedInv
  <2>9. /\ \A v \in Workers \ {w} :
             /\ Inside(v)' <=> Inside(v)
             /\ Inside(v) => Pair(v)' = Pair(v) /\ Handler(v)' = Handler(v) /\ job'[v] = job[v]
        /\ Inside(w)' /\ Pair(w)' = Pair(w) /\ job'[w].step = "body"
    BY <2>5 DEF Stays, Elsewhere
  <2>10. RowAdmits'
    BY <2>9 DEF RowAdmits, FeedInv, Projecting
  <2>11. PublishOnTrack'
    <3> SUFFICES ASSUME NEW i \in Stored, <<i, "publish">> \in processed' \ broken
                 PROVE  PublishFine(i)'
      BY DEF PublishOnTrack
    <3>1. CASE Pair(w) = <<i, "publish">>
      BY <2>9, <3>1 DEF PublishFine
    <3>2. CASE Pair(w) # <<i, "publish">>
      <4>1. PublishFine(i)
        BY <2>2, <3>2 DEF PublishOnTrack, FeedInv
      <4> QED BY <1>1, <2>9, <4>1 DEF PublishFine
    <3> QED BY <3>1, <3>2
  <2>12. ProjectOnTrack'
    <3> SUFFICES ASSUME NEW i \in Stored, alive, <<i, "project">> \notin broken
                 PROVE  /\ <<i, "project">> \in processed' /\ ActivityType(log[i]) # "none" => ProjectFine(i)'
                        /\ RowMarked(i)'
      BY DEF ProjectOnTrack
    <3>1. CASE Pair(w) = <<i, "project">>
      <4>1. i \notin DOMAIN feed
        BY <1>3, <3>1 DEF ProjectOnTrack, RowMarked, FeedInv
      <4> QED BY <2>9, <3>1, <4>1 DEF ProjectFine, RowMarked
    <3>2. CASE Pair(w) # <<i, "project">>
      <4>1. RowMarked(i) /\ (<<i, "project">> \in processed /\ ActivityType(log[i]) # "none" => ProjectFine(i))
        BY DEF ProjectOnTrack, FeedInv
      <4>2. RowMarked(i)'
        BY <1>1, <2>2, <2>9, <3>2, <4>1 DEF RowMarked
      <4>3. ProjectFine(i) => ProjectFine(i)'
        BY <1>1, <2>9 DEF ProjectFine
      <4> QED BY <2>2, <3>2, <4>1, <4>2, <4>3
    <3> QED BY <3>1, <3>2
  <2> QED BY <2>6, <2>7, <2>8, <2>10, <2>11, <2>12 DEF FeedInv
<1> QED BY <1>2, <1>3

-----------------------------------------------------------------------------
(* The list the publisher starts from has everyone entitled. *)
LEMMA AudienceSuffices ==
  ASSUME TypeOK, NEW i \in Stored
  PROVE  Entitled(i) \subseteq Audience(log[i]) /\ Stable(i) \subseteq FindByID
<1>1. log[i] \in EventRecord
  <2>1. log \in Seq(EventRecord)
    BY DEF TypeOK, EventRecord
  <2> QED BY <2>1 DEF Stored
<1>2. log[i].type \in Types
  BY <1>1 DEF EventRecord
<1>3. Stable(i) \subseteq FindByID
  BY DEF Stable, FindByID
<1>4. /\ MediaSilent(log[i]) => Entitled(i) = {}
      /\ ~MediaSilent(log[i]) /\ log[i].type \in ToUserTypes => Entitled(i) = {log[i].user}
      /\ ~MediaSilent(log[i]) /\ log[i].type \in ToUsersTypes => Entitled(i) = log[i].members
      /\ ~MediaSilent(log[i]) /\ log[i].type \notin ToUserTypes \cup ToUsersTypes => Entitled(i) = Stable(i)
  <2>1. log[i].type \in ToUserTypes => log[i].type \notin ToUsersTypes
    BY DEF ToUserTypes, ToUsersTypes, UserTypes
  <2>2. log[i].type \in ToUserTypes \cup ToUsersTypes => ~MediaSilent(log[i])
    BY DEF ToUserTypes, ToUsersTypes, UserTypes, MediaSilent
  <2> QED BY <2>1, <2>2, Zenon DEF Entitled
<1>5. CASE MediaSilent(log[i])
  BY <1>3, <1>4, <1>5
<1>6. CASE ~MediaSilent(log[i])
  BY <1>2, <1>3, <1>4, <1>6 DEF Audience, UserAudience, ClientAudience, CampaignAudience, MediaAudience,
     ContentAudience, Types, UserTypes, ClientTypes, CampaignTypes, MediaTypes, ContentTypes,
     ToUserTypes, ToUsersTypes
<1> QED BY <1>5, <1>6

(* What is on track stays so while another handler is run. *)
LEMMA FineKept ==
  ASSUME TypeOK, NEW w \in Workers, Elsewhere(w), UNCHANGED <<members, alive, joined, log>>,
         \A x \in Users \X Ids \X Interests : sent'[x] >= sent[x], sent' \in [Users \X Ids \X Interests -> 0..2],
         DOMAIN feed \subseteq DOMAIN feed', NEW i \in Stored
  PROVE  /\ (Inside(w) => Pair(w) # <<i, "publish">>) /\ PublishFine(i) => PublishFine(i)'
         /\ (Inside(w) => Pair(w) # <<i, "project">>) /\ ProjectFine(i) => ProjectFine(i)'
<1>1. Entitled(i)' = Entitled(i) /\ Stable(i)' = Stable(i)
  BY EntitledKept
<1>2. Entitled(i) \subseteq Users /\ Stable(i) \subseteq Users /\ i \in Ids
  <2>1. log \in Seq(EventRecord) /\ i \in Ids
    BY DEF TypeOK, EventRecord, Stored, Ids
  <2>2. Audience(log[i]) \in SUBSET Users
    BY <2>1, AudienceType DEF Stored
  <2> QED BY <2>1, <2>2, AudienceSuffices DEF TypeOK, Stable
<1>3. InterestForEntity(log[i].type) \in Interests /\ "activity" \in Interests
  BY DEF InterestForEntity, Interests
<1>4. \A u \in Users, n \in Interests : sent[<<u, i, n>>] > 0 => sent'[<<u, i, n>>] > 0
  <2> SUFFICES ASSUME NEW u \in Users, NEW n \in Interests PROVE sent[<<u, i, n>>] > 0 => sent'[<<u, i, n>>] > 0
    OBVIOUS
  <2> DEFINE x == <<u, i, n>>
  <2>1. x \in Users \X Ids \X Interests
    BY <1>2
  <2> HIDE DEF x
  <2>2. sent[x] \in 0..2 /\ sent'[x] \in 0..2 /\ sent'[x] >= sent[x]
    BY <2>1 DEF TypeOK
  <2>3. sent[x] > 0 => sent'[x] > 0
    BY <2>2
  <2> QED BY <2>3 DEF x
<1>5. \A v \in Workers \ {w} :
        Inside(v) => Inside(v)' /\ Pair(v)' = Pair(v) /\ job'[v] = job[v]
  BY DEF Elsewhere
<1>6. (Inside(w) => Pair(w) # <<i, "publish">>) /\ PublishFine(i) => PublishFine(i)'
  BY <1>1, <1>2, <1>3, <1>4, <1>5 DEF PublishFine
<1>7. (Inside(w) => Pair(w) # <<i, "project">>) /\ ProjectFine(i) => ProjectFine(i)'
  BY <1>1, <1>2, <1>3, <1>4, <1>5 DEF ProjectFine
<1> QED BY <1>6, <1>7

\* Nothing is sent.
LEMMA SentKept ==
  ASSUME TypeOK, sent' = sent
  PROVE  /\ sent' \in [Users \X Ids \X Interests -> 0..2]
         /\ \A x \in Users \X Ids \X Interests : sent'[x] >= sent[x]
<1>1. sent \in [Users \X Ids \X Interests -> 0..2]
  BY DEF TypeOK
<1>2. ASSUME NEW x \in Users \X Ids \X Interests PROVE sent[x] >= sent[x]
  <2>1. sent[x] \in 0..2
    BY <1>1
  <2> QED BY <2>1
<1> QED BY <1>1, <1>2

\* The handler that publishes reads its audience.
LEMMA PublishStep ==
  ASSUME TypeOK, FeedInv, NEW w \in Workers, Publish(w)
  PROVE  TypeOK' /\ FeedInv'
<1> DEFINE e == job[w].event
<1>1. At(w, "body") /\ Inside(w) /\ Handler(w) = "publish" /\ Pair(w) = <<e, "publish">> /\ Event(w) = log[e]
  BY DEF Publish, Inside, Pair, Event
<1>2. e \in Stored /\ Event(w) \in EventRecord
  BY <1>1, Busy, Working DEF At, Steps
<1>3. UNCHANGED <<members, alive, joined, log, copies, tries, dead, processed, feed, sent, faults, broken>>
  BY DEF Publish
<1>4. IF Audience(Event(w)) = {} THEN Leaves(w) ELSE Stays(w, "send", Audience(Event(w)))
  BY <1>1, <1>2, <1>3, AudienceType, SendEffect DEF Publish, Steps
<1>5. Jobs(job') /\ Elsewhere(w)
  BY <1>4 DEF Leaves, Stays
<1> USE EntitledKept, <1>3
<1>6. TypeOK'
  BY <1>5, WorkerTypes DEF TypeOK
<1>7. Grounded'
  BY DEF Grounded, FeedInv
<1>8. InsideAlone'
  <2>1. Pair(w) \in processed
    BY <1>1 DEF InsideAlone, FeedInv
  <2> QED BY <1>1, <1>4, <2>1, AloneLeaves, AloneStays DEF FeedInv
<1>9. ~Projecting(w)' /\ \A v \in Workers \ {w} : (Projecting(v)' <=> Projecting(v)) /\ job'[v] = job[v]
  BY <1>1, <1>4, <1>5 DEF Leaves, Stays, Elsewhere, Projecting
<1>10. RowAdmits'
  BY <1>9 DEF RowAdmits, FeedInv
<1>11. sent' \in [Users \X Ids \X Interests -> 0..2] /\ \A x \in Users \X Ids \X Interests : sent'[x] >= sent[x]
  BY SentKept
<1>12. PublishOnTrack'
  <2> SUFFICES ASSUME NEW i \in Stored, <<i, "publish">> \in processed \ broken
               PROVE  PublishFine(i)'
    BY DEF PublishOnTrack
  <2>1. CASE i = e
    <3>1. Entitled(i) \subseteq Audience(Event(w))
      BY <1>1, <2>1, AudienceSuffices
    <3> QED BY <1>1, <1>4, <2>1, <3>1 DEF PublishFine, Stays
  <2>2. CASE i # e
    BY <1>1, <1>5, <1>11, <2>2, FineKept DEF PublishOnTrack, FeedInv
  <2> QED BY <2>1, <2>2
<1>13. ProjectOnTrack'
  <2> SUFFICES ASSUME NEW i \in Stored, alive, <<i, "project">> \notin broken
               PROVE  /\ <<i, "project">> \in processed /\ ActivityType(log[i]) # "none" => ProjectFine(i)'
                      /\ RowMarked(i)'
    BY DEF ProjectOnTrack
  <2>1. RowMarked(i)'
    BY <1>1, <1>4, <1>5 DEF ProjectOnTrack, FeedInv, RowMarked, Elsewhere, Leaves, Stays
  <2>2. ProjectFine(i) => ProjectFine(i)'
    BY <1>1, <1>5, <1>11, FineKept
  <2> QED BY <2>1, <2>2 DEF ProjectOnTrack, FeedInv
<1> QED BY <1>6, <1>7, <1>8, <1>10, <1>12, <1>13 DEF FeedInv
-----------------------------------------------------------------------------
(* What a worker does inside a handler touches that event and handler only. *)
LEMMA OtherEvents ==
  ASSUME TypeOK, FeedInv, NEW w \in Workers, Inside(w), Elsewhere(w),
         Inside(w)' => Pair(w)' = Pair(w), UNCHANGED <<members, alive, joined, log>>,
         \A x \in Users \X Ids \X Interests : sent'[x] >= sent[x], sent' \in [Users \X Ids \X Interests -> 0..2],
         DOMAIN feed \subseteq DOMAIN feed',
         \A j \in DOMAIN feed' : j \in DOMAIN feed \/ Pair(w) = <<j, "project">>,
         processed \ {Pair(w)} \subseteq processed', processed' \subseteq processed, broken \subseteq broken',
         NEW i \in Stored
  PROVE  /\ <<i, "publish">> # Pair(w) /\ <<i, "publish">> \in processed' \ broken' => PublishFine(i)'
         /\ <<i, "project">> # Pair(w) /\ alive /\ <<i, "project">> \notin broken' =>
              /\ <<i, "project">> \in processed' /\ ActivityType(log[i]) # "none" => ProjectFine(i)'
              /\ RowMarked(i)'
<1>1. /\ (Inside(w) => Pair(w) # <<i, "publish">>) /\ PublishFine(i) => PublishFine(i)'
      /\ (Inside(w) => Pair(w) # <<i, "project">>) /\ ProjectFine(i) => ProjectFine(i)'
  BY FineKept
<1>2. <<i, "publish">> \in processed \ broken => PublishFine(i)
  BY DEF FeedInv, PublishOnTrack
<1>3. alive /\ <<i, "project">> \notin broken =>
        /\ <<i, "project">> \in processed /\ ActivityType(log[i]) # "none" => ProjectFine(i)
        /\ RowMarked(i)
  BY DEF FeedInv, ProjectOnTrack
<1>4. ASSUME <<i, "project">> # Pair(w), RowMarked(i) PROVE RowMarked(i)'
  <2>1. i \in DOMAIN feed' => i \in DOMAIN feed
    BY <1>4
  <2>2. \A v \in Workers : Inside(v)' /\ Pair(v)' = <<i, "project">> => Inside(v) /\ Pair(v) = <<i, "project">> /\ job'[v] = job[v]
    BY <1>4 DEF Elsewhere
  <2> QED BY <1>4, <2>1, <2>2 DEF RowMarked
<1> QED BY <1>1, <1>2, <1>3, <1>4

(* The mark is still there and its worker is past the body, or gone. *)
LEMMA RowMarkedOwn ==
  ASSUME InsideAlone, NEW w \in Workers, Inside(w), Elsewhere(w), NEW i, Pair(w) = <<i, "project">>,
         Pair(w) \in processed', Inside(w)' => job'[w].step # "body"
  PROVE  RowMarked(i)'
<1>1. \A v \in Workers \ {w} : Inside(v)' => Inside(v) /\ Pair(v)' = Pair(v)
  BY DEF Elsewhere
<1>2. \A v \in Workers \ {w} : Inside(v) => Pair(v) # Pair(w)
  BY DEF InsideAlone
<1> QED BY <1>1, <1>2 DEF RowMarked

(* An announcer tells those on its list, and the list only shrinks. *)
LEMMA RowAdmitsKept ==
  ASSUME TypeOK, RowAdmits, NEW w \in Workers, Elsewhere(w), UNCHANGED alive, DOMAIN feed' = DOMAIN feed,
         \A u \in Users, i \in Ids :
           \/ sent'[<<u, i, "activity">>] = sent[<<u, i, "activity">>]
           \/ Projecting(w) /\ i = job[w].event /\ sent'[<<u, i, "activity">>] = 1,
         Projecting(w)' =>
           /\ Projecting(w) /\ job'[w].event = job[w].event
           /\ \A u \in Users : job'[w].step = "announce" \/ u \in job'[w].todo =>
                                 sent'[<<u, job[w].event, "activity">>] = 0
  PROVE  RowAdmits'
<1>1. \A v \in Workers \ {w} : (Projecting(v)' <=> Projecting(v)) /\ job'[v] = job[v]
  BY DEF Elsewhere, Projecting
<1>2. ASSUME NEW v \in Workers, Projecting(v)'
      PROVE  /\ alive' => job'[v].event \in DOMAIN feed'
             /\ \A x \in Workers : Projecting(x)' /\ job'[x].event = job'[v].event => x = v
             /\ \A u \in Users :
                  job'[v].step = "announce" \/ u \in job'[v].todo => sent'[<<u, job'[v].event, "activity">>] = 0
  <2>1. Projecting(v) /\ job'[v].event = job[v].event
    BY <1>1, <1>2
  <2>2. \A x \in Workers : Projecting(x)' => Projecting(x) /\ job'[x].event = job[x].event
    BY <1>1
  <2>3. CASE v = w
    BY <2>1, <2>2, <2>3, <1>2 DEF RowAdmits
  <2>4. CASE v # w
    <3>1. job'[v] = job[v] /\ (Projecting(w) => job[v].event # job[w].event)
      BY <1>1, <2>1, <2>4 DEF RowAdmits
    <3>2. job[v].event \in Ids
      <4>1. job[v] # Idle
        BY <2>1 DEF Projecting, Inside, At, Idle
      <4> QED BY <4>1, Working
    <3>3. \A u \in Users : sent'[<<u, job[v].event, "activity">>] = sent[<<u, job[v].event, "activity">>]
      BY <3>1, <3>2
    <3> QED BY <2>1, <2>2, <3>1, <3>3 DEF RowAdmits
  <2> QED BY <2>3, <2>4
<1>3. ASSUME NEW u \in Users, NEW i \in Ids
      PROVE  /\ sent'[<<u, i, "activity">>] > 0 => i \in DOMAIN feed' \/ ~alive'
             /\ sent'[<<u, i, "activity">>] < 2
  <2>1. CASE sent'[<<u, i, "activity">>] = sent[<<u, i, "activity">>]
    BY <2>1 DEF RowAdmits
  <2>2. CASE Projecting(w) /\ i = job[w].event /\ sent'[<<u, i, "activity">>] = 1
    BY <2>2 DEF RowAdmits
  <2> QED BY <2>1, <2>2
<1> QED BY <1>2, <1>3 DEF RowAdmits

(* The projector of event e, at the body. *)
LEMMA InsertStep ==
  ASSUME TypeOK, FeedInv, NEW w \in Workers, Insert(w)
  PROVE  TypeOK' /\ FeedInv'
<1> PICK e : e = job[w].event
  OBVIOUS
<1>1. /\ At(w, "body") /\ Inside(w) /\ Handler(w) = "project" /\ Pair(w) = <<e, "project">>
      /\ Event(w) = log[e] /\ job[w].step = "body" /\ ~Projecting(w)
  BY DEF Insert, Inside, Pair, Event, At, Projecting
<1>2. e \in Stored /\ e \in Ids /\ job[w] \in Job
  BY <1>1, Busy, Working DEF At, Steps
<1>3. Pair(w) \in processed
  BY <1>1 DEF InsideAlone, FeedInv
<1>4. UNCHANGED <<sent, faults, broken>>
  BY DEF Insert
<1>5. sent' \in [Users \X Ids \X Interests -> 0..2] /\ \A x \in Users \X Ids \X Interests : sent'[x] >= sent[x]
  BY <1>4, SentKept
<1>6. CASE Advance(w) /\ UNCHANGED <<members, alive, joined, log, copies, tries, dead, processed, feed>>
           /\ (ActivityType(log[e]) = "none" \/ e \in DOMAIN feed)
  <2>1. Leaves(w)
    BY <1>1, <1>6, AdvanceLeaves DEF Steps
  <2>2. Jobs(job') /\ Elsewhere(w) /\ ~Inside(w)'
    BY <2>1 DEF Leaves
  <2> USE <1>4, <1>6, EntitledKept
  <2>3. TypeOK'
    BY <2>2, WorkerTypes DEF TypeOK
  <2>4. Grounded'
    BY DEF Grounded, FeedInv, Stored
  <2>5. InsideAlone'
    BY <2>1, AloneLeaves DEF FeedInv
  <2>6. RowAdmits'
    BY <2>2, RowAdmitsKept DEF FeedInv, Projecting
  <2>7. /\ processed \ {Pair(w)} \subseteq processed' /\ processed' \subseteq processed /\ broken \subseteq broken'
        /\ DOMAIN feed \subseteq DOMAIN feed'
        /\ \A j \in DOMAIN feed' : j \in DOMAIN feed \/ Pair(w) = <<j, "project">>
    OBVIOUS
  <2>8. alive /\ <<e, "project">> \notin broken => ActivityType(log[e]) = "none"
    BY <1>1, <1>2 DEF ProjectOnTrack, FeedInv, RowMarked
  <2>9. RowMarked(e)'
    BY <1>1, <1>3, <2>2, RowMarkedOwn DEF FeedInv
  <2>10. PublishOnTrack'
    <3> SUFFICES ASSUME NEW i \in Stored, <<i, "publish">> \in processed' \ broken' PROVE PublishFine(i)'
      BY DEF PublishOnTrack
    <3>1. <<i, "publish">> # Pair(w) /\ <<i, "publish">> \in processed' \ broken' => PublishFine(i)'
      BY <1>1, <1>5, <2>2, <2>7, OtherEvents
    <3> QED BY <1>1, <3>1
  <2>11. ProjectOnTrack'
    <3> SUFFICES ASSUME NEW i \in Stored, alive, <<i, "project">> \notin broken'
                 PROVE  /\ <<i, "project">> \in processed' /\ ActivityType(log[i]) # "none" => ProjectFine(i)'
                        /\ RowMarked(i)'
      BY DEF ProjectOnTrack
    <3>1. CASE i = e
      BY <1>1, <2>8, <2>9, <3>1
    <3>2. CASE i # e
      <4>1. <<i, "project">> # Pair(w) /\ alive /\ <<i, "project">> \notin broken' =>
              /\ <<i, "project">> \in processed' /\ ActivityType(log[i]) # "none" => ProjectFine(i)'
              /\ RowMarked(i)'
        BY <1>1, <1>5, <2>2, <2>7, OtherEvents
      <4> QED BY <1>1, <3>2, <4>1
    <3> QED BY <3>1, <3>2
  <2> QED BY <2>3, <2>4, <2>5, <2>6, <2>10, <2>11 DEF FeedInv
<1>7. CASE ~alive /\ Retryable(w)
  <2>1. /\ Leaves(w) /\ log' = log /\ processed' = processed \ {Pair(w)}
        /\ tries' \in [Ids -> 0..MaxRetries] /\ dead' \subseteq Stored /\ copies' \in [Ids -> Nat]
        /\ \A i \in Ids : copies'[i] > 0 => copies[i] > 0 \/ i \in Stored
        /\ UNCHANGED <<members, alive, joined, feed>>
    BY <1>1, <1>7, RetryableEffect DEF Steps
  <2>2. Jobs(job') /\ Elsewhere(w) /\ ~Inside(w)'
    BY <2>1 DEF Leaves
  <2> USE <1>4, <2>1, EntitledKept
  <2>3. TypeOK'
    BY <2>2, WorkerTypes DEF TypeOK
  <2>4. Grounded'
    BY DEF Grounded, FeedInv, Stored
  <2>5. InsideAlone'
    BY <1>1, AloneLeaves DEF FeedInv
  <2>6. RowAdmits'
    BY <2>2, RowAdmitsKept DEF FeedInv, Projecting
  <2>7. ASSUME NEW i \in Stored
        PROVE  <<i, "publish">> # Pair(w) /\ <<i, "publish">> \in processed' \ broken' => PublishFine(i)'
    BY <1>1, <1>5, <2>2, <2>7, OtherEvents
  <2>8. PublishOnTrack'
    BY <1>1, <2>7 DEF PublishOnTrack
  <2>9. ProjectOnTrack'
    BY <1>7 DEF ProjectOnTrack
  <2> QED BY <2>3, <2>4, <2>5, <2>6, <2>8, <2>9 DEF FeedInv
<1>8. CASE /\ alive /\ e \notin DOMAIN feed
           /\ feed' = [i \in DOMAIN feed \cup {e} |-> IF i \in DOMAIN feed THEN feed[i] ELSE ActivityType(log[e])]
           /\ job' = [job EXCEPT ![w].step = "announce"]
           /\ UNCHANGED <<members, alive, joined, log, copies, tries, dead, processed>>
  <2> DEFINE t == [job[w] EXCEPT !.step = "announce"]
  <2>0. alive /\ e \notin DOMAIN feed /\ UNCHANGED <<members, alive, joined, log, copies, tries, dead, processed>>
    BY <1>8
  <2>1. job' = [job EXCEPT ![w] = t]
    BY <1>8 DEF TypeOK
  <2>2. t \in Job /\ t.event = e /\ t.at = job[w].at /\ t.step = "announce"
    BY <1>2 DEF Job, Steps
  <2> HIDE DEF t
  <2>3. Stays(w, "announce", t.todo)
    BY <1>1, <2>0, <2>1, <2>2, StepStays DEF Steps
  <2>4. /\ Jobs(job') /\ Elsewhere(w) /\ Inside(w)' /\ Pair(w)' = Pair(w) /\ Handler(w)' = "project"
        /\ job'[w].step = "announce" /\ job'[w].event = e /\ Projecting(w)'
    BY <1>1, <2>3 DEF Stays, Projecting
  <2>5. DOMAIN feed' = DOMAIN feed \cup {e} /\ DOMAIN feed' \subseteq Stored
    BY <1>2, <1>8 DEF TypeOK
  <2>6. feed' = [i \in DOMAIN feed' |-> ActivityType(log[i])]
    <3>1. \A i \in DOMAIN feed : feed[i] = ActivityType(log[i])
      BY DEF TypeOK
    <3> QED BY <1>8, <2>5, <3>1
  <2> USE <1>4, EntitledKept
  <2>7. TypeOK'
    BY <2>0, <2>4, <2>5, <2>6, WorkerTypes DEF TypeOK
  <2>8. Grounded'
    BY <2>0 DEF Grounded, FeedInv, Stored
  <2>9. InsideAlone'
    BY <1>1, <1>3, <2>0, <2>3, AloneStays DEF FeedInv
  <2>10. RowAdmits'
    <3>1. \A v \in Workers \ {w} : (Projecting(v)' <=> Projecting(v)) /\ job'[v] = job[v]
      BY <2>4 DEF Elsewhere, Projecting
    <3>2. \A v \in Workers : Projecting(v) => job[v].event # e
      BY <2>0 DEF RowAdmits, FeedInv
    <3>3. \A u \in Users : sent[<<u, e, "activity">>] = 0
      <4> SUFFICES ASSUME NEW u \in Users PROVE sent[<<u, e, "activity">>] = 0
        OBVIOUS
      <4> DEFINE x == <<u, e, "activity">>
      <4>1. x \in Users \X Ids \X Interests
        BY <1>2 DEF Interests
      <4>2. ~(sent[x] > 0)
        BY <1>2, <2>0 DEF RowAdmits, FeedInv
      <4> HIDE DEF x
      <4>3. sent[x] \in 0..2
        BY <4>1 DEF TypeOK
      <4>4. sent[x] = 0
        BY <4>2, <4>3
      <4> QED BY <4>4 DEF x
    <3>4. ASSUME NEW v \in Workers, Projecting(v)'
          PROVE  /\ alive' => job'[v].event \in DOMAIN feed'
                 /\ \A x \in Workers : Projecting(x)' /\ job'[x].event = job'[v].event => x = v
                 /\ \A u \in Users :
                      job'[v].step = "announce" \/ u \in job'[v].todo => sent'[<<u, job'[v].event, "activity">>] = 0
      <4>1. CASE v = w
        BY <2>4, <2>5, <3>1, <3>2, <3>3, <4>1
      <4>2. CASE v # w
        BY <2>0, <2>4, <2>5, <3>1, <3>2, <3>4, <4>2 DEF RowAdmits, FeedInv
      <4> QED BY <4>1, <4>2
    <3>5. \A u \in Users, i \in Ids :
            /\ sent'[<<u, i, "activity">>] > 0 => i \in DOMAIN feed' \/ ~alive'
            /\ sent'[<<u, i, "activity">>] < 2
      BY <2>0, <2>5 DEF RowAdmits, FeedInv
    <3> QED BY <3>4, <3>5 DEF RowAdmits
  <2>11. /\ processed \ {Pair(w)} \subseteq processed' /\ processed' \subseteq processed /\ broken \subseteq broken'
         /\ DOMAIN feed \subseteq DOMAIN feed'
         /\ \A j \in DOMAIN feed' : j \in DOMAIN feed \/ Pair(w) = <<j, "project">>
    BY <1>1, <2>0, <2>5
  <2>12. RowMarked(e)'
    BY <1>1, <1>3, <2>0, <2>4, RowMarkedOwn DEF FeedInv
  <2>13. ProjectFine(e)'
    BY <1>1, <2>4, <2>5 DEF ProjectFine
  <2>14. PublishOnTrack'
    <3> SUFFICES ASSUME NEW i \in Stored, <<i, "publish">> \in processed' \ broken' PROVE PublishFine(i)'
      BY <2>0 DEF PublishOnTrack
    <3>1. <<i, "publish">> # Pair(w) /\ <<i, "publish">> \in processed' \ broken' => PublishFine(i)'
      BY <1>1, <1>5, <2>0, <2>4, <2>5, <2>11, OtherEvents
    <3> QED BY <1>1, <3>1
  <2>15. ProjectOnTrack'
    <3> SUFFICES ASSUME NEW i \in Stored, alive, <<i, "project">> \notin broken'
                 PROVE  /\ <<i, "project">> \in processed' /\ ActivityType(log[i]) # "none" => ProjectFine(i)'
                        /\ RowMarked(i)'
      BY <2>0 DEF ProjectOnTrack
    <3>1. CASE i = e
      BY <1>1, <2>12, <2>13, <3>1
    <3>2. CASE i # e
      <4>1. <<i, "project">> # Pair(w) /\ alive /\ <<i, "project">> \notin broken' =>
              /\ <<i, "project">> \in processed' /\ ActivityType(log[i]) # "none" => ProjectFine(i)'
              /\ RowMarked(i)'
        BY <1>1, <1>5, <2>0, <2>4, <2>5, <2>11, OtherEvents
      <4> QED BY <1>1, <3>2, <4>1
    <3> QED BY <3>1, <3>2
  <2> QED BY <2>7, <2>8, <2>9, <2>10, <2>14, <2>15 DEF FeedInv
<1> QED BY <1>1, <1>6, <1>7, <1>8 DEF Insert

(* Every event is on track once the worker's own is. *)
LEMMA OnTrackKept ==
  ASSUME TypeOK, FeedInv, NEW w \in Workers, Inside(w), Elsewhere(w),
         Inside(w)' => Pair(w)' = Pair(w), UNCHANGED <<members, alive, joined, log>>, DOMAIN feed' = DOMAIN feed,
         \A x \in Users \X Ids \X Interests : sent'[x] >= sent[x], sent' \in [Users \X Ids \X Interests -> 0..2],
         processed \ {Pair(w)} \subseteq processed', processed' \subseteq processed, broken \subseteq broken',
         \A i \in Stored : Pair(w) = <<i, "publish">> /\ Pair(w) \in processed' \ broken' => PublishFine(i)',
         \A i \in Stored :
           Pair(w) = <<i, "project">> /\ alive /\ Pair(w) \notin broken' =>
             (ActivityType(log[i]) # "none" => ProjectFine(i)') /\ RowMarked(i)'
  PROVE  PublishOnTrack' /\ ProjectOnTrack'
<1>1. Stored' = Stored /\ alive' = alive /\ log' = log
  BY EntitledKept
<1>2. /\ DOMAIN feed \subseteq DOMAIN feed'
      /\ \A j \in DOMAIN feed' : j \in DOMAIN feed \/ Pair(w) = <<j, "project">>
  OBVIOUS
<1>3. PublishOnTrack'
  <2> SUFFICES ASSUME NEW i \in Stored, <<i, "publish">> \in processed' \ broken' PROVE PublishFine(i)'
    BY <1>1 DEF PublishOnTrack
  <2>1. <<i, "publish">> # Pair(w) /\ <<i, "publish">> \in processed' \ broken' => PublishFine(i)'
    BY <1>2, OtherEvents
  <2> QED BY <2>1
<1>4. ProjectOnTrack'
  <2> SUFFICES ASSUME NEW i \in Stored, alive, <<i, "project">> \notin broken'
               PROVE  /\ <<i, "project">> \in processed' /\ ActivityType(log[i]) # "none" => ProjectFine(i)'
                      /\ RowMarked(i)'
    BY <1>1 DEF ProjectOnTrack
  <2>1. <<i, "project">> # Pair(w) /\ alive /\ <<i, "project">> \notin broken' =>
          /\ <<i, "project">> \in processed' /\ ActivityType(log[i]) # "none" => ProjectFine(i)'
          /\ RowMarked(i)'
    BY <1>2, OtherEvents
  <2> QED BY <2>1
<1> QED BY <1>3, <1>4

(* The announcer makes its list: the members of now, none of them told yet. *)
LEMMA PublishCreatedStep ==
  ASSUME TypeOK, FeedInv, NEW w \in Workers, PublishCreated(w)
  PROVE  TypeOK' /\ FeedInv'
<1> PICK e : e = job[w].event
  OBVIOUS
<1>1. At(w, "announce") /\ Inside(w) /\ job[w].step = "announce"
  BY DEF PublishCreated, Inside, At
<1>2. Handler(w) = "project" /\ Pair(w) \in processed
  BY <1>1 DEF InsideAlone, FeedInv
<1>3. Pair(w) = <<e, "project">> /\ Projecting(w)
  BY <1>1, <1>2 DEF Pair, Projecting
<1>4. e \in Stored
  BY <1>1, Busy, Working DEF At, Steps
<1>5. UNCHANGED <<members, alive, joined, log, copies, tries, dead, processed, feed, sent, faults, broken>>
  BY DEF PublishCreated
<1>6. FindByID \in SUBSET Users
  BY DEF FindByID, TypeOK
<1>7. IF FindByID = {} THEN Leaves(w) ELSE Stays(w, "send", FindByID)
  BY <1>1, <1>5, <1>6, SendEffect DEF PublishCreated, Steps
<1>8. Jobs(job') /\ Elsewhere(w) /\ (Inside(w)' => Pair(w)' = Pair(w))
  BY <1>7 DEF Leaves, Stays
<1>9. sent' \in [Users \X Ids \X Interests -> 0..2] /\ \A x \in Users \X Ids \X Interests : sent'[x] >= sent[x]
  BY <1>5, SentKept
<1>10. TypeOK'
  BY <1>5, <1>8, WorkerTypes DEF TypeOK
<1>11. Grounded'
  BY <1>5 DEF Grounded, FeedInv, Stored
<1>12. InsideAlone'
  BY <1>1, <1>2, <1>5, <1>7, AloneLeaves, AloneStays DEF FeedInv
<1>13. RowAdmits'
  <2>1. \A u \in Users : sent[<<u, e, "activity">>] = 0
    BY <1>1, <1>3 DEF RowAdmits, FeedInv
  <2>2. Projecting(w)' => Projecting(w) /\ job'[w].event = job[w].event
    BY <1>3, <1>7 DEF Leaves, Stays, Projecting
  <2> QED BY <1>5, <1>8, <2>1, <2>2, RowAdmitsKept DEF FeedInv
<1>14. alive => e \in DOMAIN feed
  BY <1>3 DEF RowAdmits, FeedInv
<1>15. Stable(e) \subseteq FindByID /\ Stable(e)' = Stable(e)
  BY <1>4, <1>5, AudienceSuffices, EntitledKept
<1>16. ASSUME alive PROVE ProjectFine(e)' /\ RowMarked(e)'
  <2>1. RowMarked(e)'
    BY <1>1, <1>2, <1>3, <1>5, <1>7, RowMarkedOwn DEF FeedInv, Leaves, Stays
  <2>2. CASE FindByID = {}
    <3>1. Stable(e)' = {} /\ e \in DOMAIN feed'
      BY <1>5, <1>14, <1>15, <1>16, <2>2
    <3> QED BY <2>1, <3>1 DEF ProjectFine
  <2>3. CASE FindByID # {}
    <3>1. Inside(w)' /\ Pair(w)' = <<e, "project">> /\ job'[w].todo = FindByID
      BY <1>3, <1>7, <2>3 DEF Stays
    <3>2. Stable(e)' \ job'[w].todo = {} /\ e \in DOMAIN feed'
      BY <1>5, <1>14, <1>15, <1>16, <3>1
    <3> QED BY <2>1, <3>1, <3>2 DEF ProjectFine
  <2> QED BY <2>1, <2>2, <2>3
<1>17. PublishOnTrack' /\ ProjectOnTrack'
  <2>1. \A i \in Stored : Pair(w) = <<i, "publish">> /\ Pair(w) \in processed' \ broken' => PublishFine(i)'
    BY <1>3
  <2>2. \A i \in Stored :
          Pair(w) = <<i, "project">> /\ alive /\ Pair(w) \notin broken' =>
             (ActivityType(log[i]) # "none" => ProjectFine(i)') /\ RowMarked(i)'
    BY <1>3, <1>16
  <2>3. processed \ {Pair(w)} \subseteq processed' /\ processed' \subseteq processed /\ broken \subseteq broken'
    BY <1>5
  <2> QED BY <1>1, <1>5, <1>8, <1>9, <2>1, <2>2, <2>3, OnTrackKept
<1> QED BY <1>10, <1>11, <1>12, <1>13, <1>17 DEF FeedInv

(* A message that reaches a user: nobody loses one, and an activity reaches *)
(* nobody who had it.                                                       *)
LEMMA Delivered ==
  ASSUME TypeOK, FeedInv, NEW w \in Workers, At(w, "send"), NEW u \in job[w].todo,
         sent' = sent \/ sent' = Receive(w, u)
  PROVE  /\ Inside(w) /\ Pair(w) \in processed /\ u \in Users
         /\ sent' \in [Users \X Ids \X Interests -> 0..2]
         /\ \A x \in Users \X Ids \X Interests : sent'[x] >= sent[x]
         /\ \A v \in Users, i \in Ids :
              \/ sent'[<<v, i, "activity">>] = sent[<<v, i, "activity">>]
              \/ Projecting(w) /\ i = job[w].event /\ v = u /\ sent'[<<v, i, "activity">>] = 1
<1>1. Inside(w) /\ job[w].step = "send" /\ job[w] # Idle /\ Pair(w) \in processed
  BY DEF Inside, At, Idle, InsideAlone, FeedInv
<1>2. u \in Users /\ job[w].event \in Ids
  BY <1>1, Working DEF Job
<1>3. CASE sent' = sent
  BY <1>1, <1>2, <1>3, SentKept
<1>4. CASE sent' = Receive(w, u)
  <2>1. /\ sent' \in [Users \X Ids \X Interests -> 0..2]
        /\ \A x \in Users \X Ids \X Interests : sent'[x] >= sent[x]
        /\ \A x \in Users \X Ids \X Interests : x # Message(w, u) => sent'[x] = sent[x]
        /\ sent[Message(w, u)] = 0 => sent'[Message(w, u)] = 1
    BY <1>2, <1>4, ReceiveType DEF Steps
  <2>2. ASSUME NEW v \in Users, NEW i \in Ids
        PROVE  \/ sent'[<<v, i, "activity">>] = sent[<<v, i, "activity">>]
               \/ Projecting(w) /\ i = job[w].event /\ v = u /\ sent'[<<v, i, "activity">>] = 1
    <3>1. CASE <<v, i, "activity">> = Message(w, u)
      <4>1. Handler(w) = "project" /\ v = u /\ i = job[w].event
        BY <3>1 DEF Message, InterestForEntity
      <4>2. Projecting(w)
        BY <1>1, <4>1 DEF Projecting
      <4>3. sent[<<v, i, "activity">>] = 0
        BY <1>2, <4>1, <4>2 DEF RowAdmits, FeedInv
      <4> QED BY <2>1, <3>1, <4>1, <4>2, <4>3
    <3>2. CASE <<v, i, "activity">> # Message(w, u)
      <4>1. <<v, i, "activity">> \in Users \X Ids \X Interests
        BY DEF Interests
      <4> QED BY <2>1, <3>2, <4>1
    <3> QED BY <3>1, <3>2
  <2> QED BY <1>1, <1>2, <2>1, <2>2
<1> QED BY <1>3, <1>4

(* A handler is cut short: by an error, which gives the mark back, or by a  *)
(* crash, which does not.                                                   *)
LEMMA CutShort ==
  ASSUME TypeOK, FeedInv, NEW w \in Workers, Inside(w), Leaves(w), UNCHANGED <<members, alive, joined, log, feed>>,
         processed \ {Pair(w)} \subseteq processed', processed' \subseteq processed,
         broken \subseteq broken', broken' \subseteq broken \cup {Pair(w)},
         Pair(w) \in broken' \/ (Pair(w) \notin processed' /\ Handler(w) = "publish"),
         copies' \in [Ids -> Nat], \A i \in Ids : copies'[i] > 0 => copies[i] > 0 \/ i \in Stored,
         tries' \in [Ids -> 0..MaxRetries], dead' \subseteq Stored, faults' \in 0..MaxFaults,
         sent' \in [Users \X Ids \X Interests -> 0..2], \A x \in Users \X Ids \X Interests : sent'[x] >= sent[x],
         \A v \in Users, i \in Ids :
           \/ sent'[<<v, i, "activity">>] = sent[<<v, i, "activity">>]
           \/ Projecting(w) /\ i = job[w].event /\ sent'[<<v, i, "activity">>] = 1
  PROVE  TypeOK' /\ FeedInv'
<1>1. Jobs(job') /\ Elsewhere(w) /\ ~Inside(w)'
  BY DEF Leaves
<1>2. TypeOK'
  <2>1. Pair(w) \in Stored \X {"publish", "project"}
    BY Busy, Working DEF Inside, At, Steps
  <2> QED BY <1>1, <2>1, WorkerTypes DEF TypeOK
<1>3. Grounded'
  BY DEF Grounded, FeedInv, Stored
<1>4. InsideAlone'
  BY AloneLeaves DEF FeedInv
<1>5. RowAdmits'
  BY <1>1, RowAdmitsKept DEF FeedInv, Projecting
<1>6. PublishOnTrack' /\ ProjectOnTrack'
  <2>1. \A i \in Stored : Pair(w) = <<i, "publish">> /\ Pair(w) \in processed' \ broken' => PublishFine(i)'
    OBVIOUS
  <2>2. \A i \in Stored :
          Pair(w) = <<i, "project">> /\ alive /\ Pair(w) \notin broken' =>
             (ActivityType(log[i]) # "none" => ProjectFine(i)') /\ RowMarked(i)'
    BY DEF Pair
  <2> QED BY <1>1, <2>1, <2>2, OnTrackKept
<1> QED BY <1>2, <1>3, <1>4, <1>5, <1>6 DEF FeedInv

\* A publication fails, before or after it reached the user.
LEMMA PublishFailsStep ==
  ASSUME TypeOK, FeedInv, NEW w \in Workers, NEW u \in Users, PublishFails(w, u)
  PROVE  TypeOK' /\ FeedInv'
<1>1. At(w, "send") /\ u \in job[w].todo /\ (sent' = sent \/ sent' = Receive(w, u)) /\ Retryable(w)
  BY DEF PublishFails
<1>2. /\ Inside(w) /\ Pair(w) \in processed
      /\ sent' \in [Users \X Ids \X Interests -> 0..2]
      /\ \A x \in Users \X Ids \X Interests : sent'[x] >= sent[x]
      /\ \A v \in Users, i \in Ids :
           \/ sent'[<<v, i, "activity">>] = sent[<<v, i, "activity">>]
           \/ Projecting(w) /\ i = job[w].event /\ sent'[<<v, i, "activity">>] = 1
  BY SMTT(20), <1>1, Delivered
<1>3. /\ Leaves(w) /\ log' = log /\ processed' = processed \ {Pair(w)}
      /\ tries' \in [Ids -> 0..MaxRetries] /\ dead' \subseteq Stored /\ copies' \in [Ids -> Nat]
      /\ \A i \in Ids : copies'[i] > 0 => copies[i] > 0 \/ i \in Stored
      /\ UNCHANGED <<members, alive, joined, feed>>
  BY <1>1, RetryableEffect DEF Steps
<1>4. faults' \in 0..MaxFaults
  BY DEF PublishFails, Strike, TypeOK, FeedAssumption
<1>5. /\ broken \subseteq broken' /\ broken' \subseteq broken \cup {Pair(w)}
      /\ Pair(w) \in broken' \/ (Pair(w) \notin processed' /\ Handler(w) = "publish")
  <2>1. job[w] # Idle
    BY <1>1 DEF At, Idle
  <2>2. job[w].event \in Ids /\ Handler(w) \in {"publish", "project"}
    BY <1>1, <2>1, Working DEF Pair
  <2>3. broken' = broken \cup ({Pair(w)} \cap (Ids \X {"project"}))
    BY DEF PublishFails
  <2>4. CASE Handler(w) = "publish"
    BY <1>3, <2>3, <2>4
  <2>5. CASE Handler(w) = "project"
    BY <2>2, <2>3, <2>5 DEF Pair
  <2> QED BY <2>2, <2>4, <2>5
<1>6. processed \ {Pair(w)} \subseteq processed' /\ processed' \subseteq processed
  BY <1>3
<1> QED BY <1>2, <1>3, <1>4, <1>5, <1>6, CutShort

\* The worker dies inside a handler.
LEMMA CrashStep ==
  ASSUME TypeOK, FeedInv, NEW w \in Workers, Crash(w)
  PROVE  TypeOK' /\ FeedInv'
<1>1. Inside(w)
  BY DEF Crash, Inside
<1>2. job[w].event \in Stored /\ job[w].event \in Ids
  BY <1>1, Busy, Working DEF Inside, At, Steps
<1>3. UNCHANGED <<members, alive, joined, log, tries, dead, processed, feed, sent>> /\ broken' = broken \cup {Pair(w)}
  BY DEF Crash
<1>4. Leaves(w)
  BY <1>3, IdleLeaves DEF Crash
<1>5. copies' \in [Ids -> Nat] /\ \A i \in Ids : copies'[i] > 0 => copies[i] > 0 \/ i \in Stored
  BY <1>2 DEF Crash, TypeOK
<1>6. faults' \in 0..MaxFaults
  BY DEF Crash, Strike, TypeOK, FeedAssumption
<1>7. sent' \in [Users \X Ids \X Interests -> 0..2] /\ \A x \in Users \X Ids \X Interests : sent'[x] >= sent[x]
  BY <1>3, SentKept
<1>8. /\ processed \ {Pair(w)} \subseteq processed' /\ processed' \subseteq processed
      /\ broken \subseteq broken' /\ broken' \subseteq broken \cup {Pair(w)} /\ Pair(w) \in broken'
      /\ tries' \in [Ids -> 0..MaxRetries] /\ dead' \subseteq Stored
  BY <1>3 DEF TypeOK
<1> QED BY <1>1, <1>3, <1>4, <1>5, <1>6, <1>7, <1>8, CutShort

(* One message of the list is out; the others are still to be sent. *)
LEMMA ToMembersStep ==
  ASSUME TypeOK, FeedInv, NEW w \in Workers, NEW u \in Users, ToMembers(w, u)
  PROVE  TypeOK' /\ FeedInv'
<1> PICK e : e = job[w].event
  OBVIOUS
<1> PICK left : left = job[w].todo \ {u}
  OBVIOUS
<1>1. At(w, "send") /\ u \in job[w].todo /\ sent' = Receive(w, u) /\ job[w].step = "send" /\ job[w] # Idle
  BY DEF ToMembers, At, Idle
<1>2. job[w] \in Job /\ e \in Stored /\ e \in Ids /\ job[w].todo \subseteq Users /\ Event(w) = log[e]
  <2>1. job[w] \in Job /\ e \in Stored /\ e \in Ids
    BY <1>1, Working
  <2> QED BY <2>1 DEF Job, Event
<1>3. UNCHANGED <<members, alive, joined, log, copies, tries, dead, processed, feed, faults, broken>>
  BY DEF ToMembers
<1>4. /\ Inside(w) /\ Pair(w) \in processed
      /\ sent' \in [Users \X Ids \X Interests -> 0..2]
      /\ \A x \in Users \X Ids \X Interests : sent'[x] >= sent[x]
      /\ \A v \in Users, i \in Ids :
           \/ sent'[<<v, i, "activity">>] = sent[<<v, i, "activity">>]
           \/ Projecting(w) /\ i = job[w].event /\ v = u /\ sent'[<<v, i, "activity">>] = 1
  BY <1>1, Delivered
<1>5. IF left = {} THEN Leaves(w) ELSE Stays(w, "send", left)
  <2>1. CASE left = {}
    <3>1. Advance(w)
      BY <1>1, <2>1 DEF ToMembers
    <3> QED BY <1>1, <1>3, <2>1, <3>1, AdvanceLeaves DEF Steps
  <2>2. CASE left # {}
    <3> DEFINE t == [job[w] EXCEPT !.todo = @ \ {u}]
    <3>1. job' = [job EXCEPT ![w] = t]
      <4>1. job[w].todo # {u}
        BY <2>2
      <4> QED BY <4>1 DEF ToMembers, TypeOK
    <3>2. t \in Job /\ t.event = job[w].event /\ t.at = job[w].at /\ t.step = "send" /\ t.todo = left
      BY <1>1, <1>2 DEF Job
    <3> HIDE DEF t
    <3>3. Stays(w, "send", t.todo)
      BY <1>1, <1>3, <3>1, <3>2, StepStays DEF Steps
    <3> QED BY <2>2, <3>2, <3>3
  <2> QED BY <2>1, <2>2
<1>6. Jobs(job') /\ Elsewhere(w) /\ (Inside(w)' => Pair(w)' = Pair(w))
  BY <1>5 DEF Leaves, Stays
<1>7. TypeOK'
  BY <1>3, <1>4, <1>6, WorkerTypes DEF TypeOK
<1>8. Grounded'
  BY <1>3 DEF Grounded, FeedInv, Stored
<1>9. InsideAlone'
  BY <1>3, <1>4, <1>5, AloneLeaves, AloneStays DEF FeedInv
<1>10. RowAdmits'
  <2>1. Projecting(w)' => Projecting(w) /\ job'[w].event = job[w].event /\ job'[w].step = "send" /\ job'[w].todo = left
    BY <1>1, <1>4, <1>5 DEF Leaves, Stays, Projecting
  <2>2. Projecting(w) => \A v \in Users : v \in left => sent'[<<v, e, "activity">>] = 0
    BY <1>1, <1>2, <1>4 DEF RowAdmits, FeedInv
  <2> QED BY <1>3, <1>4, <1>6, <2>1, <2>2, RowAdmitsKept DEF FeedInv
<1>11. ASSUME NEW S, S \subseteq Users, NEW n \in Interests, Message(w, u) = <<u, e, n>>,
              \A v \in S \ job[w].todo : sent[<<v, e, n>>] > 0
       PROVE  \A v \in S \ left : sent'[<<v, e, n>>] > 0
  <2> SUFFICES ASSUME NEW v \in S \ left PROVE sent'[<<v, e, n>>] > 0
    OBVIOUS
  <2>1. CASE v = u
    <3>1. sent'[Message(w, u)] > 0
      BY <1>1, ReceiveType DEF Steps
    <3> QED BY <1>11, <2>1, <3>1
  <2>2. CASE v # u
    <3> PICK x : x = <<v, e, n>>
      OBVIOUS
    <3>1. x \in Users \X Ids \X Interests /\ sent[x] > 0
      BY <1>2, <1>11, <2>2
    <3>2. sent[x] \in 0..2 /\ sent'[x] \in 0..2 /\ sent'[x] >= sent[x]
      BY <1>4, <3>1 DEF TypeOK
    <3> QED BY <3>1, <3>2
  <2> QED BY <2>1, <2>2
<1>12. Stable(e)' = Stable(e) /\ Entitled(e)' = Entitled(e) /\ Stable(e) \subseteq Users /\ Entitled(e) \subseteq Users
  <2>1. Audience(Event(w)) \in SUBSET Users
    BY <1>1, AudienceType, Working
  <2>2. Entitled(e) \subseteq Audience(log[e])
    BY <1>2, AudienceSuffices
  <2>3. Stable(e) \subseteq Users
    BY DEF Stable, TypeOK
  <2> QED BY <1>2, <1>3, <2>1, <2>2, <2>3, EntitledKept
<1>13. \A v \in Workers : Inside(v) /\ Pair(v) = Pair(w) => v = w
  BY <1>4 DEF InsideAlone, FeedInv
<1>14. ASSUME Handler(w) = "publish", Pair(w) \notin broken
       PROVE  PublishFine(e)'
  <2> PICK n : n = InterestForEntity(log[e].type)
    OBVIOUS
  <2>1. Pair(w) = <<e, "publish">> /\ n \in Interests /\ Message(w, u) = <<u, e, n>>
    BY <1>2, <1>14 DEF Pair, Message, InterestForEntity, Interests
  <2>2. PublishFine(e)
    BY <1>2, <1>4, <1>14, <2>1 DEF PublishOnTrack, FeedInv
  <2>3. \A v \in Entitled(e) \ job[w].todo : sent[<<v, e, n>>] > 0
    BY <1>1, <1>13, <2>1, <2>2 DEF PublishFine
  <2>4. \A v \in Entitled(e) \ left : sent'[<<v, e, n>>] > 0
    BY <1>11, <1>12, <2>1, <2>3
  <2>5. n = InterestForEntity(log'[e].type)
    BY <1>3
  <2>6. CASE left = {}
    BY <1>12, <2>4, <2>5, <2>6 DEF PublishFine
  <2>7. CASE left # {}
    <3>1. Inside(w)' /\ Pair(w)' = <<e, "publish">> /\ job'[w].todo = left
      BY <1>5, <2>1, <2>7 DEF Stays
    <3> QED BY <1>12, <2>4, <2>5, <3>1 DEF PublishFine
  <2> QED BY <2>6, <2>7
<1>15. ASSUME Handler(w) = "project", Pair(w) \notin broken, alive
       PROVE  (ActivityType(log[e]) # "none" => ProjectFine(e)') /\ RowMarked(e)'
  <2>1. /\ Pair(w) = <<e, "project">> /\ "activity" \in Interests /\ Message(w, u) = <<u, e, "activity">>
        /\ Projecting(w)
    BY <1>1, <1>4, <1>15 DEF Pair, Message, Interests, Projecting
  <2>2. e \in DOMAIN feed
    BY <1>15, <2>1 DEF RowAdmits, FeedInv
  <2>3. RowMarked(e)'
    BY <1>3, <1>4, <1>5, <1>6, <2>1, RowMarkedOwn DEF FeedInv, Leaves, Stays
  <2>0. SUFFICES ASSUME ActivityType(log[e]) # "none" PROVE ProjectFine(e)'
    BY <2>3
  <2>4. \A v \in Stable(e) \ job[w].todo : sent[<<v, e, "activity">>] > 0
    <3>1. ProjectFine(e)
      BY <1>2, <1>4, <1>15, <2>1, <2>0 DEF ProjectOnTrack, FeedInv
    <3> QED BY <1>1, <1>13, <2>1, <3>1 DEF ProjectFine
  <2>5. \A v \in Stable(e) \ left : sent'[<<v, e, "activity">>] > 0
    BY <1>11, <1>12, <2>1, <2>4
  <2>6. CASE left = {}
    BY <1>3, <1>12, <2>2, <2>3, <2>5, <2>6 DEF ProjectFine
  <2>7. CASE left # {}
    <3>1. Inside(w)' /\ Pair(w)' = <<e, "project">> /\ job'[w].todo = left
      BY <1>5, <2>1, <2>7 DEF Stays
    <3> QED BY <1>3, <1>12, <2>2, <2>3, <2>5, <3>1 DEF ProjectFine
  <2> QED BY <2>6, <2>7
<1>16. PublishOnTrack' /\ ProjectOnTrack'
  <2>1. \A i \in Stored : Pair(w) = <<i, "publish">> /\ Pair(w) \in processed' \ broken' => PublishFine(i)'
    BY <1>3, <1>14 DEF Pair
  <2>2. \A i \in Stored :
          Pair(w) = <<i, "project">> /\ alive /\ Pair(w) \notin broken' =>
             (ActivityType(log[i]) # "none" => ProjectFine(i)') /\ RowMarked(i)'
    BY <1>3, <1>15 DEF Pair
  <2>3. processed \ {Pair(w)} \subseteq processed' /\ processed' \subseteq processed /\ broken \subseteq broken'
    BY <1>3
  <2> QED BY <1>3, <1>4, <1>6, <2>1, <2>2, <2>3, OnTrackKept
<1> QED BY <1>7, <1>8, <1>9, <1>10, <1>16 DEF FeedInv

\* The broker or the relay repeats an event.
LEMMA RepeatStep ==
  ASSUME TypeOK, FeedInv, NEW i \in Ids, Repeat(i)
  PROVE  TypeOK' /\ FeedInv'
<1>1. UNCHANGED <<members, alive, joined, log, tries, dead, processed, job, feed, sent, broken>> /\ i \in Stored
  BY DEF Repeat
<1>2. faults' \in 0..MaxFaults
  BY DEF Repeat, Strike, TypeOK, FeedAssumption
<1>3. copies' \in [Ids -> Nat] /\ \A j \in Ids : copies'[j] > 0 => j \in Stored
  BY <1>1 DEF Repeat, TypeOK, Grounded, FeedInv
<1>4. TypeOK'
  BY <1>1, <1>2, <1>3 DEF TypeOK, Stored, Event
<1>5. Grounded'
  BY <1>1, <1>3 DEF Grounded, FeedInv, Stored
<1> USE EntitledKept
<1>6. \A w \in Workers : (Inside(w)' <=> Inside(w)) /\ Pair(w)' = Pair(w) /\ Handler(w)' = Handler(w)
  BY <1>1 DEF Inside, At, Pair, Handler, Event
<1>7. InsideAlone' /\ RowAdmits'
  BY <1>1, <1>6 DEF InsideAlone, RowAdmits, FeedInv, Projecting
<1>8. PublishOnTrack'
  BY <1>1, <1>6 DEF PublishOnTrack, PublishFine, FeedInv
<1>9. ProjectOnTrack'
  BY <1>1, <1>6 DEF ProjectOnTrack, ProjectFine, RowMarked, FeedInv
<1> QED BY <1>4, <1>5, <1>7, <1>8, <1>9 DEF FeedInv

-----------------------------------------------------------------------------
(* What happens to the client adds an event and takes nobody's claim: those *)
(* who join now have no part in the earlier events.                         *)
LEMMA RecordStep ==
  ASSUME TypeOK, FeedInv, NEW u \in Users, NEW k, Record(k, u),
         members' \subseteq Users, alive' \in BOOLEAN, joined' \in [Users -> 0..MaxEvents],
         \A v \in members' : (v \in members /\ joined'[v] = joined[v]) \/ joined'[v] = Len(log) + 1,
         \A v \in Users : joined'[v] <= Len(log) + 1,
         (alive' = alive /\ feed' = feed) \/ (~alive' /\ feed' = <<>>)
  PROVE  TypeOK' /\ FeedInv'
<1>1. TypeOK'
  BY RecordTypes DEF FeedInv
<1>2. /\ Len(log') = Len(log) + 1
      /\ \A i \in Stored : i \in Stored' /\ log'[i] = log[i]
      /\ Len(log) + 1 \notin Stored
      /\ \A i \in Stored' : i \in Stored \/ i = Len(log) + 1
      /\ UNCHANGED <<processed, sent, broken>>
      /\ \A i \in Ids : copies'[i] > 0 => i \in Stored'
  BY RecordEffect DEF FeedInv
<1>3. /\ job' = job
      /\ \A w \in Workers : /\ Inside(w)' <=> Inside(w)
                            /\ Inside(w) => Pair(w)' = Pair(w) /\ Handler(w)' = Handler(w)
  BY RecordEffect DEF FeedInv
<1>4. Grounded'
  <2>1. \A v \in Users : joined'[v] <= Len(log')
    BY <1>2
  <2>2. ~alive' => DOMAIN feed' = {}
    BY DEF Grounded, FeedInv
  <2> QED BY <1>2, <2>1, <2>2 DEF Grounded
<1>5. InsideAlone'
  BY <1>2, <1>3 DEF InsideAlone, FeedInv
<1>6. RowAdmits'
  <2>1. \A w \in Workers : Projecting(w)' <=> Projecting(w)
    BY <1>3 DEF Projecting
  <2> QED BY <1>2, <1>3, <2>1 DEF RowAdmits, FeedInv
<1>7. ASSUME NEW i \in Stored
      PROVE  Stable(i)' \subseteq Stable(i) /\ Entitled(i)' \subseteq Entitled(i)
  <2>1. i \in 1..Len(log) /\ Len(log) \in Nat
    BY DEF Stored, TypeOK
  <2>2. Stable(i)' \subseteq Stable(i)
    <3> SUFFICES ASSUME NEW v \in Stable(i)' PROVE v \in Stable(i)
      OBVIOUS
    <3>1. v \in members' /\ alive' /\ joined'[v] < i
      BY DEF Stable
    <3>2. joined'[v] # Len(log) + 1
      BY <2>1, <3>1
    <3> QED BY <3>1, <3>2 DEF Stable
  <2>3. log'[i] = log[i]
    BY <1>2
  <2>4. Entitled(i)' = Entitled(i) \/ (Entitled(i)' = Stable(i)' /\ Entitled(i) = Stable(i))
    <3>1. log[i].type \in ToUserTypes => log[i].type \notin ToUsersTypes
      BY DEF ToUserTypes, ToUsersTypes, UserTypes
    <3>2. log[i].type \in ToUserTypes \cup ToUsersTypes => ~MediaSilent(log[i])
      BY DEF ToUserTypes, ToUsersTypes, UserTypes, MediaSilent
    <3>3. CASE MediaSilent(log[i])
      BY <2>3, <3>1, <3>2, <3>3, Zenon DEF Entitled
    <3>4. CASE log[i].type \in ToUserTypes
      BY <2>3, <3>1, <3>2, <3>4, Zenon DEF Entitled
    <3>5. CASE log[i].type \in ToUsersTypes
      BY <2>3, <3>1, <3>2, <3>5, Zenon DEF Entitled
    <3>6. CASE ~MediaSilent(log[i]) /\ log[i].type \notin ToUserTypes \cup ToUsersTypes
      BY <2>3, <3>6, Zenon DEF Entitled
    <3> QED BY <3>3, <3>4, <3>5, <3>6
  <2> QED BY <2>2, <2>4
<1>8. \A i \in Stored : InterestForEntity(log'[i].type) = InterestForEntity(log[i].type)
                        /\ ActivityType(log'[i]) = ActivityType(log[i])
  BY <1>2
<1>9. PublishOnTrack'
  <2> SUFFICES ASSUME NEW i \in Stored', <<i, "publish">> \in processed \ broken PROVE PublishFine(i)'
    BY <1>2 DEF PublishOnTrack
  <2>1. i \in Stored
    BY DEF TypeOK
  <2>2. PublishFine(i)
    BY <2>1 DEF PublishOnTrack, FeedInv
  <2>3. Entitled(i)' \subseteq Entitled(i)
    BY <1>7, <2>1
  <2> QED BY <1>2, <1>3, <1>8, <2>1, <2>2, <2>3 DEF PublishFine
<1>10. ProjectOnTrack'
  <2> SUFFICES ASSUME NEW i \in Stored', alive', <<i, "project">> \notin broken
               PROVE  /\ <<i, "project">> \in processed /\ ActivityType(log'[i]) # "none" => ProjectFine(i)'
                      /\ RowMarked(i)'
    BY <1>2 DEF ProjectOnTrack
  <2>1. alive /\ feed' = feed
    OBVIOUS
  <2>2. CASE i \in Stored
    <3>1. Stable(i)' \subseteq Stable(i)
      BY <1>7, <2>2
    <3>2. /\ <<i, "project">> \in processed /\ ActivityType(log[i]) # "none" => ProjectFine(i)
          /\ RowMarked(i)
      BY <2>1, <2>2 DEF ProjectOnTrack, FeedInv
    <3>3. RowMarked(i)'
      BY <1>2, <1>3, <2>1, <3>2 DEF RowMarked
    <3>4. ProjectFine(i) => ProjectFine(i)'
      BY <1>2, <1>3, <2>1, <3>1 DEF ProjectFine
    <3> QED BY <1>8, <2>2, <3>2, <3>3, <3>4
  <2>3. CASE i \notin Stored
    <3>1. i \notin DOMAIN feed /\ <<i, "project">> \notin processed
      BY <2>3 DEF TypeOK
    <3> QED BY <2>1, <3>1 DEF RowMarked
  <2> QED BY <2>2, <2>3
<1> QED BY <1>1, <1>4, <1>5, <1>6, <1>9, <1>10 DEF FeedInv

\* The commands of the client: members, its deletion, and what happens in it.
LEMMA ClientStep ==
  ASSUME TypeOK, FeedInv, NEW u \in Users,
         AddMember(u) \/ RemoveMember(u) \/ DeleteClient(u) \/ \E k \in Kinds : Happen(k, u)
  PROVE  TypeOK' /\ FeedInv'
<1>1. /\ members \subseteq Users /\ alive \in BOOLEAN /\ joined \in [Users -> 0..MaxEvents]
      /\ Len(log) \in Nat /\ Len(log) <= MaxEvents /\ MaxEvents \in Nat
      /\ \A v \in Users : joined[v] \in Nat /\ joined[v] <= Len(log) + 1
  BY DEF TypeOK, FeedInv, Grounded, FeedAssumption
<1>2. CASE AddMember(u)
  <2> DEFINE k == [type |-> "client.member_added", detail |-> ""]
  <2>1. Record(k, u) /\ Len(log) < MaxEvents /\ members' = members \cup {u} /\ alive' = alive /\ feed' = feed
    BY <1>2 DEF AddMember, Record
  <2>2. joined' = [joined EXCEPT ![u] = Len(log) + 1]
    BY <1>2 DEF AddMember
  <2>3. /\ joined' \in [Users -> 0..MaxEvents]
        /\ joined'[u] = Len(log) + 1 /\ \A v \in Users \ {u} : joined'[v] = joined[v]
    <3>1. Len(log) < MaxEvents
      BY <2>1
    <3>2. Len(log) + 1 \in 0..MaxEvents
      BY <1>1, <3>1
    <3> QED BY <1>1, <2>2, <3>2
  <2> HIDE DEF k
  <2>4. members' \subseteq Users /\ alive' \in BOOLEAN
    BY <1>1, <2>1
  <2>5. /\ \A v \in members' : (v \in members /\ joined'[v] = joined[v]) \/ joined'[v] = Len(log) + 1
        /\ \A v \in Users : joined'[v] <= Len(log) + 1
    BY <1>1, <2>1, <2>3
  <2> QED BY <2>1, <2>3, <2>4, <2>5, RecordStep
<1>3. CASE RemoveMember(u)
  <2> DEFINE k == [type |-> "client.member_removed", detail |-> ""]
  <2>1. Record(k, u) /\ members' = members \ {u} /\ alive' = alive /\ feed' = feed /\ joined' = joined
    BY <1>3 DEF RemoveMember
  <2> HIDE DEF k
  <2> QED BY <1>1, <2>1, RecordStep
<1>4. CASE DeleteClient(u)
  <2> DEFINE k == [type |-> "client.deleted", detail |-> ""]
  <2>1. Record(k, u) /\ members' = members /\ alive' = FALSE /\ feed' = <<>> /\ joined' = joined
    BY <1>4 DEF DeleteClient
  <2> HIDE DEF k
  <2> QED BY <1>1, <2>1, RecordStep
<1>5. CASE \E k \in Kinds : Happen(k, u)
  <2> PICK k \in Kinds : Happen(k, u)
    BY <1>5
  <2>1. Record(k, u) /\ members' = members /\ alive' = alive /\ feed' = feed /\ joined' = joined
    BY DEF Happen
  <2> QED BY <1>1, <2>1, RecordStep
<1> QED BY <1>2, <1>3, <1>4, <1>5

-----------------------------------------------------------------------------
\* The invariant holds in the initial states.
LEMMA InitInv ==
  ASSUME Init
  PROVE  TypeOK /\ FeedInv
<1>1. Stored = {} /\ DOMAIN feed = {} /\ Len(log) = 0
  BY DEF Init, Stored
<1>2. feed = [i \in DOMAIN feed |-> ActivityType(log[i])]
  <2>1. <<>> = [i \in {} |-> ActivityType(log[i])]
    OBVIOUS
  <2> QED BY <1>1, <2>1 DEF Init
<1>3. \A w \in Workers : job[w] = Idle /\ ~Inside(w)
  BY DEF Init, Inside, At, Idle
<1>4. TypeOK
  BY <1>1, <1>2, <1>3 DEF Init, TypeOK, FeedAssumption
<1>5. \A x \in Users \X Ids \X Interests : sent[x] = 0
  BY DEF Init
<1>6. RowAdmits
  <2>1. ASSUME NEW u \in Users, NEW i \in Ids PROVE sent[<<u, i, "activity">>] = 0
    BY <1>5 DEF Interests
  <2> QED BY <1>3, <2>1 DEF RowAdmits, Projecting
<1>7. Grounded
  BY <1>1 DEF Init, Grounded
<1>8. InsideAlone /\ PublishOnTrack /\ ProjectOnTrack
  BY <1>1, <1>3 DEF InsideAlone, PublishOnTrack, ProjectOnTrack
<1> QED BY <1>4, <1>6, <1>7, <1>8 DEF FeedInv

\* Every step keeps the invariant.
LEMMA NextInv ==
  ASSUME TypeOK, FeedInv, [Next]_vars
  PROVE  TypeOK' /\ FeedInv'
<1>1. CASE \E u \in Users : AddMember(u) \/ RemoveMember(u) \/ DeleteClient(u) \/ \E k \in Kinds : Happen(k, u)
  BY <1>1, ClientStep
<1>2. ASSUME NEW w \in Workers,
             \/ \E i \in Ids : Deliver(w, i)
             \/ Ack(w) \/ With(w) \/ Publish(w) \/ Insert(w) \/ PublishCreated(w)
             \/ \E u \in Users : ToMembers(w, u) \/ PublishFails(w, u)
             \/ Crash(w)
      PROVE  TypeOK' /\ FeedInv'
  BY <1>2, DeliverStep, AckStep, WithStep, PublishStep, InsertStep, PublishCreatedStep, ToMembersStep,
     PublishFailsStep, CrashStep
<1>3. CASE \E i \in Ids : Repeat(i)
  BY <1>3, RepeatStep
<1>4. CASE UNCHANGED vars
  <2>1. UNCHANGED <<members, alive, joined, log, copies, tries, dead, processed, job, feed, sent, faults, broken>>
    BY <1>4 DEF vars
  <2>2. TypeOK'
    BY <2>1 DEF TypeOK, Stored, Event
  <2> USE EntitledKept
  <2>3. \A w \in Workers : (Inside(w)' <=> Inside(w)) /\ Pair(w)' = Pair(w) /\ Handler(w)' = Handler(w)
    BY <2>1 DEF Inside, At, Pair, Handler, Event
  <2>4. Grounded' /\ InsideAlone' /\ RowAdmits'
    BY <2>1, <2>3 DEF Grounded, InsideAlone, RowAdmits, FeedInv, Projecting, Stored
  <2>5. PublishOnTrack'
    BY <2>1, <2>3 DEF PublishOnTrack, PublishFine, FeedInv
  <2>6. ProjectOnTrack'
    BY <2>1, <2>3 DEF ProjectOnTrack, ProjectFine, RowMarked, FeedInv
  <2> QED BY <2>2, <2>4, <2>5, <2>6 DEF FeedInv
<1> QED BY <1>1, <1>2, <1>3, <1>4 DEF Next

(* The mark of a handler nobody is in has nobody inside. *)
LEMMA OverOutside ==
  ASSUME TypeOK, NEW i, NEW h, Over(i, h), NEW w \in Workers, Inside(w)
  PROVE  Pair(w) # <<i, h>>
<1>1. job[w] # Idle /\ At(w, job[w].step) /\ job[w].step # "mark"
  BY DEF Inside, At, Idle
<1> QED BY <1>1 DEF Over

\* The invariant implies the properties of the feed.
LEMMA InvImplies ==
  ASSUME TypeOK, FeedInv
  PROVE  AnnouncedOnce /\ MembersTold /\ FeedComplete
<1>1. AnnouncedOnce
  BY DEF AnnouncedOnce, FeedInv, RowAdmits
<1>2. MembersTold
  <2> SUFFICES ASSUME NEW i \in Stored, Over(i, "publish"), <<i, "publish">> \notin broken
               PROVE  \A u \in Entitled(i) : sent[<<u, i, InterestForEntity(log[i].type)>>] > 0
    BY DEF MembersTold
  <2>1. PublishFine(i)
    BY DEF Over, PublishOnTrack, FeedInv
  <2> QED BY <2>1, OverOutside DEF PublishFine
<1>3. FeedComplete
  <2> SUFFICES ASSUME NEW i \in Stored, alive, Over(i, "project"), <<i, "project">> \notin broken,
                      ActivityType(log[i]) # "none"
               PROVE  /\ ListByClient(i, i) = {i} /\ i \in ListByClient(1, Len(log))
                      /\ \A u \in Stable(i) : sent[<<u, i, "activity">>] > 0
    BY DEF FeedComplete
  <2>1. ProjectFine(i)
    BY DEF Over, ProjectOnTrack, FeedInv
  <2>2. i \in DOMAIN feed /\ \A u \in Stable(i) : sent[<<u, i, "activity">>] > 0
    BY <2>1, OverOutside DEF ProjectFine
  <2>3. i \in Nat /\ 1 <= i /\ i <= Len(log) /\ Len(log) \in Nat /\ DOMAIN feed \subseteq 1..Len(log)
    BY DEF Stored, TypeOK
  <2>4. ListByClient(i, i) = {i}
    BY <2>2, <2>3 DEF ListByClient, FindPageByClientID
  <2>5. i \in ListByClient(1, Len(log))
    BY <2>2, <2>3 DEF ListByClient, FindPageByClientID
  <2> QED BY <2>2, <2>4, <2>5
<1> QED BY <1>1, <1>2, <1>3

-----------------------------------------------------------------------------
(* Every state of the worker's readers has its types: jobs of stored events, *)
(* retries within WorkerMaxRetries, and in the feed the row the projector    *)
(* makes of the event and no other.                                          *)
THEOREM FeedTypes == Spec => []TypeOK
<1>1. Init => TypeOK /\ FeedInv
  BY InitInv
<1>2. (TypeOK /\ FeedInv) /\ [Next]_vars => (TypeOK /\ FeedInv)'
  BY NextInv
<1> QED BY <1>1, <1>2, PTL DEF Spec

(* However often an event is delivered, whoever handles it and whatever      *)
(* fails, no member is told of an activity twice.                            *)
THEOREM AnnouncedAtMostOnce == Spec => []AnnouncedOnce
<1>1. Init => TypeOK /\ FeedInv
  BY InitInv
<1>2. (TypeOK /\ FeedInv) /\ [Next]_vars => (TypeOK /\ FeedInv)'
  BY NextInv
<1>3. TypeOK /\ FeedInv => AnnouncedOnce
  BY InvImplies
<1> QED BY <1>1, <1>2, <1>3, PTL DEF Spec

(* Everyone an event is for has its message once PublishEntityEvent has      *)
(* succeeded for it.                                                         *)
THEOREM MembersAreTold == Spec => []MembersTold
<1>1. Init => TypeOK /\ FeedInv
  BY InitInv
<1>2. (TypeOK /\ FeedInv) /\ [Next]_vars => (TypeOK /\ FeedInv)'
  BY NextInv
<1>3. TypeOK /\ FeedInv => MembersTold
  BY InvImplies
<1> QED BY <1>1, <1>2, <1>3, PTL DEF Spec

(* A projected event of a client that exists is listed by GET /activity, and *)
(* the client's members know.                                                *)
THEOREM FeedIsComplete == Spec => []FeedComplete
<1>1. Init => TypeOK /\ FeedInv
  BY InitInv
<1>2. (TypeOK /\ FeedInv) /\ [Next]_vars => (TypeOK /\ FeedInv)'
  BY NextInv
<1>3. TypeOK /\ FeedInv => FeedComplete
  BY InvImplies
<1> QED BY <1>1, <1>2, <1>3, PTL DEF Spec
=============================================================================
