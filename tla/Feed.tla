--------------------------------- MODULE Feed ---------------------------------
(***************************************************************************)
(* The worker's readers of domain events: the activity feed of a client    *)
(* and the realtime messages to its members.                               *)
(*                                                                         *)
(* Events reach the worker as EventDelivery describes: at least once, in   *)
(* any order, several workers at a time, each handler guarded by its row   *)
(* in processed_events.  Membership goes on changing between an event and  *)
(* its handlers, and a message to one member may fail when others have     *)
(* theirs.  Handlers that only log, and those of other modules, are left   *)
(* out of the dispatch.                                                    *)
(***************************************************************************)
EXTENDS Naturals, Sequences, FiniteSets

CONSTANTS
  Users,
  Workers,
  Kinds,       \* the events that happen: records of a type and a detail
  MaxRetries,  \* WorkerMaxRetries
  MaxEvents,   \* bound: events
  MaxFaults    \* bound: failed messages, crashes and repeated deliveries

UserTypes     == {"user.created", "user.updated", "user.deleted", "user.current_client_changed"}
ClientTypes   == {"client.created", "client.updated", "client.deleted",
                  "client.member_added", "client.member_removed"}
CampaignTypes == {"campaign.created", "campaign.updated", "campaign.deleted",
                  "campaign.background_updated"}
MediaTypes    == {"media.upload_requested", "media.uploaded", "media.status_changed",
                  "media.verdict_rendered", "media.deleted"}
ContentTypes  == {"content.verdict_rendered"}
ToUserTypes   == UserTypes \cup {"client.created", "client.member_added", "client.member_removed"}
ToUsersTypes  == {"client.updated", "client.deleted"}
Types   == UserTypes \cup ClientTypes \cup CampaignTypes \cup MediaTypes \cup ContentTypes
Details == {"", "default", "cascade", "processing", "failed", "human", "ai_generated", "uncertain"}

ASSUME FeedAssumption ==
  /\ Kinds \subseteq [type : Types, detail : Details]
  /\ MaxRetries \in Nat /\ MaxEvents \in Nat /\ MaxFaults \in Nat

VARIABLES
  members,    \* MemberIDs of the client
  alive,      \* the client has not been deleted
  joined,     \* history: events stored when a user last joined
  log,        \* the events, in the order of their timestamps
  copies,     \* copies of each event in the queue
  tries,      \* failed deliveries of each event
  dead,       \* events in the dead letter queue
  processed,  \* processed_events: <<event, handler>>
  job,        \* what each worker is doing
  feed,       \* activity_events: the type of the row of each projected event
  sent,       \* how often a message reached <<user, event, interest>>, up to 2
  faults,     \* faults so far
  broken      \* history: <<event, handler>> that a fault cut short for good

vars == <<members, alive, joined, log, copies, tries, dead, processed, job, feed, sent, faults, broken>>

Ids       == 1..MaxEvents
Stored    == 1..Len(log)
Interests == {"account", "media", "content", "activity"}
Idle      == [event |-> 0, at |-> 0, step |-> "idle", todo |-> {}]

-----------------------------------------------------------------------------
(* Which handlers an event has, and whom they are for *)

\* In the order of registration.
Handlers(type) ==
  IF type \in {"client.member_added", "campaign.created", "media.status_changed",
               "media.verdict_rendered"}
  THEN <<"publish", "project">>
  ELSE <<"publish">>

InterestForEntity(type) ==
  CASE type \in MediaTypes   -> "media"
    [] type \in ContentTypes -> "content"
    [] OTHER                 -> "account"

FindByID == IF alive THEN members ELSE {}

\* Of the status changes only processing is shown, and no cascading deletion.
MediaSilent(e) ==
  \/ e.type = "media.status_changed" /\ e.detail # "processing"
  \/ e.type = "media.deleted" /\ e.detail = "cascade"

UserAudience(e) == {e.user}
\* Mutant: the members of a client are looked up when the event is handled.
LookedUpAudience(e) == IF e.type \in ToUsersTypes THEN FindByID ELSE {e.user}
\* The event names those concerned: the members it had, or one user.
ClientAudience(e) == IF e.type \in ToUsersTypes THEN e.members ELSE {e.user}
\* For the others the client's members are looked up.
CampaignAudience(e) == FindByID
ContentAudience(e) == FindByID
MediaAudience(e) == IF MediaSilent(e) THEN {} ELSE FindByID

Audience(e) ==
  CASE e.type \in UserTypes     -> UserAudience(e)
    [] e.type \in ClientTypes   -> ClientAudience(e)
    [] e.type \in CampaignTypes -> CampaignAudience(e)
    [] e.type \in MediaTypes    -> MediaAudience(e)
    [] e.type \in ContentTypes  -> ContentAudience(e)

\* The row an event becomes, or none.
OnClientMemberAdded(e) == "client.member_added"
OnCampaignCreated(e) == IF e.detail = "default" THEN "none" ELSE "campaign.created"
OnMediaStatusChanged(e) == IF e.detail = "failed" THEN "media.failed" ELSE "none"
OnMediaVerdictRendered(e) ==
  CASE e.detail = "failed"       -> "media.failed"
    [] e.detail = "ai_generated" -> "media.ai_flagged"
    [] e.detail = "uncertain"    -> "media.manual_review"
    [] e.detail = "human"        -> "media.human_verified"
    [] OTHER                     -> "none"

ActivityType(e) ==
  CASE e.type = "client.member_added"    -> OnClientMemberAdded(e)
    [] e.type = "campaign.created"       -> OnCampaignCreated(e)
    [] e.type = "media.status_changed"   -> OnMediaStatusChanged(e)
    [] e.type = "media.verdict_rendered" -> OnMediaVerdictRendered(e)
    [] OTHER                             -> "none"

\* GET /activity: the rows that occurred in a window, both ends included.  A row
\* occurred when its event did.
FindPageByClientID(from, to) == {i \in DOMAIN feed : from <= i /\ i <= to}
ListByClient(from, to) == IF from <= to THEN FindPageByClientID(from, to) ELSE {}

\* What worker w is handling.
Event(w) == log[job[w].event]
Handler(w) == Handlers(Event(w).type)[job[w].at]
Pair(w) == <<job[w].event, Handler(w)>>
At(w, step) ==
  /\ job[w].step = step
  /\ Len(Handlers(Event(w).type)) >= job[w].at

-----------------------------------------------------------------------------
TypeOK ==
  /\ members \subseteq Users
  /\ alive \in BOOLEAN
  /\ joined \in [Users -> 0..MaxEvents]
  /\ log \in Seq([type : Types, detail : Details, user : Users, members : SUBSET Users])
  /\ Len(log) <= MaxEvents
  /\ copies \in [Ids -> Nat]
  /\ tries \in [Ids -> 0..MaxRetries]
  /\ dead \subseteq Stored
  /\ processed \subseteq Stored \X {"publish", "project"}
  /\ job \in [Workers -> {Idle} \cup [event : Stored, at : 1..3, todo : SUBSET Users,
                                      step : {"mark", "body", "announce", "send"}]]
  /\ \A w \in Workers : job[w] # Idle => job[w].at <= Len(Handlers(Event(w).type)) + 1
  /\ DOMAIN feed \subseteq Stored
  /\ feed = [i \in DOMAIN feed |-> ActivityType(log[i])]
  /\ sent \in [Users \X Ids \X Interests -> 0..2]
  /\ faults \in 0..MaxFaults
  /\ broken \subseteq Stored \X {"publish", "project"}

Init ==
  /\ members \in {S \in SUBSET Users : Cardinality(S) = 1}
  /\ alive = TRUE
  /\ joined = [u \in Users |-> 0]
  /\ log = <<>>
  /\ copies = [i \in Ids |-> 0]
  /\ tries = [i \in Ids |-> 0]
  /\ dead = {} /\ processed = {} /\ broken = {}
  /\ job = [w \in Workers |-> Idle]
  /\ feed = <<>>
  /\ sent = [x \in Users \X Ids \X Interests |-> 0]
  /\ faults = 0

-----------------------------------------------------------------------------
(* What happens to the client: Tenancy, Campaigns and MediaPipeline *)

\* The event is stored with the change, and relayed.
Record(k, u) ==
  /\ k \in Kinds
  /\ Len(log) < MaxEvents
  /\ log' = Append(log, [type |-> k.type, detail |-> k.detail, user |-> u, members |-> members])
  /\ copies' = [copies EXCEPT ![Len(log) + 1] = 1]
  /\ UNCHANGED <<tries, dead, processed, job, sent, faults, broken>>

AddMember(u) ==
  /\ alive /\ u \notin members
  /\ members' = members \cup {u}
  /\ joined' = [joined EXCEPT ![u] = Len(log) + 1]
  /\ Record([type |-> "client.member_added", detail |-> ""], u)
  /\ UNCHANGED <<alive, feed>>

RemoveMember(u) ==
  /\ alive /\ u \in members
  /\ members' = members \ {u}
  /\ Record([type |-> "client.member_removed", detail |-> ""], u)
  /\ UNCHANGED <<alive, joined, feed>>

\* The rows of the feed go with the client.
DeleteClient(u) ==
  /\ alive
  /\ alive' = FALSE
  /\ feed' = <<>>
  /\ Record([type |-> "client.deleted", detail |-> ""], u)
  /\ UNCHANGED <<members, joined>>

\* Any other event of the client, its campaigns, its media or a user.
Happen(k, u) ==
  /\ alive
  /\ k.type \notin {"client.member_added", "client.member_removed", "client.deleted"}
  /\ Record(k, u)
  /\ UNCHANGED <<members, alive, joined, feed>>

-----------------------------------------------------------------------------
(* The worker *)

Advance(w) == job' = [job EXCEPT ![w].at = @ + 1, ![w].step = "mark", ![w].todo = {}]

Deliver(w, i) ==
  /\ job[w] = Idle
  /\ copies[i] > 0
  /\ copies' = [copies EXCEPT ![i] = @ - 1]
  /\ job' = [job EXCEPT ![w] = [event |-> i, at |-> 1, step |-> "mark", todo |-> {}]]
  /\ UNCHANGED <<members, alive, joined, log, tries, dead, processed, feed, sent, faults, broken>>

Ack(w) ==
  /\ job[w].step = "mark"
  /\ job[w].at > Len(Handlers(Event(w).type))
  /\ job' = [job EXCEPT ![w] = Idle]
  /\ UNCHANGED <<members, alive, joined, log, copies, tries, dead, processed, feed, sent, faults, broken>>

\* dedup.With: a pair already marked is skipped.
With(w) ==
  /\ At(w, "mark")
  /\ IF Pair(w) \in processed
     THEN Advance(w) /\ UNCHANGED processed
     ELSE /\ processed' = processed \cup {Pair(w)}
          /\ job' = [job EXCEPT ![w].step = "body"]
  /\ UNCHANGED <<members, alive, joined, log, copies, tries, dead, feed, sent, faults, broken>>

\* Mutant: an event that keeps failing is never given up.
RetryableForEver(w) ==
  /\ processed' = processed \ {Pair(w)}
  /\ job' = [job EXCEPT ![w] = Idle]
  /\ tries' = [tries EXCEPT ![job[w].event] = @ + 1]
  /\ copies' = [copies EXCEPT ![job[w].event] = @ + 1]
  /\ UNCHANGED <<members, alive, joined, log, dead, feed>>
\* Retryable: the mark is released and the event comes again, up to a limit.
Retryable(w) ==
  LET i == job[w].event
  IN /\ processed' = processed \ {Pair(w)}
     /\ job' = [job EXCEPT ![w] = Idle]
     /\ IF tries[i] < MaxRetries
        THEN /\ tries' = [tries EXCEPT ![i] = @ + 1]
             /\ copies' = [copies EXCEPT ![i] = @ + 1]
             /\ UNCHANGED dead
        ELSE dead' = dead \cup {i} /\ UNCHANGED <<tries, copies>>
     /\ UNCHANGED <<members, alive, joined, log, feed>>

\* The messages go to these users one by one.
Send(w, audience) ==
  IF audience = {} THEN Advance(w) ELSE job' = [job EXCEPT ![w].step = "send", ![w].todo = audience]

Publish(w) ==
  /\ At(w, "body") /\ Handler(w) = "publish"
  /\ Send(w, Audience(Event(w)))
  /\ UNCHANGED <<members, alive, joined, log, copies, tries, dead, processed, feed, sent, faults, broken>>

\* Mutant: the row of an earlier attempt does not stop the announcement.
InsertOrAnnounce(w) ==
  /\ At(w, "body") /\ Handler(w) = "project"
  /\ IF ActivityType(Event(w)) = "none"
     THEN Advance(w) /\ UNCHANGED <<members, alive, joined, log, copies, tries, dead, processed, feed>>
     ELSE IF ~alive THEN Retryable(w)
     ELSE /\ feed' = [i \in DOMAIN feed \cup {job[w].event} |->
                        IF i \in DOMAIN feed THEN feed[i] ELSE ActivityType(Event(w))]
          /\ job' = [job EXCEPT ![w].step = "announce"]
          /\ UNCHANGED <<members, alive, joined, log, copies, tries, dead, processed>>
  /\ UNCHANGED <<sent, faults, broken>>

\* The row is inserted unless its id is there; without its client it cannot be.
Insert(w) ==
  /\ At(w, "body") /\ Handler(w) = "project"
  /\ IF ActivityType(Event(w)) = "none"
     THEN Advance(w) /\ UNCHANGED <<members, alive, joined, log, copies, tries, dead, processed, feed>>
     ELSE IF ~alive THEN Retryable(w)
     ELSE IF job[w].event \in DOMAIN feed
     THEN Advance(w) /\ UNCHANGED <<members, alive, joined, log, copies, tries, dead, processed, feed>>
     ELSE /\ feed' = [i \in DOMAIN feed \cup {job[w].event} |->
                        IF i \in DOMAIN feed THEN feed[i] ELSE ActivityType(Event(w))]
          /\ job' = [job EXCEPT ![w].step = "announce"]
          /\ UNCHANGED <<members, alive, joined, log, copies, tries, dead, processed>>
  /\ UNCHANGED <<sent, faults, broken>>

\* Mutant: the activity is announced to the user of the event only.
AnnounceToUser(w) ==
  /\ At(w, "announce")
  /\ Send(w, FindByID \cap {Event(w).user})
  /\ UNCHANGED <<members, alive, joined, log, copies, tries, dead, processed, feed, sent, faults, broken>>
PublishCreated(w) ==
  /\ At(w, "announce")
  /\ Send(w, FindByID)
  /\ UNCHANGED <<members, alive, joined, log, copies, tries, dead, processed, feed, sent, faults, broken>>

Message(w, u) ==
  <<u, job[w].event, IF Handler(w) = "project" THEN "activity" ELSE InterestForEntity(Event(w).type)>>
Receive(w, u) == [sent EXCEPT ![Message(w, u)] = IF @ < 2 THEN @ + 1 ELSE @]

ToMembers(w, u) ==
  /\ At(w, "send") /\ u \in job[w].todo
  /\ sent' = Receive(w, u)
  /\ IF job[w].todo = {u} THEN Advance(w) ELSE job' = [job EXCEPT ![w].todo = @ \ {u}]
  /\ UNCHANGED <<members, alive, joined, log, copies, tries, dead, processed, feed, faults, broken>>

Strike ==
  /\ faults < MaxFaults
  /\ faults' = faults + 1

\* A message fails, with or without having reached its user.  The retry starts
\* the publication over, but the projector finds its row and announces nothing.
PublishFails(w, u) ==
  /\ At(w, "send") /\ u \in job[w].todo
  /\ Strike
  /\ broken' = broken \cup ({Pair(w)} \cap (Ids \X {"project"}))
  /\ \/ UNCHANGED sent
     \/ sent' = Receive(w, u)
  /\ Retryable(w)

\* The process dies: the mark stays, the broker delivers the event again.
Crash(w) ==
  /\ \E step \in {"body", "announce", "send"} : At(w, step)
  /\ Strike
  /\ broken' = broken \cup {Pair(w)}
  /\ job' = [job EXCEPT ![w] = Idle]
  /\ copies' = [copies EXCEPT ![job[w].event] = @ + 1]
  /\ UNCHANGED <<members, alive, joined, log, tries, dead, processed, feed, sent>>

\* The relay publishes an event again that it could not mark as published.
Repeat(i) ==
  /\ i \in Stored
  /\ Strike
  /\ copies' = [copies EXCEPT ![i] = @ + 1]
  /\ UNCHANGED <<members, alive, joined, log, tries, dead, processed, job, feed, sent, broken>>

Next ==
  \/ \E u \in Users : AddMember(u) \/ RemoveMember(u) \/ DeleteClient(u) \/ \E k \in Kinds : Happen(k, u)
  \/ \E w \in Workers :
       \/ \E i \in Ids : Deliver(w, i)
       \/ Ack(w) \/ With(w) \/ Publish(w) \/ Insert(w) \/ PublishCreated(w)
       \/ \E u \in Users : ToMembers(w, u) \/ PublishFails(w, u)
       \/ Crash(w)
  \/ \E i \in Ids : Repeat(i)

Spec == Init /\ [][Next]_vars

-----------------------------------------------------------------------------
(* Properties *)

\* The handler has run for the event and no worker is in it.
Over(i, h) ==
  /\ <<i, h>> \in processed
  /\ \A w \in Workers : job[w] # Idle /\ At(w, job[w].step) => Pair(w) # <<i, h>> \/ job[w].step = "mark"

\* Members since before event i happened.
Stable(i) == {u \in members : alive /\ joined[u] < i}

\* Whom the realtime message of event i is for.
Entitled(i) ==
  LET e == log[i]
  IN CASE MediaSilent(e) -> {}
       [] e.type \in ToUserTypes -> {e.user}
       [] e.type \in ToUsersTypes -> e.members
       [] OTHER -> Stable(i)

\* A member's browser is told of a new activity at most once, however often
\* the event is delivered and whatever fails on the way.
AnnouncedOnce ==
  \A u \in Users, i \in Ids : sent[<<u, i, "activity">>] < 2

\* Once the realtime handler of an event has succeeded, everyone the event
\* names and everyone who has been a member since before it has the message:
\* members who came or left meanwhile, retries and repetitions take it from
\* nobody, and the deletion of a client reaches those who were its members.
MembersTold ==
  \A i \in Stored :
    Over(i, "publish") /\ <<i, "publish">> \notin broken =>
      \A u \in Entitled(i) : sent[<<u, i, InterestForEntity(log[i].type)>>] > 0

\* Once the projector has run for an event of a client that still exists, GET
\* /activity lists its row, and the client's members have been told.
FeedComplete ==
  \A i \in Stored :
    alive /\ Over(i, "project") /\ <<i, "project">> \notin broken =>
      /\ ActivityType(log[i]) # "none" => ListByClient(i, i) = {i} /\ i \in ListByClient(1, Len(log))
      /\ ActivityType(log[i]) # "none" => \A u \in Stable(i) : sent[<<u, i, "activity">>] > 0

-----------------------------------------------------------------------------
(* The inductive invariant behind the properties *)

Inside(w) == \E step \in {"body", "announce", "send"} : At(w, step)
Projecting(w) == Inside(w) /\ Handler(w) = "project" /\ job[w].step # "body"

\* Only stored events are delivered, and a client that is gone has no feed.
Grounded ==
  /\ \A i \in Ids : copies[i] > 0 => i \in Stored
  /\ ~alive => DOMAIN feed = {}
  /\ \A u \in Users : joined[u] <= Len(log)

\* A worker inside a handler has its mark, alone; only the projector announces.
InsideAlone ==
  \A w \in Workers :
    Inside(w) =>
      /\ Pair(w) \in processed
      /\ job[w].step = "announce" => Handler(w) = "project"
      /\ \A v \in Workers : Inside(v) /\ Pair(v) = Pair(w) => v = w

\* The row of an event is what admits its announcer, and the announcer tells
\* nobody twice.
RowAdmits ==
  /\ \A w \in Workers :
       Projecting(w) =>
         /\ alive => job[w].event \in DOMAIN feed
         /\ \A v \in Workers : Projecting(v) /\ job[v].event = job[w].event => v = w
         /\ \A u \in Users :
              job[w].step = "announce" \/ u \in job[w].todo => sent[<<u, job[w].event, "activity">>] = 0
  /\ \A u \in Users, i \in Ids :
       /\ sent[<<u, i, "activity">>] > 0 => i \in DOMAIN feed \/ ~alive
       /\ sent[<<u, i, "activity">>] < 2

\* The message of event i reached everyone, or its handler is being run: some
\* worker is at the body, or has everyone who is still to be told on its list.
PublishFine(i) ==
  \/ \A u \in Entitled(i) : sent[<<u, i, InterestForEntity(log[i].type)>>] > 0
  \/ \E w \in Workers :
       /\ Inside(w) /\ Pair(w) = <<i, "publish">>
       /\ job[w].step = "send" =>
            \A u \in Entitled(i) \ job[w].todo : sent[<<u, i, InterestForEntity(log[i].type)>>] > 0

PublishOnTrack == \A i \in Stored : <<i, "publish">> \in processed \ broken => PublishFine(i)

\* The same of the projector, which has its row from the announcement on.
ProjectFine(i) ==
  \/ i \in DOMAIN feed /\ \A u \in Stable(i) : sent[<<u, i, "activity">>] > 0
  \/ \E w \in Workers :
       /\ Inside(w) /\ Pair(w) = <<i, "project">>
       /\ job[w].step # "body" => i \in DOMAIN feed
       /\ job[w].step = "send" => \A u \in Stable(i) \ job[w].todo : sent[<<u, i, "activity">>] > 0

\* A row without a broken attempt was inserted by the attempt that has the mark.
RowMarked(i) ==
  i \in DOMAIN feed =>
    /\ <<i, "project">> \in processed
    /\ \A w \in Workers : Inside(w) /\ Pair(w) = <<i, "project">> => job[w].step # "body"

ProjectOnTrack ==
  \A i \in Stored :
    alive /\ <<i, "project">> \notin broken =>
      /\ <<i, "project">> \in processed /\ ActivityType(log[i]) # "none" => ProjectFine(i)
      /\ RowMarked(i)

FeedInv == Grounded /\ InsideAlone /\ RowAdmits /\ PublishOnTrack /\ ProjectOnTrack
=============================================================================
