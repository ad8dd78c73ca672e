# TLA+ specifications of notai-api

notai-api is a Go back end that takes images and videos, asks detectors whether
they were made by an AI, and bills workspaces for it. Several processes (`api`,
`worker`, `frameextraction`, `analysis`, `scheduler`) share one Postgres database,
a RabbitMQ broker and an object store. The specifications here cover the parts
whose correctness depends on how those processes interleave, fail and repeat
themselves.

## The system

| Part | State it keeps | Operations | Talks to |
|---|---|---|---|
| event delivery | `outbox_events`, `processed_events`, the broker's queues | StoreEvents, relay tick, publish, deliver, dedup mark, handler, ack / nack / dead letter | every command (outbox), every handler |
| media pipeline | `media`, `contents`, object storage | presign, storage webhook, frame extraction, analysis, finalization, failure | event delivery, quota, storage, detectors |
| analysis quota | sums over `media` and `contents`, a per-workspace advisory lock | AssertAnalyze, the upload, campaign and member checks, the usage query | media pipeline, campaigns, tenancy, billing |
| quota period | `subscriptions.quota_period_start` | CurrentQuotaPeriod | analysis quota, billing |
| stale media recovery | none of its own | scheduler tick: requeue, retry, finalize, fail | media pipeline |
| campaigns | `campaigns`, background uploads and thumbnails | create, update, delete, presign / process / clear background, purge | storage, quota, media pipeline |
| billing | `subscriptions`, `invoices` | checkout, plan change, seven Stripe webhooks | Stripe, quota |
| tenancy | `clients`, `users`, `workspaces`, members, current clients | sign up, Clerk webhooks, client changes, add / remove member, switch | Clerk, quota |
| activity feed | `activity_events` | projection of events, announcement, GET /activity | event delivery, realtime |
| realtime | none | a message per member and event | event delivery, Centrifugo |
| library and dashboard | none | media lists and pages, statistics, campaign counters | media pipeline |
| verdicts and detectors | `analysis_results` | select detectors, score, aggregate | Sightengine, heuristics |

Behaviour that is hard to test:

- delivery is at least once at every hop (two relays read the same outbox rows,
  the broker redelivers, Stripe and the storage repeat their webhooks), and the
  effects are to happen once;
- transactions run at READ COMMITTED, reads take no row lock, and `Update` saves
  the whole row, so a write may carry an old read;
- analysis slots are limited per workspace and are counted, not stored;
- a process may die between any two steps, and the scheduler repairs what it
  leaves behind, while slow handlers are still running;
- Stripe's and Clerk's webhooks arrive in any order, and race with the users' own
  requests;
- limits on members, campaigns and storage are checked in one step and used up in a
  later one;
- a campaign's image lives in a row and in storage, which no transaction spans;
- periods are counted in months of different length, and the figures shown to users
  come from queries written independently of each other.

`PROJECT.json` lists the components, and under `hazards` each of these at its line.

### What makes each part correct

- *Event delivery*: a handler takes effect at most once per event; a stored event
  is handled or dead lettered, never lost.
- *Media pipeline*: the worker that ends the last content finalizes the media, with
  the verdict of its contents; the outcome of a content is final; every media in
  processing reaches an end.
- *Analysis quota and its period*: never more analyses at once than the plan allows;
  periods follow each other without gap or overlap, and in none are there more
  verifications than the plan allows; files fit the plan's storage.
- *Billing*: once its webhooks are answered the row agrees with Stripe; a paid
  workspace keeps its quota period; the first invoice is stored; every webhook is
  accepted in the end.
- *Tenancy*: signup is one whole account whoever comes first, the webhook or the first
  request; users work in a client they are listed in; seats stay within the plan.
- *Campaigns*: a thumbnail that is offered exists and is the right one; an upload that
  arrived can be finished; storage holds nothing that no row or fault accounts for;
  creations stay within the plan.
- *Feed and realtime*: an activity is announced once, nobody entitled to a message goes
  without it, and the feed lists every projected event.
- *Library and dashboard*: each figure is the length of the list it stands for, the
  windows compared do not overlap, and pages show each media once.

## Modules

| Module | Models |
|---|---|
| `EventDelivery` | outbox, relays, broker, consumers, dedup table |
| `OnceDelivery` | what the dedup wrapper promises for one (event, handler) pair |
| `EventDeliveryProofs` | its theorems |
| `MediaPipeline` | media, contents, objects, the analysis lock, scheduler, deletion |
| `MediaPipelineProofs` | its types and the concurrency limit |
| `OutcomeProofs` | its outcomes, verdicts, verifications and finalization |
| `Billing` | one workspace's subscription row, its invoices, and Stripe |
| `BillingProofs` | its theorems |
| `Tenancy` | users, workspaces, clients, members and Clerk |
| `TenancyProofs` | its theorems |
| `Campaigns` | campaigns of a workspace and their background images in storage |
| `CampaignsProofs` | its theorems |
| `Feed` | projection of a client's events and the messages to its members |
| `FeedProofs` | its theorems |
| `Quota` | quota periods, usage, limits, media lists and dashboard over a calendar |
| `QuotaProofs` | its theorems |
| `MC*` | the constants and symmetry of the small instances |

A definition marked "Mutant" is a faulty form of the definition that follows it; no
specification uses it. The properties are shown to fail when it takes its place.

### EventDelivery

One queue. Events are numbered in `created_at` order; a publication is a *copy*, and
the broker holds up to `Copies` of them, each in the main queue, held by a worker, in
the retry queue, or gone. A worker carries a copy through the handlers in
registration order: `MarkProcessed` (or `SkipProcessed`), the handler's body
(`NextSucceeds`, `NextFails` with a retryable, deferred or final error),
`UnmarkProcessed`, then ack, nack or dead letter. `deaths` is `x-death[0].count`,
which the broker raises on every pass through the retry queue.

Faults are actions, each counted against `MaxFaults` and enabled by its kind: a
publish error, a publish the broker loses, a relay stop, a database error, a failing
release of the mark, a failing dead letter publish, a worker crash and a lost channel.
`MaxRetries` caps `deaths`, which loses nothing: the code compares it only with that
limit. The handlers' bodies are abstract here; `MediaPipeline` has them.

### MediaPipeline

The media of one campaign of one workspace. An image has one content, a video
`FramesPerVideo`. A handler is a *task* of a worker: a sequence of steps, one per
read, external call or commit, so that any other process may act in between. What
a task decided from a read is kept in it; a commit writes the row that decision
leads to, deleted flag included, whatever has been committed meanwhile. The
advisory lock is held from `AssertAnalyze` to the commit of the start.

Events are counters of undelivered events per media or content, capped at
`MaxEvents` (a further one adds nothing the handlers can tell apart). `EventDelivery`
justifies their treatment: an event is handled, given back, or gone. `stale` and
`old` say that a row is older than the scheduler's two cut-offs.

Left out: presign takes one file per request; the scheduler looks at one media at a
time and not at a batch of the 100 oldest; scores are labels, chosen freely from
`Labels`; a purge deletes a media's objects in one step; a webhook is repeated only
when `Jobs` contains `"duplicate"`.

### Billing

The workspace's row has its plan, status, customer, Stripe subscription (`link`) and
the start of its quota period (`anchor`, named after the subscription that set it).
Stripe is external: each change to a subscription or an invoice creates webhooks with
a snapshot, and Stripe sends them until they are answered with 200. An api process
handles one webhook at a time because of the handler's mutex; a handler reads the
row, and commits it in a later step. An owner's request (`CreateSubscription`,
`UpdateRead`, `UpdatePrice`, `UpdateSave`) takes no lock. Checkout re-reads the
subscription and its latest invoice from Stripe, the other webhooks use their
snapshot. `Webhook.no` numbers Stripe's changes so that two webhooks never coincide.

`Prompt` says that Stripe changes nothing while a webhook is unanswered. It is the
assumption under which the row can be expected to agree with Stripe, because the code
does not compare the times of snapshots.

Left out: dates and `cancelAtPeriodEnd`, amounts, the statuses `MapBillingStatus` maps
to inactive, and the domain events (stored in the same transactions; see
`EventDelivery`).

### Tenancy

The tables are one record, `db`; `Constraints` holds the migrations' unique and foreign
keys, and `ClientDelete` and `UserDelete` their cascades. A request is a slot: it reads
when it starts (`Provision`, `WebhookCreate`, `Create`, `Invite`, ...) and saves whole
rows in a later step, in which the constraints may refuse it (`Rollback`). Clerk is
external: a webhook once sent may come again at any time. `InvoiceStored` is what
`UpsertInvoiceHandler` (see `Billing`) does to these tables: the owner of
a workspace with an invoice can no longer be deleted.

`overtaken` is a history variable: the kinds of commit that changed a row an open
request had read. Properties that hold only without such a commit say so by it, and
each names the kinds that matter to it. Names, addresses and mails are left out.

### Campaigns

Rows are numbered as they are created. A row has its upload status, the key it waits
for, whether it has a thumbnail, and, for the properties, the file its name and type
describe. Storage is a set of uploads and a thumbnail per campaign. Every handler is
split at its storage calls and commits, each of which may fail or be the last one the
process makes (`Abandon`); deletion keeps its row locked and is one step.

Three history variables serve the properties. `overtaken` records writes on a campaign
another request is busy with. `undone` records campaigns whose row a rename saved although
it had changed since the rename read it. `left` has a part for each kind of remains:
`uploads` and `thumbnails` that nobody deletes any more (late uploads, failed deletions, and
what a request that died would still have deleted), and uploads that a webhook deleted
before it died without saving the row, `unsaved` when the thumbnail was stored and
`unmarked` when the upload was of no use.

`ThumbnailServed`, `PendingCanFinish` and `StorageAccounted` hold under two named
conditions. `NoneCutsIn`: no write of the image, its objects or the campaign lands while an
image request is open on it. `NothingUndone`: no rename saves a stale row. `Update` saves
every column (`campaign_repository.go:33`), so such a rename brings back a cleared
thumbnail, a replaced upload or a deleted campaign. Renames that overlap image requests and
save what they read unchanged, or die, are within the properties. So are crashes:
`PendingCanFinish` names the one that leaves a row waiting for a deleted upload. Names,
dates, sizes and formats of images are left out.

### Feed

One client and its members, who come and go. An event is stored with the members it
carries; each copy goes through its handlers, the realtime publisher and the projector,
as `EventDelivery` describes, but here with their bodies: the audience is looked up when
the handler runs, messages go out one by one, and one may fail when others are through.
`joined` and `broken` are history variables, for members since before an event and for
handlers a crash cut short for good. Left out: handlers that only log or that other
modules have, wording, actors and payloads, and mails.

### Quota

The media of one client over a calendar in days. The steps of a media are those of
`MediaPipeline`, each handler in one step but for three places where an interleaving
changes what the figures say:

- an upload is checked in one step and saved in another (`ProcessUpload`; then `UploadSave`,
  `UploadFails` when no thumbnail can be made, `UploadEnds` when its media is gone);
- a presign reads its campaign, without a lock, in one step and inserts its rows in
  another (`PresignMedia`, `PresignSave`);
- a handler reads a media row and saves the whole row later, `deleted_at` included.
  `DeleteCampaign(read)` picks the media that some handler has read before the deletion;
  `reading` keeps them until that handler has saved (`Handles`, `AsRead`).

`gone` is the deleted campaigns, a column of its own, so a live media in a deleted campaign
is a state of the model. The subscription has its plan, whether it is active, the day its
periods are counted from, and whether Stripe has a customer for it: a checkout of a free
workspace moves the day (`CheckoutCompleted`), other webhooks keep it
(`SubscriptionUpdated`). `AddMonth` overflows into the next month as Go's `AddDate` does.
The queries are operators (`CountQuotaUnits`, `ListByClient`, `Paginate`,
`CountStatsByClientID`, `DashboardKPIs`), and the properties compare them with each other.

The history variables name the cases in which a property does not hold:

- `overlapped`: two uploads between check and save get past the storage;
- `carried`: a media finalized in a later period than one of its verdicts takes that
  verdict along;
- `late`: a media saved after the deletion of its campaign, by a presign or handler that had
  read before it, is counted by the dashboard while its list is answered with 404.

The two limits also need an unchanged subscription. A fourth case is outside this module,
whose `RenderVerdict` finds the content in analyzing: a verdict written after the scheduler
failed its content and freed its verification (`analyze_content.go:197`). `MediaPipeline`
has that step, and the limit on verifications is checked there without the scheduler.
Left out: other sort orders than by `created_at`, in which rows can be equal.

## Runs

Deadlock is not checked: in each system all work may come to an end. Symmetry is
used for safety only.

| Run | Result | Question |
|---|---|---|
| `delivery_faults` | holds | at most once, and `OnceDelivery`, under every fault |
| `delivery_live` | holds | no event is lost, and every stored one is handled or dead lettered, without crashes |
| `delivery_crash` | fails | nothing lost when a worker dies inside a handler |
| `pipeline_flow` | holds | no lost finalization, verifications within the plan |
| `pipeline_frames` | holds | the verdict is that of the contents, outcomes are kept, the slot is taken once |
| `pipeline_live` | holds | no media stays in processing, with faults, deletion and stale writes |
| `billing_settled` | holds | the row agrees with Stripe when all is answered; quota period kept |
| `billing_live` | holds | first invoice stored, every webhook accepted in the end |
| `tenancy_accounts` | holds | whole accounts, current clients that are listed, seats within the plan |
| `campaigns_images` | holds | row and storage agree, nothing unaccounted for, unless requests cut in or a rename is stale; campaigns within the plan |
| `feed_delivered` | holds | announced once, members told, feed complete |
| `quota_months` | holds | periods tile, limits hold per period, dashboard, lists and pages agree, while a campaign is deleted under open handlers |

`delivery_crash` states what a comment and a rule of the repository say, and `findings`
quotes them: the mark commits before the handler runs, so a crash in between makes the
redelivery a no-op. (A failing `UnmarkProcessed` has the same effect: give
`delivery_live` the fault `"unmark_error"`.)

Some states are reachable in the models and outside what the properties say. `hazards`
lists each at its line:

- *Delivery*: deferred passes raise `x-death` too and use up retries; a message the
  broker loses after `Publish` returned is gone.
- *Pipeline*: a save from an old read writes `deleted_at` back to NULL; contents in
  analyzing under a media the scheduler does not list keep their slot; a late duplicate
  of the upload webhook saves its old read over a media that is further on; a failed
  media is overwritten by a finalization that read it earlier; with the scheduler, a
  verdict written after its content was failed charges a verification twice.
- *Billing*: a payment of an ended subscription links it to the free row again; an
  update that arrives after the deletion is refused for ever (`billing_live` has no
  cancellations).
- *Tenancy*: a switch that overlaps the removal of its user leaves a current client the
  user is not listed in; two invitations that overlap get past the seats.
- *Campaigns*: two image requests that overlap part row and storage; a rename saved from a
  stale read restores a cleared thumbnail, a replaced upload or a deleted campaign; two
  creations that overlap get past the plan.
- *Feed*: a crash after the mark loses the message or the row, as in `delivery_crash`.
- *Quota*: overlapping uploads get past the storage, a media finalized a period later
  takes its verdicts along, and a media saved late is live in a deleted campaign.

### Bounds

- *Delivery*: two copies of one event and two workers are what a duplicate needs; two
  relays publish one row twice without any fault; two handlers let a retry meet a
  handler that is done and one that is not; the fault, of any kind, strikes at any
  step. `delivery_live` has one relay and a batch of two, which can break in the middle.
- *Pipeline*: a video of two frames and two workers give the race for the last
  content and, with one slot, the race for the slot; `MaxVerifications` two with three
  contents puts the quota in reach. One fault strikes at any step. `pipeline_live` has one worker:
  the scheduler and the deletion race with it.
- *Billing*: two subscriptions (an old one and a second checkout), two plans, up to
  five changes at Stripe and three invoices: checkout, a renewal or decline, a plan
  change, a cancellation, a second checkout, with one error. `billing_live` has one subscription
  and three changes that are not `Prompt`, with one error, loss or repetition; no renewal is
  declined in it, since the checkout stores the latest invoice, paid or not. One api process.
- *Tenancy*: three accounts (an owner, a member, a third to invite at the limit of two
  seats), two requests in flight and two in all beyond the signups, one change at Clerk:
  each pair of operations can overlap.
- *Campaigns*: one client, its default campaign and two further rows for a plan of one,
  two upload keys (an old and a new image), five requests, two at a time.
- *Feed*: two events of seven kinds, one for each way to find the audience and each fate
  in the feed; two workers, two faults and one retry: a failure, the retry and a
  repetition can meet.
- *Quota*: January to April, with activity on 31 January and 3 March and a period counted
  from the 31st, so that the month overflow happens and the days are in different
  periods; an image alone or with a video of up to two frames, a free and a paid plan
  whose limits one or two of them reach, one change of the subscription. The dashboard is
  asked for (`AskedWindows`) the current month, 1 February, all of February, and February
  until today: both days of activity lie in some window or in the one it is compared with,
  on its edges too. One presign is open at a time, which loses nothing since requests only
  insert rows; one handler is left per deleted media, enough to save it late.

### Fairness

- *Delivery*: relays tick and consumers run (weak fairness). The broker delivers a
  waiting copy again and again (strong fairness, since a busy worker disables it). A
  handler does not defer forever (strong fairness of `NextNotDeferred`): deferral is
  back pressure of the analysis quota, which ends when slots are freed.
- *Pipeline*: only the scheduler is fair: it ticks, time passes, and a media that is
  stale again and again is picked. No worker is assumed to go on, so the result holds
  when the events of a media are all lost.
- *Billing*: handlers go on (each has a 30 s timeout), and Stripe repeats what is not
  answered with 200 (strong fairness per kind of webhook).

The other modules are checked for safety only and assume no fairness.

## Proofs

A theorem holds for every value of the constants that satisfies the module's named
assumption (`ConstantsAssumption`, `PipelineAssumption`, `BillingAssumption`,
`TenancyAssumption`, `CampaignsAssumption`, `FeedAssumption`, `QuotaAssumption`); what else
one needs is in its `ASSUME`. Each rests on an inductive invariant. Where the properties
need more than their own words to be inductive, the model has it in a section at its end,
and TLC checked it on the runs' instances before it was proved.

`EventDeliveryProofs`: `Invariance` shows that `TypeOK /\ OnceInv` is inductive.
`AtMostOnce` alone is not: a worker past the mark could be joined by another. `OnceInv`
adds that the pair of a worker inside a handler is marked and not done
(`InsideMarked`), that no other worker is inside the same pair (`InsideAlone`), that
what is done is marked (`DoneMarked`), and that workers hold copies of known events.
`DeliveryTypes` and `EffectAtMostOnce` follow, and `DeliveryImplementsOnce`: under the
mapping of `Once == INSTANCE OnceDelivery WITH ...`, `phase` being computed from marks,
workers and effects, each step moves the phase of at most one pair along `OnceDelivery`.
The mark is enough because its row has a primary key and only the worker inside releases it.

`PublishedIsNotLost` proves `NothingLost` for the faults in `Survivable`: failing publishes,
failing transactions, and a relay that stops. The others lose events in the code as it is
(`delivery_crash` and the hazards show how), so the hypothesis cannot be weakened by a
fault. `CoverInv` says for each handler of a published event that it is done, or that a
copy is on its way to it: waiting at the broker, or held by a worker that has the handler
before it or is about to hand the copy back. The hard case is a duplicate that skips a
handler because of its mark. `MarkedForReason` covers it: a mark without an effect belongs
to a worker that has not finished, and that worker holds a copy of its own.

`MediaPipelineProofs`: `PipelineTypes`, and `ConcurrencyRespected`. The bound is not
inductive by itself, as a worker commits its start in a later step than its count.
`SlotReserved` closes the gap: a worker about to commit holds the lock, and a slot
is free. Every step that adds a content to analyzing is such a commit, and no other
worker is between count and commit; every other step leaves the set alone or shrinks it.

`OutcomeProofs`: `OutcomesAreFinal`, `VerdictsMatchContents` and `VerificationsStayBounded`,
with duplicates, deletion and faults, but without the scheduler; and `LastFinalizes`, without
duplicates and faults too. The hypotheses are those of the properties: the scheduler's saves
from an old read undo outcomes and charge verifications twice, a repeated upload webhook
brings an analyzed media back to processing, and a finalizer can die.
Workers write a content without looking at it again, so the first three need
`OneAttempt`: a content has one event in all, undelivered or in the hands of one worker,
because its creation fails when it exists and a retry ends the attempt first. What an
attempt has read then holds when it writes (`Timely`), a counted verification is still
there at the commit (`VerificationReserved`, with `SlotReserved`), and a verdict computed
before its save is the verdict of contents that no longer change (`Concluded`).
`LastFinalizes` adds that a media has no contents and one worker until its upload is
processed (`OneUpload`), so nothing brings a media back to processing, and that a
content fails on its own only under a media that has ended (`PartFailsLast`).

`FeedProofs`: `AnnouncedAtMostOnce`, `MembersAreTold` and `FeedIsComplete`. The row
of `activity_events` admits one announcer, whose list of members to tell shrinks as it
tells them (`RowAdmits`). For each marked event, everyone entitled has the message or some
worker is at the handler and still has them on its list (`PublishOnTrack`,
`ProjectOnTrack`); `broken` takes out the handlers a crash cut short. Nobody joins later than
the log reaches (`Grounded`), so a member who joins is not owed what is already stored.

`TenancyProofs`: `AccountsStayComplete`, `CurrentStaysListed`, `SeatsStayBounded`.
Beside the database constraints, `TenancyInv` says what an open save relies on: its row
is still there (`Anchored`), it has the member list that is stored, and a seat if it counted
one (`Seated`), and the current client it would write is listed (`Placed`). Each of these
excludes the kinds of commit that would break it, through `overtaken`, as the property does.

`CampaignsProofs`: `CampaignsStayBounded`, `ThumbnailsAreServed`, `PendingUploadsFinish`,
`StorageIsAccounted`. An open creation has a place in the plan (`Room`) because one that
commits while another is open counts as overtaking it. The rest of `CampaignsInv` follows a
request through its storage calls: the row is the one it read or made (`Fresh`), no two
campaigns wait for one key (`KeysApart`), and each object is accounted for by a row, a
request at the right step, or a deletion to come (`UploadsHeld`, `ThumbnailsHeld`). These
parts assume `Undisturbed`, the two conditions of the properties. `NothingUndone` is what
lets a rename keep them: what it saves is the row that is there. `Awaited` follows an upload
that is waited for into the request that has deleted it and, if that one dies, into `left`.

`BillingProofs`: `FirstInvoiceIsStored`, for any number of api processes and all faults,
if no payment is declined (`checkout_completed.go` stores the latest invoice, paid or not).
`RowFollowsStripe` and `QuotaPeriodIsKept` assume `Prompt`, one api process, and handlers
that fail but are not cut off. `Prompt` is needed since the code does not compare the
times of snapshots. `BillingInv` then says that open webhooks are of one change at Stripe
and speak of the state as it is (`OneChange`), and that the row agrees with Stripe once
none is left but payments, which only confirm it (`RowFollows`). The deletion is the one
webhook that finds its row only through the link, so the row keeps the link until it has
come.

`QuotaProofs`: all of `Quota`, for every calendar of months of 28 to 31 days. Its sums over
rows (`Total`) and its renewals month after month (`Renewals`) are recursive, so what they
come to is proved by least counterexample: a family of subsets of a finite set has a
smallest member (`LeastSet`, from well-founded strict inclusion), hence what every set has
when its smaller subsets have it, all have (`Growing`, and `Upwards` for numbers). From this
follow `TotalRemove`, `TotalChange` and `TotalCount`, that months and renewals rise, and that
every day is in one month and one period (`MonthFound`, `PeriodFound`, `PeriodsFollow`).
`QuotaInv` adds to the limits that dates lie between the start of the subscription and today
(`Dated`; a checkout starts no period after today), that analyzed media and only they have a
verdict and its day (`Progress`), that a deleted campaign has no live media unless one was
saved `late` (`Together`), and that an upload that was checked still fits (`Reserved`). Two steps are hard for the limit on verifications. When days pass,
what the new period counts the old one counted too, because an earlier period is the same
or over (`DaysKeep`); and a media that is finalized moves its contents' verdicts to today,
which is in their own period unless `carried` (`GlobalVerdictKeeps`).

Only model-checked: liveness, since fairness is out of the prover's reach.

## Not modelled

- Detectors, their scores and the label made from them, and the image heuristics:
  floating point. `MediaPipeline` and `Quota` choose a content's label freely and model
  the verdict of a media.
- The connection pool: reads inside a transaction are steps, but connections are not
  counted.
- Tokens and signatures of webhooks (cryptography), mails, presenters and DTOs that copy
  rows, configuration and wiring.
- Calls into ffmpeg, Sightengine, S3, Stripe, Clerk and Centrifugo beyond their outcome.

## Plan

Done: `EventDelivery`, `OnceDelivery`, `MediaPipeline`, `Billing`, `Tenancy`, `Campaigns`,
`Feed` (activity and realtime) and `Quota` (period, usage, library), each with proofs. Left,
in this order:

1. Proofs: `FinalizedByLast` with the events that a fault gives back.
2. Two api replicas in `Billing`.
3. `Verdict`: selection of detectors and aggregation over labels, with scores as
   integers.
4. `Connections`: transactions that read through a second connection of the pool.
