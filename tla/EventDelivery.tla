--------------------------- MODULE EventDelivery ---------------------------
(***************************************************************************)
(* One event queue of the system, end to end: the transactional outbox,    *)
(* the relays that publish it, the RabbitMQ queue with its retry and dead  *)
(* letter queues, the consumers, and the handlers behind the dedup table.  *)
(*                                                                         *)
(*   outbox/repository.go, outbox/relay.go      StoreEvents .. RelayStops  *)
(*   rabbitmq/topology.go, rabbitmq/consumer.go Deliver .. Expire          *)
(*   registry/handler_registry.go, dedup/with_dedup.go, processed/         *)
(*                                              MarkProcessed .. Unmark    *)
(*                                                                         *)
(* Events are numbered in created_at order.  A publication is a copy: the  *)
(* broker may hold several copies of one event.                            *)
(***************************************************************************)
EXTENDS Naturals, FiniteSets

CONSTANTS
  NumEvents,    \* events 1..NumEvents, in created_at order
  NumHandlers,  \* handlers 1..NumHandlers, in registration order
  Malformed,    \* events whose envelope or payload does not decode
  BatchSize,    \* rows a relay fetches per tick
  MaxRetries,   \* the consumer's retry budget
  Relays,       \* relay loops, one per worker process
  Workers,      \* goroutines that handle deliveries, in any process
  Copies,       \* bound: the publications the broker can accept
  NoWorker,     \* no worker holds the copy
  NoCopy,       \* the worker handles no copy
  Faults,       \* the kinds of fault that may strike
  MaxFaults     \* bound: how many strike

Events   == 1..NumEvents
Handlers == 1..NumHandlers
Pairs    == Events \X Handlers

FaultKinds == {"publish_error", "publish_lost", "relay_stop", "db_error",
               "unmark_error", "dlq_error", "worker_crash", "delivery_lost"}

ASSUME ConstantsAssumption ==
  /\ NumEvents \in Nat
  /\ NumHandlers \in Nat
  /\ Malformed \subseteq Events
  /\ BatchSize \in Nat \ {0}
  /\ MaxRetries \in Nat \ {0}
  /\ MaxFaults \in Nat
  /\ Faults \subseteq FaultKinds
  /\ NoWorker \notin Workers
  /\ NoCopy \notin Copies

VARIABLES
  outbox,     \* outbox_events row of each event
  rpc,        \* relay: where publishBatch is
  batch,      \* relay: fetched rows not yet published, oldest first
  sent,       \* relay: publishedIDs
  loc,        \* broker: where each copy is
  ev,         \* broker: the event a copy carries
  deaths,     \* broker: x-death[0].count, capped at MaxRetries
  holder,     \* broker: the worker an unacknowledged copy was delivered to
  dlq,        \* broker: events with a copy in the dead letter queue
  processed,  \* processed_events rows
  pc,         \* worker: where handleDelivery is
  job,        \* worker: the copy being handled
  at,         \* worker: the handler Dispatch has reached
  err,        \* worker: what Dispatch returned
  done,       \* history: completed runs of each handler body
  faults      \* faults so far

relayVars  == <<outbox, rpc, batch, sent>>
brokerVars == <<loc, ev, deaths, holder, dlq>>
workerVars == <<processed, pc, job, at, err, done>>
vars == <<relayVars, brokerVars, workerVars, faults>>

Errors == {"nil", "retryable", "deferred", "nonretryable"}

TypeOK ==
  /\ outbox \in [Events -> {"absent", "unpublished", "published"}]
  /\ rpc \in [Relays -> {"idle", "publish", "mark"}]
  /\ batch \in [Relays -> SUBSET Events]
  /\ sent \in [Relays -> SUBSET Events]
  /\ loc \in [Copies -> {"free", "main", "held", "retry", "acked"}]
  /\ ev \in [Copies -> Events \cup {0}]
  /\ deaths \in [Copies -> 0..MaxRetries]
  /\ holder \in [Copies -> Workers \cup {NoWorker}]
  /\ dlq \subseteq Events
  /\ processed \subseteq Pairs
  /\ pc \in [Workers -> {"idle", "mark", "next", "unmark", "settle", "ack"}]
  /\ job \in [Workers -> Copies \cup {NoCopy}]
  /\ at \in [Workers -> 1..(NumHandlers + 1)]
  /\ err \in [Workers -> Errors]
  /\ done \in [Pairs -> Nat]
  /\ faults \in 0..MaxFaults

Init ==
  /\ outbox = [e \in Events |-> "absent"]
  /\ rpc = [r \in Relays |-> "idle"]
  /\ batch = [r \in Relays |-> {}]
  /\ sent = [r \in Relays |-> {}]
  /\ loc = [c \in Copies |-> "free"]
  /\ ev = [c \in Copies |-> 0]
  /\ deaths = [c \in Copies |-> 0]
  /\ holder = [c \in Copies |-> NoWorker]
  /\ dlq = {}
  /\ processed = {}
  /\ pc = [w \in Workers |-> "idle"]
  /\ job = [w \in Workers |-> NoCopy]
  /\ at = [w \in Workers |-> 1]
  /\ err = [w \in Workers |-> "nil"]
  /\ done = [x \in Pairs |-> 0]
  /\ faults = 0

\* A fault of this kind strikes now, within the bound.
Strike(kind) ==
  /\ kind \in Faults
  /\ faults < MaxFaults
  /\ faults' = faults + 1

Capped(n) == IF n < MaxRetries THEN n + 1 ELSE n

-----------------------------------------------------------------------------
(* Outbox and relay *)

\* A command's transaction commits, and with it the events it recorded.
StoreEvents(S) ==
  /\ S # {}
  /\ \A e \in S : outbox[e] = "absent"
  /\ outbox' = [e \in Events |-> IF e \in S THEN "unpublished" ELSE outbox[e]]
  /\ UNCHANGED <<rpc, batch, sent, brokerVars, workerVars, faults>>

Unpublished == {e \in Events : outbox[e] = "unpublished"}

\* The oldest BatchSize rows with published_at IS NULL; no row lock.
OldestUnpublished ==
  {e \in Unpublished : Cardinality({f \in Unpublished : f < e}) < BatchSize}

FetchUnpublished(r) ==
  /\ rpc[r] = "idle"
  /\ OldestUnpublished # {}
  /\ batch' = [batch EXCEPT ![r] = OldestUnpublished]
  /\ sent' = [sent EXCEPT ![r] = {}]
  /\ rpc' = [rpc EXCEPT ![r] = "publish"]
  /\ UNCHANGED <<outbox, brokerVars, workerVars, faults>>

Oldest(S) == CHOOSE e \in S : \A f \in S : e <= f

\* The loop moves on once the row is published, and ends after the last.
Advance(r, e) ==
  /\ batch' = [batch EXCEPT ![r] = @ \ {e}]
  /\ sent' = [sent EXCEPT ![r] = @ \cup {e}]
  /\ rpc' = [rpc EXCEPT ![r] = IF batch[r] = {e} THEN "mark" ELSE @]

\* The broker accepts a publication: a fresh copy enters the main queue.
Accept(c, e) ==
  /\ loc[c] = "free"
  /\ loc' = [loc EXCEPT ![c] = "main"]
  /\ ev' = [ev EXCEPT ![c] = e]
  /\ UNCHANGED <<deaths, holder, dlq>>

Publish(r, c) ==
  /\ rpc[r] = "publish"
  /\ Accept(c, Oldest(batch[r]))
  /\ Advance(r, Oldest(batch[r]))
  /\ UNCHANGED <<outbox, workerVars, faults>>

\* Publish returns nil although the broker never stored the message: there
\* are no publisher confirms, and an unroutable message is dropped.
PublishLost(r) ==
  /\ rpc[r] = "publish"
  /\ Strike("publish_lost")
  /\ Advance(r, Oldest(batch[r]))
  /\ UNCHANGED <<outbox, brokerVars, workerVars>>

\* Publish returns an error: break, then mark what was published before.
PublishFails(r) ==
  /\ rpc[r] = "publish"
  /\ Strike("publish_error")
  /\ rpc' = [rpc EXCEPT ![r] = IF sent[r] = {} THEN "idle" ELSE "mark"]
  /\ batch' = [batch EXCEPT ![r] = {}]
  /\ UNCHANGED <<outbox, sent, brokerVars, workerVars>>

\* Mutant: every fetched row is marked, the unpublished rest of the batch too.
MarkFetched(r) ==
  /\ rpc[r] \in {"publish", "mark"}
  /\ outbox' = [e \in Events |->
                  IF e \in sent[r] \cup batch[r] THEN "published" ELSE outbox[e]]
  /\ rpc' = [rpc EXCEPT ![r] = "idle"]
  /\ batch' = [batch EXCEPT ![r] = {}]
  /\ UNCHANGED <<sent, brokerVars, workerVars, faults>>

MarkPublished(r) ==
  /\ rpc[r] = "mark"
  /\ outbox' = [e \in Events |-> IF e \in sent[r] THEN "published" ELSE outbox[e]]
  /\ rpc' = [rpc EXCEPT ![r] = "idle"]
  /\ UNCHANGED <<batch, sent, brokerVars, workerVars, faults>>

\* The relay's process dies, or MarkPublished fails: what was published stays
\* unpublished in the outbox.
RelayStops(r) ==
  /\ rpc[r] # "idle"
  /\ Strike("relay_stop")
  /\ rpc' = [rpc EXCEPT ![r] = "idle"]
  /\ batch' = [batch EXCEPT ![r] = {}]
  /\ UNCHANGED <<outbox, sent, brokerVars, workerVars>>

-----------------------------------------------------------------------------
(* Consumer, registry and dedup *)

\* The (event, handler) pair worker w has reached.
Pair(w) == <<ev[job[w]], at[w]>>

\* The broker delivers a copy; it stays unacknowledged in the worker's hands.
Deliver(w, c) ==
  /\ pc[w] = "idle"
  /\ loc[c] = "main"
  /\ loc' = [loc EXCEPT ![c] = "held"]
  /\ holder' = [holder EXCEPT ![c] = w]
  /\ job' = [job EXCEPT ![w] = c]
  /\ at' = [at EXCEPT ![w] = 1]
  /\ err' = [err EXCEPT ![w] = "nil"]
  /\ pc' = [pc EXCEPT ![w] = "mark"]
  /\ UNCHANGED <<relayVars, ev, deaths, dlq, processed, done, faults>>

\* Dispatch returns error k: the handlers after this one do not run.
Return(w, k) ==
  /\ err' = [err EXCEPT ![w] = k]
  /\ pc' = [pc EXCEPT ![w] = "settle"]

\* The envelope, or the eventId in the payload, does not decode.
Reject(w) ==
  /\ pc[w] = "mark"
  /\ ev[job[w]] \in Malformed
  /\ Return(w, "nonretryable")
  /\ UNCHANGED <<relayVars, brokerVars, processed, job, at, done, faults>>

AtHandler(w) ==
  /\ pc[w] = "mark"
  /\ ev[job[w]] \notin Malformed
  /\ at[w] \in Handlers

\* Dispatch is past the last handler (or none is registered).
DispatchEnds(w) ==
  /\ pc[w] = "mark"
  /\ ev[job[w]] \notin Malformed
  /\ at[w] \notin Handlers
  /\ Return(w, "nil")
  /\ UNCHANGED <<relayVars, brokerVars, processed, job, at, done, faults>>

\* Mutant: the row is read first and written only after the body has run.
MarkAbsent(w) ==
  /\ AtHandler(w)
  /\ Pair(w) \notin processed
  /\ pc' = [pc EXCEPT ![w] = "next"]
  /\ UNCHANGED <<relayVars, brokerVars, processed, job, at, err, done, faults>>

\* MarkProcessed inserts the row, in its own transaction, before next runs.
MarkProcessed(w) ==
  /\ AtHandler(w)
  /\ Pair(w) \notin processed
  /\ processed' = processed \cup {Pair(w)}
  /\ pc' = [pc EXCEPT ![w] = "next"]
  /\ UNCHANGED <<relayVars, brokerVars, job, at, err, done, faults>>

\* Mutant: the unique violation is taken for a retryable failure.
SkipReleases(w) ==
  /\ AtHandler(w)
  /\ Pair(w) \in processed
  /\ err' = [err EXCEPT ![w] = "retryable"]
  /\ pc' = [pc EXCEPT ![w] = "unmark"]
  /\ UNCHANGED <<relayVars, brokerVars, processed, job, at, done, faults>>

\* Unique violation: the wrapper returns nil and Dispatch goes on.
SkipProcessed(w) ==
  /\ AtHandler(w)
  /\ Pair(w) \in processed
  /\ at' = [at EXCEPT ![w] = @ + 1]
  /\ UNCHANGED <<relayVars, brokerVars, processed, pc, job, err, done, faults>>

\* MarkProcessed fails with any other error: retryable, nothing inserted.
MarkFails(w) ==
  /\ AtHandler(w)
  /\ Strike("db_error")
  /\ Return(w, "retryable")
  /\ UNCHANGED <<relayVars, brokerVars, processed, job, at, done>>

\* Mutant: Dispatch steps over the next handler.
NextSkipsOne(w) ==
  /\ pc[w] = "next"
  /\ done' = [done EXCEPT ![Pair(w)] = @ + 1]
  /\ at' = [at EXCEPT ![w] = @ + 2]
  /\ pc' = [pc EXCEPT ![w] = "mark"]
  /\ UNCHANGED <<relayVars, brokerVars, processed, job, err, faults>>

NextSucceeds(w) ==
  /\ pc[w] = "next"
  /\ done' = [done EXCEPT ![Pair(w)] = @ + 1]
  /\ at' = [at EXCEPT ![w] = @ + 1]
  /\ pc' = [pc EXCEPT ![w] = "mark"]
  /\ UNCHANGED <<relayVars, brokerVars, processed, job, err, faults>>

\* A retryable or deferred failure releases the mark; a non-retryable keeps it.
NextFails(w, k) ==
  /\ pc[w] = "next"
  /\ k \in Errors \ {"nil"}
  /\ err' = [err EXCEPT ![w] = k]
  /\ pc' = [pc EXCEPT ![w] = IF k = "nonretryable" THEN "settle" ELSE "unmark"]
  /\ UNCHANGED <<relayVars, brokerVars, processed, job, at, done, faults>>

UnmarkProcessed(w) ==
  /\ pc[w] = "unmark"
  /\ processed' = processed \ {Pair(w)}
  /\ pc' = [pc EXCEPT ![w] = "settle"]
  /\ UNCHANGED <<relayVars, brokerVars, job, at, err, done, faults>>

\* The delete fails (the shutdown has cancelled its context, or the database
\* is away) and the error is discarded.
UnmarkFails(w) ==
  /\ pc[w] = "unmark"
  /\ Strike("unmark_error")
  /\ pc' = [pc EXCEPT ![w] = "settle"]
  /\ UNCHANGED <<relayVars, brokerVars, processed, job, at, err, done>>

-----------------------------------------------------------------------------
(* Settling a delivery, and the broker's side of it *)

\* The worker acknowledges or rejects its copy; on a lost channel the call
\* fails and its error is discarded.
Settle(w, to) ==
  /\ pc' = [pc EXCEPT ![w] = "idle"]
  /\ job' = [job EXCEPT ![w] = NoCopy]
  /\ IF holder[job[w]] = w
       THEN /\ loc' = [loc EXCEPT ![job[w]] = to]
            /\ holder' = [holder EXCEPT ![job[w]] = NoWorker]
       ELSE UNCHANGED <<loc, holder>>
  /\ UNCHANGED <<relayVars, ev, deaths, dlq, processed, at, err, done, faults>>

\* The budget is spent, or the failure is final.
BudgetSpent(w) ==
  \/ err[w] = "nonretryable"
  \/ err[w] = "retryable" /\ deaths[job[w]] >= MaxRetries

Ack(w) ==
  /\ \/ pc[w] = "settle" /\ err[w] = "nil"
     \/ pc[w] = "ack"
  /\ Settle(w, "acked")

\* Nack without requeue: the copy dead-letters to the retry queue.
NackRetryable(w) ==
  /\ pc[w] = "settle"
  /\ err[w] = "retryable" /\ ~BudgetSpent(w)
  /\ Settle(w, "retry")

NackDeferred(w) ==
  /\ pc[w] = "settle"
  /\ err[w] = "deferred"
  /\ Settle(w, "retry")

\* sendToDLQ, on the consumer's channel; the Ack that follows is a step of its
\* own.  On a lost channel nothing arrives.
SendToDLQ(w) ==
  /\ pc[w] = "settle"
  /\ BudgetSpent(w)
  /\ dlq' = IF holder[job[w]] = w THEN dlq \cup {ev[job[w]]} ELSE dlq
  /\ pc' = [pc EXCEPT ![w] = "ack"]
  /\ UNCHANGED <<relayVars, loc, ev, deaths, holder,
                 processed, job, at, err, done, faults>>

\* The publish to the DLQ fails: logged only, and the copy is acked all the same.
SendToDLQFails(w) ==
  /\ pc[w] = "settle"
  /\ BudgetSpent(w)
  /\ Strike("dlq_error")
  /\ pc' = [pc EXCEPT ![w] = "ack"]
  /\ UNCHANGED <<relayVars, brokerVars, processed, job, at, err, done>>

\* Mutant: only a copy with retries left comes back from the retry queue.
ExpireInBudget(c) ==
  /\ loc[c] = "retry"
  /\ deaths[c] < MaxRetries
  /\ loc' = [loc EXCEPT ![c] = "main"]
  /\ deaths' = [deaths EXCEPT ![c] = Capped(@)]
  /\ UNCHANGED <<relayVars, ev, holder, dlq, workerVars, faults>>

\* The retry TTL runs out: back to the main queue, one death more.
Expire(c) ==
  /\ loc[c] = "retry"
  /\ loc' = [loc EXCEPT ![c] = "main"]
  /\ deaths' = [deaths EXCEPT ![c] = Capped(@)]
  /\ UNCHANGED <<relayVars, ev, holder, dlq, workerVars, faults>>

\* The broker takes an unacknowledged copy back into the main queue.
Requeue(w) ==
  IF job[w] \in Copies /\ holder[job[w]] = w
    THEN /\ loc' = [loc EXCEPT ![job[w]] = "main"]
         /\ holder' = [holder EXCEPT ![job[w]] = NoWorker]
    ELSE UNCHANGED <<loc, holder>>

\* The worker's process dies.
WorkerCrash(w) ==
  /\ pc[w] # "idle"
  /\ Strike("worker_crash")
  /\ pc' = [pc EXCEPT ![w] = "idle"]
  /\ job' = [job EXCEPT ![w] = NoCopy]
  /\ Requeue(w)
  /\ UNCHANGED <<relayVars, ev, deaths, dlq, processed, at, err, done>>

\* The connection is lost under a handler that keeps running.
DeliveryLost(w) ==
  /\ pc[w] # "idle"
  /\ holder[job[w]] = w
  /\ Strike("delivery_lost")
  /\ Requeue(w)
  /\ UNCHANGED <<relayVars, ev, deaths, dlq, workerVars>>

-----------------------------------------------------------------------------
RelayNext(r) ==
  \/ FetchUnpublished(r)
  \/ \E c \in Copies : Publish(r, c)
  \/ PublishLost(r)
  \/ PublishFails(r)
  \/ MarkPublished(r)
  \/ RelayStops(r)

HandlerNext(w) ==
  \/ Reject(w)
  \/ DispatchEnds(w)
  \/ MarkProcessed(w)
  \/ SkipProcessed(w)
  \/ MarkFails(w)
  \/ NextSucceeds(w)
  \/ \E k \in Errors : NextFails(w, k)
  \/ UnmarkProcessed(w)
  \/ UnmarkFails(w)

SettleNext(w) ==
  \/ Ack(w)
  \/ NackRetryable(w)
  \/ NackDeferred(w)
  \/ SendToDLQ(w)
  \/ SendToDLQFails(w)
  \/ WorkerCrash(w)
  \/ DeliveryLost(w)

WorkerNext(w) ==
  \/ \E c \in Copies : Deliver(w, c)
  \/ HandlerNext(w)
  \/ SettleNext(w)

Next ==
  \/ \E S \in SUBSET Events : StoreEvents(S)
  \/ \E r \in Relays : RelayNext(r)
  \/ \E w \in Workers : WorkerNext(w)
  \/ \E c \in Copies : Expire(c)

Spec == Init /\ [][Next]_vars

\* What the handler body returns at last: anything but one more deferral.
NextNotDeferred(w) ==
  NextSucceeds(w) \/ \E k \in Errors \ {"deferred"} : NextFails(w, k)

\* Steps the code takes by itself once it has begun.
WorkerGoesOn(w) ==
  \/ Reject(w) \/ DispatchEnds(w) \/ MarkProcessed(w) \/ SkipProcessed(w)
  \/ NextSucceeds(w) \/ (\E k \in Errors : NextFails(w, k))
  \/ UnmarkProcessed(w)
  \/ Ack(w) \/ NackRetryable(w) \/ NackDeferred(w) \/ SendToDLQ(w)

(* Fairness.  The relay's ticker keeps firing; goroutines run; the broker  *)
(* serves a queue in order, so a waiting copy is delivered when workers    *)
(* keep becoming idle; the retry TTL runs out; and a handler is not        *)
(* deferred for ever (the analyses that hold the slots end).               *)
Fairness ==
  /\ \A r \in Relays :
       /\ WF_vars(FetchUnpublished(r) \/ \E c \in Copies : Publish(r, c))
       /\ WF_vars(MarkPublished(r))
  /\ \A w \in Workers : WF_vars(WorkerGoesOn(w)) /\ SF_vars(NextNotDeferred(w))
  /\ \A c \in Copies : SF_vars(\E w \in Workers : Deliver(w, c)) /\ WF_vars(Expire(c))

FairSpec == Spec /\ Fairness

-----------------------------------------------------------------------------
(* Properties *)

\* Worker w is inside the body of the handler it marked, or about to release it.
Inside(w) == pc[w] \in {"next", "unmark"}

Running(x) == \E w \in Workers : Inside(w) /\ Pair(w) = x

\* The parts of the inductive invariant behind AtMostOnce.
BatchReady == \A r \in Relays : rpc[r] = "publish" => batch[r] # {}

CopyKnown == \A c \in Copies : loc[c] # "free" => ev[c] \in Events

JobKnown ==
  \A w \in Workers : pc[w] # "idle" => job[w] \in Copies /\ loc[job[w]] # "free"

InsideMarked ==
  \A w \in Workers : Inside(w) =>
    at[w] \in Handlers /\ Pair(w) \in processed /\ done[Pair(w)] = 0

InsideAlone ==
  \A v, w \in Workers : Inside(v) /\ Inside(w) /\ Pair(v) = Pair(w) => v = w

DoneMarked == \A x \in Pairs : done[x] <= 1 /\ (done[x] = 1 => x \in processed)

(* The inductive invariant: the mark of a pair is held by the one worker   *)
(* inside its handler until the effect is recorded or the mark released.   *)
OnceInv ==
  /\ BatchReady /\ CopyKnown /\ JobKnown
  /\ InsideMarked /\ InsideAlone /\ DoneMarked

(* with_dedup.go: each (eventId, handlerName) takes effect at most once,   *)
(* whatever is published twice, redelivered, crashes or loses its channel. *)
AtMostOnce == \A x \in Pairs : done[x] <= 1

\* The state of a pair as OnceDelivery describes it.
phase ==
  [x \in Pairs |-> IF done[x] > 0 THEN "done"
                   ELSE IF Running(x) THEN "running"
                   ELSE IF x \in processed THEN "closed"
                   ELSE "pending"]

Once == INSTANCE OnceDelivery WITH Pairs <- Pairs, phase <- phase

(* The delivery path implements OnceDelivery: one run at a time for a      *)
(* pair, and no further run once it is done or its mark is left behind.    *)
ImplementsOnce == Once!Spec

\* A copy of e that handling will still come to.
Pending(e) == \E c \in Copies : ev[c] = e /\ loc[c] \in {"main", "held", "retry"}

(* relay.go, consumer.go: an event marked published is never lost on its   *)
(* way: each of its handlers has taken effect, or a copy is still to be    *)
(* handled, or a copy lies in the dead letter queue.                       *)
NothingLost ==
  \A e \in Events : outbox[e] = "published" =>
    Pending(e) \/ e \in dlq \/ \A h \in Handlers : done[<<e, h>>] = 1

-----------------------------------------------------------------------------
(* The inductive invariant behind NothingLost, for the faults that the     *)
(* delivery path is built to survive.                                      *)

Survivable == {"publish_error", "relay_stop", "db_error"}

\* A busy worker has its copy to itself.
CopyHeld ==
  \A w \in Workers : pc[w] # "idle" => loc[job[w]] = "held" /\ holder[job[w]] = w

\* A mark is released only on an error, and only a dead-lettered copy is
\* acknowledged without being handled.
ErrorKept == \A w \in Workers : pc[w] = "unmark" => err[w] # "nil"
SetAside  == \A w \in Workers : pc[w] = "ack" => ev[job[w]] \in dlq

\* Worker w has its copy's handler h still before it, or will hand the copy back.
Owes(w, h) ==
  \/ pc[w] \in {"mark", "next", "unmark"} /\ at[w] <= h
  \/ pc[w] = "settle" /\ err[w] # "nil"

\* Copy c will bring its event to handler h.
Bears(c, h) ==
  \/ loc[c] \in {"main", "retry"}
  \/ \E w \in Workers : pc[w] # "idle" /\ job[w] = c /\ Owes(w, h)

Carried(e, h) == \E c \in Copies : ev[c] = e /\ Bears(c, h)

Covered(e) == e \in dlq \/ \A h \in Handlers : done[<<e, h>>] = 1 \/ Carried(e, h)

\* The worker that marked x has not finished with it.
Pursued(x) ==
  \E w \in Workers :
    /\ pc[w] # "idle" /\ Pair(w) = x
    /\ \/ Inside(w)
       \/ pc[w] = "settle" /\ err[w] = "nonretryable"

\* A mark stands for an effect, for a worker at it, or for a dead letter.
MarkedForReason == \A x \in processed : done[x] = 1 \/ x[1] \in dlq \/ Pursued(x)

\* What a relay has published or marked is covered.
PublishedCovered ==
  /\ \A e \in Events : outbox[e] = "published" => Covered(e)
  /\ \A r \in Relays : \A e \in sent[r] : Covered(e)

CoverInv == CopyHeld /\ ErrorKept /\ SetAside /\ MarkedForReason /\ PublishedCovered

(* relay.go, consumer.go: every stored event is in the end handled by all  *)
(* its handlers or put aside in the dead letter queue.                     *)
EventuallyHandled ==
  \A e \in Events : outbox[e] = "unpublished"
    ~> (e \in dlq \/ \A h \in Handlers : done[<<e, h>>] = 1)
=============================================================================
