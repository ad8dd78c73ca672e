------------------------ MODULE EventDeliveryProofs ------------------------
(* Theorems about EventDelivery: types, at-most-once, and OnceDelivery. *)
EXTENDS EventDelivery, WellFoundedInduction, TLAPS

USE ConstantsAssumption

(* Oldest picks a member: a nonempty set of events has a least one. *)
LEMMA OldestIsMember ==
  ASSUME NEW S \in SUBSET Events, S # {}
  PROVE  Oldest(S) \in S
<1>1. S \subseteq Nat
  BY DEF Events
<1>2. PICK x \in S : \A y \in S : ~(<<y, x>> \in OpToRel(<, Nat))
  BY <1>1, NatLessThanWellFounded, WFMin
<1>3. \A y \in S : x <= y
  <2> SUFFICES ASSUME NEW y \in S PROVE x <= y
    OBVIOUS
  <2>1. x \in Nat /\ y \in Nat
    BY <1>1
  <2>2. ~(y < x)
    BY <1>2, <2>1 DEF OpToRel
  <2> QED BY <2>1, <2>2
<1> QED BY <1>3 DEF Oldest

(* A worker that is not idle handles a copy of a real event. *)
LEMMA PairKnown ==
  ASSUME CopyKnown, JobKnown, NEW w \in Workers, pc[w] # "idle"
  PROVE  /\ job[w] \in Copies
         /\ ev[job[w]] \in Events
         /\ at[w] \in Handlers => Pair(w) \in Pairs
BY DEF CopyKnown, JobKnown, Pair, Pairs

(* Every action keeps the variables in their types. *)
LEMMA TypeStep ==
  ASSUME TypeOK, BatchReady, CopyKnown, JobKnown, InsideMarked, [Next]_vars
  PROVE  TypeOK'
<1> USE DEF Errors
<1>1. ASSUME NEW S \in SUBSET Events, StoreEvents(S) PROVE TypeOK'
  BY <1>1 DEF StoreEvents, TypeOK, brokerVars, workerVars
<1>2. ASSUME NEW r \in Relays, RelayNext(r) PROVE TypeOK'
  <2>1. rpc[r] = "publish" => Oldest(batch[r]) \in Events
    BY OldestIsMember DEF BatchReady, TypeOK
  <2>2. CASE FetchUnpublished(r)
    BY <2>2 DEF FetchUnpublished, OldestUnpublished, Unpublished, TypeOK, brokerVars, workerVars
  <2>3. CASE \E c \in Copies : Publish(r, c)
    BY <2>1, <2>3 DEF Publish, Accept, Advance, TypeOK, workerVars
  <2>4. CASE PublishLost(r)
    BY <2>1, <2>4 DEF PublishLost, Advance, Strike, TypeOK, brokerVars, workerVars
  <2>5. CASE PublishFails(r)
    BY <2>5 DEF PublishFails, Strike, TypeOK, brokerVars, workerVars
  <2>6. CASE MarkPublished(r)
    BY <2>6 DEF MarkPublished, TypeOK, brokerVars, workerVars
  <2>7. CASE RelayStops(r)
    BY <2>7 DEF RelayStops, Strike, TypeOK, brokerVars, workerVars
  <2> QED BY <1>2, <2>2, <2>3, <2>4, <2>5, <2>6, <2>7 DEF RelayNext
<1>3. ASSUME NEW w \in Workers, NEW c \in Copies, Deliver(w, c) PROVE TypeOK'
  BY <1>3 DEF Deliver, TypeOK, relayVars
<1>4. ASSUME NEW w \in Workers, HandlerNext(w) PROVE TypeOK'
  <2> USE DEF TypeOK, relayVars, brokerVars
  <2>1. CASE Reject(w)
    BY <2>1 DEF Reject, Return
  <2>2. CASE DispatchEnds(w)
    BY <2>2 DEF DispatchEnds, Return
  <2>3. CASE MarkProcessed(w)
    BY <2>3, PairKnown DEF MarkProcessed, AtHandler
  <2>4. CASE SkipProcessed(w)
    BY <2>4 DEF SkipProcessed, AtHandler, Handlers
  <2>5. CASE MarkFails(w)
    BY <2>5 DEF MarkFails, Return, Strike
  <2>6. CASE NextSucceeds(w)
    <3>1. at[w] \in Handlers /\ Pair(w) \in Pairs
      BY <2>6, PairKnown DEF NextSucceeds, InsideMarked, Inside
    <3> QED BY <2>6, <3>1 DEF NextSucceeds, Handlers
  <2>7. CASE \E k \in Errors : NextFails(w, k)
    BY <2>7 DEF NextFails
  <2>8. CASE UnmarkProcessed(w)
    BY <2>8 DEF UnmarkProcessed
  <2>9. CASE UnmarkFails(w)
    BY <2>9 DEF UnmarkFails, Strike
  <2> QED BY <1>4, <2>1, <2>2, <2>3, <2>4, <2>5, <2>6, <2>7, <2>8, <2>9 DEF HandlerNext
<1>5. ASSUME NEW w \in Workers, SettleNext(w) PROVE TypeOK'
  <2> USE DEF TypeOK, relayVars
  <2>1. CASE Ack(w)
    BY <2>1 DEF Ack, Settle
  <2>2. CASE NackRetryable(w)
    BY <2>2 DEF NackRetryable, Settle
  <2>3. CASE NackDeferred(w)
    BY <2>3 DEF NackDeferred, Settle
  <2>4. CASE SendToDLQ(w)
    <3>1. ev[job[w]] \in Events
      BY <2>4, PairKnown DEF SendToDLQ
    <3> QED BY <2>4, <3>1 DEF SendToDLQ
  <2>5. CASE SendToDLQFails(w)
    BY <2>5 DEF SendToDLQFails, Strike, brokerVars
  <2>6. CASE WorkerCrash(w)
    BY <2>6 DEF WorkerCrash, Requeue, Strike
  <2>7. CASE DeliveryLost(w)
    BY <2>7 DEF DeliveryLost, Requeue, Strike, workerVars
  <2> QED BY <1>5, <2>1, <2>2, <2>3, <2>4, <2>5, <2>6, <2>7 DEF SettleNext
<1>6. ASSUME NEW c \in Copies, Expire(c) PROVE TypeOK'
  BY <1>6 DEF Expire, Capped, TypeOK, relayVars, workerVars
<1>7. CASE UNCHANGED vars
  BY <1>7 DEF TypeOK, vars, relayVars, brokerVars, workerVars
<1> QED BY <1>1, <1>2, <1>3, <1>4, <1>5, <1>6, <1>7 DEF Next, WorkerNext

(* Relays keep a row to publish while they publish, and only publications  *)
(* change which event a copy carries.                                      *)
LEMMA BatchReadyStep ==
  ASSUME TypeOK, BatchReady, [Next]_vars
  PROVE  BatchReady'
<1> USE DEF BatchReady
<1>1. ASSUME NEW S \in SUBSET Events, StoreEvents(S) PROVE BatchReady'
  BY <1>1 DEF StoreEvents
<1>2. ASSUME NEW r \in Relays, RelayNext(r) PROVE BatchReady'
  <2> USE DEF TypeOK
  <2>1. rpc[r] = "publish" => Oldest(batch[r]) \in batch[r]
    BY OldestIsMember
  <2>2. ASSUME Advance(r, Oldest(batch[r])), rpc[r] = "publish" PROVE BatchReady'
    BY <2>1, <2>2 DEF Advance
  <2>3. CASE FetchUnpublished(r)
    BY <2>3 DEF FetchUnpublished
  <2>4. CASE \E c \in Copies : Publish(r, c)
    BY <2>2, <2>4 DEF Publish
  <2>5. CASE PublishLost(r)
    BY <2>2, <2>5 DEF PublishLost
  <2>6. CASE PublishFails(r)
    BY <2>6 DEF PublishFails
  <2>7. CASE MarkPublished(r)
    BY <2>7 DEF MarkPublished
  <2>8. CASE RelayStops(r)
    BY <2>8 DEF RelayStops
  <2> QED BY <1>2, <2>3, <2>4, <2>5, <2>6, <2>7, <2>8 DEF RelayNext
<1>3. ASSUME NEW w \in Workers, WorkerNext(w) PROVE BatchReady'
  BY <1>3 DEF WorkerNext, Deliver, HandlerNext, SettleNext, relayVars, Reject,
     DispatchEnds, MarkProcessed, SkipProcessed, MarkFails, NextSucceeds, NextFails,
     UnmarkProcessed, UnmarkFails, Ack, NackRetryable, NackDeferred, Settle,
     SendToDLQ, SendToDLQFails, WorkerCrash, DeliveryLost
<1>4. ASSUME NEW c \in Copies, Expire(c) PROVE BatchReady'
  BY <1>4 DEF Expire, relayVars
<1>5. CASE UNCHANGED vars
  BY <1>5 DEF vars, relayVars
<1> QED BY <1>1, <1>2, <1>3, <1>4, <1>5 DEF Next

(* A copy keeps its event once published, and a busy worker its copy. *)
LEMMA JobStep ==
  ASSUME TypeOK, BatchReady, CopyKnown, JobKnown, [Next]_vars
  PROVE  /\ CopyKnown' /\ JobKnown'
         /\ \A c \in Copies : loc[c] # "free" => loc'[c] # "free" /\ ev'[c] = ev[c]
<1> DEFINE Stable == \A c \in Copies : loc[c] # "free" => loc'[c] # "free" /\ ev'[c] = ev[c]
<1> USE DEF CopyKnown, JobKnown, TypeOK
<1>1. ASSUME NEW S \in SUBSET Events, StoreEvents(S) PROVE CopyKnown' /\ JobKnown' /\ Stable
  BY <1>1 DEF StoreEvents, brokerVars, workerVars
<1>2. ASSUME NEW r \in Relays, RelayNext(r) PROVE CopyKnown' /\ JobKnown' /\ Stable
  <2>1. ASSUME NEW c \in Copies, Publish(r, c) PROVE CopyKnown' /\ JobKnown' /\ Stable
    <3>1. Oldest(batch[r]) \in Events
      BY <2>1, OldestIsMember DEF Publish, BatchReady
    <3> QED BY <2>1, <3>1 DEF Publish, Accept, workerVars
  <2>2. CASE UNCHANGED <<brokerVars, workerVars>>
    BY <2>2 DEF brokerVars, workerVars
  <2> QED BY <1>2, <2>1, <2>2 DEF RelayNext, FetchUnpublished, PublishLost, PublishFails,
           MarkPublished, RelayStops
<1>3. ASSUME NEW w \in Workers, NEW c \in Copies, Deliver(w, c)
      PROVE  CopyKnown' /\ JobKnown' /\ Stable
  BY <1>3 DEF Deliver
<1>4. ASSUME NEW w \in Workers, HandlerNext(w) PROVE CopyKnown' /\ JobKnown' /\ Stable
  BY <1>4 DEF HandlerNext, brokerVars, Reject, Return, DispatchEnds, MarkProcessed,
     SkipProcessed, MarkFails, AtHandler, NextSucceeds, NextFails, UnmarkProcessed, UnmarkFails
<1>5. ASSUME NEW w \in Workers, SettleNext(w) PROVE CopyKnown' /\ JobKnown' /\ Stable
  <2>1. CASE Ack(w)
    BY <2>1 DEF Ack, Settle
  <2>2. CASE NackRetryable(w)
    BY <2>2 DEF NackRetryable, Settle
  <2>3. CASE NackDeferred(w)
    BY <2>3 DEF NackDeferred, Settle
  <2>4. CASE SendToDLQ(w) \/ SendToDLQFails(w)
    BY <2>4 DEF SendToDLQ, SendToDLQFails, brokerVars
  <2>5. CASE WorkerCrash(w)
    BY <2>5 DEF WorkerCrash, Requeue
  <2>6. CASE DeliveryLost(w)
    BY <2>6 DEF DeliveryLost, Requeue, workerVars
  <2> QED BY <1>5, <2>1, <2>2, <2>3, <2>4, <2>5, <2>6 DEF SettleNext
<1>6. ASSUME NEW c \in Copies, Expire(c) PROVE CopyKnown' /\ JobKnown' /\ Stable
  BY <1>6 DEF Expire, workerVars
<1>7. CASE UNCHANGED vars
  BY <1>7 DEF vars, brokerVars, workerVars
<1> QED BY <1>1, <1>2, <1>3, <1>4, <1>5, <1>6, <1>7 DEF Next, WorkerNext

(* No step but the worker's own releases a mark while it is inside. *)
LEMMA OnceStep ==
  ASSUME TypeOK, OnceInv, [Next]_vars
  PROVE  InsideMarked' /\ InsideAlone' /\ DoneMarked'
<1> DEFINE Held == InsideMarked' /\ InsideAlone' /\ DoneMarked'
<1>1. /\ InsideMarked /\ InsideAlone /\ DoneMarked
      /\ BatchReady /\ CopyKnown /\ JobKnown
  BY DEF OnceInv
<1>2. \A v \in Workers : pc[v] # "idle" => job[v] \in Copies /\ ev'[job[v]] = ev[job[v]]
  BY <1>1, JobStep DEF JobKnown
<1>3. \A v \in Workers : Inside(v) => pc[v] # "idle"
  BY DEF Inside
<1>4. ASSUME UNCHANGED workerVars PROVE Held
  BY <1>1, <1>2, <1>3, <1>4 DEF workerVars, InsideMarked, InsideAlone, DoneMarked, Inside, Pair
\* A step of w that leaves every other worker, the marks and the effects alone,
\* and leaves w outside.
<1>5. ASSUME NEW w \in Workers, UNCHANGED <<processed, done>>,
             \A v \in Workers \ {w} : pc'[v] = pc[v] /\ job'[v] = job[v] /\ at'[v] = at[v],
             ~Inside(w)'
      PROVE  Held
  BY <1>1, <1>2, <1>3, <1>5 DEF InsideMarked, InsideAlone, DoneMarked, Inside, Pair
<1>6. ASSUME NEW w \in Workers, NEW c \in Copies, Deliver(w, c) PROVE Held
  BY <1>5, <1>6 DEF Deliver, TypeOK, Inside
<1>7. ASSUME NEW w \in Workers, HandlerNext(w) PROVE Held
  <2> USE DEF TypeOK
  <2>1. CASE Reject(w) \/ DispatchEnds(w) \/ SkipProcessed(w) \/ MarkFails(w)
             \/ UnmarkFails(w)
    BY <1>5, <2>1 DEF Reject, DispatchEnds, SkipProcessed, MarkFails, UnmarkFails,
       AtHandler, Return, Inside
  <2>2. CASE MarkProcessed(w)
    <3>1. /\ pc[w] = "mark" /\ at[w] \in Handlers /\ Pair(w) \notin processed
          /\ Pair(w) \in Pairs /\ done[Pair(w)] = 0
      BY <1>1, <2>2, PairKnown DEF MarkProcessed, AtHandler, DoneMarked
    <3>2. /\ processed' = processed \cup {Pair(w)} /\ done' = done /\ job' = job /\ at' = at
          /\ pc' = [pc EXCEPT ![w] = "next"] /\ ev' = ev
      BY <2>2 DEF MarkProcessed, brokerVars
    <3>3. \A v \in Workers : Pair(v)' = Pair(v)
      BY <3>2 DEF Pair
    <3>4. \A v \in Workers : Inside(v)' => v = w \/ Inside(v)
      BY <3>2 DEF Inside
    <3>5. InsideMarked'
      BY <1>1, <3>1, <3>2, <3>3, <3>4 DEF InsideMarked
    <3>6. InsideAlone'
      BY <1>1, <3>1, <3>3, <3>4 DEF InsideAlone, InsideMarked
    <3> QED BY <1>1, <3>2, <3>5, <3>6 DEF DoneMarked
  <2>3. CASE NextSucceeds(w)
    <3>1. /\ Inside(w) /\ at[w] \in Handlers /\ Pair(w) \in processed
          /\ Pair(w) \in Pairs /\ done[Pair(w)] = 0
      BY <1>1, <2>3, PairKnown DEF NextSucceeds, Inside, InsideMarked
    <3>2. /\ processed' = processed /\ job' = job /\ ev' = ev
          /\ done' = [done EXCEPT ![Pair(w)] = 1]
          /\ at' = [at EXCEPT ![w] = @ + 1]
          /\ pc' = [pc EXCEPT ![w] = "mark"]
      BY <2>3, <3>1 DEF NextSucceeds, brokerVars
    <3>3. \A v \in Workers : Inside(v)' => v # w /\ Inside(v) /\ Pair(v)' = Pair(v) /\ at'[v] = at[v]
      BY <3>2 DEF Inside, Pair
    <3>4. \A v \in Workers : Inside(v)' => Pair(v) # Pair(w)
      BY <1>1, <3>1, <3>3 DEF InsideAlone
    <3>5. InsideMarked' /\ InsideAlone'
      BY <1>1, <3>2, <3>3, <3>4 DEF InsideMarked, InsideAlone
    <3> QED BY <1>1, <3>1, <3>2, <3>5 DEF DoneMarked
  <2>4. CASE \E k \in Errors : NextFails(w, k)
    <3>1. /\ processed' = processed /\ done' = done /\ job' = job /\ at' = at /\ ev' = ev
          /\ \A v \in Workers : Inside(v)' => Inside(v)
      BY <2>4 DEF NextFails, brokerVars, Inside
    <3> QED BY <1>1, <3>1 DEF InsideMarked, InsideAlone, DoneMarked, Pair
  <2>5. CASE UnmarkProcessed(w)
    <3>1. Inside(w) /\ done[Pair(w)] = 0
      BY <1>1, <2>5 DEF UnmarkProcessed, Inside, InsideMarked
    <3>2. /\ processed' = processed \ {Pair(w)} /\ done' = done /\ job' = job /\ at' = at
          /\ ev' = ev /\ \A v \in Workers : Inside(v)' => v # w /\ Inside(v)
      BY <2>5 DEF UnmarkProcessed, brokerVars, Inside
    <3>3. \A v \in Workers : Pair(v)' = Pair(v)
      BY <3>2 DEF Pair
    <3>4. \A v \in Workers : Inside(v)' => Pair(v) # Pair(w)
      BY <1>1, <3>1, <3>2 DEF InsideAlone
    <3>5. InsideMarked' /\ InsideAlone'
      BY <1>1, <3>2, <3>3, <3>4 DEF InsideMarked, InsideAlone
    <3> QED BY <1>1, <3>1, <3>2, <3>5 DEF DoneMarked
  <2> QED BY <1>7, <2>1, <2>2, <2>3, <2>4, <2>5 DEF HandlerNext
<1>8. ASSUME NEW w \in Workers, SettleNext(w) PROVE Held
  <2> USE DEF TypeOK
  <2>1. CASE Ack(w) \/ NackRetryable(w) \/ NackDeferred(w)
    BY <1>5, <2>1 DEF Ack, NackRetryable, NackDeferred, Settle, Inside
  <2>2. CASE SendToDLQ(w) \/ SendToDLQFails(w)
    BY <1>5, <2>2 DEF SendToDLQ, SendToDLQFails, Inside
  <2>3. CASE WorkerCrash(w)
    BY <1>5, <2>3 DEF WorkerCrash, Inside
  <2>4. CASE DeliveryLost(w)
    BY <1>4, <2>4 DEF DeliveryLost
  <2> QED BY <1>8, <2>1, <2>2, <2>3, <2>4 DEF SettleNext
<1>9. ASSUME NEW r \in Relays, RelayNext(r) PROVE Held
  BY <1>4, <1>9 DEF RelayNext, FetchUnpublished, Publish, PublishLost, PublishFails,
     MarkPublished, RelayStops
<1> QED BY <1>4, <1>6, <1>7, <1>8, <1>9 DEF Next, WorkerNext, StoreEvents, Expire, vars

\* The initial state: empty outbox, broker and dedup table, everyone idle.
LEMMA InitInv == Init => TypeOK /\ OnceInv
BY DEF Init, TypeOK, Errors, OnceInv, BatchReady, CopyKnown, JobKnown, InsideMarked,
   InsideAlone, DoneMarked, Inside, Pairs

(* Types and the inductive invariant hold in every reachable state. *)
THEOREM Invariance == Spec => [](TypeOK /\ OnceInv)
<1>1. TypeOK /\ OnceInv /\ [Next]_vars => (TypeOK /\ OnceInv)'
  BY TypeStep, BatchReadyStep, JobStep, OnceStep DEF OnceInv
<1> QED BY InitInv, <1>1, PTL DEF Spec

(* The rows, batches, copies, marks and workers of the delivery path keep  *)
(* their types: a worker never goes past its last handler, a copy's deaths *)
(* stay within the budget, and only known pairs are marked.                *)
THEOREM DeliveryTypes == Spec => []TypeOK
BY Invariance, PTL

(* with_dedup.go: a handler takes effect at most once for an event, for    *)
(* any number of events, handlers, workers, relays, copies and faults.     *)
THEOREM EffectAtMostOnce == Spec => []AtMostOnce
<1>1. TypeOK /\ OnceInv => AtMostOnce
  BY DEF OnceInv, DoneMarked, AtMostOnce
<1> QED BY Invariance, <1>1, PTL

-----------------------------------------------------------------------------
(* Every step is a step of OnceDelivery on one pair, or none. *)
LEMMA RefinementStep ==
  ASSUME TypeOK, OnceInv, [Next]_vars
  PROVE  [Once!Next]_phase
<1> DEFINE Refines == phase' = phase \/ Once!Next
<1>1. /\ InsideMarked /\ InsideAlone /\ DoneMarked
      /\ BatchReady /\ CopyKnown /\ JobKnown
  BY DEF OnceInv
<1>2. \A v \in Workers : pc[v] # "idle" => job[v] \in Copies /\ ev'[job[v]] = ev[job[v]]
  BY <1>1, JobStep DEF JobKnown
<1>3. \A v \in Workers : Inside(v) => pc[v] # "idle"
  BY DEF Inside
\* Nobody goes in or out: no pair moves.
<1>4. ASSUME UNCHANGED <<processed, done>>,
             \A v \in Workers : Inside(v)' <=> Inside(v),
             \A v \in Workers : Inside(v) => job'[v] = job[v] /\ at'[v] = at[v]
      PROVE  phase' = phase
  <2>1. \A v \in Workers : Inside(v) => Pair(v)' = Pair(v)
    BY <1>2, <1>3, <1>4 DEF Pair
  <2>2. \A x \in Pairs : Running(x)' <=> Running(x)
    BY <1>4, <2>1 DEF Running
  <2> QED BY <1>4, <2>2 DEF phase
\* Only w changes sides: every pair but its own keeps its phase.
<1>5. ASSUME NEW w \in Workers, NEW x \in Pairs,
             \A v \in Workers \ {w} : (Inside(v)' <=> Inside(v)),
             \A v \in Workers \ {w} : job'[v] = job[v] /\ at'[v] = at[v],
             Inside(w) => Pair(w) = x, Inside(w)' => Pair(w)' = x,
             \A y \in Pairs \ {x} : done'[y] = done[y] /\ (y \in processed' <=> y \in processed)
      PROVE  \A y \in Pairs \ {x} : phase'[y] = phase[y]
  <2>1. \A v \in Workers \ {w} : Inside(v) => Pair(v)' = Pair(v)
    BY <1>2, <1>3, <1>5 DEF Pair
  <2>2. \A y \in Pairs \ {x} : Running(y)' <=> Running(y)
    BY <1>5, <2>1 DEF Running
  <2> QED BY <1>5, <2>2 DEF phase
<1>6. ASSUME NEW x \in Pairs, \A y \in Pairs \ {x} : phase'[y] = phase[y],
             NEW t, phase'[x] = t
      PROVE  phase' = [phase EXCEPT ![x] = t]
  BY <1>6 DEF phase
\* w leaves the handler and its mark stays: its pair is closed.
<1>7. ASSUME NEW w \in Workers, Inside(w), ~Inside(w)', UNCHANGED <<processed, done>>,
             \A v \in Workers \ {w} : pc'[v] = pc[v] /\ job'[v] = job[v] /\ at'[v] = at[v]
      PROVE  Once!Next
  <2>1. PICK x \in Pairs : x = Pair(w) /\ x \in processed /\ done[x] = 0
    BY <1>1, <1>3, <1>7, PairKnown DEF InsideMarked
  <2>2. \A v \in Workers \ {w} : Inside(v)' <=> Inside(v)
    BY <1>7 DEF Inside
  <2>3. \A y \in Pairs \ {x} : phase'[y] = phase[y]
    BY <1>5, <1>7, <2>1, <2>2
  <2>4. Running(x) /\ ~Running(x)'
    <3>1. \A v \in Workers \ {w} : Inside(v) => Pair(v)' = Pair(v)
      BY <1>2, <1>3, <1>7 DEF Pair
    <3> QED BY <1>1, <1>7, <2>1, <2>2, <3>1 DEF Running, InsideAlone
  <2>5. phase[x] = "running" /\ phase'[x] = "closed"
    BY <1>7, <2>1, <2>4 DEF phase
  <2>6. Once!Close(x)
    BY <1>6, <2>3, <2>5 DEF Once!Close, Once!Move
  <2> QED BY <2>6 DEF Once!Next
<1>8. ASSUME NEW w \in Workers, HandlerNext(w) PROVE Refines
  <2> USE DEF TypeOK
  <2>1. CASE Reject(w) \/ DispatchEnds(w) \/ SkipProcessed(w) \/ MarkFails(w)
    BY <1>4, <2>1 DEF Reject, DispatchEnds, SkipProcessed, MarkFails, AtHandler,
       Return, Inside
  <2>2. CASE MarkProcessed(w)
    <3> DEFINE x == Pair(w)
    <3>1. pc[w] = "mark" /\ x \notin processed /\ x \in Pairs /\ done[x] = 0
      BY <1>1, <2>2, PairKnown DEF MarkProcessed, AtHandler, DoneMarked
    <3>2. /\ processed' = processed \cup {x} /\ done' = done /\ job' = job /\ at' = at
          /\ pc' = [pc EXCEPT ![w] = "next"] /\ ev' = ev
      BY <2>2 DEF MarkProcessed, brokerVars
    <3>3. Pair(w)' = x /\ Inside(w)' /\ ~Inside(w)
      BY <3>1, <3>2 DEF Pair, Inside
    <3>4. \A v \in Workers \ {w} : Inside(v)' <=> Inside(v)
      BY <3>2 DEF Inside
    <3>5. \A y \in Pairs \ {x} : phase'[y] = phase[y]
      BY <1>5, <3>1, <3>2, <3>3, <3>4
    <3>6. phase[x] = "pending" /\ phase'[x] = "running"
      BY <1>1, <3>1, <3>2, <3>3 DEF phase, Running, InsideMarked
    <3>7. Once!Start(x)
      BY <1>6, <3>1, <3>5, <3>6 DEF Once!Start, Once!Move
    <3> QED BY <3>1, <3>7 DEF Once!Next
  <2>3. CASE NextSucceeds(w)
    <3> DEFINE x == Pair(w)
    <3>1. Inside(w) /\ x \in processed /\ x \in Pairs /\ done[x] = 0
      BY <1>1, <2>3, PairKnown DEF NextSucceeds, Inside, InsideMarked
    <3>2. /\ processed' = processed /\ job' = job
          /\ done' = [done EXCEPT ![x] = 1]
          /\ at' = [at EXCEPT ![w] = @ + 1]
          /\ pc' = [pc EXCEPT ![w] = "mark"]
      BY <2>3, <3>1 DEF NextSucceeds, brokerVars
    <3>3. \A v \in Workers \ {w} : Inside(v)' <=> Inside(v)
      BY <3>2 DEF Inside
    <3>4. ~Inside(w)'
      BY <3>2 DEF Inside
    <3>5. \A y \in Pairs \ {x} : phase'[y] = phase[y]
      BY <1>5, <3>1, <3>2, <3>3, <3>4
    <3>6. phase[x] = "running" /\ phase'[x] = "done"
      BY <3>1, <3>2 DEF phase, Running
    <3>7. Once!Finish(x)
      BY <1>6, <3>1, <3>5, <3>6 DEF Once!Finish, Once!Move
    <3> QED BY <3>1, <3>7 DEF Once!Next
  <2>4. ASSUME NEW k \in Errors, NextFails(w, k) PROVE Refines
    <3>1. CASE k = "nonretryable"
      BY <1>7, <2>4, <3>1 DEF NextFails, Inside
    <3>2. CASE k # "nonretryable"
      BY <1>4, <2>4, <3>2 DEF NextFails, Inside
    <3> QED BY <3>1, <3>2
  <2>5. CASE UnmarkProcessed(w)
    <3>1. PICK x \in Pairs : x = Pair(w) /\ Inside(w) /\ x \in processed /\ done[x] = 0
      BY <1>1, <2>5, PairKnown DEF UnmarkProcessed, Inside, InsideMarked
    <3>2. /\ processed' = processed \ {x} /\ job' = job /\ done' = done /\ at' = at
          /\ pc' = [pc EXCEPT ![w] = "settle"] /\ ev' = ev
      BY <2>5, <3>1 DEF UnmarkProcessed, brokerVars
    <3>3. \A v \in Workers \ {w} : Inside(v)' <=> Inside(v)
      BY <3>2 DEF Inside
    <3>4. ~Inside(w)'
      BY <3>2 DEF Inside
    <3>5. \A y \in Pairs \ {x} : phase'[y] = phase[y]
      BY <1>5, <3>1, <3>2, <3>3, <3>4
    <3>6. Running(x) /\ ~Running(x)'
      BY <1>1, <3>1, <3>2, <3>3, <3>4 DEF Running, InsideAlone, Pair
    <3>7. phase[x] = "running" /\ phase'[x] = "pending"
      BY <3>1, <3>2, <3>6 DEF phase
    <3>8. Once!Release(x)
      BY <1>6, <3>5, <3>7 DEF Once!Release, Once!Move
    <3> QED BY <3>8 DEF Once!Next
  <2>6. CASE UnmarkFails(w)
    BY <1>7, <2>6 DEF UnmarkFails, Inside
  <2> QED BY <1>8, <2>1, <2>2, <2>3, <2>4, <2>5, <2>6 DEF HandlerNext
<1>9. ASSUME NEW w \in Workers, SettleNext(w) PROVE Refines
  <2> USE DEF TypeOK
  <2>1. CASE Ack(w) \/ NackRetryable(w) \/ NackDeferred(w)
    <3>1. /\ UNCHANGED <<processed, done, at>> /\ pc[w] \in {"settle", "ack"}
          /\ pc' = [pc EXCEPT ![w] = "idle"] /\ job' = [job EXCEPT ![w] = NoCopy]
      BY <2>1 DEF Ack, NackRetryable, NackDeferred, Settle
    <3> QED BY <1>4, <3>1 DEF Inside
  <2>2. CASE SendToDLQ(w) \/ SendToDLQFails(w)
    BY <1>4, <2>2 DEF SendToDLQ, SendToDLQFails, Inside
  <2>3. CASE WorkerCrash(w)
    <3>1. CASE Inside(w)
      BY <1>7, <2>3, <3>1 DEF WorkerCrash, Inside
    <3>2. CASE ~Inside(w)
      BY <1>4, <2>3, <3>2 DEF WorkerCrash, Inside
    <3> QED BY <3>1, <3>2
  <2>4. CASE DeliveryLost(w)
    BY <1>4, <2>4 DEF DeliveryLost, workerVars, Inside
  <2> QED BY <1>9, <2>1, <2>2, <2>3, <2>4 DEF SettleNext
<1>10. ASSUME NEW w \in Workers, NEW c \in Copies, Deliver(w, c) PROVE Refines
  BY <1>4, <1>10 DEF Deliver, Inside, TypeOK
<1>11. ASSUME UNCHANGED workerVars PROVE Refines
  BY <1>4, <1>11 DEF workerVars, Inside
<1>12. ASSUME NEW r \in Relays, RelayNext(r) PROVE Refines
  BY <1>11, <1>12 DEF RelayNext, FetchUnpublished, Publish, PublishLost, PublishFails,
     MarkPublished, RelayStops
<1> QED BY <1>8, <1>9, <1>10, <1>11, <1>12 DEF Next, WorkerNext, StoreEvents, Expire, vars

(* with_dedup.go, consumer.go: the delivery path, with every fault of the  *)
(* model, implements OnceDelivery.                                         *)
THEOREM DeliveryImplementsOnce == Spec => ImplementsOnce
<1>1. Init => Once!Init
  BY DEF Init, Once!Init, phase, Running, Inside, Pairs
<1>2. TypeOK /\ OnceInv /\ [Next]_vars => [Once!Next]_phase
  BY RefinementStep
<1> QED BY Invariance, <1>1, <1>2, PTL DEF Spec, ImplementsOnce, Once!Spec

-----------------------------------------------------------------------------
(* NothingLost.  What is owed to a handler is owed until it has taken      *)
(* effect or the event is put aside.                                       *)

(* Coverage survives a step that lets no copy's burden drop. *)
LEMMA CoverKept ==
  ASSUME dlq \subseteq dlq',
         \A x \in Pairs : done[x] = 1 => done'[x] = 1,
         NEW e \in Events, Covered(e),
         \A c \in Copies, h \in Handlers : ev[c] = e /\ Bears(c, h) =>
           \/ ev'[c] = e /\ Bears(c, h)'
           \/ done'[<<e, h>>] = 1 \/ e \in dlq' \/ Carried(e, h)'
  PROVE  Covered(e)'
<1> SUFFICES ASSUME e \notin dlq', NEW h \in Handlers
             PROVE  done'[<<e, h>>] = 1 \/ Carried(e, h)'
  BY DEF Covered
<1>1. done[<<e, h>>] = 1 \/ Carried(e, h)
  BY DEF Covered
<1>2. CASE done[<<e, h>>] = 1
  BY <1>2 DEF Pairs
<1>3. CASE Carried(e, h)
  <2>1. PICK c \in Copies : ev[c] = e /\ Bears(c, h)
    BY <1>3 DEF Carried
  <2>2. ev'[c] = e /\ Bears(c, h)' => Carried(e, h)'
    BY DEF Carried
  <2> QED BY <2>1, <2>2
<1> QED BY <1>1, <1>2, <1>3

(* Busy workers hold different copies, of real events. *)
LEMMA Alone ==
  ASSUME TypeOK, OnceInv, CopyHeld, NEW w \in Workers, pc[w] # "idle"
  PROVE  /\ job[w] \in Copies /\ ev[job[w]] \in Events
         /\ loc[job[w]] = "held" /\ holder[job[w]] = w
         /\ \A v \in Workers : pc[v] # "idle" /\ job[v] = job[w] => v = w
BY DEF OnceInv, JobKnown, CopyKnown, CopyHeld

(* A step of one worker that keeps its copy. *)
LEMMA WorkerStays ==
  ASSUME TypeOK, OnceInv, CoverInv, NEW w \in Workers, pc[w] # "idle", pc'[w] # "idle",
         UNCHANGED <<outbox, sent, loc, ev, holder, job>>,
         \A v \in Workers \ {w} : pc'[v] = pc[v] /\ at'[v] = at[v] /\ err'[v] = err[v],
         dlq \subseteq dlq', \A x \in Pairs : done[x] = 1 => done'[x] = 1,
         \A h \in Handlers : Owes(w, h) =>
           \/ Owes(w, h)'
           \/ done'[<<ev[job[w]], h>>] = 1 \/ ev[job[w]] \in dlq' \/ Carried(ev[job[w]], h)',
         pc'[w] = "unmark" => err'[w] # "nil",
         pc'[w] = "ack" => ev[job[w]] \in dlq',
         processed' \subseteq Pairs,
         \A x \in processed' :
           \/ x \notin processed
           \/ Pair(w) = x /\ (Inside(w) \/ (pc[w] = "settle" /\ err[w] = "nonretryable"))
           => done'[x] = 1 \/ x[1] \in dlq' \/ Pursued(x)'
  PROVE  CoverInv'
<1>1. CopyHeld' /\ ErrorKept' /\ SetAside'
  BY DEF CoverInv, CopyHeld, ErrorKept, SetAside
<1>2. \A c \in Copies, h \in Handlers : Bears(c, h) =>
        \/ Bears(c, h)'
        \/ c = job[w] /\ (done'[<<ev[c], h>>] = 1 \/ ev[c] \in dlq' \/ Carried(ev[c], h)')
  <2> SUFFICES ASSUME NEW c \in Copies, NEW h \in Handlers, Bears(c, h), ~Bears(c, h)'
               PROVE  c = job[w] /\ (done'[<<ev[c], h>>] = 1 \/ ev[c] \in dlq' \/ Carried(ev[c], h)')
    OBVIOUS
  <2>1. PICK v \in Workers : pc[v] # "idle" /\ job[v] = c /\ Owes(v, h)
    BY DEF Bears
  <2>2. v = w
    BY <2>1 DEF Bears, Owes
  <2>3. ~Owes(w, h)'
    BY <2>1, <2>2 DEF Bears
  <2> QED BY <2>1, <2>2, <2>3
<1>3. \A e \in Events : Covered(e) => Covered(e)'
  BY <1>2, CoverKept
<1>4. PublishedCovered'
  BY <1>3 DEF CoverInv, PublishedCovered, TypeOK
<1>5. MarkedForReason'
  <2> SUFFICES ASSUME NEW x \in processed', ~Pursued(x)'
               PROVE  done'[x] = 1 \/ x[1] \in dlq'
    BY DEF MarkedForReason
  <2> DEFINE Chased == Pair(w) = x /\ (Inside(w) \/ (pc[w] = "settle" /\ err[w] = "nonretryable"))
  <2>1. CASE x \notin processed \/ Chased
    BY <2>1
  <2>2. CASE x \in processed /\ ~Chased
    <3>1. ~Pursued(x)
      <4> SUFFICES ASSUME Pursued(x) PROVE FALSE
        OBVIOUS
      <4>1. PICK v \in Workers : /\ pc[v] # "idle" /\ Pair(v) = x
                                 /\ \/ Inside(v)
                                    \/ pc[v] = "settle" /\ err[v] = "nonretryable"
        BY DEF Pursued
      <4>2. v # w
        BY <2>2, <4>1
      <4>3. Pair(v)' = Pair(v) /\ pc'[v] = pc[v] /\ err'[v] = err[v]
        BY <4>2 DEF Pair
      <4> QED BY <4>1, <4>3 DEF Pursued, Inside
    <3>2. done[x] = 1 \/ x[1] \in dlq
      BY <2>2, <3>1 DEF CoverInv, MarkedForReason
    <3> QED BY <3>2
  <2> QED BY <2>1, <2>2
<1> QED BY <1>1, <1>4, <1>5 DEF CoverInv

(* A marked pair that worker w skips is carried by another copy, or settled. *)
LEMMA SkippedIsCarried ==
  ASSUME TypeOK, OnceInv, CoverInv, NEW w \in Workers, SkipProcessed(w)
  PROVE  \/ done[Pair(w)] = 1 \/ ev[job[w]] \in dlq
         \/ \E c \in Copies \ {job[w]} : ev[c] = ev[job[w]] /\ Bears(c, at[w])
<1>1. pc[w] = "mark" /\ at[w] \in Handlers /\ Pair(w) \in processed
  BY DEF SkipProcessed, AtHandler
<1>2. Pair(w)[1] = ev[job[w]] /\ Pair(w)[2] = at[w]
  BY DEF Pair
<1>3. CASE Pursued(Pair(w))
  <2>1. PICK v \in Workers : /\ pc[v] # "idle" /\ Pair(v) = Pair(w)
                             /\ \/ Inside(v)
                                \/ pc[v] = "settle" /\ err[v] = "nonretryable"
    BY <1>3 DEF Pursued
  <2>2. ev[job[v]] = ev[job[w]] /\ at[v] = at[w]
    BY <2>1 DEF Pair
  <2>3. Owes(v, at[w])
    BY <1>1, <2>1, <2>2 DEF Owes, Inside, TypeOK, Handlers
  <2>4. job[v] \in Copies \ {job[w]}
    BY <1>1, <2>1, Alone DEF CoverInv, Inside
  <2> QED BY <2>1, <2>2, <2>3, <2>4 DEF Bears
<1> QED BY <1>1, <1>2, <1>3 DEF CoverInv, MarkedForReason

\* A step inside a handler keeps every published event covered.
LEMMA HandlerCovers ==
  ASSUME Faults \subseteq Survivable, TypeOK, OnceInv, CoverInv, NEW w \in Workers, HandlerNext(w)
  PROVE  CoverInv'
<1>1. pc[w] # "idle" => job[w] \in Copies /\ ev[job[w]] \in Events /\ holder[job[w]] = w
  BY Alone DEF CoverInv
<1>2. at[w] \in 1..(NumHandlers + 1) /\ err[w] \in Errors /\ processed \subseteq Pairs
  BY DEF TypeOK
<1>3. Pair(w) = <<ev[job[w]], at[w]>>
  BY DEF Pair
<1>4. CASE Reject(w) \/ MarkFails(w)
  <2>1. /\ pc[w] = "mark" /\ pc' = [pc EXCEPT ![w] = "settle"] /\ err'[w] \in {"nonretryable", "retryable"}
        /\ at' = at /\ \A v \in Workers \ {w} : err'[v] = err[v]
        /\ UNCHANGED <<outbox, sent, loc, ev, holder, job, dlq, done, processed>>
    BY <1>4 DEF Reject, MarkFails, AtHandler, Return, relayVars, brokerVars, TypeOK
  <2>2. \A h \in Handlers : Owes(w, h)'
    BY <2>1 DEF Owes, TypeOK
  <2> QED BY <1>2, <2>1, <2>2, WorkerStays DEF Inside, TypeOK
<1>5. CASE DispatchEnds(w)
  <2>1. /\ pc[w] = "mark" /\ at[w] \notin Handlers /\ pc' = [pc EXCEPT ![w] = "settle"]
        /\ at' = at /\ \A v \in Workers \ {w} : err'[v] = err[v]
        /\ UNCHANGED <<outbox, sent, loc, ev, holder, job, dlq, done, processed>>
    BY <1>5 DEF DispatchEnds, Return, relayVars, brokerVars
  <2>2. \A h \in Handlers : ~Owes(w, h)
    BY <1>2, <2>1 DEF Owes, Handlers
  <2> QED BY <1>2, <2>1, <2>2, WorkerStays DEF Inside, TypeOK
<1>6. CASE MarkProcessed(w)
  <2>1. /\ pc[w] = "mark" /\ at[w] \in Handlers /\ pc' = [pc EXCEPT ![w] = "next"] /\ at' = at /\ err' = err
        /\ UNCHANGED <<outbox, sent, loc, ev, holder, job, dlq, done>> /\ processed' = processed \cup {Pair(w)}
    BY <1>6 DEF MarkProcessed, AtHandler, relayVars, brokerVars
  <2>2. Pair(w) \in Pairs /\ Pair(w)' = Pair(w) /\ pc'[w] = "next"
    BY <1>1, <1>3, <2>1 DEF Pairs, Pair, TypeOK
  <2>3. Pursued(Pair(w))'
    BY <2>2 DEF Pursued, Inside
  <2>4. \A h \in Handlers : Owes(w, h) => Owes(w, h)'
    BY <2>1, <2>2 DEF Owes
  <2>5. \A x \in processed' : x \notin processed => x = Pair(w)
    BY <2>1
  <2>6. \A v \in Workers \ {w} : pc'[v] = pc[v]
    BY <2>1 DEF TypeOK
  <2>7. processed' \subseteq Pairs /\ ~Inside(w)
    BY <1>2, <2>1, <2>2 DEF Inside
  <2>8. \A x \in processed' : x \notin processed => Pursued(x)'
    <3> DEFINE P(x) == Pursued(x)'
    <3>1. P(Pair(w))
      BY <2>3
    <3> HIDE DEF P
    <3>2. \A x \in processed' : x \notin processed => P(x)
      BY <2>5, <3>1
    <3> QED BY <3>2 DEF P
  <2> QED BY <2>1, <2>2, <2>4, <2>6, <2>7, <2>8, WorkerStays
<1>7. CASE SkipProcessed(w)
  <2>1. /\ pc[w] = "mark" /\ at[w] \in Handlers /\ at' = [at EXCEPT ![w] = at[w] + 1]
        /\ UNCHANGED <<outbox, sent, loc, ev, holder, job, dlq, done, processed, pc, err>>
    BY <1>7 DEF SkipProcessed, AtHandler, relayVars, brokerVars
  <2>2. at'[w] = at[w] + 1 /\ \A v \in Workers \ {w} : at'[v] = at[v]
    BY <2>1 DEF TypeOK
  <2>3. \A h \in Handlers : Owes(w, h) => Owes(w, h)' \/ h = at[w]
    BY <1>2, <2>1, <2>2 DEF Owes, Handlers
  <2>4. \A h \in Handlers : h = at[w] =>
          done'[<<ev[job[w]], h>>] = 1 \/ ev[job[w]] \in dlq' \/ Carried(ev[job[w]], h)'
    <3> SUFFICES ASSUME NEW h \in Handlers, h = at[w], done[Pair(w)] # 1, ev[job[w]] \notin dlq
                 PROVE  Carried(ev[job[w]], h)'
      BY <1>3, <2>1
    <3>1. PICK c \in Copies \ {job[w]} : ev[c] = ev[job[w]] /\ Bears(c, h)
      BY <1>7, SkippedIsCarried
    <3>2. Bears(c, h)'
      BY <2>1, <2>2, <3>1 DEF Bears, Owes
    <3> QED BY <2>1, <3>1, <3>2 DEF Carried
  <2>5. ~Inside(w)
    BY <2>1 DEF Inside
  <2> QED BY <1>2, <2>1, <2>2, <2>3, <2>4, <2>5, WorkerStays
<1>8. CASE NextSucceeds(w)
  <2>1. pc[w] = "next" /\ at[w] \in Handlers /\ done[Pair(w)] = 0 /\ Pair(w) \in Pairs
    BY <1>8, PairKnown DEF NextSucceeds, OnceInv, InsideMarked, Inside
  <2>2. /\ done' = [done EXCEPT ![Pair(w)] = 1] /\ at' = [at EXCEPT ![w] = at[w] + 1] /\ pc' = [pc EXCEPT ![w] = "mark"]
        /\ UNCHANGED <<outbox, sent, loc, ev, holder, job, dlq, processed, err>>
    BY <1>8, <2>1 DEF NextSucceeds, relayVars, brokerVars
  <2>3. /\ at'[w] = at[w] + 1 /\ pc'[w] = "mark" /\ done'[Pair(w)] = 1
        /\ \A v \in Workers \ {w} : at'[v] = at[v] /\ pc'[v] = pc[v]
        /\ \A x \in Pairs : done[x] = 1 => done'[x] = 1
    BY <2>1, <2>2 DEF TypeOK
  <2>4. \A h \in Handlers : Owes(w, h) => Owes(w, h)' \/ done'[<<ev[job[w]], h>>] = 1
    BY <1>2, <1>3, <2>1, <2>3 DEF Owes, Handlers
  <2> QED BY <1>2, <2>1, <2>2, <2>3, <2>4, WorkerStays
<1>9. ASSUME NEW k \in Errors, NextFails(w, k) PROVE CoverInv'
  <2>1. /\ pc[w] = "next" /\ k # "nil" /\ err' = [err EXCEPT ![w] = k]
        /\ pc' = [pc EXCEPT ![w] = IF k = "nonretryable" THEN "settle" ELSE "unmark"]
        /\ UNCHANGED <<outbox, sent, loc, ev, holder, job, dlq, processed, done, at>>
    BY <1>9 DEF NextFails, relayVars, brokerVars
  <2>2. /\ err'[w] = k /\ pc'[w] \in {"settle", "unmark"}
        /\ pc'[w] = "settle" => k = "nonretryable"
        /\ \A v \in Workers \ {w} : pc'[v] = pc[v] /\ err'[v] = err[v]
    BY <2>1 DEF TypeOK
  <2>3. \A h \in Handlers : Owes(w, h) => Owes(w, h)'
    BY <2>1, <2>2 DEF Owes
  <2>4. \A x \in processed : Pair(w) = x => Pursued(x)'
    BY <2>1, <2>2 DEF Pursued, Inside, Pair
  <2> QED BY <1>2, <2>1, <2>2, <2>3, <2>4, WorkerStays
<1>10. CASE UnmarkProcessed(w)
  <2>1. /\ pc[w] = "unmark" /\ pc' = [pc EXCEPT ![w] = "settle"] /\ processed' = processed \ {Pair(w)}
        /\ UNCHANGED <<outbox, sent, loc, ev, holder, job, dlq, done, at, err>>
    BY <1>10 DEF UnmarkProcessed, relayVars, brokerVars
  <2>2. pc'[w] = "settle" /\ err[w] # "nil" /\ \A v \in Workers \ {w} : pc'[v] = pc[v]
    BY <2>1 DEF TypeOK, CoverInv, ErrorKept
  <2>3. \A h \in Handlers : Owes(w, h)'
    BY <2>1, <2>2 DEF Owes
  <2> QED BY <1>2, <2>1, <2>2, <2>3, WorkerStays
<1>11. ~UnmarkFails(w)
  BY DEF UnmarkFails, Strike, Survivable
<1> QED BY <1>4, <1>5, <1>6, <1>7, <1>8, <1>9, <1>10, <1>11 DEF HandlerNext

(* The worker gives its copy up: it owes nothing, or the copy comes back. *)
LEMMA WorkerLeaves ==
  ASSUME TypeOK, OnceInv, CoverInv, NEW w \in Workers, pc[w] # "idle",
         NEW to \in {"acked", "retry"}, Settle(w, to), ~Inside(w), pc[w] = "settle" => err[w] # "nonretryable",
         to = "acked" => \A h \in Handlers : ~Owes(w, h)
  PROVE  CoverInv'
<1>1. /\ job[w] \in Copies /\ ev[job[w]] \in Events /\ loc[job[w]] = "held" /\ holder[job[w]] = w
      /\ \A v \in Workers : pc[v] # "idle" /\ job[v] = job[w] => v = w
  BY Alone DEF CoverInv
<1>2. /\ pc' = [pc EXCEPT ![w] = "idle"] /\ job' = [job EXCEPT ![w] = NoCopy]
      /\ loc' = [loc EXCEPT ![job[w]] = to] /\ holder' = [holder EXCEPT ![job[w]] = NoWorker]
      /\ UNCHANGED <<outbox, sent, ev, dlq, processed, at, err, done>>
  BY <1>1 DEF Settle, relayVars
<1>3. /\ pc'[w] = "idle" /\ loc'[job[w]] = to
      /\ \A v \in Workers \ {w} : pc'[v] = pc[v] /\ job'[v] = job[v]
      /\ \A c \in Copies \ {job[w]} : loc'[c] = loc[c] /\ holder'[c] = holder[c]
  BY <1>1, <1>2 DEF TypeOK
<1>4. \A v \in Workers \ {w} : pc[v] # "idle" => job[v] \in Copies \ {job[w]}
  BY <1>1, Alone DEF CoverInv
<1>5. CopyHeld' /\ ErrorKept' /\ SetAside'
  BY <1>2, <1>3, <1>4 DEF CoverInv, CopyHeld, ErrorKept, SetAside
<1>6. \A c \in Copies, h \in Handlers : Bears(c, h) => Bears(c, h)'
  <2> SUFFICES ASSUME NEW c \in Copies, NEW h \in Handlers, Bears(c, h)
               PROVE  Bears(c, h)'
    OBVIOUS
  <2>1. CASE loc[c] \in {"main", "retry"}
    BY <1>1, <1>3, <2>1 DEF Bears
  <2>2. CASE \E v \in Workers : pc[v] # "idle" /\ job[v] = c /\ Owes(v, h)
    <3>1. PICK v \in Workers : pc[v] # "idle" /\ job[v] = c /\ Owes(v, h)
      BY <2>2
    <3>2. CASE v = w
      BY <1>3, <3>1, <3>2 DEF Bears
    <3>3. CASE v # w
      BY <1>2, <1>3, <3>1, <3>3 DEF Bears, Owes
    <3> QED BY <3>2, <3>3
  <2> QED BY <2>1, <2>2 DEF Bears
<1>7. \A e \in Events : Covered(e) => Covered(e)'
  BY <1>2, <1>6, CoverKept
<1>8. PublishedCovered'
  BY <1>2, <1>7 DEF CoverInv, PublishedCovered, TypeOK
<1>9. MarkedForReason'
  <2>1. \A x \in processed : Pursued(x) => Pursued(x)'
    <3> SUFFICES ASSUME NEW x \in processed, Pursued(x) PROVE Pursued(x)'
      OBVIOUS
    <3>1. PICK v \in Workers : /\ pc[v] # "idle" /\ Pair(v) = x
                               /\ \/ Inside(v)
                                  \/ pc[v] = "settle" /\ err[v] = "nonretryable"
      BY DEF Pursued
    <3>2. v # w
      BY <3>1
    <3>3. Pair(v)' = Pair(v) /\ pc'[v] = pc[v] /\ err'[v] = err[v]
      BY <1>2, <1>3, <3>2 DEF Pair
    <3> QED BY <3>1, <3>3 DEF Pursued, Inside
  <2> QED BY <1>2, <2>1 DEF CoverInv, MarkedForReason
<1> QED BY <1>5, <1>8, <1>9 DEF CoverInv

\* So does the settlement of a copy: acknowledged, requeued, retried or parked.
LEMMA SettleCovers ==
  ASSUME Faults \subseteq Survivable, TypeOK, OnceInv, CoverInv, NEW w \in Workers, SettleNext(w)
  PROVE  CoverInv'
<1>1. CASE Ack(w)
  <2>1. Settle(w, "acked") /\ (pc[w] = "ack" \/ (pc[w] = "settle" /\ err[w] = "nil"))
    BY <1>1 DEF Ack
  <2>2. \A h \in Handlers : ~Owes(w, h)
    BY <2>1 DEF Owes
  <2> QED BY <2>1, <2>2, WorkerLeaves DEF Inside
<1>2. CASE NackRetryable(w) \/ NackDeferred(w)
  <2>1. Settle(w, "retry") /\ pc[w] = "settle" /\ err[w] \in {"retryable", "deferred"}
    BY <1>2 DEF NackRetryable, NackDeferred
  <2> QED BY <2>1, WorkerLeaves DEF Inside
<1>3. CASE SendToDLQ(w)
  <2>1. holder[job[w]] = w /\ pc[w] = "settle"
    BY <1>3, Alone DEF CoverInv, SendToDLQ
  <2>2. /\ dlq' = dlq \cup {ev[job[w]]} /\ pc' = [pc EXCEPT ![w] = "ack"]
        /\ UNCHANGED <<outbox, sent, loc, ev, holder, job, processed, done, at, err>>
    BY <1>3, <2>1 DEF SendToDLQ, relayVars
  <2>3. /\ pc'[w] = "ack" /\ \A v \in Workers \ {w} : pc'[v] = pc[v]
        /\ ev[job[w]] \in dlq' /\ dlq \subseteq dlq' /\ processed \subseteq Pairs
    BY <2>2 DEF TypeOK
  <2>4. \A x \in processed' : Pair(w) = x => x[1] \in dlq'
    BY <2>2, <2>3 DEF Pair
  <2> QED BY <2>1, <2>2, <2>3, <2>4, WorkerStays
<1>4. ~SendToDLQFails(w) /\ ~WorkerCrash(w) /\ ~DeliveryLost(w)
  BY DEF SendToDLQFails, WorkerCrash, DeliveryLost, Strike, Survivable
<1> QED BY <1>1, <1>2, <1>3, <1>4 DEF SettleNext

\* So does a delivery: the worker starts at the first handler.
LEMMA DeliverCovers ==
  ASSUME TypeOK, OnceInv, CoverInv, NEW w \in Workers, NEW c \in Copies, Deliver(w, c)
  PROVE  CoverInv'
<1>1. /\ pc[w] = "idle" /\ loc[c] = "main"
      /\ loc' = [loc EXCEPT ![c] = "held"] /\ holder' = [holder EXCEPT ![c] = w]
      /\ job' = [job EXCEPT ![w] = c] /\ at' = [at EXCEPT ![w] = 1]
      /\ err' = [err EXCEPT ![w] = "nil"] /\ pc' = [pc EXCEPT ![w] = "mark"]
      /\ UNCHANGED <<outbox, sent, ev, dlq, processed, done>>
  BY DEF Deliver, relayVars
<1>2. /\ pc'[w] = "mark" /\ job'[w] = c /\ at'[w] = 1 /\ loc'[c] = "held" /\ holder'[c] = w
      /\ \A v \in Workers \ {w} : pc'[v] = pc[v] /\ job'[v] = job[v] /\ at'[v] = at[v] /\ err'[v] = err[v]
      /\ \A d \in Copies \ {c} : loc'[d] = loc[d] /\ holder'[d] = holder[d]
  BY <1>1 DEF TypeOK
<1>3. \A v \in Workers : pc[v] # "idle" => v # w /\ job[v] \in Copies \ {c}
  BY <1>1, Alone DEF CoverInv
<1>4. CopyHeld' /\ ErrorKept' /\ SetAside'
  BY <1>1, <1>2, <1>3 DEF CoverInv, CopyHeld, ErrorKept, SetAside
<1>5. \A d \in Copies, h \in Handlers : Bears(d, h) => Bears(d, h)'
  <2> SUFFICES ASSUME NEW d \in Copies, NEW h \in Handlers, Bears(d, h)
               PROVE  Bears(d, h)'
    OBVIOUS
  <2>1. CASE d = c
    <3>1. Owes(w, h)'
      BY <1>2 DEF Owes, Handlers
    <3> QED BY <1>2, <2>1, <3>1 DEF Bears
  <2>2. CASE d # c
    BY <1>2, <1>3, <2>2 DEF Bears, Owes
  <2> QED BY <2>1, <2>2
<1>6. \A e \in Events : Covered(e) => Covered(e)'
  BY <1>1, <1>5, CoverKept
<1>7. PublishedCovered'
  BY <1>1, <1>6 DEF CoverInv, PublishedCovered, TypeOK
<1>8. \A x \in processed : Pursued(x) => Pursued(x)'
  BY <1>1, <1>2, <1>3 DEF Pursued, Inside, Pair
<1>9. MarkedForReason'
  BY <1>1, <1>8 DEF CoverInv, MarkedForReason
<1> QED BY <1>4, <1>7, <1>9 DEF CoverInv

(* Only the place of a copy that no worker holds changes, for the better. *)
LEMMA CopyMoves ==
  ASSUME TypeOK, OnceInv, CoverInv, NEW c \in Copies, loc[c] \in {"free", "retry"}, loc' = [loc EXCEPT ![c] = "main"],
         UNCHANGED <<holder, dlq, processed, done, pc, job, at, err>>,
         \A d \in Copies : loc[d] # "free" => ev'[d] = ev[d]
  PROVE  /\ CopyHeld' /\ ErrorKept' /\ SetAside' /\ MarkedForReason'
         /\ \A e \in Events : Covered(e) => Covered(e)'
<1>1. loc'[c] = "main" /\ \A d \in Copies \ {c} : loc'[d] = loc[d]
  BY DEF TypeOK
<1>2. \A v \in Workers : pc[v] # "idle" => job[v] \in Copies \ {c} /\ ev'[job[v]] = ev[job[v]]
  BY Alone DEF CoverInv
<1>3. CopyHeld' /\ ErrorKept' /\ SetAside'
  BY <1>1, <1>2 DEF CoverInv, CopyHeld, ErrorKept, SetAside
<1>4. \A d \in Copies, h \in Handlers : Bears(d, h) => ev'[d] = ev[d] /\ Bears(d, h)'
  <2> SUFFICES ASSUME NEW d \in Copies, NEW h \in Handlers, Bears(d, h)
               PROVE  ev'[d] = ev[d] /\ Bears(d, h)'
    OBVIOUS
  <2>1. CASE loc[d] \in {"main", "retry"}
    BY <1>1, <2>1 DEF Bears
  <2>2. CASE \E v \in Workers : pc[v] # "idle" /\ job[v] = d /\ Owes(v, h)
    BY <1>2, <2>2 DEF Bears, Owes
  <2> QED BY <2>1, <2>2 DEF Bears
<1>5. \A e \in Events : Covered(e) => Covered(e)'
  BY <1>4, CoverKept
<1>6. \A x \in processed : Pursued(x) => Pursued(x)'
  <2> SUFFICES ASSUME NEW x \in processed, Pursued(x) PROVE Pursued(x)'
    OBVIOUS
  <2>1. PICK v \in Workers : /\ pc[v] # "idle" /\ Pair(v) = x
                             /\ \/ Inside(v)
                                \/ pc[v] = "settle" /\ err[v] = "nonretryable"
    BY DEF Pursued
  <2>2. Pair(v)' = Pair(v)
    BY <1>2, <2>1 DEF Pair
  <2> QED BY <2>1, <2>2 DEF Pursued, Inside
<1>7. MarkedForReason'
  BY <1>6 DEF CoverInv, MarkedForReason
<1> QED BY <1>3, <1>5, <1>7

\* So does the relay: what it marks published has a copy in the broker.
LEMMA RelayCovers ==
  ASSUME Faults \subseteq Survivable, TypeOK, OnceInv, CoverInv, NEW r \in Relays, RelayNext(r)
  PROVE  CoverInv'
<1>1. ASSUME UNCHANGED <<brokerVars, workerVars>>,
             \A e \in Events : outbox'[e] = "published" => outbox[e] = "published" \/ \E p \in Relays : e \in sent[p],
             \A p \in Relays : sent'[p] \subseteq sent[p]
      PROVE  CoverInv'
  <2>1. \A e \in Events : Covered(e) => Covered(e)'
    BY <1>1 DEF Covered, Carried, Bears, Owes, brokerVars, workerVars
  <2>2. PublishedCovered'
    BY <1>1, <2>1 DEF CoverInv, PublishedCovered, TypeOK
  <2>3. CopyHeld' /\ ErrorKept' /\ SetAside' /\ MarkedForReason'
    BY <1>1 DEF CoverInv, CopyHeld, ErrorKept, SetAside, MarkedForReason, Pursued, Inside, Pair, brokerVars, workerVars
  <2> QED BY <2>2, <2>3 DEF CoverInv
<1>2. CASE FetchUnpublished(r)
  BY <1>1, <1>2 DEF FetchUnpublished, TypeOK
<1>3. ASSUME NEW c \in Copies, Publish(r, c) PROVE CoverInv'
  <2>1. PICK e \in Events : e = Oldest(batch[r])
    BY <1>3, OldestIsMember DEF Publish, OnceInv, BatchReady, TypeOK
  <2>2. /\ loc[c] = "free" /\ loc' = [loc EXCEPT ![c] = "main"] /\ ev' = [ev EXCEPT ![c] = e]
        /\ sent' = [sent EXCEPT ![r] = sent[r] \cup {e}]
        /\ UNCHANGED <<outbox, holder, dlq, processed, done, pc, job, at, err>>
    BY <1>3, <2>1 DEF Publish, Accept, Advance, workerVars
  <2>3. \A d \in Copies : loc[d] # "free" => ev'[d] = ev[d]
    BY <2>2 DEF TypeOK
  <2>4. /\ CopyHeld' /\ ErrorKept' /\ SetAside' /\ MarkedForReason'
        /\ \A f \in Events : Covered(f) => Covered(f)'
    BY <2>2, <2>3, CopyMoves
  <2>5. Covered(e)'
    BY <2>2 DEF Covered, Carried, Bears, TypeOK
  <2>6. PublishedCovered'
    <3>1. \A p \in Relays : \A f \in sent'[p] : f \in sent[p] \/ f = e
      BY <2>2 DEF TypeOK
    <3>2. \A p \in Relays : \A f \in sent[p] : f \in Events /\ Covered(f)
      BY DEF CoverInv, PublishedCovered, TypeOK
    <3>3. \A f \in Events : outbox[f] = "published" => Covered(f)
      BY DEF CoverInv, PublishedCovered
    <3> DEFINE P(f) == Covered(f)'
    <3>4. P(e) /\ \A f \in Events : Covered(f) => P(f)
      BY <2>4, <2>5
    <3> HIDE DEF P
    <3>5. /\ \A f \in Events : outbox'[f] = "published" => P(f)
          /\ \A p \in Relays : \A f \in sent'[p] : P(f)
      BY <2>2, <3>1, <3>2, <3>3, <3>4
    <3> QED BY <3>5 DEF PublishedCovered, P
  <2> QED BY <2>4, <2>6 DEF CoverInv
<1>4. CASE PublishFails(r)
  BY <1>1, <1>4 DEF PublishFails
<1>5. CASE MarkPublished(r)
  BY <1>1, <1>5 DEF MarkPublished
<1>6. CASE RelayStops(r)
  BY <1>1, <1>6 DEF RelayStops
<1>7. ~PublishLost(r)
  BY DEF PublishLost, Strike, Survivable
<1> QED BY <1>2, <1>3, <1>4, <1>5, <1>6, <1>7 DEF RelayNext

\* Every step keeps the invariant behind NothingLost.
LEMMA CoverStep ==
  ASSUME Faults \subseteq Survivable, TypeOK, OnceInv, CoverInv, [Next]_vars
  PROVE  CoverInv'
<1>1. ASSUME UNCHANGED <<sent, brokerVars, workerVars>>,
             \A e \in Events : outbox'[e] = "published" => outbox[e] = "published"
      PROVE  CoverInv'
  BY <1>1 DEF CoverInv, CopyHeld, ErrorKept, SetAside, MarkedForReason, PublishedCovered, Covered, Carried,
     Bears, Owes, Pursued, Inside, Pair, brokerVars, workerVars
<1>2. ASSUME NEW S \in SUBSET Events, StoreEvents(S) PROVE CoverInv'
  BY <1>1, <1>2 DEF StoreEvents, TypeOK
<1>3. ASSUME NEW c \in Copies, Expire(c) PROVE CoverInv'
  <2>1. /\ loc[c] = "retry" /\ loc' = [loc EXCEPT ![c] = "main"]
        /\ UNCHANGED <<outbox, sent, ev, holder, dlq, processed, done, pc, job, at, err>>
    BY <1>3 DEF Expire, relayVars, workerVars
  <2>2. /\ CopyHeld' /\ ErrorKept' /\ SetAside' /\ MarkedForReason'
        /\ \A e \in Events : Covered(e) => Covered(e)'
    BY <2>1, CopyMoves
  <2>3. PublishedCovered'
    BY <2>1, <2>2 DEF CoverInv, PublishedCovered, TypeOK
  <2> QED BY <2>2, <2>3 DEF CoverInv
<1>4. CASE UNCHANGED vars
  BY <1>1, <1>4 DEF vars, relayVars
<1> QED BY <1>2, <1>3, <1>4, RelayCovers, HandlerCovers, SettleCovers, DeliverCovers DEF Next, WorkerNext

(* relay.go, consumer.go: an event marked published is covered: as long as *)
(* only publish errors, relay stops and database errors strike, every one  *)
(* of its handlers takes effect, is still to be reached by a copy, or the  *)
(* event lies in the dead letter queue; for any number of handlers,        *)
(* workers, relays and duplicate copies.                                   *)
THEOREM PublishedIsNotLost ==
  ASSUME Faults \subseteq Survivable
  PROVE  Spec => []NothingLost
<1>1. Init => CoverInv
  BY DEF Init, CoverInv, CopyHeld, ErrorKept, SetAside, MarkedForReason, PublishedCovered
<1>2. CoverInv /\ TypeOK /\ OnceInv /\ [Next]_vars => CoverInv'
  BY CoverStep
<1>3. TypeOK /\ OnceInv /\ CoverInv => NothingLost
  <2> SUFFICES ASSUME TypeOK, OnceInv, CoverInv, NEW e \in Events, outbox[e] = "published", e \notin dlq,
                      NEW h \in Handlers, done[<<e, h>>] # 1
               PROVE  Pending(e)
    BY DEF NothingLost
  <2>1. PICK c \in Copies : ev[c] = e /\ Bears(c, h)
    BY DEF CoverInv, PublishedCovered, Covered, Carried
  <2>2. loc[c] \in {"main", "held", "retry"}
    BY <2>1 DEF Bears, CoverInv, CopyHeld
  <2> QED BY <2>1, <2>2 DEF Pending
<1> QED BY Invariance, <1>1, <1>2, <1>3, PTL DEF Spec
=============================================================================
