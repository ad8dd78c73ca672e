---------------------------- MODULE BillingProofs ----------------------------
(***************************************************************************)
(* Theorems about Billing.  The types and what a webhook is of hold for    *)
(* every setting of the model; the first invoice needs that no payment is  *)
(* declined; the row and the anchor need that one api process runs, that   *)
(* Stripe changes nothing while a webhook is open, and that no webhook is  *)
(* repeated or dropped.                                                    *)
(***************************************************************************)
EXTENDS Billing, TLAPS

\* What an api process is at.
LEMMA HookFacts ==
  ASSUME TypeOK, NEW a \in Apis
  PROVE  /\ hook[a] # Idle <=> hook[a].pc # "idle"
         /\ hook[a] # Idle => /\ hook[a] \in Task /\ hook[a].pc \in HookSteps /\ hook[a].ev \in Webhooks
                              /\ hook[a].data \in Webhooks /\ hook[a].row \in Rows /\ Sub(a) \in Subs
                              /\ Sub(a) = hook[a].ev.sub
<1>1. hook[a] \in {Idle} \cup Task
  BY DEF TypeOK
<1> QED BY <1>1 DEF Task, Idle, HookSteps, Sub, Webhooks

\* What the owner's request is at.
LEMMA RequestFacts ==
  ASSUME TypeOK
  PROVE  /\ request # NoRequest <=> request.pc # "idle"
         /\ request # NoRequest => request \in Change /\ request.plan \in Plans /\ request.row \in Rows
<1>1. request \in {NoRequest} \cup Change
  BY DEF TypeOK
<1> QED BY <1>1 DEF Change, NoRequest

\* One process goes on, the others stay.
LEMMA HookReplaced ==
  ASSUME TypeOK, NEW a \in Apis, NEW t \in Task \cup {Idle}, Goes(a, t)
  PROVE  /\ hook' \in [Apis -> {Idle} \cup Task]
         /\ hook'[a] = t
         /\ \A b \in Apis \ {a} : hook'[b] = hook[b]
BY DEF TypeOK, Goes

\* The row given at signup is a row.
LEMMA FreeRow ==
  /\ NewFreeSubscription \in Rows
  /\ \A r : r.link = None /\ r.plan = Free /\ r.status = "active" => Matches(r)
BY DEF NewFreeSubscription, Rows, SubsOrNone, Matches

\* A subscription that exists has a plan and an invoice.
LEMMA SoldFacts ==
  ASSUME TypeOK, Sold, NEW s \in Subs
  PROVE  /\ stripe[s] \in [status : {"none", "active", "past_due", "canceled"}, plan : Plans \cup {Free},
                           customer : SubsOrNone, bill : 0..MaxBills]
         /\ stripe[s].customer \in SubsOrNone
         /\ stripe[s].status # "none" =>
              /\ stripe[s].plan \in Plans /\ stripe[s].bill \in 1..MaxBills
              /\ <<s, stripe[s].bill>> \in Bills /\ Latest(s) \in {"none", "open", "paid"}
              /\ stripe[s].status \in {"active", "past_due", "canceled"}
         /\ Live(s) => stripe[s].status # "none"
<1>1. stripe[s] \in [status : {"none", "active", "past_due", "canceled"}, plan : Plans \cup {Free},
                     customer : SubsOrNone, bill : 0..MaxBills]
  BY DEF TypeOK
<1>2. stripe[s].status # "none" => stripe[s].plan \in Plans /\ stripe[s].bill \in 1..MaxBills
  BY DEF Sold
<1>3. stripe[s].bill \in 1..MaxBills => <<s, stripe[s].bill>> \in Bills
  BY DEF Bills
<1>4. \A b \in Bills : bills[b] \in {"none", "open", "paid"}
  BY DEF TypeOK
<1> QED BY <1>1, <1>2, <1>3, <1>4 DEF Latest, Live

-----------------------------------------------------------------------------
(* What a webhook's handler keeps *)

\* A handler goes on, ends or begins, and nothing else changes.
LEMMA HookMoves ==
  ASSUME TypeOK, BillingInv, NEW a \in Apis, NEW t \in Task \cup {Idle}, Goes(a, t),
         UNCHANGED <<row, invoices, stripeVars, pending, acked, request>>, faults' \in 0..MaxFaults,
         t # Idle => stripe[t.ev.sub].status # "none",
         t # Idle /\ NoDecline => Bought(t.ev) /\ Bought(t.data),
         t # Idle /\ Orderly =>
           /\ t.ev \in pending /\ t.data.plan = stripe[t.ev.sub].plan /\ t.data.status = stripe[t.ev.sub].status
           /\ t.pc = "save" /\ (Told \/ t.ev.kind \in Telling) => Good(t.row)
           /\ t.pc \in {"latest", "owner", "upsert"} /\ t.ev.kind = "checkout" => Good(row)
           /\ t.pc = "save" /\ t.ev.kind = "checkout" /\ row.plan # Free /\ row.link # None => t.row.anchor = row.anchor
  PROVE  TypeOK' /\ BillingInv'
<1>1. hook' \in [Apis -> {Idle} \cup Task] /\ hook'[a] = t /\ \A b \in Apis \ {a} : hook'[b] = hook[b]
  BY HookReplaced
<1>2. UNCHANGED <<row, invoices, session, stripe, bills, changes, pending, acked, request>>
  BY DEF stripeVars
<1>3. TypeOK'
  BY <1>1, <1>2 DEF TypeOK
<1>4. Sold'
  BY <1>1, <1>2 DEF BillingInv, Sold, Sub
<1>5. ASSUME NoDecline PROVE Paid' /\ FirstInvoiceStored'
  BY <1>1, <1>2, <1>5 DEF BillingInv, Paid, FirstInvoiceStored, Bought, Latest
<1>6. ASSUME Orderly PROVE OneChange' /\ RowFollows' /\ AnchorHeld'
  <2>1. \A b \in Apis : b = a
    BY <1>6 DEF Orderly
  <2>2. hook[a] = Idle \/ hook[a] # Idle
    OBVIOUS
  <2>3. \A r : Good(r)' = Good(r') /\ Matches(r)' = Matches(r')
    BY <1>2 DEF Good, Matches, Live
  <2>4. t = Idle => t.pc = "idle"
    BY DEF Idle
  <2>5. Told' = Told
    BY <1>2 DEF Told
  <2>6. OneChange'
    BY <1>1, <1>2, <1>6, <2>1 DEF BillingInv, OneChange, Current, Sub
  <2>7. RowFollows'
    <3>1. (Told => Good(row))' /\ (\A e \in pending : e.kind = "deleted" => row.link = e.sub \/ Matches(row))'
      BY <1>2, <1>6, <2>3, <2>5 DEF BillingInv, RowFollows, Good, Matches, Live
    <3>2. (request.pc = "save" => Good(request.row) /\ \A e \in pending : e.kind # "checkout")'
      BY <1>2, <1>6 DEF BillingInv, RowFollows, Good, Matches, Live
    <3>3. hook'[a].pc = "save" /\ (Told \/ hook'[a].ev.kind \in Telling) => Good(hook'[a].row)
      BY <1>1, <1>6, <2>4
    <3>4. hook'[a].pc \in {"latest", "owner", "upsert"} /\ hook'[a].ev.kind = "checkout" => Good(row)
      BY <1>1, <1>6, <2>4
    <3>5. Good(hook[a].row)' = Good(hook'[a].row) /\ Good(row)' = Good(row)
      BY <1>2 DEF Good, Matches, Live
    <3> QED BY <2>1, <2>5, <3>1, <3>2, <3>3, <3>4, <3>5 DEF RowFollows
  <2>8. AnchorHeld'
    BY <1>1, <1>2, <1>6, <2>1, <2>4 DEF AnchorHeld, At
  <2> QED BY <2>6, <2>7, <2>8
<1> QED BY <1>3, <1>4, <1>5, <1>6 DEF BillingInv, NoDecline, Orderly

\* The fields of a handler that goes on.
LEMMA Going ==
  ASSUME TypeOK, BillingInv, NEW a \in Apis, hook[a] # Idle
  PROVE  /\ Sub(a) \in Subs /\ stripe[Sub(a)].status # "none" /\ Customer(a) \in SubsOrNone
         /\ hook[a].ev.sub = Sub(a) /\ hook[a] \in Task
         /\ NoDecline => Bought(hook[a].ev) /\ Bought(hook[a].data)
         /\ Orderly => /\ hook[a].ev \in pending /\ Current(hook[a].ev)
                       /\ hook[a].data.plan = stripe[Sub(a)].plan /\ hook[a].data.status = stripe[Sub(a)].status
<1>1. Sub(a) \in Subs /\ hook[a].ev.sub = Sub(a) /\ hook[a] \in Task
  BY HookFacts
<1>2. stripe[Sub(a)].status # "none"
  BY DEF BillingInv, Sold
<1>3. Customer(a) \in SubsOrNone
  BY <1>1, SoldFacts DEF BillingInv, Customer
<1> QED BY <1>1, <1>2, <1>3 DEF BillingInv, Paid, OneChange

\* Stripe calls.
LEMMA ReceiveStep ==
  ASSUME TypeOK, BillingInv, NEW a \in Apis, NEW e \in pending, Receive(a, e)
  PROVE  TypeOK' /\ BillingInv'
<1> DEFINE t == [pc |-> IF e.kind = "checkout" THEN "retrieve"
                        ELSE IF e.kind \in {"paid", "failed"} THEN "owner" ELSE "read",
                 ev |-> e, data |-> e, row |-> NewFreeSubscription]
<1>1. Goes(a, t) /\ UNCHANGED <<row, invoices, stripeVars, pending, acked, request, faults>>
  BY DEF Receive
<1>2. e \in Webhooks
  BY DEF TypeOK
<1>3. t \in Task
  BY <1>2, FreeRow DEF Task, HookSteps
<1>4. t.ev = e /\ t.data = e /\ t.pc # "save" /\ (t.pc \in {"latest", "owner", "upsert"} => e.kind # "checkout")
  OBVIOUS
<1>5. stripe[e.sub].status # "none" /\ (NoDecline => Bought(e)) /\ (Orderly => Current(e))
  BY DEF BillingInv, Sold, Paid, OneChange
<1>6. faults' \in 0..MaxFaults
  BY <1>1 DEF TypeOK
<1>7. t # Idle /\ Orderly =>
           /\ t.ev \in pending /\ t.data.plan = stripe[t.ev.sub].plan /\ t.data.status = stripe[t.ev.sub].status
           /\ t.pc = "save" /\ (Told \/ t.ev.kind \in Telling) => Good(t.row)
           /\ t.pc \in {"latest", "owner", "upsert"} /\ t.ev.kind = "checkout" => Good(row)
           /\ t.pc = "save" /\ t.ev.kind = "checkout" /\ row.plan # Free /\ row.link # None => t.row.anchor = row.anchor
  <2> HIDE DEF t
  <2> QED BY <1>4, <1>5 DEF Current
<1> HIDE DEF t
<1> QED BY <1>1, <1>3, <1>4, <1>5, <1>6, <1>7, HookMoves

\* A failed call is answered with an error.
LEMMA FailsStep ==
  ASSUME TypeOK, BillingInv, NEW a \in Apis, HookFails(a)
  PROVE  TypeOK' /\ BillingInv'
<1>1. Goes(a, Idle) /\ UNCHANGED <<row, invoices, stripeVars, pending, acked, request>>
  BY DEF HookFails, Refuses
<1>2. faults' \in 0..MaxFaults
  BY BillingAssumption DEF HookFails, Strike, TypeOK
<1> QED BY <1>1, <1>2, HookMoves

\* A refusal changes nothing.
LEMMA RefusesStep ==
  ASSUME TypeOK, BillingInv, NEW a \in Apis, Refuses(a),
         UNCHANGED <<row, invoices, stripeVars, pending, acked, request, faults>>
  PROVE  TypeOK' /\ BillingInv'
<1>1. Goes(a, Idle) /\ faults' \in 0..MaxFaults
  BY DEF Refuses, TypeOK
<1> QED BY <1>1, HookMoves

\* A handler goes on with the webhook it has, to a step at which nothing is saved yet.
LEMMA SameWebhook ==
  ASSUME TypeOK, BillingInv, NEW a \in Apis, NEW t \in Task, Goes(a, t), hook[a] # Idle,
         UNCHANGED <<row, invoices, stripeVars, pending, acked, request, faults>>,
         t.ev = hook[a].ev, NoDecline => Bought(t.data),
         Orderly => t.data.plan = stripe[Sub(a)].plan /\ t.data.status = stripe[Sub(a)].status,
         t.pc # "save",
         Orderly /\ t.pc \in {"latest", "owner", "upsert"} /\ t.ev.kind = "checkout" => Good(row)
  PROVE  TypeOK' /\ BillingInv'
<1>1. faults' \in 0..MaxFaults
  BY DEF TypeOK
<1>2. t # Idle => stripe[t.ev.sub].status # "none"
  BY Going
<1>3. t # Idle /\ NoDecline => Bought(t.ev) /\ Bought(t.data)
  BY Going
<1>4. t # Idle /\ Orderly =>
           /\ t.ev \in pending /\ t.data.plan = stripe[t.ev.sub].plan /\ t.data.status = stripe[t.ev.sub].status
           /\ t.pc = "save" /\ (Told \/ t.ev.kind \in Telling) => Good(t.row)
           /\ t.pc \in {"latest", "owner", "upsert"} /\ t.ev.kind = "checkout" => Good(row)
           /\ t.pc = "save" /\ t.ev.kind = "checkout" /\ row.plan # Free /\ row.link # None => t.row.anchor = row.anchor
  BY Going
<1> QED BY <1>1, <1>2, <1>3, <1>4, HookMoves

\* A checkout takes the subscription as Stripe has it now.
LEMMA RetrieveStep ==
  ASSUME TypeOK, BillingInv, NEW a \in Apis, Retrieve(a)
  PROVE  TypeOK' /\ BillingInv'
<1> DEFINE d == [hook[a].data EXCEPT !.plan = stripe[Sub(a)].plan, !.status = stripe[Sub(a)].status]
           t == [hook[a] EXCEPT !.pc = "read", !.data = d]
<1>1. Goes(a, t) /\ UNCHANGED <<row, invoices, stripeVars, pending, acked, request, faults>> /\ hook[a] # Idle
  BY DEF Retrieve, At, Idle
<1>2. hook[a] \in Task /\ Sub(a) \in Subs /\ stripe[Sub(a)].status # "none" /\ hook[a].data \in Webhooks
  BY <1>1, Going, HookFacts
<1>3. stripe[Sub(a)].plan \in Plans /\ stripe[Sub(a)].status \in {"active", "past_due", "canceled"}
  BY <1>2, SoldFacts DEF BillingInv
<1>4. d \in Webhooks /\ d.plan = stripe[Sub(a)].plan /\ d.status = stripe[Sub(a)].status
      /\ d.bill = hook[a].data.bill /\ d.invoice = hook[a].data.invoice
  BY <1>2, <1>3 DEF Webhooks
<1>5. t \in Task /\ t.ev = hook[a].ev /\ t.data = d /\ t.pc = "read"
  <2> HIDE DEF d
  <2> QED BY <1>2, <1>4 DEF Task, HookSteps
<1>6. NoDecline => Bought(d)
  BY <1>1, <1>4, Going DEF Bought
<1> HIDE DEF t, d
<1> QED BY <1>1, <1>4, <1>5, <1>6, SameWebhook

\* A checkout asks for the latest invoice, once the row is saved.
LEMMA SyncStep ==
  ASSUME TypeOK, BillingInv, NEW a \in Apis, SyncLatestInvoice(a)
  PROVE  TypeOK' /\ BillingInv'
<1> DEFINE d == [hook[a].data EXCEPT !.bill = stripe[Sub(a)].bill, !.invoice = Latest(Sub(a))]
           t == [hook[a] EXCEPT !.pc = "owner", !.data = d]
<1>1. /\ Goes(a, t) /\ UNCHANGED <<row, invoices, stripeVars, pending, acked, request, faults>> /\ hook[a] # Idle
      /\ hook[a].pc = "latest" /\ hook[a].ev.kind = "checkout"
  BY DEF SyncLatestInvoice, At, Idle
<1>2. hook[a] \in Task /\ Sub(a) \in Subs /\ stripe[Sub(a)].status # "none" /\ hook[a].data \in Webhooks
  BY <1>1, Going, HookFacts
<1>3. stripe[Sub(a)].bill \in 1..MaxBills /\ stripe[Sub(a)].bill \in 0..MaxBills /\ Latest(Sub(a)) \in {"none", "open", "paid"}
  BY <1>2, SoldFacts DEF BillingInv
<1>4. d \in Webhooks /\ d.plan = hook[a].data.plan /\ d.status = hook[a].data.status
      /\ d.bill = stripe[Sub(a)].bill /\ d.invoice = Latest(Sub(a))
  BY <1>2, <1>3 DEF Webhooks
<1>5. t \in Task /\ t.ev = hook[a].ev /\ t.data = d /\ t.pc = "owner"
  <2> HIDE DEF d
  <2> QED BY <1>2, <1>4 DEF Task, HookSteps
<1>6. NoDecline => Bought(d)
  BY <1>2, <1>3, <1>4 DEF Bought, BillingInv, Paid
<1>7. Orderly => Good(row)
  BY <1>1 DEF BillingInv, RowFollows
<1>8. Orderly => d.plan = stripe[Sub(a)].plan /\ d.status = stripe[Sub(a)].status
  BY <1>1, <1>4, Going
<1> HIDE DEF t, d
<1> QED BY <1>1, <1>5, <1>6, <1>7, <1>8, SameWebhook

\* The owner of the invoice is found, or the webhook refused.
LEMMA ResolveStep ==
  ASSUME TypeOK, BillingInv, NEW a \in Apis, ResolveOwner(a)
  PROVE  TypeOK' /\ BillingInv'
<1>1. /\ UNCHANGED <<row, invoices, stripeVars, pending, acked, request, faults>> /\ hook[a] # Idle
      /\ hook[a].pc = "owner" /\ (Step(a, "upsert") \/ Refuses(a))
  BY DEF ResolveOwner, At, Idle
<1>2. CASE Refuses(a)
  BY <1>1, <1>2, RefusesStep
<1>3. CASE Step(a, "upsert")
  <2> DEFINE t == [hook[a] EXCEPT !.pc = "upsert"]
  <2>1. hook[a] \in Task
    BY <1>1, Going
  <2>2. t \in Task /\ t.ev = hook[a].ev /\ t.data = hook[a].data /\ t.pc = "upsert"
    BY <2>1 DEF Task, HookSteps
  <2>3. Orderly /\ hook[a].ev.kind = "checkout" => Good(row)
    BY <1>1 DEF BillingInv, RowFollows
  <2>4. Goes(a, t)
    BY <1>3 DEF Step
  <2>5. NoDecline => Bought(t.data)
    BY <1>1, <2>2, Going
  <2>6. Orderly => t.data.plan = stripe[Sub(a)].plan /\ t.data.status = stripe[Sub(a)].status
    BY <1>1, <2>2, Going
  <2> HIDE DEF t
  <2> QED BY <1>1, <2>2, <2>3, <2>4, <2>5, <2>6, SameWebhook
<1> QED BY <1>1, <1>2, <1>3

\* A handler has the row it will save.
LEMMA WritesStep ==
  ASSUME TypeOK, BillingInv, NEW a \in Apis, NEW r \in Rows, Writes(a, r), hook[a] # Idle,
         UNCHANGED <<row, invoices, stripeVars, pending, acked, request, faults>>,
         Orderly /\ (Told \/ hook[a].ev.kind \in Telling) => Good(r),
         hook[a].ev.kind = "checkout" /\ row.plan # Free /\ row.link # None => r.anchor = row.anchor
  PROVE  TypeOK' /\ BillingInv'
<1> DEFINE t == [hook[a] EXCEPT !.pc = "save", !.row = r]
<1>1. Goes(a, t) /\ hook[a] \in Task /\ faults' \in 0..MaxFaults
  BY Going DEF Writes, TypeOK
<1>2. t \in Task /\ t.ev = hook[a].ev /\ t.data = hook[a].data /\ t.pc = "save" /\ t.row = r
  BY <1>1 DEF Task, HookSteps
<1>3. stripe[t.ev.sub].status # "none"
  BY <1>2, Going
<1>4. NoDecline => Bought(t.ev) /\ Bought(t.data)
  BY <1>2, Going
<1>5. t # Idle /\ Orderly =>
           /\ t.ev \in pending /\ t.data.plan = stripe[t.ev.sub].plan /\ t.data.status = stripe[t.ev.sub].status
           /\ t.pc = "save" /\ (Told \/ t.ev.kind \in Telling) => Good(t.row)
           /\ t.pc \in {"latest", "owner", "upsert"} /\ t.ev.kind = "checkout" => Good(row)
           /\ t.pc = "save" /\ t.ev.kind = "checkout" /\ row.plan # Free /\ row.link # None => t.row.anchor = row.anchor
  <2> HIDE DEF t
  <2> QED BY <1>2, Going
<1> HIDE DEF t
<1> QED BY <1>1, <1>2, <1>3, <1>4, <1>5, HookMoves

\* A row that takes plan, status and link of the open webhook's subscription
\* says what Stripe says.
LEMMA Takes ==
  ASSUME TypeOK, BillingInv, Orderly, NEW a \in Apis, hook[a] # Idle, NEW r,
         hook[a].ev.kind # "deleted",
         r.link = Sub(a), r.plan = stripe[Sub(a)].plan, r.status = MapBillingStatus(stripe[Sub(a)].status)
  PROVE  Good(r)
<1>1. hook[a].ev \in pending /\ Current(hook[a].ev) /\ Sub(a) \in Subs /\ hook[a].ev.sub = Sub(a)
  BY Going
<1>2. stripe[Sub(a)].status \in {"active", "past_due"}
  <2>1. stripe[Sub(a)].status \in {"active", "past_due", "canceled"}
    BY <1>1, Going, SoldFacts DEF BillingInv
  <2> QED BY <1>1, <2>1 DEF Current
<1>3. Matches(r)
  BY <1>1, <1>2, BillingAssumption DEF Matches, Live
<1>4. \A e \in pending : r.link = e.sub
  BY <1>1 DEF BillingInv, OneChange
<1> QED BY <1>3, <1>4 DEF Good

\* What Stripe's status becomes in the row.
LEMMA Statuses ==
  /\ \A s \in {"active", "past_due", "canceled"} : MapBillingStatus(s) \in {"active", "past_due", "cancelled"}
  /\ MapBillingStatus("active") = "active" /\ MapBillingStatus("past_due") = "past_due"
BY DEF MapBillingStatus

\* The row takes the subscription the checkout made.
LEMMA CheckoutStep ==
  ASSUME TypeOK, BillingInv, NEW a \in Apis, CheckoutCompleted(a)
  PROVE  TypeOK' /\ BillingInv'
<1> DEFINE wasFree == row.plan = Free \/ row.link = None
           anchor == IF wasFree THEN Sub(a) ELSE row.anchor
           r == ApplyUpdate(row, hook[a].data.plan, MapBillingStatus(hook[a].data.status), Customer(a), Sub(a), anchor)
<1>1. /\ Writes(a, r) /\ UNCHANGED <<row, invoices, stripeVars, pending, acked, request, faults>>
      /\ hook[a] # Idle /\ hook[a].ev.kind = "checkout"
  BY DEF CheckoutCompleted, At, Idle
<1>2. /\ row \in Rows /\ hook[a].data.plan \in Plans \cup {Free} /\ Sub(a) \in SubsOrNone /\ Customer(a) \in SubsOrNone
      /\ MapBillingStatus(hook[a].data.status) \in {"active", "past_due", "cancelled"}
  BY <1>1, Going, HookFacts, Statuses DEF TypeOK, Webhooks, SubsOrNone
<1>3. anchor \in SubsOrNone
  BY <1>2 DEF Rows
<1>4. /\ r \in Rows /\ r.plan = hook[a].data.plan /\ r.status = MapBillingStatus(hook[a].data.status)
      /\ r.link = Sub(a) /\ r.anchor = anchor
  <2> HIDE DEF anchor
  <2> QED BY <1>2, <1>3 DEF ApplyUpdate, Rows
<1>5. Orderly => Good(r)
  <2> HIDE DEF r, anchor
  <2> QED BY <1>1, <1>4, Going, Takes
<1>6. row.plan # Free /\ row.link # None => r.anchor = row.anchor
  BY <1>4
<1> HIDE DEF r, anchor, wasFree
<1> QED BY <1>1, <1>4, <1>5, <1>6, WritesStep

\* The linked row takes a change made at Stripe.
LEMMA UpdatedStep ==
  ASSUME TypeOK, BillingInv, NEW a \in Apis, SubscriptionUpdated(a)
  PROVE  TypeOK' /\ BillingInv'
<1> DEFINE r == ApplyUpdate(row, hook[a].data.plan, MapBillingStatus(hook[a].data.status), Customer(a), Sub(a), row.anchor)
<1>1. /\ UNCHANGED <<row, invoices, stripeVars, pending, acked, request, faults>> /\ (Writes(a, r) \/ Refuses(a))
      /\ hook[a] # Idle /\ hook[a].ev.kind = "updated"
  BY DEF SubscriptionUpdated, At, Idle
<1>2. /\ row \in Rows /\ hook[a].data.plan \in Plans \cup {Free} /\ Sub(a) \in SubsOrNone /\ Customer(a) \in SubsOrNone
      /\ MapBillingStatus(hook[a].data.status) \in {"active", "past_due", "cancelled"} /\ row.anchor \in SubsOrNone
  BY <1>1, Going, HookFacts, Statuses DEF TypeOK, Webhooks, SubsOrNone, Rows
<1>3. /\ r \in Rows /\ r.plan = hook[a].data.plan /\ r.status = MapBillingStatus(hook[a].data.status)
      /\ r.link = Sub(a)
  BY <1>2 DEF ApplyUpdate, Rows
<1>4. Orderly => Good(r)
  <2> HIDE DEF r
  <2> QED BY <1>1, <1>3, Going, Takes
<1> HIDE DEF r
<1>5. CASE Writes(a, r)
  BY <1>1, <1>3, <1>4, <1>5, WritesStep
<1>6. CASE Refuses(a)
  BY <1>1, <1>6, RefusesStep
<1> QED BY <1>1, <1>5, <1>6

\* A payment confirms what a row that is in line says.
LEMMA PaymentGood ==
  ASSUME TypeOK, BillingInv, Orderly, NEW a \in Apis, hook[a] # Idle, hook[a].ev.kind \in {"paid", "failed"},
         Told, NEW r, r.link = Sub(a), r.plan = row.plan,
         r.status = IF hook[a].ev.kind = "paid" THEN "active" ELSE "past_due"
  PROVE  Good(r)
<1>1. hook[a].ev \in pending /\ Current(hook[a].ev) /\ Sub(a) \in Subs /\ hook[a].ev.sub = Sub(a)
  BY Going
<1>2. Matches(row) /\ row.link = Sub(a)
  BY <1>1 DEF BillingInv, RowFollows, Good
<1>3. row.plan = stripe[Sub(a)].plan
  BY <1>1, <1>2, BillingAssumption DEF Matches
<1>4. r.status = MapBillingStatus(stripe[Sub(a)].status)
  BY <1>1, Statuses DEF Current
<1> QED BY <1>2, <1>3, <1>4, Takes

\* The row takes the outcome of a payment, or the webhook is refused.
LEMMA PaymentStep ==
  ASSUME TypeOK, BillingInv, NEW a \in Apis, InvoicePayment(a)
  PROVE  TypeOK' /\ BillingInv'
<1> DEFINE status == IF hook[a].ev.kind = "paid" THEN "active" ELSE "past_due"
           r == ApplyUpdate(row, row.plan, status, Customer(a), Sub(a), row.anchor)
<1>1. /\ UNCHANGED <<row, invoices, stripeVars, pending, acked, request, faults>> /\ (Writes(a, r) \/ Refuses(a))
      /\ hook[a] # Idle /\ hook[a].ev.kind \in {"paid", "failed"}
  BY DEF InvoicePayment, At, Idle
<1>2. /\ row \in Rows /\ row.plan \in Plans \cup {Free} /\ Sub(a) \in SubsOrNone /\ Customer(a) \in SubsOrNone
      /\ status \in {"active", "past_due", "cancelled"} /\ row.anchor \in SubsOrNone
  BY <1>1, Going DEF TypeOK, SubsOrNone, Rows
<1>3. r \in Rows /\ r.plan = row.plan /\ r.status = status /\ r.link = Sub(a)
  <2> HIDE DEF status
  <2> QED BY <1>2 DEF ApplyUpdate, Rows
<1>4. Orderly /\ Told => Good(r)
  <2> HIDE DEF r
  <2> QED BY <1>1, <1>3, PaymentGood
<1>5. hook[a].ev.kind \notin Telling /\ hook[a].ev.kind # "checkout"
  BY <1>1 DEF Telling
<1> HIDE DEF r, status
<1>6. CASE Writes(a, r)
  BY <1>1, <1>3, <1>4, <1>5, <1>6, WritesStep
<1>7. CASE Refuses(a)
  BY <1>1, <1>7, RefusesStep
<1> QED BY <1>1, <1>6, <1>7

\* A notice saves the row as it was read, or is refused.
LEMMA NoticeStep ==
  ASSUME TypeOK, BillingInv, NEW a \in Apis, RenewalUpcoming(a) \/ PaymentMethodExpiring(a)
  PROVE  TypeOK' /\ BillingInv'
<1>1. /\ UNCHANGED <<row, invoices, stripeVars, pending, acked, request, faults>> /\ (Writes(a, row) \/ Refuses(a))
      /\ hook[a] # Idle /\ hook[a].ev.kind \in {"upcoming", "expiring"}
  BY DEF RenewalUpcoming, PaymentMethodExpiring, At, Idle
<1>2. hook[a].ev.kind \notin Telling /\ hook[a].ev.kind # "checkout" /\ row \in Rows
  BY <1>1 DEF Telling, TypeOK
<1>3. Orderly /\ Told => Good(row)
  BY DEF BillingInv, RowFollows
<1>4. CASE Writes(a, row)
  BY <1>1, <1>2, <1>3, <1>4, WritesStep
<1>5. CASE Refuses(a)
  BY <1>1, <1>5, RefusesStep
<1> QED BY <1>1, <1>4, <1>5

-----------------------------------------------------------------------------
(* Webhooks answered *)

\* A webhook is answered with 200: the row may be saved with it, or its invoice.
LEMMA AnswersStep ==
  ASSUME TypeOK, BillingInv, NEW a \in Apis, hook[a] # Idle, Accepts(a),
         UNCHANGED <<stripeVars, request, faults>>,
         row' \in Rows, invoices' \in [Bills -> {"none", "open", "paid"}],
         NoDecline => \A b \in Bills : invoices'[b] # "open" /\ (invoices[b] = "paid" => invoices'[b] = "paid"),
         NoDecline /\ hook[a].ev.kind = "checkout" =>
            \E n \in 1..MaxBills : invoices'[<<Sub(a), n>>] = "paid",
         Orderly =>
            /\ Told' => Good(row)'
            /\ \A e \in pending \ {hook[a].ev} : e.kind = "deleted" => row'.link = e.sub \/ Matches(row)'
  PROVE  TypeOK' /\ BillingInv'
<1> DEFINE ev == hook[a].ev
<1>1. /\ pending' = pending \ {ev} /\ acked' = acked \cup {ev} /\ Goes(a, Idle)
      /\ UNCHANGED <<session, stripe, bills, changes, request, faults>>
  BY DEF Accepts, stripeVars
<1>2. hook' \in [Apis -> {Idle} \cup Task] /\ hook'[a] = Idle /\ \A b \in Apis \ {a} : hook'[b] = hook[b]
  BY <1>1, HookReplaced
<1>3. ev \in Webhooks /\ Sub(a) = ev.sub /\ Sub(a) \in Subs
  BY HookFacts
<1> HIDE DEF ev
<1>4. TypeOK'
  BY <1>1, <1>2, <1>3 DEF TypeOK
<1>5. Sold'
  BY <1>1, <1>2, <1>3, Going DEF BillingInv, Sold, Sub
<1>6. ASSUME NoDecline PROVE Paid' /\ FirstInvoiceStored'
  <2>1. Bought(ev)
    BY <1>6, Going DEF ev
  <2>2. Paid'
    BY <1>1, <1>2, <1>6, <2>1 DEF BillingInv, Paid, Bought, Latest
  <2>3. ASSUME NEW e \in acked', e.kind = "checkout" PROVE \E n \in 1..MaxBills : invoices'[<<e.sub, n>>] = "paid"
    <3>1. CASE e = ev
      BY <1>3, <1>6, <2>3, <3>1 DEF ev
    <3>2. CASE e \in acked
      <4>1. PICK n \in 1..MaxBills : invoices[<<e.sub, n>>] = "paid"
        BY <1>6, <2>3, <3>2 DEF BillingInv, FirstInvoiceStored
      <4>2. <<e.sub, n>> \in Bills
        BY <3>2 DEF TypeOK, Webhooks, Bills
      <4> QED BY <1>6, <4>1, <4>2
    <3> QED BY <1>1, <2>3, <3>1, <3>2
  <2> QED BY <2>2, <2>3 DEF FirstInvoiceStored
<1>7. ASSUME Orderly PROVE OneChange' /\ RowFollows' /\ AnchorHeld'
  <2>1. \A b \in Apis : b = a
    BY <1>7 DEF Orderly
  <2>2. \A b \in Apis : hook'[b] = Idle /\ hook'[b].pc = "idle"
    BY <1>2, <2>1 DEF Idle
  <2>3. OneChange'
    BY <1>1, <1>7, <2>2 DEF BillingInv, OneChange, Current
  <2>4. request.pc = "save" => Good(request.row)' /\ \A e \in pending' : e.kind # "checkout"
    BY <1>1, <1>7 DEF BillingInv, RowFollows, Good, Matches, Live
  <2>5. RowFollows'
    BY <1>1, <1>7, <2>2, <2>4 DEF RowFollows, ev
  <2>6. AnchorHeld'
    BY <2>2 DEF AnchorHeld, At
  <2> QED BY <2>3, <2>5, <2>6
<1> QED BY <1>4, <1>5, <1>6, <1>7 DEF BillingInv, NoDecline, Orderly

\* The row falls back to the free plan, or was not linked.
LEMMA DeletedStep ==
  ASSUME TypeOK, BillingInv, NEW a \in Apis, SubscriptionDeleted(a)
  PROVE  TypeOK' /\ BillingInv'
<1> DEFINE r == DowngradeToFree(row)
<1>1. /\ UNCHANGED <<row, invoices, stripeVars, request, faults>> /\ hook[a] # Idle /\ hook[a].ev.kind = "deleted"
      /\ \/ row.link = Sub(a) /\ Writes(a, r) /\ UNCHANGED <<pending, acked>>
         \/ row.link # Sub(a) /\ Accepts(a)
  BY DEF SubscriptionDeleted, At, Idle
<1>2. Orderly => hook[a].ev \in pending /\ hook[a].ev.sub = Sub(a) /\ \A e \in pending : e = hook[a].ev
  BY <1>1, Going DEF BillingInv, OneChange
<1>3. CASE row.link = Sub(a) /\ Writes(a, r) /\ UNCHANGED <<pending, acked>>
  <2>1. row \in Rows
    BY DEF TypeOK
  <2>2. r \in Rows /\ r.link = None /\ r.plan = Free /\ r.status = "active"
    BY <2>1 DEF DowngradeToFree, ApplyUpdate, Rows, SubsOrNone
  <2>3. Orderly => Good(r)
    <3> HIDE DEF r
    <3> QED BY <1>1, <1>2, <2>2, FreeRow DEF Good
  <2> HIDE DEF r
  <2> QED BY <1>1, <1>3, <2>2, <2>3, WritesStep
<1>4. CASE row.link # Sub(a) /\ Accepts(a)
  <2>1. row' \in Rows /\ invoices' \in [Bills -> {"none", "open", "paid"}]
    BY <1>1 DEF TypeOK
  <2>2. Orderly => (Told' => Good(row)') /\ \A e \in pending \ {hook[a].ev} : e.kind = "deleted" => row'.link = e.sub \/ Matches(row)'
    <3> SUFFICES ASSUME Orderly PROVE Good(row)' /\ pending \ {hook[a].ev} = {}
      OBVIOUS
    <3>1. pending \ {hook[a].ev} = {} /\ pending' = {}
      BY <1>2, <1>4 DEF Accepts
    <3>2. Matches(row)
      BY <1>1, <1>2, <1>4 DEF BillingInv, RowFollows
    <3>3. Matches(row)'
      BY <1>1, <3>2 DEF Matches, Live, stripeVars
    <3> QED BY <3>1, <3>3 DEF Good
  <2>3. NoDecline => \A b \in Bills : invoices'[b] # "open" /\ (invoices[b] = "paid" => invoices'[b] = "paid")
    BY <1>1 DEF BillingInv, Paid
  <2> QED BY <1>1, <1>4, <2>1, <2>2, <2>3, AnswersStep
<1> QED BY <1>1, <1>3, <1>4

\* The row is saved: the webhook is answered, or a checkout goes on to its invoice.
LEMMA SaveStep ==
  ASSUME TypeOK, BillingInv, NEW a \in Apis, SaveRow(a)
  PROVE  TypeOK' /\ BillingInv'
<1>1. /\ row' = hook[a].row /\ UNCHANGED <<invoices, session, stripe, bills, changes, request, faults>>
      /\ UNCHANGED stripeVars /\ hook[a] # Idle /\ hook[a].pc = "save" /\ hook[a].row \in Rows
      /\ \/ hook[a].ev.kind = "checkout" /\ Step(a, "latest") /\ UNCHANGED <<pending, acked>>
         \/ hook[a].ev.kind # "checkout" /\ Accepts(a)
  <2>1. hook[a] # Idle
    BY DEF SaveRow, Idle
  <2> QED BY <2>1, HookFacts DEF SaveRow, stripeVars
<1>2. \A r : Matches(r)' = Matches(r')
  BY <1>1 DEF Matches, Live
<1>3. Orderly => hook[a].ev \in pending /\ \A e \in pending : e.kind = "deleted" => e = hook[a].ev
  BY <1>1, Going DEF BillingInv, OneChange
<1>4. CASE hook[a].ev.kind # "checkout" /\ Accepts(a)
  <2>1. row' \in Rows /\ invoices' \in [Bills -> {"none", "open", "paid"}]
    BY <1>1 DEF TypeOK
  <2>2. Orderly => (Told' => Good(row)') /\ \A e \in pending \ {hook[a].ev} : e.kind = "deleted" => row'.link = e.sub \/ Matches(row)'
    <3> SUFFICES ASSUME Orderly, Told' PROVE Good(row)'
      BY <1>3
    <3>1. pending' = pending \ {hook[a].ev}
      BY <1>4 DEF Accepts
    <3>2. Told \/ hook[a].ev.kind \in Telling
      BY <3>1 DEF Told
    <3>3. Good(hook[a].row)
      BY <1>1, <3>2 DEF BillingInv, RowFollows
    <3> QED BY <1>1, <3>1, <3>3 DEF Good, Matches, Live
  <2>3. NoDecline => \A b \in Bills : invoices'[b] # "open" /\ (invoices[b] = "paid" => invoices'[b] = "paid")
    BY <1>1 DEF BillingInv, Paid
  <2> QED BY <1>1, <1>4, <2>1, <2>2, <2>3, AnswersStep
<1>5. CASE hook[a].ev.kind = "checkout" /\ Step(a, "latest") /\ UNCHANGED <<pending, acked>>
  <2> DEFINE t == [hook[a] EXCEPT !.pc = "latest"]
  <2>1. hook[a] \in Task
    BY <1>1, Going
  <2>2. t \in Task /\ t.ev = hook[a].ev /\ t.data = hook[a].data /\ t.pc = "latest"
    BY <2>1 DEF Task, HookSteps
  <2>3. hook' \in [Apis -> {Idle} \cup Task] /\ hook'[a] = t /\ \A b \in Apis \ {a} : hook'[b] = hook[b]
    <3> HIDE DEF t
    <3>1. Goes(a, t)
      BY <1>5 DEF Step, t
    <3> QED BY <2>2, <3>1, HookReplaced
  <2> HIDE DEF t
  <2>4. TypeOK'
    BY <1>1, <1>5, <2>3 DEF TypeOK
  <2>5. Sold'
    BY <1>1, <1>5, <2>2, <2>3 DEF BillingInv, Sold, Sub
  <2>6. NoDecline => Paid' /\ FirstInvoiceStored'
    BY <1>1, <1>5, <2>2, <2>3 DEF BillingInv, Paid, FirstInvoiceStored, Bought, Latest
  <2>7. ASSUME Orderly PROVE OneChange' /\ RowFollows' /\ AnchorHeld'
    <3>1. \A b \in Apis : b = a
      BY <2>7 DEF Orderly
    <3>2. hook[a].ev.kind \in Telling /\ Good(hook[a].row)
      BY <1>1, <1>5, <2>7 DEF BillingInv, RowFollows, Telling
    <3>3. Good(row)'
      BY <1>1, <1>5, <3>2 DEF Good, Matches, Live
    <3>4. OneChange'
      BY <1>1, <1>5, <2>2, <2>3, <2>7, <3>1 DEF BillingInv, OneChange, Current, Sub
    <3>5. request.pc # "save"
      BY <1>3, <1>5, <2>7 DEF BillingInv, RowFollows
    <3>6. ASSUME NEW e \in pending' PROVE e.kind = "deleted" => row'.link = e.sub \/ Matches(row)'
      BY <3>3 DEF Good
    <3>7. RowFollows'
      BY <1>1, <2>2, <2>3, <3>1, <3>3, <3>5, <3>6 DEF RowFollows
    <3>8. AnchorHeld'
      BY <2>2, <2>3, <3>1 DEF AnchorHeld, At
    <3> QED BY <3>4, <3>7, <3>8
  <2> QED BY <2>4, <2>5, <2>6, <2>7 DEF BillingInv, NoDecline, Orderly
<1> QED BY <1>1, <1>4, <1>5

\* The invoice is stored: a checkout is answered, a payment goes on to the row.
LEMMA UpsertStep ==
  ASSUME TypeOK, BillingInv, NEW a \in Apis, UpsertInvoice(a)
  PROVE  TypeOK' /\ BillingInv'
<1> DEFINE b == <<Sub(a), hook[a].data.bill>>
           i == hook[a].data.invoice
<1>1. /\ UNCHANGED <<row, session, stripe, bills, changes, request, faults>> /\ UNCHANGED stripeVars
      /\ hook[a] # Idle /\ hook[a].pc = "upsert" /\ invoices' = [invoices EXCEPT ![b] = i]
      /\ \/ hook[a].ev.kind = "checkout" /\ Accepts(a)
         \/ hook[a].ev.kind # "checkout" /\ Step(a, "read") /\ UNCHANGED <<pending, acked>>
  BY DEF UpsertInvoice, At, Idle, stripeVars
<1>2. i \in {"none", "open", "paid"} /\ Sub(a) \in Subs
  BY <1>1, HookFacts DEF Webhooks
<1>3. invoices' \in [Bills -> {"none", "open", "paid"}]
  <2> HIDE DEF b, i
  <2> QED BY <1>1, <1>2 DEF TypeOK
<1>4. ASSUME NoDecline
      PROVE  /\ \A c \in Bills : invoices'[c] # "open" /\ (invoices[c] = "paid" => invoices'[c] = "paid")
             /\ \E n \in 1..MaxBills : invoices'[<<Sub(a), n>>] = "paid"
  <2>1. hook[a].data.bill \in 1..MaxBills /\ i = "paid"
    BY <1>1, <1>4, Going DEF Bought
  <2>2. b \in Bills
    BY <1>2, <2>1 DEF Bills
  <2>3. invoices'[b] = "paid" /\ \A c \in Bills \ {b} : invoices'[c] = invoices[c]
    <3> HIDE DEF b, i
    <3> QED BY <1>1, <2>1, <2>2 DEF TypeOK
  <2>4. \A c \in Bills : invoices[c] # "open"
    BY <1>4 DEF BillingInv, Paid
  <2>5. \A c \in Bills : invoices'[c] # "open" /\ (invoices[c] = "paid" => invoices'[c] = "paid")
    <3> HIDE DEF b, i
    <3> QED BY <2>3, <2>4
  <2> QED BY <2>1, <2>3, <2>5
<1> HIDE DEF b, i
<1>5. CASE hook[a].ev.kind = "checkout" /\ Accepts(a)
  <2>1. Orderly => (Told' => Good(row)') /\ \A e \in pending \ {hook[a].ev} : e.kind = "deleted" => row'.link = e.sub \/ Matches(row)'
    <3> SUFFICES ASSUME Orderly PROVE Good(row)' /\ Matches(row)'
      OBVIOUS
    <3>1. Good(row)
      BY <1>1, <1>5 DEF BillingInv, RowFollows
    <3> QED BY <1>1, <1>5, <3>1 DEF Good, Matches, Live, Accepts
  <2>2. row' \in Rows
    BY <1>1 DEF TypeOK
  <2> QED BY <1>1, <1>3, <1>4, <1>5, <2>1, <2>2, AnswersStep
<1>6. CASE hook[a].ev.kind # "checkout" /\ Step(a, "read") /\ UNCHANGED <<pending, acked>>
  <2> DEFINE t == [hook[a] EXCEPT !.pc = "read"]
  <2>1. hook[a] \in Task
    BY <1>1, Going
  <2>2. t \in Task /\ t.ev = hook[a].ev /\ t.data = hook[a].data /\ t.pc = "read"
    BY <2>1 DEF Task, HookSteps
  <2>3. hook' \in [Apis -> {Idle} \cup Task] /\ hook'[a] = t /\ \A c \in Apis \ {a} : hook'[c] = hook[c]
    <3> HIDE DEF t
    <3>1. Goes(a, t)
      BY <1>6 DEF Step, t
    <3> QED BY <2>2, <3>1, HookReplaced
  <2> HIDE DEF t
  <2>4. TypeOK'
    BY <1>1, <1>3, <1>6, <2>3 DEF TypeOK
  <2>5. Sold'
    BY <1>1, <1>6, <2>2, <2>3 DEF BillingInv, Sold, Sub
  <2>6. ASSUME NoDecline PROVE Paid' /\ FirstInvoiceStored'
    <3>1. Paid'
      BY <1>1, <1>4, <1>6, <2>2, <2>3, <2>6 DEF BillingInv, Paid, Bought, Latest
    <3>2. ASSUME NEW e \in acked, NEW n \in 1..MaxBills, invoices[<<e.sub, n>>] = "paid"
          PROVE  invoices'[<<e.sub, n>>] = "paid"
      <4>1. <<e.sub, n>> \in Bills
        BY DEF TypeOK, Webhooks, Bills
      <4> QED BY <1>4, <2>6, <3>2, <4>1
    <3> QED BY <1>6, <2>6, <3>1, <3>2 DEF BillingInv, FirstInvoiceStored
  <2>7. ASSUME Orderly PROVE OneChange' /\ RowFollows' /\ AnchorHeld'
    <3>1. \A c \in Apis : c = a
      BY <2>7 DEF Orderly
    <3>2. OneChange'
      BY <1>1, <1>6, <2>2, <2>3, <2>7, <3>1 DEF BillingInv, OneChange, Current, Sub
    <3>3. RowFollows'
      BY <1>1, <1>6, <2>2, <2>3, <2>7, <3>1 DEF BillingInv, RowFollows, Told, Good, Matches, Live
    <3>4. AnchorHeld'
      BY <2>2, <2>3, <3>1 DEF AnchorHeld, At
    <3> QED BY <3>2, <3>3, <3>4
  <2> QED BY <2>4, <2>5, <2>6, <2>7 DEF BillingInv, NoDecline, Orderly
<1> QED BY <1>1, <1>5, <1>6

\* Every step of a handler.
LEMMA HookStep ==
  ASSUME TypeOK, BillingInv, NEW a \in Apis, HookNext(a)
  PROVE  TypeOK' /\ BillingInv'
BY RetrieveStep, CheckoutStep, UpdatedStep, DeletedStep, PaymentStep, NoticeStep, SaveStep, SyncStep,
   ResolveStep, UpsertStep DEF HookNext

-----------------------------------------------------------------------------
(* Changes at Stripe *)

SubAtStripe == [status : {"active", "past_due", "canceled"}, plan : Plans, customer : SubsOrNone, bill : 1..MaxBills]

\* Stripe's side of a change: the subscription, its latest invoice, and a
\* webhook of each kind that tells of them.
LEMMA Changed ==
  ASSUME TypeOK, Sold, NEW s \in Subs, NEW sub \in SubAtStripe, NEW invoice \in {"none", "open", "paid"},
         NEW kinds \in SUBSET Kinds, AtStripe(s, sub, invoice, kinds)
  PROVE  /\ stripe' \in [Subs -> [status : {"none", "active", "past_due", "canceled"}, plan : Plans \cup {Free},
                                  customer : SubsOrNone, bill : 0..MaxBills]]
         /\ stripe'[s] = sub /\ \A x \in Subs \ {s} : stripe'[x] = stripe[x]
         /\ bills' \in [Bills -> {"none", "open", "paid"}]
         /\ Latest(s)' = invoice /\ \A b \in Bills : bills'[b] = bills[b] \/ bills'[b] = invoice
         /\ \A x \in Subs \ {s} : stripe[x].status # "none" => Latest(x)' = Latest(x)
         /\ changes' \in 0..MaxChanges
         /\ pending \subseteq pending' /\ pending' \subseteq Webhooks
         /\ \A e \in pending' \ pending : /\ e.kind \in kinds /\ e.sub = s /\ e.plan = sub.plan /\ e.status = sub.status
                                          /\ e.bill = sub.bill /\ e.invoice = invoice
         /\ \A k \in kinds : \E e \in pending' : e.kind = k
         /\ \A e, f \in pending' \ pending : e.kind = f.kind => e = f
<1>1. /\ changes < MaxChanges /\ changes' = changes + 1 /\ stripe' = [stripe EXCEPT ![s] = sub]
      /\ bills' = IF sub.bill > 0 THEN [bills EXCEPT ![<<s, sub.bill>>] = invoice] ELSE bills
      /\ pending' = pending \cup {Webhook(k, s, sub, sub.bill, invoice) : k \in kinds}
  BY DEF AtStripe
<1>2. /\ sub.bill \in 1..MaxBills /\ sub.bill \in 0..MaxBills /\ sub.bill > 0 /\ sub.plan \in Plans
      /\ sub.status \in {"active", "past_due", "canceled"} /\ sub.customer \in SubsOrNone
      /\ <<s, sub.bill>> \in Bills
  BY BillingAssumption DEF SubAtStripe, Bills
<1>3. sub \in [status : {"none", "active", "past_due", "canceled"}, plan : Plans \cup {Free},
               customer : SubsOrNone, bill : 0..MaxBills]
  BY <1>2 DEF SubAtStripe
<1>4. /\ stripe' \in [Subs -> [status : {"none", "active", "past_due", "canceled"}, plan : Plans \cup {Free},
                               customer : SubsOrNone, bill : 0..MaxBills]]
      /\ stripe'[s] = sub /\ \A x \in Subs \ {s} : stripe'[x] = stripe[x]
  BY <1>1, <1>3 DEF TypeOK
<1> DEFINE b == <<s, sub.bill>>
<1>5. /\ bills' \in [Bills -> {"none", "open", "paid"}] /\ bills'[b] = invoice
      /\ \A c \in Bills \ {b} : bills'[c] = bills[c]
  <2>1. bills' = [bills EXCEPT ![b] = invoice] /\ b \in Bills
    BY <1>1, <1>2
  <2> HIDE DEF b
  <2> QED BY <2>1 DEF TypeOK
<1>6. Latest(s)' = invoice
  BY <1>4, <1>5 DEF Latest
<1>7. ASSUME NEW x \in Subs \ {s}, stripe[x].status # "none" PROVE Latest(x)' = Latest(x)
  <2>1. <<x, stripe[x].bill>> \in Bills /\ <<x, stripe[x].bill>> # b
    BY <1>7, SoldFacts
  <2> QED BY <1>4, <1>5, <2>1 DEF Latest
<1>8. ASSUME NEW k \in kinds
      PROVE  LET e == Webhook(k, s, sub, sub.bill, invoice)
             IN /\ e \in Webhooks /\ e.kind = k /\ e.sub = s /\ e.plan = sub.plan /\ e.status = sub.status
                /\ e.bill = sub.bill /\ e.invoice = invoice
  <2>1. changes + 1 \in 1..MaxChanges
    BY <1>1, BillingAssumption DEF TypeOK
  <2> QED BY <1>2, <2>1 DEF Webhook, Webhooks
<1>9. pending \subseteq pending' /\ pending' \subseteq Webhooks
  BY <1>1, <1>8 DEF TypeOK
<1>10. \A e \in pending' \ pending : /\ e.kind \in kinds /\ e.sub = s /\ e.plan = sub.plan /\ e.status = sub.status
                                     /\ e.bill = sub.bill /\ e.invoice = invoice
  BY <1>1, <1>8
<1>11. \A e, f \in pending' \ pending : e.kind = f.kind => e = f
  BY <1>1, <1>8
<1>12. \A k \in kinds : \E e \in pending' : e.kind = k
  BY <1>1, <1>8
<1>13. changes' \in 0..MaxChanges
  BY <1>1, BillingAssumption DEF TypeOK
<1> QED BY <1>4, <1>5, <1>6, <1>7, <1>9, <1>10, <1>11, <1>12, <1>13

\* A change at Stripe keeps the invariant when its webhooks fit it.
LEMMA StripeKeeps ==
  ASSUME TypeOK, BillingInv, NEW s \in Subs, NEW sub \in SubAtStripe, NEW invoice \in {"none", "open", "paid"},
         NEW kinds \in SUBSET Kinds, AtStripe(s, sub, invoice, kinds), Prompt => Answered,
         UNCHANGED <<row, invoices, session, acked, hook, faults>>,
         request' \in {NoRequest} \cup Change, request'.pc \in {"price", "save"} => request'.row.link # None,
         NoDecline => invoice = "paid",
         kinds \cap {"checkout", "paid"} # {} => sub.status = "active",
         "failed" \in kinds => sub.status = "past_due",
         \A k \in kinds : k = "deleted" <=> sub.status = "canceled",
         "deleted" \in kinds => kinds = {"deleted"},
         kinds \cap Telling # {} \/ (sub = stripe[s] /\ kinds \cap {"paid", "failed"} = {}),
         Orderly /\ request'.pc = "save" =>
           request'.row.link = s /\ Matches(request.row)' /\ "checkout" \notin kinds
  PROVE  TypeOK' /\ BillingInv'
<1>1. /\ stripe' \in [Subs -> [status : {"none", "active", "past_due", "canceled"}, plan : Plans \cup {Free},
                                  customer : SubsOrNone, bill : 0..MaxBills]]
      /\ stripe'[s] = sub /\ \A x \in Subs \ {s} : stripe'[x] = stripe[x]
      /\ bills' \in [Bills -> {"none", "open", "paid"}]
      /\ Latest(s)' = invoice /\ \A b \in Bills : bills'[b] = bills[b] \/ bills'[b] = invoice
      /\ \A x \in Subs \ {s} : stripe[x].status # "none" => Latest(x)' = Latest(x)
      /\ changes' \in 0..MaxChanges
      /\ pending \subseteq pending' /\ pending' \subseteq Webhooks
      /\ \A e \in pending' \ pending : /\ e.kind \in kinds /\ e.sub = s /\ e.plan = sub.plan /\ e.status = sub.status
                                       /\ e.bill = sub.bill /\ e.invoice = invoice
      /\ \A k \in kinds : \E e \in pending' : e.kind = k
      /\ \A e, f \in pending' \ pending : e.kind = f.kind => e = f
  BY Changed DEF BillingInv
<1>2. sub.status \in {"active", "past_due", "canceled"} /\ sub.plan \in Plans /\ sub.bill \in 1..MaxBills
  BY DEF SubAtStripe
<1>3. TypeOK'
  BY <1>1 DEF TypeOK
<1>4. \A x \in Subs : stripe[x].status # "none" => stripe'[x].status # "none"
  BY <1>1, <1>2
<1>5. Sold'
  <2>1. \A x \in Subs : /\ session[x] # NoSession => session[x].plan \in Plans
                        /\ stripe'[x].status # "none" => stripe'[x].plan \in Plans /\ stripe'[x].bill \in 1..MaxBills
    BY <1>1, <1>2 DEF BillingInv, Sold
  <2>2. \A e \in pending \cup acked : e.sub \in Subs
    BY DEF TypeOK, Webhooks
  <2>3. ASSUME NEW e \in pending' \cup acked PROVE stripe'[e.sub].status # "none"
    <3>1. CASE e \in pending \cup acked
      BY <1>4, <2>2, <3>1 DEF BillingInv, Sold
    <3>2. CASE e \in pending' \ pending
      BY <1>1, <1>2, <3>2
    <3> QED BY <2>3, <3>1, <3>2
  <2>4. ASSUME NEW a \in Apis, hook[a] # Idle PROVE stripe'[hook[a].ev.sub].status # "none"
    BY <1>4, <2>4, Going
  <2> QED BY <2>1, <2>3, <2>4 DEF Sold, Sub
<1>6. ASSUME NoDecline PROVE Paid' /\ FirstInvoiceStored'
  <2>1. invoice = "paid"
    BY <1>6
  <2>2. ASSUME NEW x \in Subs, stripe'[x].status # "none" PROVE Latest(x)' = "paid"
    <3>1. CASE x = s
      BY <1>1, <2>1, <3>1
    <3>2. CASE x # s
      BY <1>1, <1>6, <2>2, <3>2 DEF BillingInv, Paid
    <3> QED BY <3>1, <3>2
  <2>3. ASSUME NEW e \in pending' \cup acked PROVE Bought(e)
    <3>1. CASE e \in pending \cup acked
      BY <1>6, <3>1 DEF BillingInv, Paid
    <3>2. CASE e \in pending' \ pending
      BY <1>1, <1>2, <2>1, <3>2 DEF Bought
    <3> QED BY <2>3, <3>1, <3>2
  <2>4. \A b \in Bills : bills'[b] # "open" /\ invoices[b] # "open"
    BY <1>1, <1>6, <2>1 DEF BillingInv, Paid
  <2>5. Paid'
    BY <1>6, <2>2, <2>3, <2>4 DEF BillingInv, Paid, Bought
  <2> QED BY <1>6, <2>5 DEF BillingInv, FirstInvoiceStored
<1>7. ASSUME Orderly PROVE OneChange' /\ RowFollows' /\ AnchorHeld'
  <2>1. pending = {} /\ \A a \in Apis : hook[a] = Idle /\ hook[a].pc = "idle"
    BY <1>7 DEF Orderly, Answered, Idle
  <2>2. Matches(row)
    BY <1>7, <2>1 DEF BillingInv, RowFollows, Told, Good
  <2>3. \A e \in pending' : Current(e)'
    BY <1>1, <2>1 DEF Current
  <2>4. \A e, f \in pending' : e.sub = f.sub /\ (e.kind = "deleted" => e = f)
    BY <1>1, <2>1
  <2>5. OneChange'
    BY <2>1, <2>3, <2>4 DEF OneChange
  <2>6. ASSUME Told' PROVE Good(row)'
    <3>1. kinds \cap Telling = {}
      BY <1>1, <2>6 DEF Told
    <3>2. stripe' = stripe
      BY <1>1, <3>1 DEF TypeOK
    <3>3. \A e \in pending' : e.kind \notin {"paid", "failed"}
      BY <1>1, <2>1, <3>1
    <3> QED BY <2>2, <3>2, <3>3 DEF Good, Matches, Live
  <2>7. row.link = s \/ Matches(row)'
    <3>1. row.link \in Subs \cup {None}
      BY DEF TypeOK, Rows, SubsOrNone
    <3> QED BY <1>1, <2>2, <3>1 DEF Matches, Live
  <2>8. \A e \in pending' : e.kind = "deleted" => row.link = e.sub \/ Matches(row)'
    BY <1>1, <2>1, <2>7
  <2>9. ASSUME request'.pc = "save" PROVE Good(request.row)' /\ \A e \in pending' : e.kind # "checkout"
    <3>1. request'.row.link = s /\ Matches(request.row)' /\ "checkout" \notin kinds
      BY <1>7, <2>9
    <3> QED BY <1>1, <2>1, <3>1 DEF Good, Matches, Live
  <2>10. RowFollows'
    BY <2>1, <2>6, <2>8, <2>9 DEF RowFollows
  <2>11. AnchorHeld'
    BY <2>1 DEF AnchorHeld, At
  <2> QED BY <2>5, <2>10, <2>11
<1> QED BY <1>3, <1>5, <1>6, <1>7 DEF BillingInv, NoDecline, Orderly

\* The kinds of webhook that go with a change of s to sub.
Fits(s, sub, kinds) ==
  /\ kinds \cap {"checkout", "paid"} # {} => sub.status = "active"
  /\ "failed" \in kinds => sub.status = "past_due"
  /\ \A k \in kinds : k = "deleted" <=> sub.status = "canceled"
  /\ "deleted" \in kinds => kinds = {"deleted"}
  /\ kinds \cap Telling # {} \/ (sub = stripe[s] /\ kinds \cap {"paid", "failed"} = {})

\* A change made at Stripe, when no request of the owner is open if Stripe waits.
LEMMA OwnChange ==
  ASSUME TypeOK, BillingInv, NEW s \in Subs, NEW sub \in SubAtStripe, NEW invoice \in {"none", "open", "paid"},
         NEW kinds \in SUBSET Kinds, AtStripe(s, sub, invoice, kinds), Prompt => Quiet,
         UNCHANGED <<row, invoices, session, acked, hook, request, faults>>,
         NoDecline => invoice = "paid", Fits(s, sub, kinds)
  PROVE  TypeOK' /\ BillingInv'
<1>1. /\ request' \in {NoRequest} \cup Change /\ (request'.pc \in {"price", "save"} => request'.row.link # None)
      /\ UNCHANGED <<row, invoices, session, acked, hook, faults>> /\ (Prompt => Answered)
  BY DEF TypeOK, BillingInv, Sold, Quiet
<1>2. Orderly => request'.pc # "save"
  BY DEF Orderly, Quiet, NoRequest
<1>3. /\ kinds \cap {"checkout", "paid"} # {} => sub.status = "active"
      /\ "failed" \in kinds => sub.status = "past_due"
      /\ \A k \in kinds : k = "deleted" <=> sub.status = "canceled"
      /\ "deleted" \in kinds => kinds = {"deleted"}
      /\ kinds \cap Telling # {} \/ (sub = stripe[s] /\ kinds \cap {"paid", "failed"} = {})
  BY DEF Fits
<1> QED BY <1>1, <1>2, <1>3, StripeKeeps

\* A live subscription at Stripe, and its latest invoice.
LEMMA LiveFacts ==
  ASSUME TypeOK, BillingInv, NEW s \in Subs, Live(s)
  PROVE  /\ stripe[s] \in SubAtStripe /\ stripe[s].status \in {"active", "past_due"}
         /\ Latest(s) \in {"none", "open", "paid"} /\ (NoDecline => Latest(s) = "paid")
<1>1. stripe[s] \in [status : {"none", "active", "past_due", "canceled"}, plan : Plans \cup {Free},
                           customer : SubsOrNone, bill : 0..MaxBills]
      /\ stripe[s].plan \in Plans /\ stripe[s].bill \in 1..MaxBills /\ stripe[s].status # "none"
      /\ Latest(s) \in {"none", "open", "paid"} /\ stripe[s].status \in {"active", "past_due"}
  BY SoldFacts DEF BillingInv, Live
<1>2. stripe[s] \in SubAtStripe
  BY <1>1 DEF SubAtStripe
<1> QED BY <1>1, <1>2 DEF BillingInv, Paid

\* A checkout session is completed.
LEMMA CompleteStep ==
  ASSUME TypeOK, BillingInv, NEW s \in Subs, CompleteCheckout(s)
  PROVE  TypeOK' /\ BillingInv'
<1> DEFINE sub == [status |-> "active", plan |-> session[s].plan, bill |-> 1,
                   customer |-> IF session[s].customer = None THEN s ELSE session[s].customer]
           kinds == {"checkout", "paid"}
<1>1. /\ session[s] # NoSession /\ (Prompt => Quiet) /\ AtStripe(s, sub, "paid", kinds)
      /\ UNCHANGED <<row, invoices, session, acked, hook, request, faults>>
  BY DEF CompleteCheckout
<1>2. session[s].plan \in Plans /\ session[s].customer \in SubsOrNone
  BY <1>1 DEF BillingInv, Sold, TypeOK
<1>3. sub \in SubAtStripe /\ sub.status = "active"
  BY <1>2, BillingAssumption DEF SubAtStripe, SubsOrNone
<1>4. kinds \in SUBSET Kinds
  BY DEF Kinds
<1>5. Fits(s, sub, kinds)
  <2> HIDE DEF sub
  <2> QED BY <1>3 DEF Fits, Telling
<1> HIDE DEF sub, kinds
<1> QED BY <1>1, <1>3, <1>4, <1>5, OwnChange

\* A new invoice, paid or declined, or an open one that is paid.
LEMMA InvoiceStep ==
  ASSUME TypeOK, BillingInv, NEW s \in Subs, Renew(s) \/ Decline(s) \/ SettleBill(s)
  PROVE  TypeOK' /\ BillingInv'
<1>1. /\ Live(s) /\ (Prompt => Quiet) /\ UNCHANGED <<row, invoices, session, acked, hook, request, faults>>
      /\ stripe[s] \in SubAtStripe
  BY LiveFacts DEF Renew, Decline, SettleBill, Changing
<1>2. CASE Renew(s)
  <2> DEFINE sub == [stripe[s] EXCEPT !.bill = stripe[s].bill + 1, !.status = "active"]
             kinds == {"paid", "updated"}
  <2>1. AtStripe(s, sub, "paid", kinds) /\ kinds \in SUBSET Kinds
    BY <1>2 DEF Renew, Kinds
  <2>2. sub \in SubAtStripe /\ sub.status = "active"
    <3>1. stripe[s].bill + 1 \in 1..MaxBills
      BY <1>1, <1>2, BillingAssumption DEF Renew, SubAtStripe
    <3> QED BY <1>1, <3>1 DEF SubAtStripe
  <2>3. Fits(s, sub, kinds)
    <3> HIDE DEF sub
    <3> QED BY <2>2 DEF Fits, Telling
  <2> HIDE DEF sub, kinds
  <2> QED BY <1>1, <2>1, <2>2, <2>3, OwnChange
<1>3. CASE Decline(s)
  <2> DEFINE sub == [stripe[s] EXCEPT !.bill = stripe[s].bill + 1, !.status = "past_due"]
             kinds == {"failed", "updated"}
  <2>1. AtStripe(s, sub, "open", kinds) /\ kinds \in SUBSET Kinds /\ ~NoDecline
    BY <1>3 DEF Decline, Kinds, Changing, NoDecline
  <2>2. sub \in SubAtStripe /\ sub.status = "past_due"
    <3>1. stripe[s].bill + 1 \in 1..MaxBills
      BY <1>1, <1>3, BillingAssumption DEF Decline, SubAtStripe
    <3> QED BY <1>1, <3>1 DEF SubAtStripe
  <2>3. Fits(s, sub, kinds)
    <3> HIDE DEF sub
    <3> QED BY <2>2 DEF Fits, Telling
  <2> HIDE DEF sub, kinds
  <2> QED BY <1>1, <2>1, <2>2, <2>3, OwnChange
<1>4. CASE SettleBill(s)
  <2> DEFINE sub == [stripe[s] EXCEPT !.status = "active"]
             kinds == {"paid", "updated"}
  <2>1. AtStripe(s, sub, "paid", kinds) /\ kinds \in SUBSET Kinds
    BY <1>4 DEF SettleBill, Kinds
  <2>2. sub \in SubAtStripe /\ sub.status = "active"
    BY <1>1 DEF SubAtStripe
  <2>3. Fits(s, sub, kinds)
    <3> HIDE DEF sub
    <3> QED BY <2>2 DEF Fits, Telling
  <2> HIDE DEF sub, kinds
  <2> QED BY <1>1, <2>1, <2>2, <2>3, OwnChange
<1> QED BY <1>2, <1>3, <1>4

\* Another plan, the end of the subscription, or a mere notice.
LEMMA PortalStep ==
  ASSUME TypeOK, BillingInv, NEW s \in Subs, (\E p \in Plans : PortalPlan(s, p)) \/ Cancel(s) \/ Notice(s)
  PROVE  TypeOK' /\ BillingInv'
<1>1. /\ Live(s) /\ (Prompt => Quiet) /\ UNCHANGED <<row, invoices, session, acked, hook, request, faults>>
      /\ stripe[s] \in SubAtStripe /\ stripe[s].status \in {"active", "past_due"}
      /\ Latest(s) \in {"none", "open", "paid"} /\ (NoDecline => Latest(s) = "paid")
  BY LiveFacts DEF PortalPlan, Cancel, Notice, Changing
<1>2. ASSUME NEW p \in Plans, PortalPlan(s, p) PROVE TypeOK' /\ BillingInv'
  <2> DEFINE sub == [stripe[s] EXCEPT !.plan = p]
             kinds == {"updated"}
  <2>1. AtStripe(s, sub, Latest(s), kinds) /\ kinds \in SUBSET Kinds
    BY <1>2 DEF PortalPlan, Kinds
  <2>2. sub \in SubAtStripe /\ sub.status \in {"active", "past_due"}
    BY <1>1 DEF SubAtStripe
  <2>3. Fits(s, sub, kinds)
    <3> HIDE DEF sub
    <3> QED BY <2>2 DEF Fits, Telling
  <2> HIDE DEF sub, kinds
  <2> QED BY <1>1, <2>1, <2>2, <2>3, OwnChange
<1>3. CASE Cancel(s)
  <2> DEFINE sub == [stripe[s] EXCEPT !.status = "canceled"]
             kinds == {"deleted"}
  <2>1. AtStripe(s, sub, Latest(s), kinds) /\ kinds \in SUBSET Kinds
    BY <1>3 DEF Cancel, Kinds
  <2>2. sub \in SubAtStripe /\ sub.status = "canceled"
    BY <1>1 DEF SubAtStripe
  <2>3. Fits(s, sub, kinds)
    <3> HIDE DEF sub
    <3> QED BY <2>2 DEF Fits, Telling
  <2> HIDE DEF sub, kinds
  <2> QED BY <1>1, <2>1, <2>2, <2>3, OwnChange
<1>4. CASE Notice(s)
  <2>1. PICK k \in {"upcoming", "expiring"} : AtStripe(s, stripe[s], Latest(s), {k})
    BY <1>4 DEF Notice
  <2>2. Fits(s, stripe[s], {k}) /\ {k} \in SUBSET Kinds
    BY <1>1, <2>1 DEF Fits, Kinds
  <2> QED BY <1>1, <2>1, <2>2, OwnChange
<1> QED BY <1>2, <1>3, <1>4

-----------------------------------------------------------------------------
(* The owner's requests *)

\* A request begins, goes on or ends, and no row is saved.
LEMMA RequestMoves ==
  ASSUME TypeOK, BillingInv, NEW q \in {NoRequest} \cup Change, request' = q, q.pc # "save",
         q.pc = "price" => q.row.link # None,
         UNCHANGED <<row, invoices, stripe, bills, changes, pending, acked, hook>>, faults' \in 0..MaxFaults,
         session' \in [Subs -> [plan : Plans \cup {Free}, customer : SubsOrNone]],
         \A s \in Subs : session'[s] # session[s] => session'[s].plan \in Plans
  PROVE  TypeOK' /\ BillingInv'
<1>1. TypeOK'
  BY DEF TypeOK
<1>2. Sold'
  <2>1. \A s \in Subs : session'[s] # NoSession => session'[s].plan \in Plans
    BY DEF BillingInv, Sold
  <2> QED BY <2>1 DEF BillingInv, Sold, Sub
<1>3. NoDecline => Paid' /\ FirstInvoiceStored'
  BY DEF BillingInv, Paid, FirstInvoiceStored, Bought, Latest
<1>4. Orderly => OneChange' /\ AnchorHeld'
  BY DEF BillingInv, OneChange, Current, Sub, AnchorHeld, At
<1>5. ASSUME Orderly PROVE RowFollows'
  BY <1>5 DEF BillingInv, RowFollows, Told, Good, Matches, Live
<1> QED BY <1>1, <1>2, <1>3, <1>4, <1>5 DEF BillingInv, NoDecline, Orderly

\* A plan is asked for: in place, or by a checkout session.
LEMMA CreateSubscriptionStep ==
  ASSUME TypeOK, BillingInv, NEW p \in Plans, CreateSubscription(p)
  PROVE  TypeOK' /\ BillingInv'
<1>1. UNCHANGED <<row, invoices, stripe, bills, changes, pending, acked, hook>> /\ faults' \in 0..MaxFaults
  BY DEF CreateSubscription, TypeOK
<1>2. session \in [Subs -> [plan : Plans \cup {Free}, customer : SubsOrNone]]
  BY DEF TypeOK
<1>3. CASE request' = [pc |-> "entity", plan |-> p, row |-> NewFreeSubscription] /\ UNCHANGED session
  <2> DEFINE q == [pc |-> "entity", plan |-> p, row |-> NewFreeSubscription]
  <2>1. q \in {NoRequest} \cup Change /\ q.pc = "entity"
    BY FreeRow DEF Change
  <2> HIDE DEF q
  <2>2. request' = q /\ UNCHANGED session
    BY <1>3 DEF q
  <2> QED BY <1>1, <1>2, <2>1, <2>2, RequestMoves
<1>4. CASE request' = NoRequest /\ \E s \in Subs : session' = [session EXCEPT ![s] = [plan |-> p, customer |-> row.customer]]
  <2>1. PICK s \in Subs : session' = [session EXCEPT ![s] = [plan |-> p, customer |-> row.customer]]
    BY <1>4
  <2> DEFINE x == [plan |-> p, customer |-> row.customer]
  <2>2. x \in [plan : Plans \cup {Free}, customer : SubsOrNone] /\ x.plan \in Plans
    BY DEF TypeOK, Rows
  <2>3. session' = [session EXCEPT ![s] = x]
    BY <2>1
  <2> HIDE DEF x
  <2>4. session' \in [Subs -> [plan : Plans \cup {Free}, customer : SubsOrNone]]
        /\ \A y \in Subs : session'[y] # session[y] => session'[y].plan \in Plans
    BY <1>2, <2>2, <2>3
  <2>5. NoRequest \in {NoRequest} \cup Change /\ NoRequest.pc = "idle"
    BY DEF NoRequest
  <2> QED BY <1>1, <1>4, <2>4, <2>5, RequestMoves
<1>5. request = NoRequest
  BY DEF CreateSubscription
<1> QED BY <1>3, <1>4, <1>5 DEF CreateSubscription

\* The row is read again before the price is changed, or the request ends.
LEMMA RequestGoesStep ==
  ASSUME TypeOK, BillingInv, UpdateRead \/ RequestFails
  PROVE  TypeOK' /\ BillingInv'
<1>1. UNCHANGED <<row, invoices, session, stripe, bills, changes, pending, acked, hook>> /\ faults' \in 0..MaxFaults
  BY BillingAssumption DEF UpdateRead, RequestFails, Strike, stripeVars, TypeOK
<1>2. session' \in [Subs -> [plan : Plans \cup {Free}, customer : SubsOrNone]]
      /\ \A s \in Subs : session'[s] # session[s] => session'[s].plan \in Plans
  BY <1>1 DEF TypeOK
<1>3. CASE request' = NoRequest
  <2>1. NoRequest \in {NoRequest} \cup Change /\ NoRequest.pc = "idle"
    BY DEF NoRequest
  <2> QED BY <1>1, <1>2, <1>3, <2>1, RequestMoves
<1>4. CASE UpdateRead /\ row.link # None
  <2> DEFINE q == [request EXCEPT !.pc = "price", !.row = row]
  <2>1. request \in Change /\ row \in Rows /\ request' = q
    <3>1. request.pc = "entity" /\ request' = q
      BY <1>4 DEF UpdateRead
    <3>2. request # NoRequest
      BY <3>1 DEF NoRequest
    <3> QED BY <3>1, <3>2, RequestFacts DEF TypeOK
  <2>2. q \in {NoRequest} \cup Change /\ q.pc = "price" /\ q.row = row
    BY <2>1 DEF Change
  <2> HIDE DEF q
  <2> QED BY <1>1, <1>2, <1>4, <2>1, <2>2, RequestMoves
<1> QED BY <1>3, <1>4 DEF UpdateRead, RequestFails

\* The price changes at Stripe, or Stripe or the code refuses.
LEMMA UpdatePriceStep ==
  ASSUME TypeOK, BillingInv, UpdatePrice
  PROVE  TypeOK' /\ BillingInv'
<1> DEFINE s == request.row.link
<1>1. request.pc = "price" /\ UNCHANGED <<row, invoices, session, acked, hook, faults>>
  BY DEF UpdatePrice
<1>2. request \in Change /\ request.plan \in Plans /\ request.row \in Rows
  <2>1. request # NoRequest
    BY <1>1 DEF NoRequest
  <2> QED BY <2>1, RequestFacts
<1>3. s \in Subs /\ s # None
  BY <1>1, <1>2 DEF BillingInv, Sold, Rows, SubsOrNone
<1>4. CASE request' = NoRequest /\ UNCHANGED <<stripe, bills, changes, pending>>
  <2>1. NoRequest \in {NoRequest} \cup Change /\ NoRequest.pc = "idle"
    BY DEF NoRequest
  <2>2. session' \in [Subs -> [plan : Plans \cup {Free}, customer : SubsOrNone]] /\ faults' \in 0..MaxFaults
    BY <1>1 DEF TypeOK
  <2> QED BY <1>1, <1>4, <2>1, <2>2, RequestMoves
<1> DEFINE sub == [stripe[s] EXCEPT !.plan = request.plan, !.status = "active", !.bill = stripe[s].bill + 1]
           kinds == {"updated", "paid"}
           new == ApplyUpdate(request.row, request.plan, MapBillingStatus(stripe'[s].status), stripe[s].customer, s,
                              request.row.anchor)
           q == [request EXCEPT !.pc = "save", !.row = new]
<1>5. CASE /\ Live(s) /\ (Prompt => Answered) /\ stripe[s].bill < MaxBills
           /\ AtStripe(s, sub, "paid", kinds) /\ request' = q
  <2>1. /\ stripe[s] \in SubAtStripe /\ stripe[s].bill \in 1..MaxBills /\ stripe[s].customer \in SubsOrNone
    BY <1>3, <1>5, LiveFacts DEF SubAtStripe
  <2>2. sub \in SubAtStripe /\ sub.status = "active" /\ sub.plan = request.plan
    <3>1. stripe[s].bill + 1 \in 1..MaxBills
      BY <1>5, <2>1, BillingAssumption
    <3> HIDE DEF s
    <3> QED BY <1>2, <2>1, <3>1 DEF SubAtStripe
  <2>3. stripe' = [stripe EXCEPT ![s] = sub] /\ stripe'[s] = sub
    <3> HIDE DEF s, sub
    <3> QED BY <1>3, <1>5 DEF AtStripe, TypeOK
  <2>4. MapBillingStatus(stripe'[s].status) = "active"
    <3> HIDE DEF s, sub
    <3> QED BY <2>2, <2>3, Statuses
  <2>5. new \in Rows /\ new.plan = request.plan /\ new.status = "active" /\ new.link = s
    <3> HIDE DEF s, sub
    <3>1. request.row \in Rows /\ request.row.anchor \in SubsOrNone /\ s \in SubsOrNone
      BY <1>2, <1>3 DEF Rows, SubsOrNone
    <3> QED BY <1>2, <2>1, <2>4, <3>1 DEF ApplyUpdate, Rows
  <2>6. q \in Change /\ q.pc = "save" /\ q.row = new
    <3> HIDE DEF new
    <3> QED BY <1>2, <2>5 DEF Change
  <2>7. Matches(request.row)'
    <3> HIDE DEF s, sub, q, new
    <3>1. request'.row.link = s /\ request'.row.plan = request.plan /\ request'.row.status = "active"
      BY <1>5, <2>5, <2>6
    <3> QED BY <1>3, <2>2, <2>3, <2>4, <3>1 DEF Matches, Live
  <2>8. kinds \in SUBSET Kinds
    BY DEF Kinds
  <2>9. /\ kinds \cap {"checkout", "paid"} # {} => sub.status = "active"
        /\ "failed" \in kinds => sub.status = "past_due"
        /\ \A k \in kinds : k = "deleted" <=> sub.status = "canceled"
        /\ "deleted" \in kinds => kinds = {"deleted"}
        /\ kinds \cap Telling # {} \/ (sub = stripe[s] /\ kinds \cap {"paid", "failed"} = {})
    <3> HIDE DEF s, sub
    <3> QED BY <2>2 DEF Telling
  <2>10. "checkout" \notin kinds
    OBVIOUS
  <2> HIDE DEF s, sub, kinds, new, q
  <2>11. request' \in {NoRequest} \cup Change /\ (request'.pc \in {"price", "save"} => request'.row.link # None)
    BY <1>3, <1>5, <2>5, <2>6
  <2>12. Orderly /\ request'.pc = "save" =>
           request'.row.link = s /\ Matches(request.row)' /\ "checkout" \notin kinds
    BY <1>5, <2>5, <2>6, <2>7, <2>10
  <2> QED BY <1>1, <1>3, <1>5, <2>2, <2>8, <2>9, <2>11, <2>12, StripeKeeps
<1> QED BY <1>4, <1>5 DEF UpdatePrice

\* The request saves the row it has taken from Stripe.
LEMMA UpdateSaveStep ==
  ASSUME TypeOK, BillingInv, UpdateSave
  PROVE  TypeOK' /\ BillingInv'
<1>1. /\ request.pc = "save" /\ row' = request.row /\ request' = NoRequest
      /\ UNCHANGED <<invoices, session, stripe, bills, changes, pending, acked, hook, faults>>
  BY DEF UpdateSave, stripeVars
<1>2. request # NoRequest /\ NoRequest.pc = "idle"
  BY <1>1 DEF NoRequest
<1>3. row' \in Rows
  BY <1>1, <1>2, RequestFacts
<1>4. TypeOK'
  BY <1>1, <1>3 DEF TypeOK
<1>5. Sold'
  BY <1>1, <1>2 DEF BillingInv, Sold, Sub
<1>6. NoDecline => Paid' /\ FirstInvoiceStored'
  BY <1>1 DEF BillingInv, Paid, FirstInvoiceStored, Bought, Latest
<1>7. ASSUME Orderly PROVE OneChange' /\ RowFollows' /\ AnchorHeld'
  <2>1. Good(request.row) /\ \A e \in pending : e.kind # "checkout"
    BY <1>1, <1>7 DEF BillingInv, RowFollows
  <2>2. Good(row)' /\ Matches(row)'
    BY <1>1, <2>1 DEF Good, Matches, Live
  <2>3. OneChange'
    BY <1>1, <1>7 DEF BillingInv, OneChange, Current, Sub
  <2>4. ASSUME NEW a \in Apis, hook[a].pc \in {"save", "latest", "owner", "upsert"} PROVE hook[a].ev.kind # "checkout"
    <3>1. hook[a] # Idle
      BY <2>4 DEF Idle
    <3> QED BY <1>7, <2>1, <3>1, Going
  <2>5. \A a \in Apis : hook[a].pc = "save" /\ (Told \/ hook[a].ev.kind \in Telling) => Good(hook[a].row)
    BY <1>7 DEF BillingInv, RowFollows
  <2>6. RowFollows'
    BY <1>1, <1>2, <2>2, <2>4, <2>5 DEF RowFollows, Told, Good, Matches, Live
  <2>7. AnchorHeld'
    BY <1>1, <2>4 DEF AnchorHeld, At
  <2> QED BY <2>3, <2>6, <2>7
<1> QED BY <1>4, <1>5, <1>6, <1>7 DEF BillingInv, NoDecline, Orderly

\* Stripe sends a webhook again, or one is lost.
LEMMA DeliveryStep ==
  ASSUME TypeOK, BillingInv, (\E e \in acked : Redeliver(e)) \/ (\E e \in pending : Dropped(e))
  PROVE  TypeOK' /\ BillingInv'
<1>1. /\ UNCHANGED <<row, invoices, session, stripe, bills, changes, acked, hook, request>>
      /\ faults' \in 0..MaxFaults /\ pending' \subseteq pending \cup acked /\ ~Orderly
  BY BillingAssumption DEF Redeliver, Dropped, Strike, stripeVars, TypeOK, Orderly
<1>2. TypeOK'
  BY <1>1 DEF TypeOK
<1>3. Sold'
  BY <1>1 DEF BillingInv, Sold, Sub
<1>4. NoDecline => Paid' /\ FirstInvoiceStored'
  BY <1>1 DEF BillingInv, Paid, FirstInvoiceStored, Bought, Latest
<1> QED BY <1>1, <1>2, <1>3, <1>4 DEF BillingInv, NoDecline, Orderly

-----------------------------------------------------------------------------
(* Every step *)

\* At first nothing has been bought.
LEMMA InitInv == Init => TypeOK /\ BillingInv
<1> SUFFICES ASSUME Init PROVE TypeOK /\ BillingInv
  OBVIOUS
<1>1. /\ row = NewFreeSubscription /\ pending = {} /\ acked = {} /\ request = NoRequest
      /\ invoices = [b \in Bills |-> "none"] /\ bills = [b \in Bills |-> "none"]
      /\ session = [s \in Subs |-> NoSession] /\ stripe = [s \in Subs |-> NoSub]
      /\ hook = [a \in Apis |-> Idle] /\ changes = 0 /\ faults = 0
  BY DEF Init
<1>2. row.link = None /\ row.plan = Free /\ row.status = "active" /\ row \in Rows
  BY <1>1, FreeRow DEF NewFreeSubscription
<1>3. \A s \in Subs : stripe[s].status = "none" /\ session[s] = NoSession
  BY <1>1 DEF NoSub
<1>4. \A a \in Apis : hook[a] = Idle /\ hook[a].pc = "idle"
  BY <1>1 DEF Idle
<1>5. TypeOK
  <2>1. session \in [Subs -> [plan : Plans \cup {Free}, customer : SubsOrNone]]
    BY <1>1 DEF NoSession, SubsOrNone
  <2>2. stripe \in [Subs -> [status : {"none", "active", "past_due", "canceled"}, plan : Plans \cup {Free},
                             customer : SubsOrNone, bill : 0..MaxBills]]
    BY <1>1, BillingAssumption DEF NoSub, SubsOrNone
  <2>3. changes \in 0..MaxChanges /\ faults \in 0..MaxFaults
    BY <1>1, BillingAssumption
  <2>4. hook \in [Apis -> {Idle} \cup Task] /\ invoices \in [Bills -> {"none", "open", "paid"}]
        /\ bills \in [Bills -> {"none", "open", "paid"}]
    BY <1>1
  <2> QED BY <1>1, <1>2, <2>1, <2>2, <2>3, <2>4 DEF TypeOK
<1>6. request.pc = "idle"
  BY <1>1 DEF NoRequest
<1>7. Sold
  BY <1>1, <1>3, <1>4, <1>6 DEF Sold
<1>8. Paid /\ FirstInvoiceStored
  <2>1. \A b \in Bills : bills[b] # "open" /\ invoices[b] # "open"
    BY <1>1
  <2> QED BY <1>1, <1>3, <1>4, <2>1 DEF Paid, FirstInvoiceStored
<1>9. OneChange /\ RowFollows /\ AnchorHeld
  <2>1. Good(row)
    BY <1>1, <1>2, FreeRow DEF Good
  <2> QED BY <1>1, <1>4, <1>6, <2>1 DEF OneChange, RowFollows, AnchorHeld, At
<1> QED BY <1>5, <1>7, <1>8, <1>9 DEF BillingInv

\* Every step of Stripe, of a handler, of the owner and of a fault keeps it.
LEMMA NextInv == TypeOK /\ BillingInv /\ [Next]_vars => TypeOK' /\ BillingInv'
<1> SUFFICES ASSUME TypeOK, BillingInv, [Next]_vars PROVE TypeOK' /\ BillingInv'
  OBVIOUS
<1>1. CASE StripeNext
  BY <1>1, CompleteStep, InvoiceStep, PortalStep DEF StripeNext
<1>2. ASSUME NEW a \in Apis, HookNext(a) \/ \E e \in pending : Receive(a, e) PROVE TypeOK' /\ BillingInv'
  BY <1>2, HookStep, ReceiveStep
<1>3. CASE RequestNext
  BY <1>3, CreateSubscriptionStep, RequestGoesStep, UpdatePriceStep, UpdateSaveStep DEF RequestNext
<1>4. CASE FaultNext
  BY <1>4, FailsStep, RequestGoesStep, DeliveryStep DEF FaultNext
<1>5. CASE UNCHANGED vars
  <2>1. UNCHANGED <<row, invoices, session, stripe, bills, changes, pending, acked, hook, request, faults>>
    BY <1>5 DEF vars, stripeVars
  <2>2. TypeOK'
    BY <2>1 DEF TypeOK
  <2>3. Sold'
    BY <2>1 DEF BillingInv, Sold, Sub
  <2>4. NoDecline => Paid' /\ FirstInvoiceStored'
    BY <2>1 DEF BillingInv, Paid, FirstInvoiceStored, Bought, Latest
  <2>5. Orderly => OneChange' /\ AnchorHeld'
    BY <2>1 DEF BillingInv, OneChange, Current, Sub, AnchorHeld, At
  <2>6. Orderly => RowFollows'
    BY <2>1 DEF BillingInv, RowFollows, Told, Good, Matches, Live
  <2> QED BY <2>2, <2>3, <2>4, <2>5, <2>6 DEF BillingInv, NoDecline, Orderly
<1> QED BY <1>1, <1>2, <1>3, <1>4, <1>5 DEF Next

\* Hence every behaviour keeps it.
LEMMA Invariance == Spec => [](TypeOK /\ BillingInv)
BY InitInv, NextInv, PTL DEF Spec

\* The row a checkout saves is the one its handler made.
LEMMA SavedRow ==
  ASSUME TypeOK, [Next]_vars, NEW a \in Apis, hook[a].pc = "save", hook'[a].pc = "latest"
  PROVE  row' = hook[a].row
<1>1. hook[a] \in Task /\ hook[a] # Idle /\ hook' # hook
  <2>1. hook[a] # Idle
    BY DEF Idle
  <2> QED BY <2>1, HookFacts
<1>2. PICK b \in Apis : HookNext(b) \/ (\E e \in pending : Receive(b, e)) \/ HookFails(b)
  <2>1. CASE StripeNext
    BY <1>1, <2>1 DEF StripeNext, CompleteCheckout, Renew, Decline, SettleBill, PortalPlan, Cancel, Notice, Changing
  <2>2. CASE RequestNext
    BY <1>1, <2>2 DEF RequestNext, CreateSubscription, UpdateRead, UpdatePrice, UpdateSave
  <2>3. CASE UNCHANGED vars
    BY <1>1, <2>3 DEF vars
  <2>4. CASE FaultNext
    BY <1>1, <2>4 DEF FaultNext, RequestFails, Redeliver, Dropped
  <2> QED BY <2>1, <2>2, <2>3, <2>4 DEF Next
<1>3. ASSUME NEW t, Goes(b, t) PROVE b = a /\ hook'[a] = t
  BY <1>1, <1>3 DEF Goes, TypeOK
<1>4. ASSUME Goes(b, Idle) PROVE FALSE
  BY <1>3, <1>4 DEF Idle
<1>5. ~HookFails(b) /\ ~Refuses(b) /\ ~Accepts(b)
  BY <1>4 DEF HookFails, Refuses, Accepts
<1>6. ASSUME NEW e \in pending, Receive(b, e) PROVE FALSE
  BY <1>1, <1>3, <1>6 DEF Receive
<1>7. HookNext(b)
  BY <1>2, <1>5, <1>6
<1>8. b = a
  BY <1>3, <1>5, <1>7 DEF HookNext, Retrieve, CheckoutCompleted, SubscriptionUpdated, SubscriptionDeleted, InvoicePayment,
     RenewalUpcoming, PaymentMethodExpiring, SaveRow, SyncLatestInvoice, ResolveOwner, UpsertInvoice, Writes, Step
<1> QED BY <1>7, <1>8 DEF HookNext, Retrieve, CheckoutCompleted, SubscriptionUpdated, SubscriptionDeleted, InvoicePayment,
     RenewalUpcoming, PaymentMethodExpiring, SaveRow, SyncLatestInvoice, ResolveOwner, UpsertInvoice, At

-----------------------------------------------------------------------------
(* The properties *)

(* Row, invoices, Stripe's side, webhooks, handlers and the request keep   *)
(* their types for any number of subscriptions, api processes, changes and *)
(* faults, in whatever order webhooks come: the row only takes a status    *)
(* and a plan that the table knows.                                        *)
THEOREM BillingTypes == Spec => []TypeOK
BY Invariance, PTL

(* checkout_completed.go: while no payment is declined, a checkout that is *)
(* answered has its paid invoice stored, however many api processes run,   *)
(* and however webhooks fail, repeat, are dropped or overtake each other.  *)
THEOREM FirstInvoiceIsStored ==
  ASSUME "decline" \notin Changes
  PROVE  Spec => []FirstInvoiceStored
<1>1. BillingInv => FirstInvoiceStored
  BY DEF BillingInv, NoDecline
<1> QED BY <1>1, Invariance, PTL

(* subscription_updated.go, invoice_payment_*.go, create_subscription.go:  *)
(* with one api process and a Stripe that waits for its webhooks to be     *)
(* answered, the row says what Stripe says once all is quiet, whatever     *)
(* fails, is retried, or arrives in another order.                         *)
THEOREM RowFollowsStripe ==
  ASSUME Prompt, \A a, b \in Apis : a = b, Faults \subseteq {"error"}
  PROVE  Spec => []RowMatchesStripe
<1>1. BillingInv => RowMatchesStripe
  <2> SUFFICES ASSUME BillingInv, Quiet PROVE Matches(row)
    BY DEF RowMatchesStripe
  <2>1. Told
    BY DEF Quiet, Answered, Told
  <2> QED BY <2>1 DEF BillingInv, Orderly, RowFollows, Good
<1> QED BY <1>1, Invariance, PTL

(* checkout_completed.go: with one api process and a Stripe that waits for *)
(* its webhooks to be answered, no checkout saved over a paid plan moves   *)
(* the start of the quota period.                                          *)
THEOREM QuotaPeriodIsKept ==
  ASSUME Prompt, \A a, b \in Apis : a = b, Faults \subseteq {"error"}
  PROVE  Spec => QuotaPeriodKept
<1>1. TypeOK /\ BillingInv /\ [Next]_vars =>
        [\A a \in Apis :
           /\ At(a, "save", {"checkout"}) /\ hook'[a].pc = "latest"
           /\ row.plan # Free /\ row.link # None
           => row'.anchor = row.anchor]_vars
  <2> SUFFICES ASSUME TypeOK, BillingInv, [Next]_vars, NEW a \in Apis,
                      At(a, "save", {"checkout"}), hook'[a].pc = "latest", row.plan # Free, row.link # None
               PROVE  row'.anchor = row.anchor
    OBVIOUS
  <2>1. row' = hook[a].row
    BY SavedRow DEF At
  <2>2. hook[a].row.anchor = row.anchor
    BY DEF BillingInv, Orderly, AnchorHeld
  <2> QED BY <2>1, <2>2
<1> QED BY <1>1, Invariance, PTL DEF Spec, QuotaPeriodKept
=============================================================================
