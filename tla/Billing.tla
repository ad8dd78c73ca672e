------------------------------ MODULE Billing ------------------------------
(***************************************************************************)
(* The subscription of one workspace: checkout and plan changes over HTTP, *)
(* and the Stripe webhooks that keep the local row and the invoices in     *)
(* step with Stripe.                                                       *)
(*                                                                         *)
(* Stripe is external.  It repeats a webhook until it is answered with     *)
(* 200, in no particular order, and each webhook carries a snapshot taken  *)
(* when it was created.  The webhook handler holds a mutex, so an api      *)
(* process handles one webhook at a time; an owner's request takes no      *)
(* lock.  Handlers read the row, and save the whole row later.             *)
(***************************************************************************)
EXTENDS Naturals, FiniteSets

CONSTANTS
  Subs,         \* Stripe subscriptions, one per checkout session
  Plans,        \* the paid plans
  Free,         \* the free plan
  None,         \* an empty id
  Apis,         \* api processes
  Changes,      \* the kinds of change made at Stripe
  Prompt,       \* Stripe changes nothing while a webhook or another request is open
  Faults,       \* the kinds of fault that may strike
  MaxBills,     \* bound: invoices per subscription
  MaxChanges,   \* bound: changes made at Stripe
  MaxFaults     \* bound: how many faults strike

ChangeKinds == {"renew", "decline", "settle", "plan", "cancel", "notice", "card"}
FaultKinds  == {"error", "duplicate", "drop"}

ASSUME BillingAssumption ==
  /\ None \notin Subs
  /\ Free \notin Plans
  /\ Changes \subseteq ChangeKinds
  /\ Faults \subseteq FaultKinds
  /\ Prompt \in BOOLEAN
  /\ MaxBills \in Nat \ {0}
  /\ MaxChanges \in Nat
  /\ MaxFaults \in Nat

VARIABLES
  row,       \* the workspace's subscriptions row
  invoices,  \* local invoices rows
  session,   \* open checkout sessions: plan and customer
  stripe,    \* subscriptions at Stripe
  bills,     \* invoices at Stripe
  pending,   \* webhooks Stripe has not seen answered with 200
  acked,     \* webhooks answered with 200
  hook,      \* the webhook each api process is handling
  request,   \* the owner's plan change in progress
  changes,   \* changes made at Stripe so far
  faults     \* faults so far

stripeVars == <<session, stripe, bills, changes>>
vars == <<row, invoices, stripeVars, pending, acked, hook, request, faults>>

Bills == Subs \X (1..MaxBills)

\* Stripe names the customer of a first checkout after its subscription.
SubsOrNone == Subs \cup {None}

Rows == [plan : Plans \cup {Free}, status : {"active", "past_due", "cancelled"},
         customer : SubsOrNone, link : SubsOrNone, anchor : SubsOrNone]
Kinds == {"checkout", "updated", "deleted", "paid", "failed", "upcoming", "expiring"}
Webhooks == [no : 1..MaxChanges, kind : Kinds, sub : Subs, plan : Plans,
             status : {"active", "past_due", "canceled"}, bill : 0..MaxBills,
             invoice : {"none", "open", "paid"}]

\* A row linked to no Stripe subscription: the row given at signup.
NewFreeSubscription ==
  [plan |-> Free, status |-> "active", customer |-> None, link |-> None, anchor |-> None]

NoSession == [plan |-> Free, customer |-> None]
NoSub     == [status |-> "none", plan |-> Free, customer |-> None, bill |-> 0]
NoWebhook == [no |-> 0]
Idle      == [pc |-> "idle", ev |-> NoWebhook, data |-> NoWebhook, row |-> NewFreeSubscription]
NoRequest == [pc |-> "idle", plan |-> Free, row |-> NewFreeSubscription]

HookSteps == {"retrieve", "read", "save", "latest", "owner", "upsert"}
Task   == [pc : HookSteps, ev : Webhooks, data : Webhooks, row : Rows]
Change == [pc : {"entity", "price", "save"}, plan : Plans, row : Rows]

TypeOK ==
  /\ row \in Rows
  /\ invoices \in [Bills -> {"none", "open", "paid"}]
  /\ session \in [Subs -> [plan : Plans \cup {Free}, customer : SubsOrNone]]
  /\ stripe \in [Subs -> [status : {"none", "active", "past_due", "canceled"},
                          plan : Plans \cup {Free}, customer : SubsOrNone,
                          bill : 0..MaxBills]]
  /\ bills \in [Bills -> {"none", "open", "paid"}]
  /\ pending \subseteq Webhooks
  /\ acked \subseteq Webhooks
  /\ hook \in [Apis -> {Idle} \cup Task]
  /\ request \in {NoRequest} \cup Change
  /\ changes \in 0..MaxChanges
  /\ faults \in 0..MaxFaults

Init ==
  /\ row = NewFreeSubscription
  /\ invoices = [b \in Bills |-> "none"]
  /\ session = [s \in Subs |-> NoSession]
  /\ stripe = [s \in Subs |-> NoSub]
  /\ bills = [b \in Bills |-> "none"]
  /\ pending = {}
  /\ acked = {}
  /\ hook = [a \in Apis |-> Idle]
  /\ request = NoRequest
  /\ changes = 0
  /\ faults = 0

-----------------------------------------------------------------------------
(* Stripe *)

Live(s) == stripe[s].status \in {"active", "past_due"}

\* No webhook is open, and no request either.
Answered == pending = {} /\ \A a \in Apis : hook[a] = Idle
Quiet    == Answered /\ request = NoRequest

\* The webhook of this kind for subscription s as it now stands.
Webhook(kind, s, sub, bill, invoice) ==
  [no |-> changes + 1, kind |-> kind, sub |-> s, plan |-> sub.plan,
   status |-> sub.status, bill |-> bill, invoice |-> invoice]

\* Subscription s becomes sub, its latest invoice gets this status, and the
\* webhooks of these kinds are created.
AtStripe(s, sub, invoice, kinds) ==
  /\ changes < MaxChanges
  /\ changes' = changes + 1
  /\ stripe' = [stripe EXCEPT ![s] = sub]
  /\ bills' = IF sub.bill > 0 THEN [bills EXCEPT ![<<s, sub.bill>>] = invoice] ELSE bills
  /\ pending' = pending \cup {Webhook(k, s, sub, sub.bill, invoice) : k \in kinds}

Latest(s) == bills[<<s, stripe[s].bill>>]

Changing(kind, s) ==
  /\ kind \in Changes
  /\ Prompt => Quiet
  /\ Live(s)
  /\ UNCHANGED <<row, invoices, session, acked, hook, request, faults>>

\* The owner completes a checkout session: a first invoice is paid.
CompleteCheckout(s) ==
  /\ session[s] # NoSession
  /\ stripe[s].status = "none"
  /\ Prompt => Quiet
  /\ LET sub == [status |-> "active", plan |-> session[s].plan, bill |-> 1,
                 customer |-> IF session[s].customer = None THEN s ELSE session[s].customer]
     IN  AtStripe(s, sub, "paid", {"checkout", "paid"})
  /\ UNCHANGED <<row, invoices, session, acked, hook, request, faults>>

\* A new invoice is paid, or its payment is declined.
Renew(s) ==
  /\ Changing("renew", s)
  /\ stripe[s].bill < MaxBills
  /\ AtStripe(s, [stripe[s] EXCEPT !.bill = @ + 1, !.status = "active"], "paid",
              {"paid", "updated"})

Decline(s) ==
  /\ Changing("decline", s)
  /\ stripe[s].bill < MaxBills
  /\ AtStripe(s, [stripe[s] EXCEPT !.bill = @ + 1, !.status = "past_due"], "open",
              {"failed", "updated"})

\* The open invoice is paid after all.
SettleBill(s) ==
  /\ Changing("settle", s)
  /\ Latest(s) = "open"
  /\ AtStripe(s, [stripe[s] EXCEPT !.status = "active"], "paid", {"paid", "updated"})

\* Plan change or cancellation in the billing portal, or by Stripe.
PortalPlan(s, p) ==
  /\ Changing("plan", s)
  /\ stripe[s].plan # p
  /\ AtStripe(s, [stripe[s] EXCEPT !.plan = p], Latest(s), {"updated"})

Cancel(s) ==
  /\ Changing("cancel", s)
  /\ AtStripe(s, [stripe[s] EXCEPT !.status = "canceled"], Latest(s), {"deleted"})

\* invoice.upcoming, customer.source.expiring: nothing changes.
Notice(s) ==
  \/ Changing("notice", s) /\ AtStripe(s, stripe[s], Latest(s), {"upcoming"})
  \/ Changing("card", s) /\ AtStripe(s, stripe[s], Latest(s), {"expiring"})

StripeNext ==
  \E s \in Subs :
    \/ CompleteCheckout(s) \/ Renew(s) \/ Decline(s) \/ SettleBill(s)
    \/ \E p \in Plans : PortalPlan(s, p)
    \/ Cancel(s) \/ Notice(s)

-----------------------------------------------------------------------------
(* The row *)

MapBillingStatus(status) == IF status = "canceled" THEN "cancelled" ELSE status

\* Mutant: the Stripe subscription is not recorded.
LinkKept(r, plan, status, customer, link, anchor) ==
  [plan |-> plan, status |-> status, link |-> r.link, anchor |-> anchor,
   customer |-> IF customer = None THEN r.customer ELSE customer]

ApplyUpdate(r, plan, status, customer, link, anchor) ==
  [plan |-> plan, status |-> status, link |-> link, anchor |-> anchor,
   customer |-> IF customer = None THEN r.customer ELSE customer]

DowngradeToFree(r) == ApplyUpdate(r, Free, "active", r.customer, None, r.anchor)

\* The row carries this Stripe subscription, or, failing that, this customer
\* and no other Stripe subscription.
FindSubscription(s, customer) ==
  \/ s # None /\ row.link = s
  \/ /\ customer # None
     /\ row.customer = customer
     /\ row.link = None \/ s = None \/ row.link = s

CanUpdateStripeSubscription(r) == r.link # None /\ r.status \in {"active", "past_due"}

-----------------------------------------------------------------------------
(* Webhooks *)

At(a, pc, kinds) == hook[a].pc = pc /\ hook[a].ev.kind \in kinds
Sub(a)      == hook[a].ev.sub
Customer(a) == stripe[Sub(a)].customer
Goes(a, t)  == hook' = [hook EXCEPT ![a] = t]
Step(a, pc) == Goes(a, [hook[a] EXCEPT !.pc = pc])
Writes(a, r) == Goes(a, [hook[a] EXCEPT !.pc = "save", !.row = r])

\* 200, and 503 or 500: Stripe comes back with the webhook.
Accepts(a) ==
  /\ pending' = pending \ {hook[a].ev}
  /\ acked' = acked \cup {hook[a].ev}
  /\ Goes(a, Idle)

Refuses(a) == Goes(a, Idle)

\* Execute, dispatch: the mutex is free.
Receive(a, e) ==
  /\ hook[a] = Idle
  /\ e \in pending
  /\ Goes(a, [pc |-> IF e.kind = "checkout" THEN "retrieve"
                     ELSE IF e.kind \in {"paid", "failed"} THEN "owner" ELSE "read",
              ev |-> e, data |-> e, row |-> NewFreeSubscription])
  /\ UNCHANGED <<row, invoices, stripeVars, pending, acked, request, faults>>

\* CheckoutCompleted asks Stripe for the subscription as it is now.
Retrieve(a) ==
  /\ At(a, "retrieve", {"checkout"})
  /\ Goes(a, [hook[a] EXCEPT !.pc = "read", !.data = [@ EXCEPT !.plan = stripe[Sub(a)].plan,
                                                     !.status = stripe[Sub(a)].status]])
  /\ UNCHANGED <<row, invoices, stripeVars, pending, acked, request, faults>>

\* Mutant: every checkout restarts the quota period.
CheckoutRestarts(a) ==
  /\ At(a, "read", {"checkout"})
  /\ Writes(a, ApplyUpdate(row, hook[a].data.plan, MapBillingStatus(hook[a].data.status),
                           Customer(a), Sub(a), Sub(a)))
  /\ UNCHANGED <<row, invoices, stripeVars, pending, acked, request, faults>>

\* The quota period starts with the Stripe subscription if the row was free.
CheckoutCompleted(a) ==
  /\ At(a, "read", {"checkout"})
  /\ LET wasFree == row.plan = Free \/ row.link = None IN
       Writes(a, ApplyUpdate(row, hook[a].data.plan, MapBillingStatus(hook[a].data.status),
                             Customer(a), Sub(a), IF wasFree THEN Sub(a) ELSE row.anchor))
  /\ UNCHANGED <<row, invoices, stripeVars, pending, acked, request, faults>>

\* Mutant: a plan change made at Stripe is not taken over.
UpdatedKeepsPlan(a) ==
  /\ At(a, "read", {"updated"})
  /\ IF row.link = Sub(a)
       THEN Writes(a, ApplyUpdate(row, row.plan, MapBillingStatus(hook[a].data.status),
                                  Customer(a), Sub(a), row.anchor))
       ELSE Refuses(a)
  /\ UNCHANGED <<row, invoices, stripeVars, pending, acked, request, faults>>

SubscriptionUpdated(a) ==
  /\ At(a, "read", {"updated"})
  /\ IF row.link = Sub(a)
       THEN Writes(a, ApplyUpdate(row, hook[a].data.plan, MapBillingStatus(hook[a].data.status),
                                  Customer(a), Sub(a), row.anchor))
       ELSE Refuses(a)
  /\ UNCHANGED <<row, invoices, stripeVars, pending, acked, request, faults>>

\* A subscription that is not linked has nothing to downgrade.
SubscriptionDeleted(a) ==
  /\ At(a, "read", {"deleted"})
  /\ IF row.link = Sub(a)
       THEN Writes(a, DowngradeToFree(row)) /\ UNCHANGED <<pending, acked>>
       ELSE Accepts(a)
  /\ UNCHANGED <<row, invoices, stripeVars, request, faults>>

\* Mutant: the row takes the status of the invoice.
PaymentKeepsInvoiceStatus(a) ==
  /\ At(a, "read", {"paid", "failed"})
  /\ IF FindSubscription(Sub(a), Customer(a))
       THEN Writes(a, ApplyUpdate(row, row.plan, hook[a].data.invoice,
                                  Customer(a), Sub(a), row.anchor))
       ELSE Refuses(a)
  /\ UNCHANGED <<row, invoices, stripeVars, pending, acked, request, faults>>

\* After the invoice: the row takes the outcome of the payment, and the link.
InvoicePayment(a) ==
  /\ At(a, "read", {"paid", "failed"})
  /\ IF FindSubscription(Sub(a), Customer(a))
       THEN Writes(a, ApplyUpdate(row, row.plan,
                                  IF hook[a].ev.kind = "paid" THEN "active" ELSE "past_due",
                                  Customer(a), Sub(a), row.anchor))
       ELSE Refuses(a)
  /\ UNCHANGED <<row, invoices, stripeVars, pending, acked, request, faults>>

\* Only updated_at changes, but the whole row is saved.
RenewalUpcoming(a) ==
  /\ At(a, "read", {"upcoming"})
  /\ IF FindSubscription(Sub(a), Customer(a)) THEN Writes(a, row) ELSE Refuses(a)
  /\ UNCHANGED <<row, invoices, stripeVars, pending, acked, request, faults>>

\* The card names its customer and no subscription.
PaymentMethodExpiring(a) ==
  /\ At(a, "read", {"expiring"})
  /\ IF FindSubscription(None, Customer(a)) THEN Writes(a, row) ELSE Refuses(a)
  /\ UNCHANGED <<row, invoices, stripeVars, pending, acked, request, faults>>

\* The transaction commits; a checkout goes on to the latest invoice.
SaveRow(a) ==
  /\ hook[a].pc = "save"
  /\ row' = hook[a].row
  /\ IF hook[a].ev.kind = "checkout"
       THEN Step(a, "latest") /\ UNCHANGED <<pending, acked>>
       ELSE Accepts(a)
  /\ UNCHANGED <<invoices, stripeVars, request, faults>>

\* Mutant: the checkout does not look for an invoice.
SyncNothing(a) ==
  /\ At(a, "latest", {"checkout"})
  /\ Accepts(a)
  /\ UNCHANGED <<row, invoices, stripeVars, request, faults>>

SyncLatestInvoice(a) ==
  /\ At(a, "latest", {"checkout"})
  /\ Goes(a, [hook[a] EXCEPT !.pc = "owner", !.data = [@ EXCEPT !.bill = stripe[Sub(a)].bill,
                                                     !.invoice = Latest(Sub(a))]])
  /\ UNCHANGED <<row, invoices, stripeVars, pending, acked, request, faults>>

ResolveOwner(a) ==
  /\ At(a, "owner", {"checkout", "paid", "failed"})
  /\ IF FindSubscription(Sub(a), Customer(a)) THEN Step(a, "upsert") ELSE Refuses(a)
  /\ UNCHANGED <<row, invoices, stripeVars, pending, acked, request, faults>>

\* The invoice takes the webhook's snapshot, whatever it was before.
UpsertInvoice(a) ==
  /\ At(a, "upsert", {"checkout", "paid", "failed"})
  /\ invoices' = [invoices EXCEPT ![<<Sub(a), hook[a].data.bill>>] = hook[a].data.invoice]
  /\ IF hook[a].ev.kind = "checkout"
       THEN Accepts(a)
       ELSE Step(a, "read") /\ UNCHANGED <<pending, acked>>
  /\ UNCHANGED <<row, stripeVars, request, faults>>

HookNext(a) ==
  \/ Retrieve(a) \/ CheckoutCompleted(a) \/ SubscriptionUpdated(a) \/ SubscriptionDeleted(a)
  \/ InvoicePayment(a) \/ RenewalUpcoming(a) \/ PaymentMethodExpiring(a)
  \/ SaveRow(a) \/ SyncLatestInvoice(a) \/ ResolveOwner(a) \/ UpsertInvoice(a)

-----------------------------------------------------------------------------
(* The owner's requests *)

\* In place when the row has a live link, else by a checkout session that
\* carries the row's customer.
CreateSubscription(p) ==
  /\ request = NoRequest
  /\ ~(row.plan = p /\ row.link # None)
  /\ \/ /\ CanUpdateStripeSubscription(row)
        /\ request' = [pc |-> "entity", plan |-> p, row |-> NewFreeSubscription]
        /\ UNCHANGED session
     \/ /\ ~CanUpdateStripeSubscription(row)
        /\ \E s \in Subs :
             /\ session[s] = NoSession
             /\ session' = [session EXCEPT ![s] = [plan |-> p, customer |-> row.customer]]
        /\ UNCHANGED request
  /\ UNCHANGED <<row, invoices, stripe, bills, changes, pending, acked, hook, faults>>

\* updateExistingSubscription reads the row again.
UpdateRead ==
  /\ request.pc = "entity"
  /\ request' = IF row.link = None THEN NoRequest
                ELSE [request EXCEPT !.pc = "price", !.row = row]
  /\ UNCHANGED <<row, invoices, stripeVars, pending, acked, hook, faults>>

\* Stripe changes the price and the difference is invoiced and paid at once; it
\* refuses a subscription that has ended, the code one that has the price already.
UpdatePrice ==
  /\ request.pc = "price"
  /\ LET s == request.row.link IN
       \/ /\ Live(s) /\ stripe[s].plan # request.plan
          /\ Prompt => Answered
          /\ stripe[s].bill < MaxBills
          /\ AtStripe(s, [stripe[s] EXCEPT !.plan = request.plan, !.status = "active",
                                           !.bill = @ + 1], "paid", {"updated", "paid"})
          /\ request' = [request EXCEPT
                !.pc = "save",
                !.row = ApplyUpdate(@, request.plan, MapBillingStatus(stripe'[s].status),
                                    stripe[s].customer, s, @.anchor)]
       \/ /\ ~Live(s) \/ stripe[s].plan = request.plan
          /\ request' = NoRequest
          /\ UNCHANGED <<stripe, bills, changes, pending>>
  /\ UNCHANGED <<row, invoices, session, acked, hook, faults>>

UpdateSave ==
  /\ request.pc = "save"
  /\ row' = request.row
  /\ request' = NoRequest
  /\ UNCHANGED <<invoices, stripeVars, pending, acked, hook, faults>>

RequestNext == (\E p \in Plans : CreateSubscription(p)) \/ UpdateRead \/ UpdatePrice \/ UpdateSave

-----------------------------------------------------------------------------
(* Faults *)

Strike(kind) ==
  /\ kind \in Faults
  /\ faults < MaxFaults
  /\ faults' = faults + 1

\* A call to Stripe or the database fails, or times out: 500.
HookFails(a) ==
  /\ Strike("error")
  /\ hook[a] # Idle
  /\ Refuses(a)
  /\ UNCHANGED <<row, invoices, stripeVars, pending, acked, request>>

RequestFails ==
  /\ Strike("error")
  /\ request # NoRequest
  /\ request' = NoRequest
  /\ UNCHANGED <<row, invoices, stripeVars, pending, acked, hook>>

\* Stripe sends again what it has seen answered.
Redeliver(e) ==
  /\ Strike("duplicate")
  /\ e \in acked
  /\ pending' = pending \cup {e}
  /\ UNCHANGED <<row, invoices, stripeVars, acked, hook, request>>

\* A refused payment webhook is not sent again (stripe listen).
Dropped(e) ==
  /\ Strike("drop")
  /\ e \in pending
  /\ e.kind = "paid"
  /\ pending' = pending \ {e}
  /\ UNCHANGED <<row, invoices, stripeVars, acked, hook, request>>

FaultNext ==
  \/ \E a \in Apis : HookFails(a)
  \/ RequestFails
  \/ \E e \in acked : Redeliver(e)
  \/ \E e \in pending : Dropped(e)

Next ==
  \/ StripeNext
  \/ \E a \in Apis : HookNext(a) \/ \E e \in pending : Receive(a, e)
  \/ RequestNext
  \/ FaultNext

Spec == Init /\ [][Next]_vars

Unanswered(k) == {e \in pending : e.kind = k}

(* Fairness.  The api processes run, and Stripe keeps sending a webhook    *)
(* until it is answered with 200, so each kind is received again and       *)
(* again while one of it is unanswered.                                    *)
Fairness ==
  /\ \A a \in Apis : WF_vars(HookNext(a))
  /\ WF_vars(UpdateRead \/ UpdatePrice \/ UpdateSave)
  /\ \A k \in Kinds : SF_vars(\E a \in Apis, e \in Unanswered(k) : Receive(a, e))

FairSpec == Spec /\ Fairness

-----------------------------------------------------------------------------
(* Properties *)

\* What a row says is what Stripe says of its subscription.
Matches(r) ==
  IF r.link = None
    THEN r.plan = Free /\ r.status = "active"
    ELSE /\ Live(r.link)
         /\ r.plan = stripe[r.link].plan
         /\ r.status = MapBillingStatus(stripe[r.link].status)

(* subscription_updated.go, invoice_payment_*.go, create_subscription.go:  *)
(* once every webhook of a change is answered, in whatever order, and the  *)
(* owner's request is over, even if it failed after Stripe took the new    *)
(* price, the row says what Stripe says of its subscription, and an        *)
(* unlinked row is a free one.                                             *)
RowMatchesStripe == Quiet => Matches(row)

(* checkout_completed.go: a checkout saved for a workspace that is on a    *)
(* paid plan already, by a second session or a repeated webhook, does not  *)
(* start its quota period, and with it its usage, anew.                    *)
QuotaPeriodKept ==
  [][\A a \in Apis :
       /\ At(a, "save", {"checkout"}) /\ hook'[a].pc = "latest"
       /\ row.plan # Free /\ row.link # None
       => row'.anchor = row.anchor]_vars

(* docs/billing.md: after checkout links the subscription its first paid   *)
(* invoice is stored, even when the early webhook was dropped.             *)
FirstInvoiceStored ==
  \A e \in acked : e.kind = "checkout" =>
    \E n \in 1..MaxBills : invoices[<<e.sub, n>>] = "paid"

(* billing_webhook_handler.go: a webhook refused because the subscription  *)
(* is not linked yet is accepted after checkout links the subscription.    *)
EventuallyAccepted ==
  \A k \in Kinds : Unanswered(k) # {} ~> Unanswered(k) = {}
-----------------------------------------------------------------------------
(* The inductive invariants behind the properties *)

\* A subscription at Stripe has a paid plan and an invoice, and every webhook
\* and every price change is of one that exists.
Sold ==
  /\ \A s \in Subs :
       /\ session[s] # NoSession => session[s].plan \in Plans
       /\ stripe[s].status # "none" => stripe[s].plan \in Plans /\ stripe[s].bill \in 1..MaxBills
  /\ \A e \in pending \cup acked : stripe[e.sub].status # "none"
  /\ \A a \in Apis : hook[a] # Idle => stripe[Sub(a)].status # "none"
  /\ request.pc \in {"price", "save"} => request.row.link # None

\* No payment is ever declined: every webhook names a paid invoice.
NoDecline == "decline" \notin Changes
Bought(e) == e.bill \in 1..MaxBills /\ e.invoice = "paid"
Paid ==
  /\ \A b \in Bills : bills[b] # "open" /\ invoices[b] # "open"
  /\ \A s \in Subs : stripe[s].status # "none" => Latest(s) = "paid"
  /\ \A e \in pending \cup acked : Bought(e)
  /\ \A a \in Apis : hook[a] # Idle => Bought(hook[a].ev) /\ Bought(hook[a].data)

\* One api process, and Stripe changes nothing while a webhook is open.
Orderly == Prompt /\ (\A a, b \in Apis : a = b) /\ Faults \subseteq {"error"}

\* A webhook speaks of its subscription as it is, and all are of one change.
Current(e) ==
  /\ e.plan = stripe[e.sub].plan /\ e.status = stripe[e.sub].status
  /\ e.kind \in {"checkout", "paid"} => e.status = "active"
  /\ e.kind = "failed" => e.status = "past_due"
  /\ e.kind = "deleted" <=> e.status = "canceled"
OneChange ==
  /\ \A e \in pending : Current(e)
  /\ \A e, f \in pending : e.sub = f.sub /\ (e.kind = "deleted" => e = f)
  /\ \A a \in Apis : hook[a] # Idle =>
       /\ hook[a].ev \in pending
       /\ hook[a].data.plan = stripe[Sub(a)].plan /\ hook[a].data.status = stripe[Sub(a)].status

\* The webhooks that bring the row in line; a payment only confirms it.
Telling == {"checkout", "updated", "deleted"}
Told == \A e \in pending : e.kind \notin Telling
Good(r) == Matches(r) /\ \A e \in pending : e.kind \in {"paid", "failed"} => r.link = e.sub
RowFollows ==
  /\ Told => Good(row)
  /\ \A e \in pending : e.kind = "deleted" => row.link = e.sub \/ Matches(row)
  /\ \A a \in Apis : hook[a].pc = "save" /\ (Told \/ hook[a].ev.kind \in Telling) => Good(hook[a].row)
  /\ \A a \in Apis : hook[a].pc \in {"latest", "owner", "upsert"} /\ hook[a].ev.kind = "checkout" => Good(row)
  /\ request.pc = "save" => Good(request.row) /\ \A e \in pending : e.kind # "checkout"

\* A checkout about to be saved keeps the anchor of a row that is on a paid plan.
AnchorHeld ==
  \A a \in Apis : At(a, "save", {"checkout"}) /\ row.plan # Free /\ row.link # None =>
    hook[a].row.anchor = row.anchor

BillingInv ==
  /\ Sold
  /\ NoDecline => Paid /\ FirstInvoiceStored
  /\ Orderly => OneChange /\ RowFollows /\ AnchorHeld

=============================================================================
