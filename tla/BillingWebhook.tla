--------------------------- MODULE BillingWebhook ---------------------------
(***************************************************************************)
(* The payment provider's webhooks and the company's billing row.          *)
(*                                                                         *)
(* The provider (external: Paddle or Stripe) runs the subscriptions of one *)
(* company and emits an event for each change; it delivers an event again  *)
(* until it gets a 2xx.  Several HTTP handlers process deliveries at once: *)
(* each claims the event's row, runs the handlers registered for it one    *)
(* database statement at a time, and marks the row processed.  A handler   *)
(* may fail (the claim is released, the reply is a 500), and the process   *)
(* may die between two steps (the claim stays until its TTL).              *)
(***************************************************************************)
EXTENDS Naturals, Sequences, FiniteSets

CONSTANTS
  Subs,           \* subscriptions the provider may create
  Foreign,        \* those whose customer is not the one the company stored
  Workers,        \* concurrent webhook requests
  Team,           \* active users of the company
  StartTier,      \* the company's plan before any event: FREE, or one an operator gave
  MaxSeats,       \* bound: seats a buyer picks at checkout
  MaxEvents,      \* bound: events the provider emits
  MaxFaults,      \* bound: handler failures and crashes
  SlowHandlers,   \* TRUE: a claim may outlive its TTL under a live handler
  OneCheckout,    \* TRUE: a buyer opens a checkout only with none under way
  Payments,       \* TRUE: the provider also emits payment events
  NoSub, NoWorker \* the NULL subscription id and the NULL claim

ASSUME SubsAssumption == /\ Foreign \subseteq Subs /\ NoSub \notin Subs
                         /\ NoWorker \notin Workers
ASSUME BoundsAssumption == /\ MaxEvents \in Nat \ {0} /\ MaxFaults \in Nat
                           /\ MaxSeats \in Nat \ {0} /\ Team \in Nat \ {0}
ASSUME TierAssumption == StartTier \in {"FREE", "PRO", "ENTERPRISE"}
ASSUME SwitchAssumption == {SlowHandlers, OneCheckout, Payments} \subseteq BOOLEAN

VARIABLES
  provider,   \* external: state, plan, seats and status of each subscription
  opened,     \* external: checkouts opened and not yet completed
  sent,       \* external: the events emitted, in order; an id is an index
  clock,      \* external: the provider's clock, the occurredAt of the next event
  acked,      \* events the provider got a 2xx for
  row,        \* billing_events, by event id
  company,    \* the billing columns of the company row
  history,    \* billing_history: occurred_at by subscription invoice and type
  pc, cur,    \* each request's next step and its event
  seen,       \* each request's locals read before a later write
  handled,    \* history variable: events some request ran every handler of
  ended,      \* history variable: subscriptions whose cancel the row took
  faults      \* failures and crashes so far

providerVars == <<provider, opened, sent, clock>>
vars == <<provider, opened, sent, clock, acked, row, company, history,
          pc, cur, seen, handled, ended, faults>>

Ids == 1 .. MaxEvents
Plans == {"PRO", "ENTERPRISE"}
Tiers == Plans \cup {"FREE"}
Statuses == {"active", "past_due"}
PaymentKinds == {"succeeded", "failed", "settled"}
LifecycleKinds == {"created", "updated", "canceled"}
Event == [kind : LifecycleKinds \cup PaymentKinds, sub : Subs, at : Nat,
          plan : Plans, seats : Nat, status : Statuses]

Subscription == [state : {"none", "live", "canceled"}, plan : Plans,
                 seats : Nat \ {0}, status : Statuses]

AtLeastOne(n) == IF n = 0 THEN 1 ELSE n

-----------------------------------------------------------------------------
(* The provider.                                                           *)

Live(s) == provider[s].state = "live"

\* Bound: room for n more events, and for the one that a reconcile of each
\* subscription of the company that may be live can still emit.
Room(n) == Len(sent) + n + (IF OneCheckout THEN 1 ELSE Cardinality(Subs \ Foreign)) <= MaxEvents

EventOf(kind, s, p, t) ==
  [kind |-> kind, sub |-> s, at |-> t, plan |-> p.plan, seats |-> p.seats,
   status |-> p.status]

\* One change of subscription s to p, and the events that report it, which
\* share its timestamp.
Emit(s, p, kinds) ==
  /\ provider' = [provider EXCEPT ![s] = p]
  /\ sent' = sent \o [i \in 1 .. Len(kinds) |-> EventOf(kinds[i], s, p, clock)]
  /\ clock' = clock + 1

UnchangedApp == UNCHANGED <<acked, row, company, history, pc, cur, seen,
                            handled, ended, faults>>

\* The company itself is also asked to be FREE; the operator's checkout only
\* asks that no subscription id be stored.
StartCheckout(s) ==
  /\ provider[s].state = "none" /\ s \notin opened
  /\ s \in Foreign \/ company.sub = NoSub
  /\ OneCheckout => opened = {} /\ \A r \in Subs \ Foreign : ~Live(r)
  /\ opened' = opened \cup {s}
  /\ UNCHANGED <<provider, sent, clock>> /\ UnchangedApp

\* The buyer pays; the quantity is editable at checkout.
Subscribe(s) ==
  /\ s \in opened
  /\ opened' = opened \ {s}
  /\ \E plan \in Plans, n \in 1 .. MaxSeats, kinds \in {<<"created">>, <<"created", "updated">>} :
       Room(Len(kinds)) /\ Emit(s, [state |-> "live", plan |-> plan, seats |-> n, status |-> "active"], kinds)
  /\ UnchangedApp

\* The operator switches the plan, or a seat update sets the quantity.
ChangeSubscription(s) ==
  /\ Live(s) /\ Room(1)
  /\ \E plan \in Plans, n \in 1 .. MaxSeats :
       /\ <<plan, n>> # <<provider[s].plan, provider[s].seats>>
       /\ Emit(s, [provider[s] EXCEPT !.plan = plan, !.seats = n], <<"updated">>)
  /\ UNCHANGED opened /\ UnchangedApp

CancelSubscription(s) ==
  /\ Live(s) /\ Room(1)
  /\ Emit(s, [provider[s] EXCEPT !.state = "canceled"], <<"canceled">>)
  /\ UNCHANGED opened /\ UnchangedApp

Bill(s) ==
  /\ Payments /\ Live(s) /\ Room(1)
  /\ \E kind \in PaymentKinds :
       Emit(s, [provider[s] EXCEPT !.status = IF kind = "failed" THEN "past_due" ELSE "active"],
            <<kind>>)
  /\ UNCHANGED opened /\ UnchangedApp

Provider == \E s \in Subs : \/ StartCheckout(s) \/ Subscribe(s)
                            \/ ChangeSubscription(s) \/ CancelSubscription(s) \/ Bill(s)

-----------------------------------------------------------------------------
(* One webhook request.  A request is idle, or at a step named for what it *)
(* does next.                                                              *)

HandlerSteps == {"activate", "fill", "reconcile", "resize", "update", "seats",
                 "read_tier", "plan", "cancel", "record", "status"}
Steps == HandlerSteps \cup {"idle", "lookup", "claim", "release", "mark", "respond"}

EventAt(w) == sent[cur[w]]

\* The handlers registered for an event, by their first step.
FirstStep(ev) ==
  CASE ev.kind = "created"  -> "activate"
    [] ev.kind = "updated"  -> "update"
    [] ev.kind = "canceled" -> "cancel"
    [] OTHER                -> "record"

\* The customer check skips an event of another customer; the row is then
\* marked processed with no handler run.
Begin(ev) == IF ev.sub \in Foreign THEN "mark" ELSE FirstStep(ev)

Goto(w, e, step) ==
  /\ pc' = [pc EXCEPT ![w] = step]
  /\ handled' = IF step = "mark" THEN handled \cup {e} ELSE handled

UnchangedProvider == UNCHANGED providerVars

(* Claiming the event row.                                                 *)

Receive(w, e) ==
  /\ pc[w] = "idle" /\ e \in 1 .. Len(sent) /\ e \notin acked
  /\ cur' = [cur EXCEPT ![w] = e]
  /\ IF row[e].exists
     THEN /\ Goto(w, e, "lookup")
          /\ UNCHANGED row
     ELSE /\ row' = [row EXCEPT ![e] = [exists |-> TRUE, claim |-> w, stale |-> FALSE,
                                        processed |-> FALSE]]
          /\ Goto(w, e, Begin(sent[e]))
  /\ UnchangedProvider /\ UNCHANGED <<acked, company, history, seen, ended, faults>>

UnchangedClaims == UnchangedProvider /\ UNCHANGED <<acked, row, cur>>

\* Mutant: a duplicate is acknowledged without looking at processed_at.
Lookup_AcksDuplicate(w) ==
  /\ pc[w] = "lookup"
  /\ Goto(w, cur[w], "respond")
  /\ UnchangedClaims /\ UNCHANGED <<company, history, seen, ended, faults>>

Lookup(w) ==
  /\ pc[w] = "lookup"
  /\ Goto(w, cur[w], IF row[cur[w]].processed THEN "respond" ELSE "claim")
  /\ UnchangedClaims /\ UNCHANGED <<company, history, seen, ended, faults>>

\* Mutant: any unprocessed row can be claimed.
Claimable_Unprocessed(r) == ~r.processed

\* Mutant: a claim never goes stale.
Claimable_NoTtl(r) == ~r.processed /\ r.claim = NoWorker

Claimable(r) == ~r.processed /\ (r.claim = NoWorker \/ r.stale)

\* The conditional update; no row matched is a 409 and the provider retries.
Claim(w) ==
  /\ pc[w] = "claim"
  /\ IF Claimable(row[cur[w]])
     THEN /\ row' = [row EXCEPT ![cur[w]].claim = w, ![cur[w]].stale = FALSE]
          /\ Goto(w, cur[w], Begin(EventAt(w)))
     ELSE /\ Goto(w, cur[w], "idle")
          /\ UNCHANGED row
  /\ UnchangedProvider /\ UNCHANGED <<acked, cur, company, history, seen, ended, faults>>

\* processing_started_at falls behind the TTL.
Expire(e) ==
  /\ row[e].claim # NoWorker /\ ~row[e].stale /\ ~row[e].processed
  /\ SlowHandlers \/ \A w \in Workers :
       pc[w] \in HandlerSteps \cup {"release", "mark"} => cur[w] # e
  /\ row' = [row EXCEPT ![e].stale = TRUE]
  /\ UnchangedProvider
  /\ UNCHANGED <<acked, company, history, pc, cur, seen, handled, ended, faults>>

\* The error path gives back the claim it took, unless another took it since.
Release(w) ==
  /\ pc[w] = "release"
  /\ row' = [row EXCEPT ![cur[w]] = IF @.claim = w
                                     THEN [@ EXCEPT !.claim = NoWorker, !.stale = FALSE]
                                     ELSE @]
  /\ Goto(w, cur[w], "idle")
  /\ UnchangedProvider /\ UNCHANGED <<acked, cur, company, history, seen, ended, faults>>

Mark(w) ==
  /\ pc[w] = "mark"
  /\ row' = [row EXCEPT ![cur[w]].processed = TRUE]
  /\ Goto(w, cur[w], "respond")
  /\ UnchangedProvider /\ UNCHANGED <<acked, cur, company, history, seen, ended, faults>>

Respond(w) ==
  /\ pc[w] = "respond"
  /\ acked' = acked \cup {cur[w]}
  /\ Goto(w, cur[w], "idle")
  /\ UnchangedProvider /\ UNCHANGED <<row, cur, company, history, seen, ended, faults>>

\* A handler throws, or the statement that marks the row does, which is
\* outside the try and keeps the claim.
Fail(w) ==
  /\ faults < MaxFaults
  /\ pc[w] \in HandlerSteps \cup {"mark"}
  /\ Goto(w, cur[w], IF pc[w] = "mark" THEN "idle" ELSE "release")
  /\ faults' = faults + 1
  /\ UnchangedClaims /\ UNCHANGED <<company, history, seen, ended>>

\* The process dies; the provider sees no reply and retries.
Crash(w) ==
  /\ faults < MaxFaults
  /\ pc[w] # "idle"
  /\ Goto(w, cur[w], "idle")
  /\ faults' = faults + 1
  /\ UnchangedClaims /\ UNCHANGED <<company, history, seen, ended>>

-----------------------------------------------------------------------------
(* The handlers, one database statement or provider call per action.       *)

\* Mutant: no recency guard.
Sync_Always(ev) == TRUE

Sync(ev) == company.at <= ev.at

\* An UPDATE of the company row that also moves billing_last_event_at; it
\* matches no row once a newer event has landed.
ApplyRecencyGuardedSync(ev, patched) ==
  company' = IF Sync(ev) THEN [patched EXCEPT !.at = ev.at] ELSE company

Handler(w, step, next) ==
  /\ pc[w] = step
  /\ Goto(w, cur[w], next)
  /\ UnchangedClaims /\ UNCHANGED faults

Activate(w) ==
  LET ev == EventAt(w)
  IN /\ Handler(w, "activate", IF Sync(ev) THEN "reconcile" ELSE "fill")
     /\ ApplyRecencyGuardedSync(ev, [company EXCEPT !.sub = ev.sub, !.status = ev.status,
                                     !.tier = ev.plan, !.limits = ev.plan,
                                     !.seats = AtLeastOne(ev.seats)])
     /\ UNCHANGED <<history, seen, ended>>

\* A stale activation still names the subscription of a paid company that
\* has none.
FillSubscription(w) ==
  /\ Handler(w, "fill", "reconcile")
  /\ company' = IF company.sub = NoSub /\ company.tier # "FREE"
                THEN [company EXCEPT !.sub = EventAt(w).sub] ELSE company
  /\ UNCHANGED <<history, seen, ended>>

\* The company row is read under the company lock, which webhooks do not take.
ReconcileSeats(w) ==
  /\ Handler(w, "reconcile", IF company.sub # EventAt(w).sub \/ company.tier = "FREE"
                             THEN "mark" ELSE "resize")
  /\ UNCHANGED <<company, history, seen, ended>>

\* The live quantity follows the active team; the provider refuses a
\* subscription that has ended, and the handler fails.
ResizeSeats(w) ==
  LET s == EventAt(w).sub
  IN /\ pc[w] = "resize"
     /\ IF Live(s) /\ provider[s].seats # Team
        THEN Emit(s, [provider[s] EXCEPT !.seats = Team], <<"updated">>)
        ELSE UNCHANGED <<provider, sent, clock>>
     /\ Goto(w, cur[w], IF Live(s) THEN "mark" ELSE "release")
     /\ UNCHANGED <<opened, acked, row, cur, company, history, seen, ended, faults>>

UpdateSubscription(w) ==
  LET ev == EventAt(w)
  IN /\ Handler(w, "update", "seats")
     /\ ApplyRecencyGuardedSync(ev, [company EXCEPT !.seats = AtLeastOne(ev.seats),
                                                    !.status = ev.status])
     /\ UNCHANGED <<history, seen, ended>>

ChangeSeats(w) ==
  LET ev == EventAt(w)
  IN /\ Handler(w, "seats", "read_tier")
     /\ ApplyRecencyGuardedSync(ev, [company EXCEPT !.seats = AtLeastOne(ev.seats)])
     /\ UNCHANGED <<history, seen, ended>>

\* PlanChanged reads the stored tier before its guarded update.
ReadTier(w) ==
  /\ Handler(w, "read_tier", "plan")
  /\ seen' = [seen EXCEPT ![w] = company.tier]
  /\ UNCHANGED <<company, history, ended>>

\* Mutant: the limits are always kept.
ChangePlan_KeepsLimits(w) ==
  LET ev == EventAt(w)
  IN /\ Handler(w, "plan", "mark")
     /\ ApplyRecencyGuardedSync(ev, [company EXCEPT !.tier = ev.plan])
     /\ seen' = [seen EXCEPT ![w] = "FREE"]
     /\ UNCHANGED <<history, ended>>

\* The same tier keeps the limits an operator may have set.
ChangePlan(w) ==
  LET ev == EventAt(w)
  IN /\ Handler(w, "plan", "mark")
     /\ ApplyRecencyGuardedSync(ev, [company EXCEPT !.tier = ev.plan,
                                     !.limits = IF seen[w] = ev.plan THEN @ ELSE ev.plan])
     /\ seen' = [seen EXCEPT ![w] = "FREE"]
     /\ UNCHANGED <<history, ended>>

Cancel(w) ==
  LET ev == EventAt(w)
  IN /\ Handler(w, "cancel", "mark")
     /\ ApplyRecencyGuardedSync(ev, [company EXCEPT !.tier = "FREE", !.limits = "FREE",
                                     !.sub = NoSub, !.status = "canceled"])
     /\ ended' = IF Sync(ev) THEN ended \cup {ev.sub} ELSE ended
     /\ UNCHANGED <<history, seen>>

\* Mutant: the upsert overwrites a newer row.
RecordPayment_LastWriteWins(w) ==
  LET ev == EventAt(w)
  IN /\ Handler(w, "record", "status")
     /\ history' = [history EXCEPT ![ev.sub][ev.kind] = ev.at]
     /\ UNCHANGED <<company, seen, ended>>

\* One history row per invoice and type; an older event never overwrites it.
RecordPayment(w) ==
  LET ev == EventAt(w)
  IN /\ Handler(w, "record", "status")
     /\ history' = [history EXCEPT ![ev.sub][ev.kind] = IF @ <= ev.at THEN ev.at ELSE @]
     /\ UNCHANGED <<company, seen, ended>>

\* Mutant: any payment counts for a company without a subscription.
IsCurrent_AnyTime(ev) == company.sub \in {ev.sub, NoSub}

IsCurrent(ev) == \/ company.sub = ev.sub
                 \/ company.sub = NoSub /\ Sync(ev)

\* A payment moves the status of its own subscription and never the recency
\* mark; a settlement without a charge moves nothing.
ApplyPaymentStatus(w) ==
  LET ev == EventAt(w)
  IN /\ Handler(w, "status", "mark")
     /\ company' = IF ev.kind # "settled" /\ IsCurrent(ev)
                   THEN [company EXCEPT !.status = IF ev.kind = "failed" THEN "past_due"
                                                                         ELSE "active"]
                   ELSE company
     /\ UNCHANGED <<history, seen, ended>>

RunHandler(w) ==
  \/ Activate(w) \/ FillSubscription(w) \/ ReconcileSeats(w) \/ ResizeSeats(w)
  \/ UpdateSubscription(w) \/ ChangeSeats(w) \/ ReadTier(w) \/ ChangePlan(w)
  \/ Cancel(w) \/ RecordPayment(w) \/ ApplyPaymentStatus(w)

Proceed(w) == RunHandler(w) \/ Lookup(w) \/ Claim(w) \/ Release(w) \/ Mark(w) \/ Respond(w)

-----------------------------------------------------------------------------
NoRow == [exists |-> FALSE, claim |-> NoWorker, stale |-> FALSE, processed |-> FALSE]

Init ==
  /\ provider = [s \in Subs |-> [state |-> "none", plan |-> "PRO", seats |-> 1,
                                  status |-> "active"]]
  /\ opened = {} /\ sent = <<>> /\ clock = 1 /\ acked = {}
  /\ row = [e \in Ids |-> NoRow]
  /\ company = [sub |-> NoSub, status |-> "none", tier |-> StartTier, limits |-> StartTier,
                seats |-> 1, at |-> 0]
  /\ history = [s \in Subs |-> [k \in PaymentKinds |-> 0]]
  /\ pc = [w \in Workers |-> "idle"]
  /\ cur = [w \in Workers |-> 1]
  /\ seen = [w \in Workers |-> "FREE"]
  /\ handled = {} /\ ended = {} /\ faults = 0

Next == \/ Provider
        \/ \E w \in Workers, e \in Ids : Receive(w, e)
        \/ \E w \in Workers : Proceed(w) \/ Fail(w) \/ Crash(w)
        \/ \E e \in Ids : Expire(e)

\* A request under way runs on; the provider redelivers until it gets a 2xx;
\* time passes.  Nothing makes the buyer or the provider act.
Fairness == /\ \A w \in Workers : WF_vars(Proceed(w))
            /\ \A e \in Ids : SF_vars(\E w \in Workers : Receive(w, e)) /\ WF_vars(Expire(e))

Spec == Init /\ [][Next]_vars
FairSpec == Spec /\ Fairness

-----------------------------------------------------------------------------
(* Properties.                                                             *)

Row == [exists : BOOLEAN, claim : Workers \cup {NoWorker}, stale : BOOLEAN,
        processed : BOOLEAN]

Company == [sub : Subs \cup {NoSub}, status : Statuses \cup {"none", "canceled"},
            tier : Tiers, limits : Tiers, seats : Nat \ {0}, at : Nat]

\* Every variable stays in its range (the columns of billing_events,
\* companies and billing_history, and the locals of handleWebhook).
TypeOK ==
  /\ provider \in [Subs -> Subscription] /\ opened \subseteq Subs
  /\ sent \in Seq(Event) /\ clock \in Nat /\ faults \in Nat
  /\ acked \subseteq Ids /\ handled \subseteq Ids /\ ended \subseteq Subs
  /\ row \in [Ids -> Row]
  /\ company \in Company
  /\ history \in [Subs -> [PaymentKinds -> Nat]]
  /\ pc \in [Workers -> Steps] /\ cur \in [Workers -> Ids] /\ seen \in [Workers -> Tiers]

Working(w) == pc[w] \in HandlerSteps \cup {"release", "mark"}

\* Two requests never run the handlers of one event at the same time, as long
\* as handlers finish within the TTL of their claim (the insert, the
\* conditional claim and the conditional release of handleWebhook).
OneRequestPerEvent ==
  SlowHandlers \/ \A v, w \in Workers : v # w /\ Working(v) /\ Working(w) => cur[v] # cur[w]

\* The provider is told to stop retrying only after some request ran every
\* handler of the event, however requests crash, fail or overlap
\* (processed_at gates both 200 replies of handleWebhook).
AckedIsHandled == acked \subseteq handled

Settled == \A e \in 1 .. Len(sent) : row[e].processed
Quiet == Settled /\ \A w \in Workers : pc[w] \in {"idle", "lookup", "respond"}
LiveSubs == {s \in Subs \ Foreign : Live(s)}

\* The statuses that the events of a subscription have told of.
ToldStatus(ev) == CASE ev.kind = "failed" -> "past_due"
                    [] ev.kind = "succeeded" -> "active"
                    [] OTHER -> ev.status
Told(s) == {ToldStatus(sent[e]) : e \in {f \in 1 .. Len(sent) : sent[f].sub = s}}

\* Once every event has been processed, in whatever order, number and overlap
\* the deliveries came, the company has the plan, seats and limits the
\* provider bills, and is FREE when nothing is billed.  A row that names the
\* live subscription has a billing status that this very subscription reported
\* (never one of an ended one); which of those is left to the order of its
\* payments, which carry no recency mark.
RowConverges ==
  OneCheckout /\ Quiet =>
    /\ company.limits = company.tier
    /\ \A s \in LiveSubs :
         /\ company.tier = provider[s].plan /\ company.seats = provider[s].seats
         /\ company.sub = s => company.status \in Told(s)
    /\ LiveSubs = {} => /\ company.sub = NoSub
                       /\ company.tier = IF company.at = 0 THEN StartTier ELSE "FREE"

\* The tier and its limits are written by one statement, and PlanChanged reads
\* the tier in another: between them no other request can part the two.
LimitsFollowTier == company.limits = company.tier

\* After every event is processed, a paid company holds the id of the
\* subscription it pays for (the set-once write of onSubscriptionActivated).
SubscriptionIdConverges == Quiet => \A s \in LiveSubs : company.sub = s

\* The recorded payment of an invoice and type is the newest one processed
\* (the WHERE of recordPayment's upsert).
HistoryIsNewest ==
  \A e \in handled : LET ev == sent[e]
                     IN ev.kind \in PaymentKinds /\ ev.sub \notin Foreign
                          => history[ev.sub][ev.kind] >= ev.at

\* An event of another customer's subscription never reaches the row: neither
\* its id nor its plan, and a company that bought nothing keeps the plan it had
\* (isCompanyCustomer).
ForeignIgnored ==
  /\ company.sub \notin Foreign
  /\ \A s \in Foreign, k \in PaymentKinds : history[s][k] = 0
  /\ (\A s \in Subs \ Foreign : provider[s].state = "none") =>
        company.tier = StartTier /\ company.at = 0

\* Seats are never resized on a subscription whose cancellation the company
\* row has already taken (reconcileSeatsToActiveUsers skips such a one).
ReconcileSkipsEnded ==
  \A w \in Workers : pc[w] = "resize" /\ cur[w] \in 1 .. Len(sent) => EventAt(w).sub \notin ended

\* The row never goes back in time: the recency mark only grows, and the plan,
\* the seats and the subscription change only by an event as new as the mark;
\* an older one may only fill a missing subscription id.
RowNeverGoesBack ==
  [][/\ company'.at >= company.at
     /\ \/ company'.tier # company.tier \/ company'.seats # company.seats
        \/ company'.sub # company.sub /\ company.sub # NoSub
        => \E w \in Workers : pc[w] \in HandlerSteps /\ EventAt(w).at = company'.at]_vars

\* A late payment of a subscription whose cancellation was applied leaves the
\* billing status alone, unless the fill of a late activation has brought that
\* subscription's id back (see SubscriptionIdConverges).
CanceledPaymentInert ==
  [][\A w \in Workers : /\ pc[w] = "status" /\ pc'[w] = "mark"
                        /\ EventAt(w).sub \in ended /\ EventAt(w).sub # company.sub
        => company'.status = company.status]_vars

SettledEvents == {e \in Ids : row[e].processed}
RunningEvents == {cur[w] : w \in {v \in Workers : Working(v)}}

Inbox == INSTANCE EventInbox WITH Events <- Ids, running <- RunningEvents,
           done <- handled, settled <- SettledEvents

\* The claims on billing_events implement the inbox: whatever deliveries
\* overlap, fail or crash, an event is handled by one request at a time, is
\* settled once, and is not handled again afterwards.
ImplementsInbox == Inbox!InboxSpec

\* Every event the provider emits is processed in the end, and the provider
\* told so: a crash loses none (the claim's TTL), and none is refused forever.
EveryEventAcked == \A e \in Ids : e <= Len(sent) ~> e \in acked

\* Once every emitted event was processed, in whatever order and by however many
\* requests at once, the company row has the seats and the tier that the provider
\* bills, a status the live subscription reported, and the limits of its tier
\* (RowConverges says when); and a stranger's events never moved it.
CompanyFollows == RowConverges /\ LimitsFollowTier /\ ForeignIgnored
=============================================================================
