------------------------ MODULE BillingWebhookProofs ------------------------
(***************************************************************************)
(* Proofs about BillingWebhook for every number of subscriptions, requests,*)
(* events and faults.                                                      *)
(***************************************************************************)
EXTENDS BillingWebhook, TLAPS, SequenceTheorems

(* Every request under way handles an event that exists, and the row of    *)
(* that event is there.                                                    *)
PointersOK ==
  /\ \A w \in Workers : pc[w] # "idle" => cur[w] <= Len(sent) /\ row[cur[w]].exists
  /\ \A e \in Ids : row[e].exists => e <= Len(sent)

(* The claim protocol: who holds what while it works.                      *)
ClaimsOK ==
  /\ \A e \in Ids : ~row[e].exists => ~row[e].processed
  /\ \A e \in Ids : row[e].processed => e \in handled
  /\ \A w \in Workers : pc[w] = "mark" => cur[w] \in handled
  /\ \A w \in Workers : pc[w] = "respond" => row[cur[w]].processed
  /\ \A e \in acked : row[e].processed

(* While handlers finish within the TTL, the worker of an event holds its  *)
(* fresh claim, and the event is not settled.                              *)
HolderOK ==
  ~SlowHandlers => \A w \in Workers : Working(w) =>
     row[cur[w]].claim = w /\ ~row[cur[w]].stale /\ ~row[cur[w]].processed

IInv == TypeOK /\ PointersOK /\ ClaimsOK /\ HolderOK

USE SubsAssumption, BoundsAssumption, SwitchAssumption, TierAssumption

LEMMA EventType ==
  ASSUME NEW s \in Subs, NEW p \in Subscription, NEW t \in Nat,
         NEW kind \in LifecycleKinds \cup PaymentKinds
  PROVE  EventOf(kind, s, p, t) \in Event
BY DEF EventOf, Event, Subscription

LEMMA ChangeType ==
  ASSUME NEW p \in Subscription
  PROVE  /\ \A plan \in Plans, n \in Nat \ {0} :
              [p EXCEPT !.plan = plan, !.seats = n] \in Subscription
         /\ \A n \in Nat \ {0} : [p EXCEPT !.seats = n] \in Subscription
         /\ [p EXCEPT !.state = "canceled"] \in Subscription
         /\ \A status \in Statuses : [p EXCEPT !.status = status] \in Subscription
BY DEF Subscription

LEMMA KindsType ==
  /\ \A k \in LifecycleKinds \cup PaymentKinds : <<k>> \in Seq(LifecycleKinds \cup PaymentKinds)
  /\ <<"created", "updated">> \in Seq(LifecycleKinds \cup PaymentKinds)
<1> DEFINE K == LifecycleKinds \cup PaymentKinds
<1>1. "created" \in K /\ "updated" \in K
  BY DEF LifecycleKinds
<1> HIDE DEF K
<1>2. <<"created", "updated">> \in Seq(K)
  BY <1>1
<1>3. \A k \in K : <<k>> \in Seq(K)
  OBVIOUS
<1> QED BY <1>2, <1>3 DEF K

LEMMA EmitType ==
  ASSUME TypeOK, NEW s \in Subs, NEW p \in Subscription,
         NEW kinds \in Seq(LifecycleKinds \cup PaymentKinds), Emit(s, p, kinds)
  PROVE  /\ provider' \in [Subs -> Subscription]
         /\ sent' \in Seq(Event) /\ clock' \in Nat
         /\ Len(sent') >= Len(sent)
         /\ \A i \in 1 .. Len(sent) : sent'[i] = sent[i]
<1> DEFINE new == [i \in 1 .. Len(kinds) |-> EventOf(kinds[i], s, p, clock)]
<1>1. new \in Seq(Event)
  <2>1. \A i \in 1 .. Len(kinds) : kinds[i] \in LifecycleKinds \cup PaymentKinds
    OBVIOUS
  <2>2. \A i \in 1 .. Len(kinds) : EventOf(kinds[i], s, p, clock) \in Event
    BY <2>1, EventType DEF TypeOK
  <2> QED BY <2>2
<1>2. sent' = sent \o new
  BY DEF Emit
<1>3. sent \in Seq(Event)
  BY DEF TypeOK
<1> HIDE DEF new
<1>4. sent' \in Seq(Event) /\ Len(sent') >= Len(sent)
       /\ \A i \in 1 .. Len(sent) : sent'[i] = sent[i]
  BY <1>1, <1>2, <1>3
<1> QED BY <1>4 DEF Emit, TypeOK

-----------------------------------------------------------------------------
(* Each kind of step preserves the invariant.                              *)

LEMMA EmitKeeps ==
  ASSUME IInv, NEW s \in Subs, NEW p \in Subscription,
         NEW kinds \in Seq(LifecycleKinds \cup PaymentKinds), Emit(s, p, kinds),
         opened' \subseteq Subs, UnchangedApp
  PROVE  IInv'
<1>1. /\ provider' \in [Subs -> Subscription] /\ sent' \in Seq(Event) /\ clock' \in Nat
      /\ Len(sent') >= Len(sent)
  BY EmitType DEF IInv
<1>2. TypeOK'
  BY <1>1 DEF IInv, TypeOK, UnchangedApp
<1>3. Len(sent) \in Nat /\ Len(sent') \in Nat
  BY <1>1 DEF IInv, TypeOK
<1>4. PointersOK'
  BY <1>1, <1>3 DEF IInv, PointersOK, UnchangedApp, TypeOK, Ids
<1>5. ClaimsOK' /\ HolderOK'
  BY DEF IInv, ClaimsOK, HolderOK, UnchangedApp, Working
<1> QED BY <1>2, <1>4, <1>5 DEF IInv

LEMMA ProviderKeeps ==
  ASSUME IInv, Provider
  PROVE  IInv'
<1> PICK s \in Subs : \/ StartCheckout(s) \/ Subscribe(s)
                      \/ ChangeSubscription(s) \/ CancelSubscription(s) \/ Bill(s)
  BY DEF Provider
<1>0. provider[s] \in Subscription
  BY DEF IInv, TypeOK
<1>1. CASE StartCheckout(s)
  BY <1>1 DEF StartCheckout, IInv, TypeOK, PointersOK, ClaimsOK, HolderOK, UnchangedApp, Working
<1>2. CASE Subscribe(s)
  <2>1. PICK plan \in Plans, n \in 1 .. MaxSeats, kinds \in {<<"created">>, <<"created", "updated">>} :
          Emit(s, [state |-> "live", plan |-> plan, seats |-> n, status |-> "active"], kinds)
    BY <1>2 DEF Subscribe
  <2>2. [state |-> "live", plan |-> plan, seats |-> n, status |-> "active"] \in Subscription
    BY DEF Subscription, Statuses
  <2>3. kinds \in Seq(LifecycleKinds \cup PaymentKinds)
    BY KindsType DEF LifecycleKinds
  <2>4. opened' \subseteq Subs /\ UnchangedApp
    BY <1>2 DEF Subscribe, IInv, TypeOK
  <2> QED BY <2>1, <2>2, <2>3, <2>4, EmitKeeps
<1>3. CASE ChangeSubscription(s)
  <2>1. PICK plan \in Plans, n \in 1 .. MaxSeats :
          Emit(s, [provider[s] EXCEPT !.plan = plan, !.seats = n], <<"updated">>)
    BY <1>3 DEF ChangeSubscription
  <2>2. [provider[s] EXCEPT !.plan = plan, !.seats = n] \in Subscription
    <3>1. n \in Nat \ {0}
      OBVIOUS
    <3> QED BY <3>1, <1>0, ChangeType
  <2>3. <<"updated">> \in Seq(LifecycleKinds \cup PaymentKinds)
    BY KindsType DEF LifecycleKinds
  <2>4. opened' \subseteq Subs /\ UnchangedApp
    BY <1>3 DEF ChangeSubscription, IInv, TypeOK
  <2> QED BY <2>1, <2>2, <2>3, <2>4, EmitKeeps
<1>4. CASE CancelSubscription(s)
  <2>1. Emit(s, [provider[s] EXCEPT !.state = "canceled"], <<"canceled">>)
    BY <1>4 DEF CancelSubscription
  <2>2. [provider[s] EXCEPT !.state = "canceled"] \in Subscription
    BY <1>0, ChangeType
  <2>3. <<"canceled">> \in Seq(LifecycleKinds \cup PaymentKinds)
    BY KindsType DEF LifecycleKinds
  <2>4. opened' \subseteq Subs /\ UnchangedApp
    BY <1>4 DEF CancelSubscription, IInv, TypeOK
  <2> QED BY <2>1, <2>2, <2>3, <2>4, EmitKeeps
<1>5. CASE Bill(s)
  <2>1. PICK kind \in PaymentKinds :
          Emit(s, [provider[s] EXCEPT !.status = IF kind = "failed" THEN "past_due" ELSE "active"],
               <<kind>>)
    BY <1>5 DEF Bill
  <2>2. [provider[s] EXCEPT !.status = IF kind = "failed" THEN "past_due" ELSE "active"]
          \in Subscription
    <3>1. (IF kind = "failed" THEN "past_due" ELSE "active") \in Statuses
      BY DEF Statuses
    <3> QED BY <3>1, <1>0, ChangeType
  <2>3. <<kind>> \in Seq(LifecycleKinds \cup PaymentKinds)
    BY KindsType
  <2>4. opened' \subseteq Subs /\ UnchangedApp
    BY <1>5 DEF Bill, IInv, TypeOK
  <2> QED BY <2>1, <2>2, <2>3, <2>4, EmitKeeps
<1> QED BY <1>1, <1>2, <1>3, <1>4, <1>5

LEMMA CurrentEvent ==
  ASSUME IInv, NEW w \in Workers, pc[w] # "idle"
  PROVE  cur[w] \in 1 .. Len(sent) /\ EventAt(w) \in Event
BY DEF IInv, TypeOK, PointersOK, EventAt, Ids

(* A handler's step: the claims stay, the request moves on, and whatever   *)
(* else it writes keeps its type.                                          *)
LEMMA HandlerKeeps ==
  ASSUME IInv, NEW w \in Workers, pc[w] \in HandlerSteps,
         NEW next \in HandlerSteps \cup {"mark", "release"}, Goto(w, cur[w], next),
         UNCHANGED <<acked, row, cur, opened>>,
         provider' \in [Subs -> Subscription], clock' \in Nat, faults' \in Nat,
         sent' \in Seq(Event), Len(sent') >= Len(sent),
         company' \in Company, history' \in [Subs -> [PaymentKinds -> Nat]],
         ended' \subseteq Subs, seen' \in [Workers -> Tiers]
  PROVE  IInv'
<1>1. /\ next \in Steps /\ next # "idle" /\ next # "respond" /\ pc[w] # "idle"
      /\ next \in HandlerSteps \cup {"release", "mark"}
  BY DEF Steps, HandlerSteps
<1>2. pc' = [pc EXCEPT ![w] = next]
  BY DEF Goto
<1>3. /\ handled \subseteq handled' /\ handled' \subseteq handled \cup {cur[w]}
      /\ next = "mark" => cur[w] \in handled'
  BY DEF Goto
<1>4. TypeOK'
  BY <1>1, <1>2, <1>3 DEF IInv, TypeOK
<1>5. Len(sent) \in Nat /\ Len(sent') \in Nat
  BY DEF IInv, TypeOK
<1>6. PointersOK'
  BY <1>1, <1>2, <1>5 DEF IInv, TypeOK, PointersOK, Ids
<1>7. ClaimsOK'
  BY <1>1, <1>2, <1>3 DEF IInv, TypeOK, ClaimsOK
<1>8. HolderOK'
  BY <1>1, <1>2 DEF IInv, TypeOK, HolderOK, Working
<1> QED BY <1>4, <1>6, <1>7, <1>8 DEF IInv

LEMMA SeatsType ==
  ASSUME NEW ev \in Event
  PROVE  AtLeastOne(ev.seats) \in Nat \ {0}
BY DEF Event, AtLeastOne

LEMMA SyncType ==
  ASSUME NEW ev \in Event, NEW patched \in Company, company \in Company,
         ApplyRecencyGuardedSync(ev, patched)
  PROVE  company' \in Company
<1>1. ev.at \in Nat
  BY DEF Event
<1> QED BY <1>1 DEF ApplyRecencyGuardedSync, Company

LEMMA RunHandlerKeeps ==
  ASSUME IInv, NEW w \in Workers, RunHandler(w)
  PROVE  IInv'
<1> DEFINE ev == EventAt(w)
<1>1. pc[w] \in HandlerSteps /\ pc[w] # "idle"
  BY DEF RunHandler, Handler, HandlerSteps, Activate, FillSubscription, ReconcileSeats, ResizeSeats,
         UpdateSubscription, ChangeSeats, ReadTier, ChangePlan, Cancel, RecordPayment,
         ApplyPaymentStatus
<1>2. ev \in Event /\ company \in Company /\ seen \in [Workers -> Tiers]
      /\ seen[w] \in Tiers /\ "FREE" \in Tiers /\ company.tier \in Tiers
  BY <1>1, CurrentEvent DEF IInv, TypeOK, Company, Tiers
<1>3. /\ provider \in [Subs -> Subscription] /\ clock \in Nat /\ faults \in Nat
      /\ sent \in Seq(Event) /\ Len(sent) >= Len(sent)
      /\ history \in [Subs -> [PaymentKinds -> Nat]] /\ ended \subseteq Subs
  BY DEF IInv, TypeOK
<1> HIDE DEF ev
<1>4. ASSUME NEW step, NEW next \in HandlerSteps \cup {"mark", "release"},
             Handler(w, step, next), company' \in Company,
             history' \in [Subs -> [PaymentKinds -> Nat]], ended' \subseteq Subs,
             seen' \in [Workers -> Tiers]
      PROVE  IInv'
  <2>1. Goto(w, cur[w], next) /\ UNCHANGED <<provider, opened, sent, clock, acked, row, cur, faults>>
    BY <1>4 DEF Handler, UnchangedClaims, UnchangedProvider, providerVars
  <2> QED BY <1>1, <1>3, <1>4, <2>1, HandlerKeeps
<1>5. "reconcile" \in HandlerSteps /\ "fill" \in HandlerSteps /\ "resize" \in HandlerSteps
      /\ "seats" \in HandlerSteps /\ "read_tier" \in HandlerSteps /\ "plan" \in HandlerSteps
      /\ "status" \in HandlerSteps
  BY DEF HandlerSteps
<1>6. CASE Activate(w)
  <2>1. [company EXCEPT !.sub = ev.sub, !.status = ev.status, !.tier = ev.plan,
                        !.limits = ev.plan, !.seats = AtLeastOne(ev.seats)] \in Company
    <3>1. ev.sub \in Subs /\ ev.status \in Statuses /\ ev.plan \in Tiers
      BY <1>2 DEF Event, Tiers
    <3> QED BY <1>2, <3>1, SeatsType DEF Company
  <2>2. company' \in Company
    BY <1>2, <1>6, <2>1, SyncType DEF Activate, ev
  <2> QED BY <1>2, <1>3, <1>4, <1>5, <1>6, <2>2 DEF Activate
<1>7. CASE FillSubscription(w)
  <2>1. company' \in Company
    BY <1>2, <1>7 DEF FillSubscription, Company, Event, ev
  <2> QED BY <1>2, <1>3, <1>4, <1>5, <1>7, <2>1 DEF FillSubscription
<1>8. CASE ReconcileSeats(w)
  BY <1>2, <1>3, <1>4, <1>5, <1>8 DEF ReconcileSeats
<1>9. CASE ResizeSeats(w)
  <2>1. /\ Goto(w, cur[w], IF Live(ev.sub) THEN "mark" ELSE "release")
        /\ UNCHANGED <<opened, acked, row, cur, company, history, seen, ended, faults>>
    BY <1>9 DEF ResizeSeats, ev
  <2>2. ev.sub \in Subs /\ provider[ev.sub] \in Subscription /\ Team \in Nat \ {0}
    BY <1>2, <1>3 DEF Event
  <2>3. /\ provider' \in [Subs -> Subscription] /\ sent' \in Seq(Event) /\ clock' \in Nat
        /\ Len(sent') >= Len(sent)
    <3>1. CASE UNCHANGED <<provider, sent, clock>>
      BY <1>3, <3>1
    <3>2. CASE Emit(ev.sub, [provider[ev.sub] EXCEPT !.seats = Team], <<"updated">>)
      <4>1. [provider[ev.sub] EXCEPT !.seats = Team] \in Subscription
        BY <2>2, ChangeType
      <4>2. <<"updated">> \in Seq(LifecycleKinds \cup PaymentKinds)
        BY KindsType DEF LifecycleKinds
      <4> QED BY <2>2, <3>2, <4>1, <4>2, EmitType DEF IInv
    <3> QED BY <1>9, <3>1, <3>2 DEF ResizeSeats, ev
  <2>4. CASE Live(ev.sub)
    <3>1. Goto(w, cur[w], "mark")
      BY <2>1, <2>4
    <3> QED BY <1>1, <1>2, <1>3, <2>1, <2>3, <3>1, HandlerKeeps
  <2>5. CASE ~Live(ev.sub)
    <3>1. Goto(w, cur[w], "release")
      BY <2>1, <2>5
    <3> QED BY <1>1, <1>2, <1>3, <2>1, <2>3, <3>1, HandlerKeeps
  <2> QED BY <2>4, <2>5
<1>10. CASE UpdateSubscription(w)
  <2>1. [company EXCEPT !.seats = AtLeastOne(ev.seats), !.status = ev.status] \in Company
    <3>1. ev.status \in Statuses
      BY <1>2 DEF Event
    <3> QED BY <1>2, <3>1, SeatsType DEF Company
  <2>2. company' \in Company
    BY <1>2, <1>10, <2>1, SyncType DEF UpdateSubscription, ev
  <2> QED BY <1>2, <1>3, <1>4, <1>5, <1>10, <2>2 DEF UpdateSubscription
<1>11. CASE ChangeSeats(w)
  <2>1. [company EXCEPT !.seats = AtLeastOne(ev.seats)] \in Company
    BY <1>2, SeatsType DEF Company
  <2>2. company' \in Company
    BY <1>2, <1>11, <2>1, SyncType DEF ChangeSeats, ev
  <2> QED BY <1>2, <1>3, <1>4, <1>5, <1>11, <2>2 DEF ChangeSeats
<1>12. CASE ReadTier(w)
  BY <1>2, <1>3, <1>4, <1>5, <1>12 DEF ReadTier
<1>13. CASE ChangePlan(w)
  <2>1. [company EXCEPT !.tier = ev.plan, !.limits = IF seen[w] = ev.plan THEN @ ELSE ev.plan]
          \in Company
    BY <1>2 DEF Company, Event, Tiers
  <2>2. company' \in Company
    BY <1>2, <1>13, <2>1, SyncType DEF ChangePlan, ev
  <2>3. seen' \in [Workers -> Tiers]
    BY <1>2, <1>13 DEF ChangePlan
  <2> QED BY <1>3, <1>4, <1>13, <2>2, <2>3 DEF ChangePlan
<1>14. CASE Cancel(w)
  <2>1. [company EXCEPT !.tier = "FREE", !.limits = "FREE", !.sub = NoSub, !.status = "canceled"]
          \in Company
    BY <1>2 DEF Company
  <2>2. company' \in Company
    BY <1>2, <1>14, <2>1, SyncType DEF Cancel, ev
  <2>3. ended' \subseteq Subs
    BY <1>2, <1>3, <1>14 DEF Cancel, Event, ev
  <2> QED BY <1>2, <1>3, <1>4, <1>14, <2>2, <2>3 DEF Cancel
<1>15. CASE RecordPayment(w)
  <2>1. ev.at \in Nat
    BY <1>2 DEF Event
  <2>2. history' \in [Subs -> [PaymentKinds -> Nat]]
    BY <1>3, <1>15, <2>1 DEF RecordPayment, ev
  <2> QED BY <1>2, <1>3, <1>4, <1>5, <1>15, <2>2 DEF RecordPayment
<1>16. CASE ApplyPaymentStatus(w)
  <2>1. company' \in Company
    BY <1>2, <1>16 DEF ApplyPaymentStatus, Company, Statuses
  <2> QED BY <1>2, <1>3, <1>4, <1>16, <2>1 DEF ApplyPaymentStatus
<1> QED BY <1>6, <1>7, <1>8, <1>9, <1>10, <1>11, <1>12, <1>13, <1>14, <1>15, <1>16 DEF RunHandler

(* The steps that move the claim of an event row.                          *)

LEMMA StepType ==
  /\ \A ev \in Event : Begin(ev) \in HandlerSteps \cup {"mark"}
  /\ HandlerSteps \subseteq Steps
  /\ {"idle", "lookup", "claim", "release", "mark", "respond"} \subseteq Steps
  /\ HandlerSteps \cap {"idle", "lookup", "claim", "release", "mark", "respond"} = {}
BY DEF Begin, FirstStep, HandlerSteps, Steps, Event

LEMMA ReceiveKeeps ==
  ASSUME IInv, NEW w \in Workers, NEW e \in Ids, Receive(w, e)
  PROVE  IInv'
<1>1. /\ pc[w] = "idle" /\ e \in 1 .. Len(sent) /\ cur' = [cur EXCEPT ![w] = e]
      /\ UNCHANGED <<provider, opened, sent, clock, acked, company, history, seen, ended, faults>>
      /\ sent[e] \in Event
  BY DEF Receive, UnchangedProvider, providerVars, IInv, TypeOK
<1>2. CASE row[e].exists
  <2>1. pc' = [pc EXCEPT ![w] = "lookup"] /\ handled' = handled /\ UNCHANGED row
    BY <1>2 DEF Receive, Goto
  <2> QED
    BY <1>1, <1>2, <2>1, StepType
    DEF IInv, TypeOK, PointersOK, ClaimsOK, HolderOK, Working, Ids
<1>3. CASE ~row[e].exists
  <2> DEFINE step == Begin(sent[e])
             new == [exists |-> TRUE, claim |-> w, stale |-> FALSE, processed |-> FALSE]
  <2>1. /\ pc' = [pc EXCEPT ![w] = step] /\ row' = [row EXCEPT ![e] = new]
        /\ handled \subseteq handled' /\ handled' \subseteq handled \cup {e}
        /\ step = "mark" => e \in handled'
    BY <1>3 DEF Receive, Goto
  <2>2. step \in HandlerSteps \cup {"mark"} /\ step \in Steps
    BY <1>1, StepType
  <2>3. new \in Row
    BY DEF Row
  <2> HIDE DEF step
  <2>4. TypeOK'
    BY <1>1, <2>1, <2>2, <2>3 DEF IInv, TypeOK
  <2>5. PointersOK' /\ ClaimsOK'
    BY <1>1, <1>3, <2>1, <2>2, StepType DEF IInv, TypeOK, PointersOK, ClaimsOK, Ids
  <2>6. HolderOK'
    BY <1>1, <1>3, <2>1, <2>2, StepType DEF IInv, TypeOK, PointersOK, HolderOK, Working
  <2> QED BY <2>4, <2>5, <2>6 DEF IInv
<1> QED BY <1>2, <1>3

LEMMA ClaimKeeps ==
  ASSUME IInv, NEW w \in Workers, Claim(w)
  PROVE  IInv'
<1>1. /\ pc[w] = "claim"
      /\ UNCHANGED <<provider, opened, sent, clock, acked, cur, company, history, seen, ended, faults>>
      /\ EventAt(w) \in Event /\ cur[w] \in Ids
  BY CurrentEvent DEF Claim, UnchangedProvider, providerVars, IInv, TypeOK
<1>2. CASE Claimable(row[cur[w]])
  <2> DEFINE step == Begin(EventAt(w))
  <2>1. /\ pc' = [pc EXCEPT ![w] = step]
        /\ row' = [row EXCEPT ![cur[w]] = [@ EXCEPT !.claim = w, !.stale = FALSE]]
        /\ handled \subseteq handled' /\ handled' \subseteq handled \cup {cur[w]}
        /\ step = "mark" => cur[w] \in handled'
    BY <1>2 DEF Claim, Goto
  <2>2. step \in HandlerSteps \cup {"mark"} /\ step \in Steps
    BY <1>1, StepType
  <2> HIDE DEF step
  <2>3. [row[cur[w]] EXCEPT !.claim = w, !.stale = FALSE] \in Row
    <3>1. row[cur[w]] \in Row
      BY <1>1 DEF IInv, TypeOK
    <3> QED BY <3>1 DEF Row
  <2>4. TypeOK'
    BY <1>1, <2>1, <2>2, <2>3 DEF IInv, TypeOK
  <2>5. \A e \in Ids : row'[e].exists = row[e].exists /\ row'[e].processed = row[e].processed
    BY <1>1, <2>1 DEF IInv, TypeOK, Row
  <2>6. PointersOK'
    BY <1>1, <2>1, <2>2, <2>5, StepType DEF IInv, TypeOK, PointersOK
  <2>7. ClaimsOK'
    BY <1>1, <2>1, <2>2, <2>5, StepType DEF IInv, TypeOK, ClaimsOK
  <2>8. HolderOK'
    BY <1>1, <1>2, <2>1, <2>2, StepType
    DEF IInv, TypeOK, PointersOK, HolderOK, Working, Claimable, Row
  <2> QED BY <2>4, <2>6, <2>7, <2>8 DEF IInv
<1>3. CASE ~Claimable(row[cur[w]])
  <2>1. pc' = [pc EXCEPT ![w] = "idle"] /\ handled' = handled /\ UNCHANGED row
    BY <1>3 DEF Claim, Goto
  <2> QED
    BY <1>1, <2>1, StepType DEF IInv, TypeOK, PointersOK, ClaimsOK, HolderOK, Working
<1> QED BY <1>2, <1>3

LEMMA ExpireKeeps ==
  ASSUME IInv, NEW e \in Ids, Expire(e)
  PROVE  IInv'
<1>1. /\ row' = [row EXCEPT ![e] = [@ EXCEPT !.stale = TRUE]]
      /\ UNCHANGED <<provider, opened, sent, clock, acked, company, history, pc, cur, seen,
                     handled, ended, faults>>
      /\ SlowHandlers \/ \A w \in Workers : Working(w) => cur[w] # e
      /\ row[e] \in Row
  BY DEF Expire, UnchangedProvider, providerVars, Working, IInv, TypeOK
<1>2. [row[e] EXCEPT !.stale = TRUE] \in Row
  BY <1>1 DEF Row
<1>3. TypeOK'
  BY <1>1, <1>2 DEF IInv, TypeOK
<1>4. \A i \in Ids : row'[i].exists = row[i].exists /\ row'[i].processed = row[i].processed
  BY <1>1 DEF IInv, TypeOK, Row
<1>5. PointersOK' /\ ClaimsOK'
  BY <1>1, <1>4 DEF IInv, TypeOK, PointersOK, ClaimsOK
<1>6. HolderOK'
  BY <1>1 DEF IInv, TypeOK, HolderOK, Working
<1> QED BY <1>3, <1>5, <1>6 DEF IInv

LEMMA ReleaseKeeps ==
  ASSUME IInv, NEW w \in Workers, Release(w)
  PROVE  IInv'
<1> DEFINE r == row[cur[w]]
           new == IF r.claim = w THEN [r EXCEPT !.claim = NoWorker, !.stale = FALSE] ELSE r
<1>1. /\ pc[w] = "release" /\ pc' = [pc EXCEPT ![w] = "idle"] /\ handled' = handled
      /\ row' = [row EXCEPT ![cur[w]] = new]
      /\ UNCHANGED <<provider, opened, sent, clock, acked, cur, company, history, seen, ended, faults>>
      /\ cur[w] \in Ids /\ r \in Row
  BY DEF Release, Goto, UnchangedProvider, providerVars, IInv, TypeOK
<1>2. new \in Row /\ new.exists = r.exists /\ new.processed = r.processed
  BY <1>1 DEF Row
<1>3. TypeOK'
  BY <1>1, <1>2, StepType DEF IInv, TypeOK
<1>4. \A e \in Ids : row'[e].exists = row[e].exists /\ row'[e].processed = row[e].processed
  BY <1>1, <1>2 DEF IInv, TypeOK
<1>5. PointersOK' /\ ClaimsOK'
  BY <1>1, <1>4 DEF IInv, TypeOK, PointersOK, ClaimsOK
<1>6. HolderOK'
  <2>1. ASSUME ~SlowHandlers, NEW v \in Workers, Working(v)'
        PROVE  v # w /\ cur[v] # cur[w] /\ row'[cur[v]] = row[cur[v]] /\ Working(v)
    <3>1. v # w /\ Working(v) /\ Working(w)
      BY <1>1, <2>1, StepType DEF Working, IInv, TypeOK
    <3>2. cur[v] # cur[w]
      BY <2>1, <3>1 DEF IInv, HolderOK
    <3> QED BY <1>1, <3>1, <3>2 DEF IInv, TypeOK
  <2> QED BY <1>1, <2>1 DEF IInv, HolderOK
<1> QED BY <1>3, <1>5, <1>6 DEF IInv

LEMMA MarkKeeps ==
  ASSUME IInv, NEW w \in Workers, Mark(w)
  PROVE  IInv'
<1> DEFINE r == row[cur[w]]
           new == [r EXCEPT !.processed = TRUE]
<1>1. /\ pc[w] = "mark" /\ pc' = [pc EXCEPT ![w] = "respond"] /\ handled' = handled
      /\ row' = [row EXCEPT ![cur[w]] = new]
      /\ UNCHANGED <<provider, opened, sent, clock, acked, cur, company, history, seen, ended, faults>>
      /\ cur[w] \in Ids /\ r \in Row /\ cur[w] \in handled /\ r.exists
  BY DEF Mark, Goto, UnchangedProvider, providerVars, IInv, TypeOK, ClaimsOK, PointersOK
<1>2. new \in Row /\ new.exists = r.exists /\ new.processed
  BY <1>1 DEF Row
<1>3. TypeOK'
  BY <1>1, <1>2, StepType DEF IInv, TypeOK
<1>4. \A e \in Ids : row'[e].exists = row[e].exists /\ (row[e].processed => row'[e].processed)
                     /\ (row'[e].processed => row[e].processed \/ e = cur[w])
  BY <1>1, <1>2 DEF IInv, TypeOK
<1>5. PointersOK'
  BY <1>1, <1>4 DEF IInv, TypeOK, PointersOK
<1>6. ClaimsOK'
  BY <1>1, <1>2, <1>4 DEF IInv, TypeOK, ClaimsOK
<1>7. HolderOK'
  <2>1. ASSUME ~SlowHandlers, NEW v \in Workers, Working(v)'
        PROVE  row'[cur[v]] = row[cur[v]] /\ Working(v)
    <3>1. v # w /\ Working(v) /\ Working(w)
      BY <1>1, <2>1, StepType DEF Working, IInv, TypeOK
    <3>2. cur[v] # cur[w]
      BY <2>1, <3>1 DEF IInv, HolderOK
    <3> QED BY <1>1, <3>1, <3>2 DEF IInv, TypeOK
  <2> QED BY <1>1, <2>1 DEF IInv, HolderOK
<1> QED BY <1>3, <1>5, <1>6, <1>7 DEF IInv

(* The steps that leave every claim and every row alone: the request moves *)
(* to a step where it does not work on its event, or acknowledges it.      *)
LEMMA LeaveKeeps ==
  ASSUME IInv, NEW w \in Workers, Lookup(w) \/ Respond(w) \/ Fail(w) \/ Crash(w)
  PROVE  IInv'
<1>1. /\ UNCHANGED <<provider, opened, sent, clock, row, cur, company, history, seen, ended>>
      /\ handled' = handled /\ faults' \in Nat /\ pc[w] # "idle" /\ cur[w] \in Ids
  BY StepType DEF Lookup, Respond, Fail, Crash, Goto, UnchangedClaims, UnchangedProvider,
     providerVars, IInv, TypeOK
<1>2. CASE Lookup(w)
  <2>1. PICK next \in {"respond", "claim"} :
          pc' = [pc EXCEPT ![w] = next] /\ (next = "respond" => row[cur[w]].processed)
    BY <1>2 DEF Lookup, Goto
  <2> QED BY <1>1, <1>2, <2>1, StepType
          DEF Lookup, UnchangedClaims, IInv, TypeOK, PointersOK, ClaimsOK, HolderOK, Working
<1>3. CASE Respond(w)
  BY <1>1, <1>3, StepType
  DEF Respond, Goto, IInv, TypeOK, PointersOK, ClaimsOK, HolderOK, Working
<1>4. CASE Fail(w)
  <2>1. PICK next \in {"idle", "release"} : pc' = [pc EXCEPT ![w] = next]
    BY <1>4 DEF Fail, Goto
  <2>2. Working(w)
    BY <1>4 DEF Fail, Working
  <2> QED BY <1>1, <1>4, <2>1, <2>2, StepType
          DEF Fail, UnchangedClaims, IInv, TypeOK, PointersOK, ClaimsOK, HolderOK, Working
<1>5. CASE Crash(w)
  BY <1>1, <1>5, StepType
  DEF Crash, Goto, UnchangedClaims, IInv, TypeOK, PointersOK, ClaimsOK, HolderOK, Working
<1> QED BY <1>2, <1>3, <1>4, <1>5

LEMMA InitInv == Init => IInv
<1> SUFFICES ASSUME Init PROVE IInv
  OBVIOUS
<1>1. NoRow \in Row
  BY DEF NoRow, Row
<1>2. TypeOK
  <2>1. company \in Company
    BY DEF Init, Company, Tiers, Plans, Statuses
  <2>2. sent \in Seq(Event)
    BY DEF Init
  <2>3. provider \in [Subs -> Subscription]
    BY DEF Init, Subscription, Plans, Statuses
  <2> QED BY <1>1, <2>1, <2>2, <2>3 DEF Init, TypeOK, Steps, Ids, Tiers
<1>3. PointersOK /\ ClaimsOK /\ HolderOK
  BY DEF Init, PointersOK, ClaimsOK, HolderOK, Working, HandlerSteps, NoRow
<1> QED BY <1>2, <1>3 DEF IInv

LEMMA NextInv == IInv /\ [Next]_vars => IInv'
<1> SUFFICES ASSUME IInv, [Next]_vars PROVE IInv'
  OBVIOUS
<1>1. CASE Provider
  BY <1>1, ProviderKeeps
<1>2. ASSUME NEW w \in Workers, NEW e \in Ids, Receive(w, e) PROVE IInv'
  BY <1>2, ReceiveKeeps
<1>3. ASSUME NEW w \in Workers, Proceed(w) \/ Fail(w) \/ Crash(w) PROVE IInv'
  BY <1>3, RunHandlerKeeps, ClaimKeeps, ReleaseKeeps, MarkKeeps, LeaveKeeps DEF Proceed
<1>4. ASSUME NEW e \in Ids, Expire(e) PROVE IInv'
  BY <1>4, ExpireKeeps
<1>5. CASE UNCHANGED vars
  BY <1>5 DEF vars, IInv, TypeOK, PointersOK, ClaimsOK, HolderOK, Working
<1> QED BY <1>1, <1>2, <1>3, <1>4, <1>5 DEF Next

LEMMA SpecInv == Spec => []IInv
BY InitInv, NextInv, PTL DEF Spec

-----------------------------------------------------------------------------
(* The theorems.                                                           *)

\* Every variable keeps its type: the row's columns, the claims and the
\* request's locals, whatever the deliveries do.
THEOREM TypeCorrect == Spec => []TypeOK
<1>1. IInv => TypeOK
  BY DEF IInv
<1> QED BY <1>1, SpecInv, PTL

\* The provider is told to stop retrying an event only after some request ran
\* every handler of it, for any number of overlapping, failing and crashing
\* deliveries.
THEOREM AckedAreHandled == Spec => []AckedIsHandled
<1>1. IInv => AckedIsHandled
  BY DEF IInv, TypeOK, ClaimsOK, AckedIsHandled
<1> QED BY <1>1, SpecInv, PTL

\* While handlers finish within the TTL of a claim, the insert, the
\* conditional claim and the conditional release keep two requests from
\* running the handlers of one event at the same time.
THEOREM OneAtATime == Spec => []OneRequestPerEvent
<1>1. IInv => OneRequestPerEvent
  BY DEF IInv, HolderOK, OneRequestPerEvent
<1> QED BY <1>1, SpecInv, PTL

-----------------------------------------------------------------------------
(* The claims implement EventInbox.                                        *)

InboxStep == [Inbox!InboxNext]_(Inbox!inboxVars)

(* The steps of the inbox, one lemma each.                                 *)
LEMMA InboxStarts ==
  ASSUME NEW e \in Ids, e \notin RunningEvents, e \notin SettledEvents,
         RunningEvents' = RunningEvents \cup {e}, handled' \in {handled, handled \cup {e}},
         SettledEvents' = SettledEvents, acked' = acked
  PROVE  InboxStep
BY DEF InboxStep, Inbox!InboxNext, Inbox!Start, RunningEvents, SettledEvents

LEMMA InboxAbandons ==
  ASSUME NEW e \in RunningEvents, e \in Ids, RunningEvents' = RunningEvents \ {e},
         handled' = handled, SettledEvents' = SettledEvents, acked' = acked
  PROVE  InboxStep
BY DEF InboxStep, Inbox!InboxNext, Inbox!Abandon, RunningEvents, SettledEvents

LEMMA InboxCompletes ==
  ASSUME NEW e \in RunningEvents, e \in Ids, RunningEvents' = RunningEvents,
         handled' \in {handled, handled \cup {e}}, SettledEvents' = SettledEvents, acked' = acked
  PROVE  InboxStep
BY DEF InboxStep, Inbox!InboxNext, Inbox!Complete, Inbox!inboxVars, RunningEvents, SettledEvents

LEMMA InboxSettles ==
  ASSUME NEW e \in RunningEvents, e \in Ids, e \in handled, RunningEvents' = RunningEvents \ {e},
         SettledEvents' = SettledEvents \cup {e}, handled' = handled, acked' = acked
  PROVE  InboxStep
BY DEF InboxStep, Inbox!InboxNext, Inbox!Settle, RunningEvents, SettledEvents

LEMMA InboxAcknowledges ==
  ASSUME NEW e \in SettledEvents, RunningEvents' = RunningEvents,
         SettledEvents' = SettledEvents, handled' = handled, acked' = acked \cup {e}
  PROVE  InboxStep
BY DEF InboxStep, Inbox!InboxNext, Inbox!Acknowledge, RunningEvents, SettledEvents

LEMMA InboxStays ==
  ASSUME RunningEvents' = RunningEvents, handled' = handled, SettledEvents' = SettledEvents, acked' = acked
  PROVE  InboxStep
BY DEF InboxStep, Inbox!inboxVars, RunningEvents, SettledEvents

(* The claims of the rows stay or move, and none is settled.               *)
LEMMA NoneSettled ==
  ASSUME \A e \in Ids : row'[e].processed = row[e].processed
  PROVE  SettledEvents' = SettledEvents
BY DEF SettledEvents

(* One request's step: it goes on with its event, takes one up or leaves   *)
(* it; nobody else has it.                                                 *)
LEMMA RequestRuns ==
  ASSUME NEW w \in Workers, \A v \in Workers \ {w} : pc'[v] = pc[v] /\ cur'[v] = cur[v]
  PROVE  /\ Working(w) /\ Working(w)' /\ cur'[w] = cur[w] => RunningEvents' = RunningEvents
         /\ ~Working(w) /\ ~Working(w)' => RunningEvents' = RunningEvents
         /\ ~Working(w) /\ Working(w)' => RunningEvents' = RunningEvents \cup {cur'[w]}
         /\ Working(w) /\ ~Working(w)' /\ (\A v \in Workers \ {w} : Working(v) => cur[v] # cur[w])
              => cur[w] \in RunningEvents /\ RunningEvents' = RunningEvents \ {cur[w]}
<1>1. \A v \in Workers \ {w} : (Working(v)' <=> Working(v)) /\ cur'[v] = cur[v]
  BY DEF Working
<1> QED BY <1>1 DEF RunningEvents

LEMMA RequestStep ==
  ASSUME IInv, ~SlowHandlers, NEW w \in Workers, Proceed(w) \/ Fail(w) \/ Crash(w)
  PROVE  InboxStep
<1>1. cur[w] \in Ids /\ pc \in [Workers -> Steps] /\ UNCHANGED cur
  BY DEF IInv, TypeOK, Proceed, RunHandler, Activate, FillSubscription, ReconcileSeats, ResizeSeats,
         UpdateSubscription, ChangeSeats, ReadTier, ChangePlan, Cancel, RecordPayment, ApplyPaymentStatus,
         Handler, Lookup, Claim, Release, Mark, Respond, Fail, Crash, UnchangedClaims
<1>2. \A v \in Workers \ {w} : Working(v) /\ Working(w) => cur[v] # cur[w]
  BY DEF IInv, HolderOK
<1>3. ASSUME NEW next \in Steps, Goto(w, cur[w], next)
      PROVE  /\ \A v \in Workers \ {w} : pc'[v] = pc[v] /\ cur'[v] = cur[v]
             /\ pc'[w] = next
             /\ handled' \in {handled, handled \cup {cur[w]}}
             /\ next # "mark" => handled' = handled
             /\ Working(w)' <=> next \in HandlerSteps \cup {"release", "mark"}
  BY <1>1, <1>3 DEF Goto, Working
<1>4. CASE RunHandler(w)
  <2>1. /\ pc[w] \in HandlerSteps /\ UNCHANGED <<acked, row>>
        /\ \E next \in HandlerSteps \cup {"mark", "release"} : Goto(w, cur[w], next)
    BY <1>4 DEF RunHandler, Handler, HandlerSteps, Activate, FillSubscription, ReconcileSeats, ResizeSeats,
         UpdateSubscription, ChangeSeats, ReadTier, ChangePlan, Cancel, RecordPayment,
         ApplyPaymentStatus, UnchangedClaims
  <2>2. PICK next \in HandlerSteps \cup {"mark", "release"} : Goto(w, cur[w], next)
    BY <2>1
  <2>3. next \in Steps
    BY StepType
  <2>4. Working(w) /\ Working(w)' /\ handled' \in {handled, handled \cup {cur[w]}}
    BY <1>3, <2>1, <2>2, <2>3 DEF Working
  <2>5. RunningEvents' = RunningEvents /\ cur[w] \in RunningEvents
    BY <1>1, <1>3, <2>2, <2>3, <2>4, RequestRuns DEF RunningEvents
  <2>6. SettledEvents' = SettledEvents
    BY <2>1, NoneSettled
  <2> QED BY <1>1, <2>1, <2>4, <2>5, <2>6, InboxCompletes
<1>5. CASE Lookup(w)
  <2>1. pc[w] = "lookup" /\ UNCHANGED <<acked, row>>
    BY <1>5 DEF Lookup, UnchangedClaims
  <2>2. PICK next \in {"respond", "claim"} : Goto(w, cur[w], next)
    BY <1>5 DEF Lookup
  <2>3. ~Working(w) /\ ~Working(w)' /\ handled' = handled
    BY <1>3, <2>1, <2>2, StepType DEF Working
  <2>4. RunningEvents' = RunningEvents /\ SettledEvents' = SettledEvents
    BY <1>3, <2>1, <2>2, <2>3, StepType, RequestRuns, NoneSettled
  <2> QED BY <2>1, <2>3, <2>4, InboxStays
<1>6. CASE Claim(w)
  <2>1. pc[w] = "claim" /\ UNCHANGED acked /\ EventAt(w) \in Event /\ ~Working(w)
    BY <1>6, CurrentEvent, StepType DEF Claim, Working
  <2>2. CASE Claimable(row[cur[w]])
    <3> DEFINE step == Begin(EventAt(w))
    <3>1. /\ Goto(w, cur[w], step)
          /\ row' = [row EXCEPT ![cur[w]] = [row[cur[w]] EXCEPT !.claim = w, !.stale = FALSE]]
      BY <1>6, <2>2 DEF Claim
    <3>2. step \in HandlerSteps \cup {"mark"} /\ step \in Steps
      BY <2>1, StepType
    <3> HIDE DEF step
    <3>3. Working(w)' /\ handled' \in {handled, handled \cup {cur[w]}}
      BY <1>3, <3>1, <3>2
    <3>4. RunningEvents' = RunningEvents \cup {cur[w]}
      BY <1>1, <1>3, <2>1, <3>1, <3>2, <3>3, RequestRuns
    <3>5. cur[w] \notin RunningEvents
      <4>1. \A v \in Workers : Working(v) => row[cur[v]].claim \in Workers /\ ~row[cur[v]].stale
        BY DEF IInv, HolderOK
      <4>2. NoWorker \notin Workers
        OBVIOUS
      <4> QED BY <2>2, <4>1, <4>2 DEF RunningEvents, Claimable
    <3>6. \A e \in Ids : row'[e].processed = row[e].processed
      BY <1>1, <3>1 DEF IInv, TypeOK, Row
    <3>7. cur[w] \notin SettledEvents
      BY <2>2 DEF SettledEvents, Claimable
    <3> QED BY <1>1, <2>1, <3>3, <3>4, <3>5, <3>6, <3>7, NoneSettled, InboxStarts
  <2>3. CASE ~Claimable(row[cur[w]])
    <3>1. Goto(w, cur[w], "idle") /\ UNCHANGED row
      BY <1>6, <2>3 DEF Claim
    <3>2. ~Working(w)' /\ handled' = handled
      BY <1>3, <3>1, StepType
    <3>3. RunningEvents' = RunningEvents /\ SettledEvents' = SettledEvents
      BY <1>3, <2>1, <3>1, <3>2, StepType, RequestRuns, NoneSettled
    <3> QED BY <2>1, <3>2, <3>3, InboxStays
  <2> QED BY <2>2, <2>3
<1>7. CASE Release(w)
  <2>1. pc[w] = "release" /\ UNCHANGED acked /\ Goto(w, cur[w], "idle") /\ Working(w)
    BY <1>7 DEF Release, Working
  <2>2. ~Working(w)' /\ handled' = handled
    BY <1>3, <2>1, StepType
  <2>3. cur[w] \in RunningEvents /\ RunningEvents' = RunningEvents \ {cur[w]}
    BY <1>2, <1>3, <2>1, <2>2, StepType, RequestRuns
  <2>4. \A e \in Ids : row'[e].processed = row[e].processed
    <3> DEFINE r == row[cur[w]]
               new == IF r.claim = w THEN [r EXCEPT !.claim = NoWorker, !.stale = FALSE] ELSE r
    <3>1. row' = [row EXCEPT ![cur[w]] = new] /\ r \in Row
      BY <1>1, <1>7 DEF Release, IInv, TypeOK
    <3>2. new.processed = r.processed
      BY <3>1 DEF Row
    <3> HIDE DEF new
    <3> QED BY <1>1, <3>1, <3>2 DEF IInv, TypeOK
  <2> QED BY <1>1, <2>1, <2>2, <2>3, <2>4, NoneSettled, InboxAbandons
<1>8. CASE Mark(w)
  <2>1. pc[w] = "mark" /\ UNCHANGED acked /\ Goto(w, cur[w], "respond") /\ Working(w)
    BY <1>8 DEF Mark, Working
  <2>2. ~Working(w)' /\ handled' = handled /\ cur[w] \in handled
    BY <1>3, <2>1, StepType DEF IInv, ClaimsOK
  <2>3. cur[w] \in RunningEvents /\ RunningEvents' = RunningEvents \ {cur[w]}
    BY <1>2, <1>3, <2>1, <2>2, StepType, RequestRuns
  <2>4. SettledEvents' = SettledEvents \cup {cur[w]}
    <3> DEFINE new == [row[cur[w]] EXCEPT !.processed = TRUE]
    <3>1. row' = [row EXCEPT ![cur[w]] = new] /\ row[cur[w]] \in Row
      BY <1>1, <1>8 DEF Mark, IInv, TypeOK
    <3>2. new.processed
      BY <3>1 DEF Row
    <3> HIDE DEF new
    <3>3. \A e \in Ids : row'[e] = IF e = cur[w] THEN new ELSE row[e]
      BY <1>1, <3>1 DEF IInv, TypeOK
    <3> QED BY <1>1, <3>2, <3>3 DEF SettledEvents
  <2> QED BY <1>1, <2>1, <2>2, <2>3, <2>4, InboxSettles
<1>9. CASE Respond(w)
  <2>1. pc[w] = "respond" /\ acked' = acked \cup {cur[w]} /\ Goto(w, cur[w], "idle") /\ UNCHANGED row
    BY <1>9 DEF Respond
  <2>2. ~Working(w) /\ ~Working(w)' /\ handled' = handled
    BY <1>3, <2>1, StepType DEF Working
  <2>3. RunningEvents' = RunningEvents /\ SettledEvents' = SettledEvents
    BY <1>3, <2>1, <2>2, StepType, RequestRuns, NoneSettled
  <2>4. cur[w] \in SettledEvents
    BY <1>1, <2>1 DEF IInv, ClaimsOK, SettledEvents
  <2> QED BY <2>1, <2>2, <2>3, <2>4, InboxAcknowledges
<1>10. CASE Fail(w) \/ Crash(w)
  <2>1. UNCHANGED <<acked, row>>
    BY <1>10 DEF Fail, Crash, UnchangedClaims
  <2>2. PICK next \in {"idle", "release"} :
          Goto(w, cur[w], next) /\ (next = "release" => pc[w] \in HandlerSteps)
    BY <1>10 DEF Fail, Crash
  <2>3. next \in Steps /\ handled' = handled /\ (Working(w)' <=> next = "release")
    BY <1>3, <2>2, StepType
  <2>4. SettledEvents' = SettledEvents
    BY <2>1, NoneSettled
  <2>5. CASE next = "release"
    <3>1. Working(w) /\ Working(w)'
      BY <2>2, <2>3, <2>5 DEF Working
    <3>2. RunningEvents' = RunningEvents
      BY <1>1, <1>3, <2>2, <2>3, <3>1, RequestRuns
    <3> QED BY <2>1, <2>3, <2>4, <3>2, InboxStays
  <2>6. CASE next = "idle" /\ Working(w)
    <3>1. cur[w] \in RunningEvents /\ RunningEvents' = RunningEvents \ {cur[w]}
      BY <1>2, <1>3, <2>2, <2>3, <2>6, RequestRuns
    <3> QED BY <1>1, <2>1, <2>3, <2>4, <3>1, InboxAbandons
  <2>7. CASE next = "idle" /\ ~Working(w)
    <3>1. RunningEvents' = RunningEvents
      BY <1>3, <2>2, <2>3, <2>7, RequestRuns
    <3> QED BY <2>1, <2>3, <2>4, <3>1, InboxStays
  <2> QED BY <2>5, <2>6, <2>7
<1> QED BY <1>4, <1>5, <1>6, <1>7, <1>8, <1>9, <1>10 DEF Proceed

LEMMA ReceiveStep ==
  ASSUME IInv, NEW w \in Workers, NEW e \in Ids, Receive(w, e)
  PROVE  InboxStep
<1>1. /\ pc[w] = "idle" /\ e \in 1 .. Len(sent) /\ cur' = [cur EXCEPT ![w] = e] /\ UNCHANGED acked
      /\ sent[e] \in Event /\ pc \in [Workers -> Steps] /\ cur \in [Workers -> Ids]
  BY DEF Receive, IInv, TypeOK
<1>2. ~Working(w) /\ cur'[w] = e /\ \A v \in Workers \ {w} : cur'[v] = cur[v]
  BY <1>1, StepType DEF Working
<1>3. CASE row[e].exists
  <2>1. pc' = [pc EXCEPT ![w] = "lookup"] /\ handled' = handled /\ UNCHANGED row
    BY <1>3 DEF Receive, Goto
  <2>2. ~Working(w)' /\ \A v \in Workers \ {w} : pc'[v] = pc[v]
    BY <1>1, <2>1, StepType DEF Working
  <2>3. RunningEvents' = RunningEvents /\ SettledEvents' = SettledEvents
    BY <1>2, <2>1, <2>2, RequestRuns, NoneSettled
  <2> QED BY <1>1, <2>1, <2>3, InboxStays
<1>4. CASE ~row[e].exists
  <2> DEFINE step == Begin(sent[e])
             new == [exists |-> TRUE, claim |-> w, stale |-> FALSE, processed |-> FALSE]
  <2>1. /\ pc' = [pc EXCEPT ![w] = step] /\ row' = [row EXCEPT ![e] = new]
        /\ handled' \in {handled, handled \cup {e}}
    BY <1>4 DEF Receive, Goto
  <2>2. step \in HandlerSteps \cup {"mark"}
    BY <1>1, StepType
  <2>3. ~new.processed
    OBVIOUS
  <2> HIDE DEF step, new
  <2>4. Working(w)' /\ \A v \in Workers \ {w} : pc'[v] = pc[v]
    BY <1>1, <2>1, <2>2 DEF Working
  <2>5. RunningEvents' = RunningEvents \cup {e}
    BY <1>2, <2>4, RequestRuns
  <2>6. e \notin RunningEvents
    <3>1. \A v \in Workers : Working(v) => pc[v] # "idle"
      BY StepType DEF Working
    <3> QED BY <1>4, <3>1 DEF IInv, PointersOK, RunningEvents
  <2>7. e \notin SettledEvents /\ SettledEvents' = SettledEvents
    <3>1. ~row[e].processed
      BY <1>4 DEF IInv, ClaimsOK
    <3>2. \A i \in Ids : row'[i] = IF i = e THEN new ELSE row[i]
      BY <2>1 DEF IInv, TypeOK
    <3> QED BY <2>3, <3>1, <3>2 DEF SettledEvents
  <2> QED BY <1>1, <2>1, <2>5, <2>6, <2>7, InboxStarts
<1> QED BY <1>3, <1>4

LEMMA NextStep ==
  ASSUME IInv, ~SlowHandlers, [Next]_vars
  PROVE  InboxStep
<1>1. CASE \E w \in Workers, e \in Ids : Receive(w, e)
  BY <1>1, ReceiveStep
<1>2. CASE \E w \in Workers : Proceed(w) \/ Fail(w) \/ Crash(w)
  BY <1>2, RequestStep
<1>3. CASE Provider \/ UNCHANGED vars
  <2>1. UNCHANGED <<acked, row, pc, cur, handled>>
    BY <1>3 DEF Provider, StartCheckout, Subscribe, ChangeSubscription, CancelSubscription, Bill, UnchangedApp, vars
  <2>2. RunningEvents' = RunningEvents /\ SettledEvents' = SettledEvents
    BY <2>1, NoneSettled DEF RunningEvents, Working
  <2> QED BY <2>1, <2>2, InboxStays
<1>4. ASSUME NEW e \in Ids, Expire(e) PROVE InboxStep
  <2>1. UNCHANGED <<acked, pc, cur, handled>> /\ row' = [row EXCEPT ![e] = [row[e] EXCEPT !.stale = TRUE]]
    BY <1>4 DEF Expire
  <2>2. \A i \in Ids : row'[i].processed = row[i].processed
    BY <2>1 DEF IInv, TypeOK, Row
  <2>3. RunningEvents' = RunningEvents
    BY <2>1 DEF RunningEvents, Working
  <2> QED BY <2>1, <2>2, <2>3, NoneSettled, InboxStays
<1> QED BY <1>1, <1>2, <1>3, <1>4 DEF Next

\* While handlers finish within the TTL of a claim, the claims on
\* billing_events implement the inbox: one request at a time handles an event,
\* settles it once, and its sender hears of it only then.
THEOREM ClaimsImplementInbox ==
  ASSUME ~SlowHandlers
  PROVE  Spec => ImplementsInbox
<1>1. Init => Inbox!InboxInit
  BY DEF Init, Inbox!InboxInit, RunningEvents, SettledEvents, Working, HandlerSteps, NoRow
<1>2. IInv /\ [Next]_vars => [Inbox!InboxNext]_(Inbox!inboxVars)
  BY NextStep DEF InboxStep
<1> QED BY <1>1, <1>2, SpecInv, PTL DEF Spec, ImplementsInbox, Inbox!InboxSpec

-----------------------------------------------------------------------------
(* What the events write.  The row of the company and its payment history  *)
(* reflect the newest of the events that were handled, in whatever order   *)
(* they were delivered.                                                    *)

(* Two events of one time report one change.                               *)
SameChange(a, b) ==
  /\ a.sub = b.sub /\ a.plan = b.plan /\ a.seats = b.seats
  /\ a.kind = b.kind \/ {a.kind, b.kind} \subseteq {"created", "updated"}

(* The provider's events: dated before its clock, one change at a time, and *)
(* a cancellation is the last of its subscription.                          *)
EventsOK ==
  /\ clock > 0
  /\ \A i \in 1 .. Len(sent) :
       /\ 0 < sent[i].at /\ sent[i].at < clock /\ sent[i].seats # 0
       /\ provider[sent[i].sub].state # "none"
  /\ \A i, j \in 1 .. Len(sent) : sent[i].at = sent[j].at => SameChange(sent[i], sent[j])
  /\ \A i, j \in 1 .. Len(sent) :
       sent[i].kind = "canceled" /\ sent[j].sub = sent[i].sub =>
         /\ provider[sent[i].sub].state = "canceled"
         /\ sent[j].kind # "canceled" => sent[j].at < sent[i].at

(* Of the events that move the company row, i is the newest.               *)
Moves(i) == sent[i].kind \in LifecycleKinds /\ sent[i].sub \notin Foreign
Newest(i) == Moves(i) /\ \A j \in 1 .. Len(sent) : Moves(j) => sent[j].at <= sent[i].at

(* With one checkout at a time, one subscription runs at a time, and the   *)
(* newest event tells of it.                                               *)
ProviderOK ==
  /\ \A s \in opened : provider[s].state = "none"
  /\ OneCheckout =>
       /\ \A s, r \in opened : s = r
       /\ \A s, r \in LiveSubs : s = r
       /\ opened \ Foreign # {} => LiveSubs = {}
       /\ \A s \in LiveSubs : \E i \in 1 .. Len(sent) :
            /\ Newest(i) /\ sent[i].kind # "canceled" /\ sent[i].sub = s
            /\ sent[i].plan = provider[s].plan /\ sent[i].seats = provider[s].seats
       /\ LiveSubs = {} => \/ \A j \in 1 .. Len(sent) : ~Moves(j)
                           \/ \E i \in 1 .. Len(sent) : Newest(i) /\ sent[i].kind = "canceled"
       /\ Len(sent) <= MaxEvents
       /\ \A s \in LiveSubs : provider[s].seats # Team => Len(sent) < MaxEvents

(* A request runs the handlers of its event's kind, and none for a         *)
(* stranger's.                                                             *)
Fit(w) ==
  pc[w] \in HandlerSteps =>
    /\ EventAt(w).sub \notin Foreign
    /\ pc[w] \in {"activate", "fill", "reconcile", "resize"} => EventAt(w).kind = "created"
    /\ pc[w] \in {"update", "seats", "read_tier", "plan"} => EventAt(w).kind = "updated"
    /\ pc[w] = "cancel" => EventAt(w).kind = "canceled"
    /\ pc[w] \in {"record", "status"} => EventAt(w).kind \in PaymentKinds

(* What the row shows of an event that is as new as its mark.              *)
Reached(ev) == ev.at <= company.at
SeatsShown(ev) == ev.at = company.at => company.seats = ev.seats
TierShown(ev) == ev.at = company.at => company.tier = ev.plan
EndShown(ev) == ev.at = company.at => company.tier = "FREE" /\ company.sub = NoSub
Shown(ev) == Reached(ev) /\ IF ev.kind = "canceled" THEN EndShown(ev) ELSE SeatsShown(ev) /\ TierShown(ev)

(* The payment is in the history.                                          *)
Recorded(ev) == ev.at <= history[ev.sub][ev.kind]

(* What a request has written so far of its event.                         *)
Written(w) ==
  /\ pc[w] = "fill" => EventAt(w).at < company.at
  /\ pc[w] \in {"reconcile", "resize"} => Shown(EventAt(w))
  /\ pc[w] \in {"seats", "read_tier", "plan"} => Reached(EventAt(w)) /\ SeatsShown(EventAt(w))
  /\ pc[w] = "plan" /\ seen[w] = EventAt(w).plan => TierShown(EventAt(w))
  /\ pc[w] = "status" => Recorded(EventAt(w))

(* An event that was handled is written.                                   *)
Done(e) ==
  /\ e <= Len(sent)
  /\ Moves(e) => Shown(sent[e])
  /\ sent[e].kind \in PaymentKinds /\ sent[e].sub \notin Foreign => Recorded(sent[e])

RequestsOK == \A w \in Workers : Fit(w) /\ Written(w)
DoneOK == \A e \in handled : Done(e)

(* The row was moved by an event of the company's own, or never.           *)
MarkOK ==
  /\ company.limits = company.tier /\ company.sub \notin Foreign
  /\ IF company.at = 0 THEN company.tier = StartTier /\ company.sub = NoSub
     ELSE \E i \in 1 .. Len(sent) : Moves(i) /\ sent[i].at = company.at
  /\ \A s \in Foreign, k \in PaymentKinds : history[s][k] = 0

(* A cancellation that was applied is newer than all else of its           *)
(* subscription.                                                           *)
EndedAt(s) ==
  /\ provider[s].state = "canceled"
  /\ \A i \in 1 .. Len(sent) :
       sent[i].sub = s /\ sent[i].kind # "canceled" => sent[i].at < company.at

EndedOK == \A s \in ended : EndedAt(s)

Following == RequestsOK /\ DoneOK /\ MarkOK /\ EndedOK

-----------------------------------------------------------------------------
(* What the provider emits.                                                *)

EventKinds == LifecycleKinds \cup PaymentKinds

LEMMA SentType ==
  ASSUME IInv
  PROVE  /\ Len(sent) \in Nat /\ clock \in Nat
         /\ \A i \in 1 .. Len(sent) :
              /\ sent[i] \in Event /\ sent[i].at \in Nat /\ sent[i].seats \in Nat
              /\ sent[i].kind \in EventKinds /\ sent[i].sub \in Subs /\ sent[i].plan \in Plans
<1>1. sent \in Seq(Event) /\ clock \in Nat
  BY DEF IInv, TypeOK
<1>2. Len(sent) \in Nat /\ \A i \in 1 .. Len(sent) : sent[i] \in Event
  BY <1>1
<1> QED BY <1>1, <1>2 DEF Event, EventKinds

(* The events of one change, of kinds in K.                                *)
LEMMA Emitted ==
  ASSUME IInv, NEW s \in Subs, NEW p \in Subscription, NEW K \in SUBSET EventKinds,
         NEW kinds \in Seq(K), Len(kinds) > 0, Emit(s, p, kinds)
  PROVE  /\ Len(sent) \in Nat /\ Len(sent') \in Nat /\ Len(sent) < Len(sent')
         /\ Len(sent') = Len(sent) + Len(kinds)
         /\ \A i \in 1 .. Len(sent) : sent'[i] = sent[i]
         /\ \A i \in 1 .. Len(sent') : i \notin 1 .. Len(sent) =>
              /\ sent'[i].kind \in K /\ sent'[i].sub = s /\ sent'[i].at = clock
              /\ sent'[i].plan = p.plan /\ sent'[i].seats = p.seats
         /\ clock' = clock + 1 /\ provider' = [provider EXCEPT ![s] = p]
         /\ provider'[s] = p /\ \A r \in Subs \ {s} : provider'[r] = provider[r]
<1> DEFINE new == [i \in 1 .. Len(kinds) |-> EventOf(kinds[i], s, p, clock)]
<1>1. /\ sent' = sent \o new /\ clock' = clock + 1 /\ provider' = [provider EXCEPT ![s] = p]
      /\ sent \in Seq(Event) /\ clock \in Nat /\ provider \in [Subs -> Subscription]
  BY DEF Emit, IInv, TypeOK
<1>2. Len(kinds) \in Nat /\ \A i \in 1 .. Len(kinds) : kinds[i] \in K
  OBVIOUS
<1>3. ASSUME NEW i \in 1 .. Len(kinds)
      PROVE  /\ EventOf(kinds[i], s, p, clock) \in Event
             /\ new[i].kind \in K /\ new[i].sub = s /\ new[i].at = clock
             /\ new[i].plan = p.plan /\ new[i].seats = p.seats
  BY <1>1, <1>2, EventType DEF EventOf, EventKinds
<1>4. new \in Seq(Event) /\ Len(new) = Len(kinds)
  BY <1>2, <1>3
<1> HIDE DEF new
<1>5. /\ Len(sent) \in Nat /\ Len(sent') = Len(sent) + Len(kinds)
      /\ \A i \in 1 .. Len(sent) : sent'[i] = sent[i]
  <2>1. Len(sent) \in Nat /\ Len(new) \in Nat
    BY <1>2, <1>4, SentType
  <2>2. Len(sent \o new) = Len(sent) + Len(new)
    BY <1>1, <1>4, ConcatProperties
  <2>3. \A i \in 1 .. Len(sent) : (sent \o new)[i] = sent[i]
    BY <1>1, <1>4
  <2> QED BY <1>1, <1>4, <2>1, <2>2, <2>3
<1>6. ASSUME NEW i \in 1 .. Len(sent'), i \notin 1 .. Len(sent)
      PROVE  i - Len(sent) \in 1 .. Len(kinds) /\ sent'[i] = new[i - Len(sent)]
  <2>1. i - Len(sent) \in 1 .. Len(kinds)
    BY <1>2, <1>5, <1>6
  <2>2. i > Len(sent) /\ i <= Len(sent) + Len(new) /\ i \in Nat
    BY <1>2, <1>4, <1>5, <1>6
  <2>3. (sent \o new)[i] = new[i - Len(sent)]
    BY <1>1, <1>4, <2>2
  <2> QED BY <1>1, <2>1, <2>3
<1>7. ASSUME NEW i \in 1 .. Len(sent'), i \notin 1 .. Len(sent)
      PROVE  /\ sent'[i].kind \in K /\ sent'[i].sub = s /\ sent'[i].at = clock
             /\ sent'[i].plan = p.plan /\ sent'[i].seats = p.seats
  <2>1. PICK k \in 1 .. Len(kinds) : k = i - Len(sent) /\ sent'[i] = new[k]
    BY <1>6, <1>7
  <2> QED BY <1>2, <1>3, <2>1
<1>8. Len(sent') \in Nat /\ Len(sent) < Len(sent')
  BY <1>2, <1>5
<1>9. /\ clock' = clock + 1 /\ provider' = [provider EXCEPT ![s] = p]
      /\ provider'[s] = p /\ \A r \in Subs \ {s} : provider'[r] = provider[r]
  BY <1>1
<1> QED BY <1>5, <1>7, <1>8, <1>9

LEMMA EventsGrow ==
  ASSUME IInv, EventsOK, NEW s \in Subs, NEW p \in Subscription, NEW K \in SUBSET EventKinds,
         NEW kinds \in Seq(K), Len(kinds) > 0, Emit(s, p, kinds),
         K \subseteq {"created", "updated"} \/ \E k \in EventKinds : K = {k},
         provider[s].state # "canceled", p.state # "none", "canceled" \in K => p.state = "canceled"
  PROVE  EventsOK'
<1>1. /\ Len(sent) \in Nat /\ Len(sent') \in Nat
      /\ \A i \in 1 .. Len(sent) : sent'[i] = sent[i]
      /\ \A i \in 1 .. Len(sent') : i \notin 1 .. Len(sent) =>
           /\ sent'[i].kind \in K /\ sent'[i].sub = s /\ sent'[i].at = clock
           /\ sent'[i].plan = p.plan /\ sent'[i].seats = p.seats
      /\ clock' = clock + 1
      /\ provider'[s] = p /\ \A r \in Subs \ {s} : provider'[r] = provider[r]
  BY Emitted
<1>2. p.seats \in Nat \ {0} /\ clock \in Nat /\ clock > 0
  BY DEF Subscription, IInv, TypeOK, EventsOK
<1>3. clock' > 0
  BY <1>1, <1>2
<1>4. ASSUME NEW i \in 1 .. Len(sent')
      PROVE  /\ 0 < sent'[i].at /\ sent'[i].at < clock' /\ sent'[i].seats # 0
             /\ provider'[sent'[i].sub].state # "none"
  <2>1. CASE i \in 1 .. Len(sent)
    <3>1. /\ sent[i].at \in Nat /\ 0 < sent[i].at /\ sent[i].at < clock /\ sent[i].seats # 0
          /\ sent[i].sub \in Subs /\ provider[sent[i].sub].state # "none"
      BY <2>1, SentType DEF EventsOK
    <3>2. provider'[sent[i].sub].state # "none"
      BY <1>1, <3>1
    <3> QED BY <1>1, <1>2, <2>1, <3>1, <3>2
  <2>2. CASE i \notin 1 .. Len(sent)
    <3>1. sent'[i].sub = s /\ sent'[i].at = clock /\ sent'[i].seats = p.seats
      BY <1>1, <2>2
    <3> QED BY <1>1, <1>2, <3>1
  <2> QED BY <2>1, <2>2
<1>5. ASSUME NEW i \in 1 .. Len(sent'), NEW j \in 1 .. Len(sent'), sent'[i].at = sent'[j].at
      PROVE  SameChange(sent'[i], sent'[j])
  <2>1. CASE i \in 1 .. Len(sent) /\ j \in 1 .. Len(sent)
    <3>1. SameChange(sent[i], sent[j])
      BY <1>1, <1>5, <2>1 DEF EventsOK
    <3> QED BY <1>1, <2>1, <3>1
  <2>2. CASE i \notin 1 .. Len(sent) /\ j \notin 1 .. Len(sent)
    BY <1>1, <2>2 DEF SameChange
  <2>3. \A n \in 1 .. Len(sent) : sent'[n].at # clock
    BY <1>1, <1>2, SentType DEF EventsOK
  <2> QED BY <1>1, <1>5, <2>1, <2>2, <2>3
<1>6. ASSUME NEW i \in 1 .. Len(sent'), NEW j \in 1 .. Len(sent'),
             sent'[i].kind = "canceled", sent'[j].sub = sent'[i].sub
      PROVE  /\ provider'[sent'[i].sub].state = "canceled"
             /\ sent'[j].kind # "canceled" => sent'[j].at < sent'[i].at
  <2>1. CASE i \in 1 .. Len(sent)
    <3>1. sent'[i] = sent[i] /\ sent[i].sub \in Subs
      BY <1>1, <2>1, SentType
    <3>2. provider[sent[i].sub].state = "canceled"
      BY <1>6, <2>1, <3>1 DEF EventsOK
    <3>3. sent[i].sub # s
      BY <3>2
    <3>4. j \in 1 .. Len(sent)
      BY <1>1, <1>6, <3>1, <3>3
    <3>5. sent[j].kind # "canceled" => sent[j].at < sent[i].at
      BY <1>1, <1>6, <2>1, <3>1, <3>4 DEF EventsOK
    <3> QED BY <1>1, <3>1, <3>2, <3>3, <3>4, <3>5
  <2>2. CASE i \notin 1 .. Len(sent)
    <3>1. sent'[i].kind \in K /\ sent'[i].sub = s /\ sent'[i].at = clock
      BY <1>1, <2>2
    <3>2. p.state = "canceled" /\ K = {"canceled"}
      BY <1>6, <3>1
    <3>3. sent'[j].kind # "canceled" => j \in 1 .. Len(sent)
      BY <1>1, <3>2
    <3>4. \A n \in 1 .. Len(sent) : sent'[n].at < clock
      BY <1>1 DEF EventsOK
    <3> QED BY <1>1, <3>1, <3>2, <3>3, <3>4
  <2> QED BY <2>1, <2>2
<1> QED BY <1>3, <1>4, <1>5, <1>6 DEF EventsOK

-----------------------------------------------------------------------------
(* The subscription the newest event tells of.                             *)

(* A change of s to p, reported by kinds in K.                             *)
Changes(s, p, K) ==
  \/ /\ s \in opened /\ opened' = opened \ {s}
     /\ p.state = "live" /\ K = {"created", "updated"}
  \/ /\ Live(s) /\ opened' = opened
     /\ \/ p.state = "live" /\ K = {"updated"}
        \/ p.state = "canceled" /\ K = {"canceled"}
        \/ /\ p.state = "live" /\ p.plan = provider[s].plan /\ p.seats = provider[s].seats
           /\ \E k \in PaymentKinds : K = {k}

(* The room it leaves for a resize that is still due.                      *)
Roomy(s, p) ==
  OneCheckout => \/ Len(sent') < MaxEvents
                 \/ Len(sent') <= MaxEvents /\ s \notin Foreign /\ p.seats = Team

LEMMA NewestStays ==
  ASSUME NEW n \in Nat, Len(sent) = n, Len(sent') \in Nat, n <= Len(sent'),
         \A i \in 1 .. n : sent'[i] = sent[i],
         \A i \in 1 .. Len(sent') : i \notin 1 .. n => ~Moves(i)'
  PROVE  /\ \A i \in 1 .. n : Newest(i) => Newest(i)'
         /\ (\A i \in 1 .. n : ~Moves(i)) => \A i \in 1 .. Len(sent') : ~Moves(i)'
<1>1. \A i \in 1 .. n : Moves(i)' = Moves(i)
  BY DEF Moves
<1>2. ASSUME NEW i \in 1 .. n, Newest(i)
      PROVE  Newest(i)'
  <2>1. Moves(i)' /\ sent'[i] = sent[i]
    BY <1>1, <1>2 DEF Newest
  <2>2. ASSUME NEW j \in 1 .. Len(sent'), Moves(j)'
        PROVE  sent'[j].at <= sent'[i].at
    <3>1. j \in 1 .. n
      BY <2>2
    <3>2. Moves(j) /\ sent'[j] = sent[j]
      BY <1>1, <2>2, <3>1
    <3> QED BY <1>2, <2>1, <3>1, <3>2 DEF Newest
  <2> QED BY <2>1, <2>2 DEF Newest
<1> QED BY <1>1, <1>2

LEMMA OneRuns ==
  ASSUME IInv, EventsOK, ProviderOK, NEW s \in Subs, NEW p \in Subscription,
         NEW K \in SUBSET EventKinds, NEW kinds \in Seq(K), Len(kinds) > 0,
         Emit(s, p, kinds), Changes(s, p, K), Roomy(s, p)
  PROVE  ProviderOK'
<1>1. /\ Len(sent) \in Nat /\ Len(sent') \in Nat /\ Len(sent) < Len(sent')
      /\ \A i \in 1 .. Len(sent) : sent'[i] = sent[i]
      /\ \A i \in 1 .. Len(sent') : i \notin 1 .. Len(sent) =>
           /\ sent'[i].kind \in K /\ sent'[i].sub = s /\ sent'[i].at = clock
           /\ sent'[i].plan = p.plan /\ sent'[i].seats = p.seats
      /\ clock' = clock + 1
      /\ provider'[s] = p /\ \A r \in Subs \ {s} : provider'[r] = provider[r]
  BY Emitted
<1>2. p.state \in {"live", "canceled"} /\ provider[s].state # "canceled"
  BY DEF Changes, Live, ProviderOK
<1>3. \A r \in opened' : r \in opened /\ r # s /\ provider'[r].state = "none"
  <2>1. opened \subseteq Subs
    BY DEF IInv, TypeOK
  <2>2. \A r \in opened' : r \in opened /\ r # s
    BY DEF Changes, Live, ProviderOK
  <2> QED BY <1>1, <2>1, <2>2 DEF ProviderOK
<1>4. ASSUME OneCheckout, s \in Foreign
      PROVE  ProviderOK'
  <2>1. LiveSubs' = LiveSubs
    BY <1>1, <1>4 DEF LiveSubs, Live
  <2>2. \A r \in LiveSubs : provider'[r] = provider[r]
    BY <1>1, <1>4 DEF LiveSubs
  <2>3. \A i \in 1 .. Len(sent') : i \notin 1 .. Len(sent) => ~Moves(i)'
    BY <1>1, <1>4 DEF Moves
  <2>4. /\ \A i \in 1 .. Len(sent) : Newest(i) => Newest(i)'
        /\ (\A i \in 1 .. Len(sent) : ~Moves(i)) => \A i \in 1 .. Len(sent') : ~Moves(i)'
    BY <1>1, <2>3, NewestStays, SMTT(30)
  <2>5. \A i \in 1 .. Len(sent) : i \in 1 .. Len(sent')
    BY <1>1
  <2>6. \A r \in LiveSubs' : \E i \in 1 .. Len(sent') :
            /\ Newest(i)' /\ sent'[i].kind # "canceled" /\ sent'[i].sub = r
            /\ sent'[i].plan = provider'[r].plan /\ sent'[i].seats = provider'[r].seats
    <3> TAKE r \in LiveSubs'
    <3>1. PICK i \in 1 .. Len(sent) :
            /\ Newest(i) /\ sent[i].kind # "canceled" /\ sent[i].sub = r
            /\ sent[i].plan = provider[r].plan /\ sent[i].seats = provider[r].seats
      BY <1>4, <2>1 DEF ProviderOK
    <3> QED BY <1>1, <2>1, <2>2, <2>4, <2>5, <3>1
  <2>7. LiveSubs' = {} => \/ \A j \in 1 .. Len(sent') : ~Moves(j)'
                          \/ \E i \in 1 .. Len(sent') : Newest(i)' /\ sent'[i].kind = "canceled"
    BY <1>1, <1>4, <2>1, <2>4, <2>5 DEF ProviderOK
  <2>8. Len(sent') < MaxEvents
    BY <1>4 DEF Roomy
  <2>9. /\ \A x, y \in opened' : x = y
        /\ \A x, y \in LiveSubs' : x = y
        /\ opened' \ Foreign # {} => LiveSubs' = {}
    BY <1>3, <1>4, <2>1 DEF ProviderOK
  <2>10. Len(sent') <= MaxEvents
    BY <1>1, <2>8
  <2> QED BY <1>3, <2>6, <2>7, <2>8, <2>9, <2>10 DEF ProviderOK
<1>5. ASSUME OneCheckout, s \notin Foreign
      PROVE  ProviderOK'
  <2>1. \A r \in LiveSubs : r = s
    BY <1>5 DEF Changes, ProviderOK, LiveSubs
  <2>2. LiveSubs' = IF p.state = "live" THEN {s} ELSE {}
    BY <1>1, <1>5, <2>1 DEF LiveSubs, Live
  <2>3. opened' \subseteq Foreign
    BY <1>3, <1>5 DEF Changes, ProviderOK, LiveSubs
  <2>4. CASE K \subseteq LifecycleKinds
    <3>1. PICK n \in 1 .. Len(sent') : n \notin 1 .. Len(sent)
      <4>1. Len(sent') \in 1 .. Len(sent') /\ Len(sent') \notin 1 .. Len(sent)
        BY <1>1
      <4> QED BY <4>1
    <3>2. sent'[n].kind \in K /\ sent'[n].sub = s /\ sent'[n].at = clock
          /\ sent'[n].plan = p.plan /\ sent'[n].seats = p.seats
      BY <1>1, <3>1
    <3>3. Moves(n)'
      BY <1>5, <2>4, <3>2 DEF Moves
    <3>4. \A j \in 1 .. Len(sent') : sent'[j].at <= sent'[n].at
      <4>1. \A j \in 1 .. Len(sent) : sent[j].at \in Nat /\ sent[j].at < clock
        BY SentType DEF EventsOK
      <4>2. clock \in Nat
        BY SentType
      <4> QED BY <1>1, <3>2, <4>1, <4>2
    <3>5. Newest(n)'
      BY <3>3, <3>4 DEF Newest
    <3>6. /\ p.state = "live" => sent'[n].kind # "canceled"
          /\ p.state # "live" => sent'[n].kind = "canceled"
      BY <2>4, <3>2 DEF Changes, PaymentKinds, LifecycleKinds
    <3>7. /\ \A r \in LiveSubs' : \E i \in 1 .. Len(sent') :
               /\ Newest(i)' /\ sent'[i].kind # "canceled" /\ sent'[i].sub = r
               /\ sent'[i].plan = provider'[r].plan /\ sent'[i].seats = provider'[r].seats
          /\ LiveSubs' = {} => \/ \A j \in 1 .. Len(sent') : ~Moves(j)'
                               \/ \E i \in 1 .. Len(sent') : Newest(i)' /\ sent'[i].kind = "canceled"
      BY <1>1, <2>2, <3>1, <3>2, <3>5, <3>6
    <3>8. Len(sent') <= MaxEvents /\ (p.seats # Team => Len(sent') < MaxEvents)
      BY <1>1, <1>5 DEF Roomy
    <3>9. \A r \in LiveSubs' : provider'[r].seats # Team => Len(sent') < MaxEvents
      BY <1>1, <2>2, <3>8
    <3> QED BY <1>3, <1>5, <2>2, <2>3, <3>7, <3>8, <3>9 DEF ProviderOK
  <2>5. CASE ~(K \subseteq LifecycleKinds)
    <3>1. /\ Live(s) /\ p.state = "live" /\ p.plan = provider[s].plan /\ p.seats = provider[s].seats
          /\ \E k \in PaymentKinds : K = {k}
      BY <2>5 DEF Changes, LifecycleKinds
    <3>2. s \in LiveSubs /\ LiveSubs' = {s}
      BY <1>5, <2>2, <3>1 DEF LiveSubs
    <3>3. PICK i \in 1 .. Len(sent) :
            /\ Newest(i) /\ sent[i].kind # "canceled" /\ sent[i].sub = s
            /\ sent[i].plan = provider[s].plan /\ sent[i].seats = provider[s].seats
      BY <1>5, <3>2 DEF ProviderOK
    <3>4. \A j \in 1 .. Len(sent') : j \notin 1 .. Len(sent) => ~Moves(j)'
      BY <1>1, <3>1 DEF Moves, PaymentKinds, LifecycleKinds
    <3>5. Newest(i)'
      BY <1>1, <3>3, <3>4, NewestStays
    <3>6. i \in 1 .. Len(sent')
      BY <1>1
    <3>7. \A r \in LiveSubs' : \E j \in 1 .. Len(sent') :
            /\ Newest(j)' /\ sent'[j].kind # "canceled" /\ sent'[j].sub = r
            /\ sent'[j].plan = provider'[r].plan /\ sent'[j].seats = provider'[r].seats
      BY <1>1, <3>1, <3>2, <3>3, <3>5, <3>6
    <3>8. Len(sent') <= MaxEvents /\ (p.seats # Team => Len(sent') < MaxEvents)
      BY <1>1, <1>5 DEF Roomy
    <3>9. \A r \in LiveSubs' : provider'[r].seats # Team => Len(sent') < MaxEvents
      BY <1>1, <3>2, <3>8
    <3> QED BY <1>3, <1>5, <2>3, <3>2, <3>7, <3>8, <3>9 DEF ProviderOK
  <2> QED BY <2>4, <2>5
<1>6. ASSUME ~OneCheckout
      PROVE  ProviderOK'
  BY <1>3, <1>6 DEF ProviderOK
<1> QED BY <1>4, <1>5, <1>6

-----------------------------------------------------------------------------
(* Emissions, of the provider's own accord and for a resize.               *)

(* Later events leave the earlier ones alone, bear the provider's time, and *)
(* none comes after the cancellation of its subscription or, with one      *)
(* checkout at a time, while another of the company's is live.             *)
NewEvent(ev) ==
  /\ provider[ev.sub].state # "canceled" /\ ev.at = clock
  /\ OneCheckout /\ ev.sub \notin Foreign => \A r \in LiveSubs : r = ev.sub

Grown ==
  /\ Len(sent) \in Nat /\ Len(sent') \in Nat /\ Len(sent) <= Len(sent')
  /\ \A i \in 1 .. Len(sent) : sent'[i] = sent[i]
  /\ \A i \in 1 .. Len(sent') : i \notin 1 .. Len(sent) => NewEvent(sent'[i])
  /\ \A s \in Subs : provider[s].state = "canceled" => provider'[s].state = "canceled"

LEMMA Emission ==
  ASSUME IInv, EventsOK, ProviderOK, NEW s \in Subs, NEW p \in Subscription,
         NEW K \in SUBSET EventKinds, NEW kinds \in Seq(K), Len(kinds) > 0,
         Emit(s, p, kinds), Changes(s, p, K), Roomy(s, p)
  PROVE  EventsOK' /\ ProviderOK' /\ Grown
<1>1. provider[s].state # "canceled"
  BY DEF Changes, Live, ProviderOK
<1>2. /\ K \subseteq {"created", "updated"} \/ \E k \in EventKinds : K = {k}
      /\ p.state # "none"
  BY DEF Changes, EventKinds, LifecycleKinds
<1>3. "canceled" \in K => p.state = "canceled"
  BY DEF Changes, PaymentKinds
<1>4. EventsOK'
  BY <1>1, <1>2, <1>3, EventsGrow
<1>5. ProviderOK'
  BY OneRuns
<1>6. OneCheckout /\ s \notin Foreign => \A r \in LiveSubs : r = s
  BY DEF Changes, ProviderOK, LiveSubs
<1>7. /\ Len(sent) \in Nat /\ Len(sent') \in Nat /\ Len(sent) < Len(sent')
      /\ \A i \in 1 .. Len(sent) : sent'[i] = sent[i]
      /\ \A i \in 1 .. Len(sent') : i \notin 1 .. Len(sent) =>
           sent'[i].sub = s /\ sent'[i].at = clock
      /\ \A r \in Subs \ {s} : provider'[r] = provider[r]
  BY Emitted
<1>8. \A i \in 1 .. Len(sent') : i \notin 1 .. Len(sent) => NewEvent(sent'[i])
  BY <1>1, <1>6, <1>7 DEF NewEvent
<1>9. \A r \in Subs : provider[r].state = "canceled" => provider'[r].state = "canceled"
  BY <1>1, <1>7
<1>10. Grown
  BY <1>7, <1>8, <1>9 DEF Grown
<1> QED BY <1>4, <1>5, <1>10

LEMMA OneKind ==
  ASSUME NEW k \in EventKinds
  PROVE  <<k>> \in Seq({k}) /\ Len(<<k>>) > 0 /\ {k} \in SUBSET EventKinds
<1>1. k \in {k}
  OBVIOUS
<1> HIDE DEF EventKinds
<1>2. <<k>> \in Seq({k})
  BY <1>1
<1> QED BY <1>2

LEMMA TwoKinds ==
  ASSUME NEW kinds \in {<<"created">>, <<"created", "updated">>}
  PROVE  /\ kinds \in Seq({"created", "updated"}) /\ Len(kinds) > 0
         /\ {"created", "updated"} \in SUBSET EventKinds
<1> DEFINE K == {"created", "updated"}
<1>1. "created" \in K /\ "updated" \in K /\ K \subseteq EventKinds
  BY DEF EventKinds, LifecycleKinds
<1> HIDE DEF K
<1>2. kinds \in Seq(K)
  <2>1. <<"created">> \in Seq(K)
    BY <1>1
  <2>2. <<"created", "updated">> \in Seq(K)
    BY <1>1
  <2> QED BY <2>1, <2>2
<1>3. Len(kinds) > 0
  OBVIOUS
<1> QED BY <1>1, <1>2, <1>3 DEF K

(* With room for n events beside the reserve, n may be emitted.            *)
LEMMA RoomLeft ==
  ASSUME IInv, NEW s \in Subs, NEW p \in Subscription, NEW K \in SUBSET EventKinds,
         NEW kinds \in Seq(K), Len(kinds) > 0, Emit(s, p, kinds), Room(Len(kinds))
  PROVE  Roomy(s, p)
<1>1. Len(sent') = Len(sent) + Len(kinds) /\ Len(sent) \in Nat /\ Len(sent') \in Nat
  BY Emitted
<1>2. ASSUME OneCheckout
      PROVE  Len(sent) + Len(kinds) + 1 <= MaxEvents
  BY <1>2 DEF Room
<1>3. Len(kinds) \in Nat
  OBVIOUS
<1>4. OneCheckout => Len(sent') < MaxEvents
  BY <1>1, <1>2, <1>3
<1> QED BY <1>4 DEF Roomy

LEMMA ProviderMoves ==
  ASSUME IInv, EventsOK, ProviderOK, Provider
  PROVE  EventsOK' /\ ProviderOK' /\ Grown /\ UnchangedApp
<1> PICK s \in Subs : \/ StartCheckout(s) \/ Subscribe(s)
                      \/ ChangeSubscription(s) \/ CancelSubscription(s) \/ Bill(s)
  BY DEF Provider
<1>0. provider[s] \in Subscription
  BY DEF IInv, TypeOK
<1>1. CASE StartCheckout(s)
  <2>1. UNCHANGED <<provider, sent, clock>> /\ UnchangedApp /\ opened' = opened \cup {s}
        /\ provider[s].state = "none"
        /\ (OneCheckout => opened = {} /\ \A r \in Subs \ Foreign : ~Live(r))
    BY <1>1 DEF StartCheckout
  <2>2. EventsOK'
    BY <2>1 DEF EventsOK
  <2>3. LiveSubs' = LiveSubs /\ \A i : Moves(i)' = Moves(i) /\ Newest(i)' = Newest(i)
    BY <2>1 DEF LiveSubs, Live, Moves, Newest
  <2>4. OneCheckout => LiveSubs = {}
    BY <2>1 DEF LiveSubs
  <2>5. ProviderOK'
    BY <2>1, <2>3, <2>4 DEF ProviderOK
  <2>6. Len(sent) \in Nat
    BY SentType
  <2>7. Grown
    BY <2>1, <2>6 DEF Grown
  <2> QED BY <2>1, <2>2, <2>5, <2>7
<1>2. CASE Subscribe(s)
  <2> DEFINE K == {"created", "updated"}
  <2>1. PICK plan \in Plans, n \in 1 .. MaxSeats, kinds \in {<<"created">>, <<"created", "updated">>} :
          Room(Len(kinds)) /\ Emit(s, [state |-> "live", plan |-> plan, seats |-> n, status |-> "active"], kinds)
    BY <1>2 DEF Subscribe
  <2>2. PICK p \in Subscription : p = [state |-> "live", plan |-> plan, seats |-> n, status |-> "active"]
    <3>1. [state |-> "live", plan |-> plan, seats |-> n, status |-> "active"] \in Subscription
      BY DEF Subscription, Statuses
    <3> QED BY <3>1
  <2>3. kinds \in Seq(K) /\ Len(kinds) > 0 /\ K \in SUBSET EventKinds
    BY TwoKinds
  <2>4. Changes(s, p, K)
    BY <1>2, <2>2 DEF Subscribe, Changes
  <2>5. Emit(s, p, kinds)
    BY <2>1, <2>2
  <2> HIDE DEF K
  <2>6. Roomy(s, p)
    BY <2>1, <2>3, <2>5, RoomLeft
  <2>7. UnchangedApp
    BY <1>2 DEF Subscribe
  <2> QED BY <2>3, <2>4, <2>5, <2>6, <2>7, Emission
<1>3. CASE ChangeSubscription(s)
  <2>1. PICK plan \in Plans, n \in 1 .. MaxSeats :
          Emit(s, [provider[s] EXCEPT !.plan = plan, !.seats = n], <<"updated">>)
    BY <1>3 DEF ChangeSubscription
  <2>2. PICK p \in Subscription : p = [provider[s] EXCEPT !.plan = plan, !.seats = n]
    <3>1. n \in Nat \ {0}
      OBVIOUS
    <3>2. [provider[s] EXCEPT !.plan = plan, !.seats = n] \in Subscription
      BY <3>1, <1>0, ChangeType
    <3> QED BY <3>2
  <2>3. "updated" \in EventKinds
    BY DEF EventKinds, LifecycleKinds
  <2>4. Changes(s, p, {"updated"})
    BY <1>0, <1>3, <2>2 DEF ChangeSubscription, Changes, Live, Subscription
  <2>5. Emit(s, p, <<"updated">>) /\ Room(Len(<<"updated">>))
    BY <1>3, <2>1, <2>2 DEF ChangeSubscription
  <2>6. UnchangedApp
    BY <1>3 DEF ChangeSubscription
  <2> QED BY <2>3, <2>4, <2>5, <2>6, OneKind, RoomLeft, Emission
<1>4. CASE CancelSubscription(s)
  <2>1. PICK p \in Subscription : p = [provider[s] EXCEPT !.state = "canceled"]
    <3>1. [provider[s] EXCEPT !.state = "canceled"] \in Subscription
      BY <1>0, ChangeType
    <3> QED BY <3>1
  <2>2. "canceled" \in EventKinds
    BY DEF EventKinds, LifecycleKinds
  <2>3. Changes(s, p, {"canceled"})
    BY <1>0, <1>4, <2>1 DEF CancelSubscription, Changes, Live, Subscription
  <2>4. Emit(s, p, <<"canceled">>) /\ Room(Len(<<"canceled">>))
    BY <1>4, <2>1 DEF CancelSubscription
  <2>5. UnchangedApp
    BY <1>4 DEF CancelSubscription
  <2> QED BY <2>2, <2>3, <2>4, <2>5, OneKind, RoomLeft, Emission
<1>5. CASE Bill(s)
  <2>1. PICK kind \in PaymentKinds :
          Emit(s, [provider[s] EXCEPT !.status = IF kind = "failed" THEN "past_due" ELSE "active"],
               <<kind>>)
    BY <1>5 DEF Bill
  <2>2. PICK p \in Subscription :
          p = [provider[s] EXCEPT !.status = IF kind = "failed" THEN "past_due" ELSE "active"]
    <3>1. (IF kind = "failed" THEN "past_due" ELSE "active") \in Statuses
      BY DEF Statuses
    <3>2. [provider[s] EXCEPT !.status = IF kind = "failed" THEN "past_due" ELSE "active"]
            \in Subscription
      BY <1>0, <3>1, ChangeType
    <3> QED BY <3>2
  <2>3. kind \in EventKinds
    BY DEF EventKinds
  <2>4. Changes(s, p, {kind})
    <3>1. p.state = provider[s].state /\ p.plan = provider[s].plan /\ p.seats = provider[s].seats
      BY <1>0, <2>2 DEF Subscription
    <3> QED BY <1>5, <3>1 DEF Bill, Changes, Live
  <2>5. Emit(s, p, <<kind>>) /\ Room(Len(<<kind>>))
    BY <1>5, <2>1, <2>2 DEF Bill
  <2>6. UnchangedApp
    BY <1>5 DEF Bill
  <2> QED BY <2>3, <2>4, <2>5, <2>6, OneKind, RoomLeft, Emission
<1> QED BY <1>1, <1>2, <1>3, <1>4, <1>5

-----------------------------------------------------------------------------
(* What a step may do to the company's row.                                *)

KeepsRow ==
  /\ company'.sub = company.sub /\ company'.tier = company.tier
  /\ company'.limits = company.limits /\ company'.seats = company.seats
  /\ company'.at = company.at

(* A write by an event as new as the row, of some of the event's values.   *)
Writes(ev) ==
  /\ company.at <= ev.at /\ company'.at = ev.at /\ company'.limits = company'.tier
  /\ company'.sub \in {company.sub, NoSub, ev.sub}
  /\ IF ev.kind = "canceled" THEN company'.tier = "FREE" /\ company'.sub = NoSub
     ELSE company'.seats \in {company.seats, ev.seats} /\ company'.tier \in {company.tier, ev.plan}

(* An older event fills in the missing subscription of a paid company.     *)
Fills(ev) ==
  /\ ev.at < company.at /\ company.sub = NoSub /\ company.tier # "FREE"
  /\ company'.sub = ev.sub /\ company'.tier = company.tier
  /\ company'.limits = company.limits /\ company'.seats = company.seats
  /\ company'.at = company.at

RowMoves ==
  KeepsRow \/ \E i \in 1 .. Len(sent) : Moves(i) /\ (Writes(sent[i]) \/ Fills(sent[i]))

HistoryGrows ==
  \A s \in Subs, k \in PaymentKinds :
    /\ history'[s][k] \in Nat /\ history[s][k] <= history'[s][k]
    /\ s \in Foreign => history'[s][k] = history[s][k]

LEMMA RowTypes ==
  ASSUME IInv
  PROVE  /\ company.at \in Nat /\ company.seats \in Nat /\ company.tier \in Tiers
         /\ company.limits \in Tiers /\ company.sub \in Subs \cup {NoSub}
         /\ \A s \in Subs, k \in PaymentKinds : history[s][k] \in Nat
<1>1. company \in Company /\ history \in [Subs -> [PaymentKinds -> Nat]]
  BY DEF IInv, TypeOK
<1> QED BY <1>1 DEF Company

(* The mark never goes back.                                               *)
LEMMA MarkGrows ==
  ASSUME IInv, EventsOK, RowMoves
  PROVE  company'.at \in Nat /\ company.at <= company'.at
<1>1. \A i \in 1 .. Len(sent) : sent[i].at \in Nat
  BY SentType
<1> QED BY <1>1, RowTypes DEF RowMoves, KeepsRow, Writes, Fills

(* What the row shows of an event, it goes on showing until newer ones.    *)
LEMMA ShownStays ==
  ASSUME IInv, EventsOK, RowMoves, NEW i \in 1 .. Len(sent), NEW ev \in Event, ev = sent[i],
         Reached(ev)
  PROVE  /\ Reached(ev)'
         /\ ev.kind # "canceled" /\ SeatsShown(ev) => SeatsShown(ev)'
         /\ ev.kind # "canceled" /\ TierShown(ev) => TierShown(ev)'
         /\ ev.kind = "canceled" /\ EndShown(ev) => EndShown(ev)'
<1>1. ev.at \in Nat /\ company.at \in Nat /\ company'.at \in Nat /\ company.at <= company'.at
      /\ ev.at <= company.at
  BY SentType, RowTypes, MarkGrows DEF Reached
<1>2. Reached(ev)'
  BY <1>1 DEF Reached
<1>3. CASE KeepsRow
  BY <1>2, <1>3 DEF KeepsRow, SeatsShown, TierShown, EndShown
<1>4. ASSUME NEW j \in 1 .. Len(sent), Writes(sent[j])
      PROVE  /\ ev.kind # "canceled" /\ SeatsShown(ev) => SeatsShown(ev)'
             /\ ev.kind # "canceled" /\ TierShown(ev) => TierShown(ev)'
             /\ ev.kind = "canceled" /\ EndShown(ev) => EndShown(ev)'
  <2>1. CASE ev.at # company'.at
    BY <2>1 DEF SeatsShown, TierShown, EndShown
  <2>2. CASE ev.at = company'.at
    <3>1. ev.at = sent[j].at /\ ev.at = company.at
      <4>1. company'.at = sent[j].at
        BY <1>4 DEF Writes
      <4> QED BY <1>1, <2>2, <4>1
    <3>2. SameChange(ev, sent[j])
      BY <3>1 DEF EventsOK
    <3>3. ev.seats = sent[j].seats /\ ev.plan = sent[j].plan
          /\ (ev.kind = "canceled" <=> sent[j].kind = "canceled")
      BY <3>2 DEF SameChange
    <3> QED BY <1>4, <3>1, <3>3 DEF Writes, SeatsShown, TierShown, EndShown
  <2> QED BY <2>1, <2>2
<1>5. ASSUME NEW j \in 1 .. Len(sent), Fills(sent[j])
      PROVE  /\ ev.kind # "canceled" /\ SeatsShown(ev) => SeatsShown(ev)'
             /\ ev.kind # "canceled" /\ TierShown(ev) => TierShown(ev)'
             /\ ev.kind = "canceled" /\ EndShown(ev) => EndShown(ev)'
  BY <1>5 DEF Fills, SeatsShown, TierShown, EndShown
<1> QED BY <1>2, <1>3, <1>4, <1>5 DEF RowMoves

(* The event a request works on stays its event.                           *)
LEMMA SameEvent ==
  ASSUME IInv, Grown, NEW w \in Workers, pc[w] # "idle", cur'[w] = cur[w]
  PROVE  cur[w] \in 1 .. Len(sent) /\ EventAt(w)' = EventAt(w)
<1>1. cur[w] \in 1 .. Len(sent)
  BY CurrentEvent
<1> QED BY <1>1 DEF Grown, EventAt

LEMMA WrittenStays ==
  ASSUME IInv, EventsOK, Grown, RowMoves, HistoryGrows, NEW w \in Workers,
         Fit(w), Written(w), pc'[w] = pc[w], cur'[w] = cur[w], seen'[w] = seen[w]
  PROVE  Fit(w)' /\ Written(w)'
<1>1. CASE pc[w] \notin HandlerSteps
  <2>1. pc[w] \notin {"fill", "reconcile", "resize", "seats", "read_tier", "plan", "status"}
    BY <1>1 DEF HandlerSteps
  <2> QED BY <1>1, <2>1 DEF Fit, Written
<1>2. CASE pc[w] \in HandlerSteps
  <2>1. cur[w] \in 1 .. Len(sent) /\ EventAt(w)' = EventAt(w) /\ EventAt(w) \in Event
    BY <1>2, SameEvent, CurrentEvent DEF HandlerSteps
  <2>2. PICK i \in 1 .. Len(sent) : i = cur[w]
    BY <2>1
  <2>3. PICK ev \in Event : ev = EventAt(w)
    BY <2>1
  <2>4. ev = sent[i] /\ EventAt(w)' = ev
    BY <2>1, <2>2, <2>3 DEF EventAt
  <2>5. Fit(w)'
    BY <2>3, <2>4 DEF Fit
  <2>6. pc[w] = "fill" => ev.at < company'.at
    BY <2>3, <2>4, SentType, RowTypes, MarkGrows DEF Written
  <2>7. pc[w] \in {"reconcile", "resize"} => Shown(ev)'
    <3> SUFFICES ASSUME pc[w] \in {"reconcile", "resize"} PROVE Shown(ev)'
      OBVIOUS
    <3>1. ev.kind = "created" /\ Shown(ev)
      BY <2>3, <1>2 DEF Fit, Written
    <3> QED BY <2>4, <3>1, ShownStays DEF Shown
  <2>8. pc[w] \in {"seats", "read_tier", "plan"} => Reached(ev)' /\ SeatsShown(ev)'
    <3> SUFFICES ASSUME pc[w] \in {"seats", "read_tier", "plan"} PROVE Reached(ev)' /\ SeatsShown(ev)'
      OBVIOUS
    <3>1. ev.kind = "updated" /\ Reached(ev) /\ SeatsShown(ev)
      BY <2>3, <1>2 DEF Fit, Written
    <3> QED BY <2>4, <3>1, ShownStays
  <2>9. pc[w] = "plan" /\ seen[w] = ev.plan => TierShown(ev)'
    <3> SUFFICES ASSUME pc[w] = "plan", seen[w] = ev.plan PROVE TierShown(ev)'
      OBVIOUS
    <3>1. ev.kind = "updated" /\ Reached(ev) /\ TierShown(ev)
      BY <2>3, <1>2 DEF Fit, Written
    <3> QED BY <2>4, <3>1, ShownStays
  <2>10. pc[w] = "status" => Recorded(ev)'
    <3> SUFFICES ASSUME pc[w] = "status" PROVE Recorded(ev)'
      OBVIOUS
    <3>1. ev.kind \in PaymentKinds /\ ev.sub \in Subs /\ ev.at \in Nat
      BY <2>3, <1>2, <2>4, SentType DEF Fit
    <3>2. ev.at <= history[ev.sub][ev.kind]
      BY <2>3 DEF Written, Recorded
    <3>3. /\ history[ev.sub][ev.kind] <= history'[ev.sub][ev.kind]
          /\ history[ev.sub][ev.kind] \in Nat /\ history'[ev.sub][ev.kind] \in Nat
      BY <3>1, RowTypes DEF HistoryGrows
    <3> QED BY <3>1, <3>2, <3>3 DEF Recorded
  <2> QED BY <2>4, <2>5, <2>6, <2>7, <2>8, <2>9, <2>10 DEF Written
<1> QED BY <1>1, <1>2

LEMMA DoneStays ==
  ASSUME IInv, EventsOK, Grown, RowMoves, HistoryGrows, NEW e \in Ids, Done(e)
  PROVE  Done(e)'
<1>1. e \in 1 .. Len(sent) /\ e <= Len(sent') /\ sent'[e] = sent[e]
  BY DEF Done, Grown, Ids
<1>2. PICK i \in 1 .. Len(sent) : i = e
  BY <1>1
<1>3. PICK ev \in Event : ev = sent[i]
  BY SentType
<1>4. Moves(e)' = Moves(e) /\ sent'[e] = ev /\ sent[e] = ev
  BY <1>1, <1>2, <1>3 DEF Moves
<1>5. Moves(e) => Shown(ev)'
  <2> SUFFICES ASSUME Moves(e) PROVE Shown(ev)'
    OBVIOUS
  <2>1. Shown(ev)
    BY <1>4 DEF Done
  <2> QED BY <1>3, <2>1, ShownStays DEF Shown
<1>6. ev.kind \in PaymentKinds /\ ev.sub \notin Foreign => Recorded(ev)'
  <2> SUFFICES ASSUME ev.kind \in PaymentKinds, ev.sub \notin Foreign PROVE Recorded(ev)'
    OBVIOUS
  <2>1. ev.at <= history[ev.sub][ev.kind] /\ ev.sub \in Subs /\ ev.at \in Nat
    BY <1>3, <1>4, SentType DEF Done, Recorded
  <2>2. /\ history[ev.sub][ev.kind] <= history'[ev.sub][ev.kind]
        /\ history[ev.sub][ev.kind] \in Nat /\ history'[ev.sub][ev.kind] \in Nat
    BY <2>1, RowTypes DEF HistoryGrows
  <2> QED BY <2>1, <2>2 DEF Recorded
<1> QED BY <1>1, <1>4, <1>5, <1>6 DEF Done

LEMMA MarkStays ==
  ASSUME IInv, EventsOK, Grown, RowMoves, HistoryGrows, MarkOK
  PROVE  MarkOK'
<1>1. \A i \in 1 .. Len(sent) : i \in 1 .. Len(sent') /\ sent'[i] = sent[i] /\ Moves(i)' = Moves(i)
  BY DEF Grown, Moves
<1>2. \A i \in 1 .. Len(sent) : sent[i].at \in Nat /\ 0 < sent[i].at
  BY SentType DEF EventsOK
<1>3. \A s \in Foreign, k \in PaymentKinds : history'[s][k] = 0
  BY DEF MarkOK, HistoryGrows
<1>4. CASE KeepsRow
  BY <1>1, <1>3, <1>4 DEF KeepsRow, MarkOK
<1>5. ASSUME NEW i \in 1 .. Len(sent), Moves(i), Writes(sent[i])
      PROVE  MarkOK'
  <2>1. company'.limits = company'.tier /\ company'.sub \notin Foreign
    BY <1>5 DEF Writes, Moves, MarkOK
  <2>2. company'.at # 0 /\ Moves(i)' /\ sent'[i].at = company'.at
    BY <1>1, <1>2, <1>5 DEF Writes
  <2> QED BY <1>1, <1>3, <2>1, <2>2 DEF MarkOK
<1>6. ASSUME NEW i \in 1 .. Len(sent), Moves(i), Fills(sent[i])
      PROVE  MarkOK'
  <2>1. company'.limits = company'.tier /\ company'.sub \notin Foreign
    BY <1>6 DEF Fills, Moves, MarkOK
  <2>2. company.at # 0 /\ company'.at = company.at
    BY <1>2, <1>6, RowTypes DEF Fills
  <2> QED BY <1>1, <1>3, <2>1, <2>2 DEF MarkOK
<1> QED BY <1>4, <1>5, <1>6 DEF RowMoves

LEMMA EndedStays ==
  ASSUME IInv, EventsOK, Grown, RowMoves, NEW s \in Subs, EndedAt(s)
  PROVE  EndedAt(s)'
<1>1. provider'[s].state = "canceled"
  BY DEF Grown, EndedAt
<1>2. ASSUME NEW i \in 1 .. Len(sent'), sent'[i].sub = s, sent'[i].kind # "canceled"
      PROVE  sent'[i].at < company'.at
  <2>1. i \in 1 .. Len(sent)
    BY <1>2 DEF Grown, NewEvent, EndedAt
  <2>2. sent'[i] = sent[i] /\ sent[i].at < company.at
    BY <1>2, <2>1 DEF Grown, EndedAt
  <2> QED BY <2>1, <2>2, SentType, RowTypes, MarkGrows
<1> QED BY <1>1, <1>2 DEF EndedAt

(* A step that moves the row, and of requests, handled events and applied  *)
(* cancellations only such as fit and are written, keeps the invariant.    *)
LEMMA StepFollows ==
  ASSUME IInv, EventsOK, Following, Grown, RowMoves, HistoryGrows,
         \A w \in Workers : \/ pc'[w] = pc[w] /\ cur'[w] = cur[w] /\ seen'[w] = seen[w]
                            \/ Fit(w)' /\ Written(w)',
         handled \subseteq Ids, ended \subseteq Subs,
         \A e \in handled' : e \in handled \/ Done(e)',
         \A s \in ended' : s \in ended \/ EndedAt(s)'
  PROVE  Following'
<1>1. RequestsOK'
  BY WrittenStays DEF Following, RequestsOK
<1>2. DoneOK'
  BY DoneStays DEF Following, DoneOK
<1>3. MarkOK'
  BY MarkStays DEF Following
<1>4. EndedOK'
  BY EndedStays DEF Following, EndedOK
<1> QED BY <1>1, <1>2, <1>3, <1>4 DEF Following

(* The provider's steps.                                                   *)
LEMMA ProviderFollows ==
  ASSUME IInv, EventsOK, ProviderOK, Following, Provider
  PROVE  Following'
<1>1. Grown /\ UnchangedApp
  BY ProviderMoves
<1>2. RowMoves /\ HistoryGrows
  BY <1>1, RowTypes DEF UnchangedApp, RowMoves, KeepsRow, HistoryGrows
<1>3. handled \subseteq Ids /\ ended \subseteq Subs
  BY DEF IInv, TypeOK
<1> QED BY <1>1, <1>2, <1>3, StepFollows DEF UnchangedApp

-----------------------------------------------------------------------------
(* The steps of a request.                                                 *)

(* What holds of a request in the midst of its handlers.                   *)
LEMMA AtWork ==
  ASSUME IInv, EventsOK, Following, NEW w \in Workers, pc[w] \in HandlerSteps
  PROVE  /\ cur[w] \in 1 .. Len(sent) /\ EventAt(w) = sent[cur[w]] /\ EventAt(w) \in Event
         /\ EventAt(w).sub \in Subs \ Foreign /\ EventAt(w).at \in Nat /\ 0 < EventAt(w).at
         /\ EventAt(w).seats \in Nat \ {0} /\ EventAt(w).plan \in Plans
         /\ EventAt(w).kind \in EventKinds
         /\ (EventAt(w).kind \in LifecycleKinds => Moves(cur[w])) /\ Fit(w) /\ Written(w)
<1>1. cur[w] \in 1 .. Len(sent) /\ EventAt(w) = sent[cur[w]]
  BY CurrentEvent DEF EventAt, HandlerSteps
<1>2. Fit(w) /\ Written(w)
  BY DEF Following, RequestsOK
<1>3. EventAt(w).sub \notin Foreign
  BY <1>2 DEF Fit
<1> QED BY <1>1, <1>2, <1>3, SentType DEF EventsOK, Moves

(* The provider may rest.                                                  *)
LEMMA ProviderRests ==
  ASSUME IInv, EventsOK, ProviderOK, UnchangedProvider
  PROVE  EventsOK' /\ ProviderOK' /\ Grown
<1>1. provider' = provider /\ opened' = opened /\ sent' = sent /\ clock' = clock
  BY DEF UnchangedProvider, providerVars
<1>2. EventsOK'
  BY <1>1 DEF EventsOK
<1>3. LiveSubs' = LiveSubs /\ \A i : Moves(i)' = Moves(i) /\ Newest(i)' = Newest(i)
  BY <1>1 DEF LiveSubs, Live, Moves, Newest
<1>4. ProviderOK'
  BY <1>1, <1>3 DEF ProviderOK
<1> QED BY <1>1, <1>2, <1>4, SentType DEF Grown

(* Request w moves to its next step, having written what that step asks.   *)
LEMMA RequestFollows ==
  ASSUME IInv, EventsOK, Following, NEW w \in Workers, pc[w] # "idle",
         Grown, RowMoves, HistoryGrows,
         NEW next \in Steps, Goto(w, cur[w], next), cur' = cur,
         \A v \in Workers \ {w} : seen'[v] = seen[v],
         Fit(w)', Written(w)', next = "mark" => cur[w] \in handled \/ Done(cur[w])',
         \A s \in ended' : s \in ended \/ EndedAt(s)'
  PROVE  Following'
<1>1. pc \in [Workers -> Steps] /\ handled \subseteq Ids /\ ended \subseteq Subs
  BY DEF IInv, TypeOK
<1>2. \A v \in Workers : \/ pc'[v] = pc[v] /\ cur'[v] = cur[v] /\ seen'[v] = seen[v]
                         \/ Fit(v)' /\ Written(v)'
  BY <1>1 DEF Goto
<1>3. \A e \in handled' : e \in handled \/ Done(e)'
  BY DEF Goto
<1> QED BY <1>1, <1>2, <1>3, StepFollows

(* A step that leaves the handlers, or has not entered them, asks nothing. *)
LEMMA NothingOwed ==
  ASSUME NEW w \in Workers, pc'[w] \notin HandlerSteps
  PROVE  Fit(w)' /\ Written(w)'
BY DEF Fit, Written, HandlerSteps

(* What every handler leaves alone.                                        *)
LEMMA HandlerFrame ==
  ASSUME IInv, NEW w \in Workers, NEW step \in HandlerSteps, NEW next \in Steps,
         Handler(w, step, next)
  PROVE  /\ pc[w] = step /\ pc'[w] = next /\ Goto(w, cur[w], next) /\ cur' = cur
         /\ UnchangedProvider /\ UNCHANGED <<acked, row, faults>>
         /\ EventAt(w)' = EventAt(w)
BY DEF Handler, UnchangedClaims, UnchangedProvider, providerVars, Goto, IInv, TypeOK, EventAt

LEMMA ActivateFollows ==
  ASSUME IInv, EventsOK, ProviderOK, Following, NEW w \in Workers, Activate(w)
  PROVE  Following'
<1> PICK next \in Steps : next = IF Sync(EventAt(w)) THEN "reconcile" ELSE "fill"
  BY DEF Steps, HandlerSteps
<1>1. Handler(w, "activate", next) /\ history' = history /\ seen' = seen /\ ended' = ended
  BY DEF Activate
<1>2. /\ pc[w] = "activate" /\ pc'[w] = next /\ Goto(w, cur[w], next) /\ cur' = cur
      /\ UnchangedProvider /\ EventAt(w)' = EventAt(w)
  BY <1>1, HandlerFrame DEF HandlerSteps
<1>3. PICK ev \in Event : ev = EventAt(w)
  BY <1>2, AtWork DEF HandlerSteps
<1>4. /\ cur[w] \in 1 .. Len(sent) /\ ev = sent[cur[w]] /\ Moves(cur[w]) /\ ev.kind = "created"
      /\ ev.sub \in Subs \ Foreign /\ ev.seats \in Nat \ {0} /\ ev.at \in Nat /\ ev.plan \in Plans
  BY <1>2, <1>3, AtWork DEF HandlerSteps, Fit, LifecycleKinds
<1>5. company \in Company /\ company.at \in Nat
  BY RowTypes DEF IInv, TypeOK
<1>6. CASE Sync(ev)
  <2>1. company' = [company EXCEPT !.sub = ev.sub, !.status = ev.status, !.tier = ev.plan,
                                   !.limits = ev.plan, !.seats = AtLeastOne(ev.seats), !.at = ev.at]
    BY <1>3, <1>6 DEF Activate, ApplyRecencyGuardedSync
  <2>2. /\ company'.sub = ev.sub /\ company'.tier = ev.plan /\ company'.limits = ev.plan
        /\ company'.seats = ev.seats /\ company'.at = ev.at
    BY <1>4, <1>5, <2>1 DEF Company, AtLeastOne
  <2>3. Writes(ev)
    BY <1>4, <1>6, <2>2 DEF Writes, Sync
  <2>4. Shown(ev)'
    BY <1>4, <2>2 DEF Shown, Reached, SeatsShown, TierShown
  <2>5. next = "reconcile"
    BY <1>3, <1>6
  <2>6. RowMoves /\ HistoryGrows /\ Grown
    BY <1>1, <1>2, <1>4, <2>3, RowTypes, ProviderRests DEF RowMoves, HistoryGrows
  <2>7. Fit(w)' /\ Written(w)'
    BY <1>2, <1>3, <1>4, <2>4, <2>5 DEF Fit, Written
  <2> QED BY <1>1, <1>2, <2>5, <2>6, <2>7, RequestFollows
<1>7. CASE ~Sync(ev)
  <2>1. company' = company /\ next = "fill"
    BY <1>3, <1>7 DEF Activate, ApplyRecencyGuardedSync
  <2>2. ev.at < company'.at
    BY <1>4, <1>5, <1>7, <2>1 DEF Sync
  <2>3. RowMoves /\ HistoryGrows /\ Grown
    BY <1>1, <1>2, <2>1, RowTypes, ProviderRests DEF RowMoves, KeepsRow, HistoryGrows
  <2>4. Fit(w)' /\ Written(w)'
    BY <1>2, <1>3, <1>4, <2>1, <2>2 DEF Fit, Written
  <2> QED BY <1>1, <1>2, <2>1, <2>3, <2>4, RequestFollows
<1> QED BY <1>6, <1>7

(* The event of a request at a step, and what the step leaves alone.       *)
LEMMA AtStep ==
  ASSUME IInv, EventsOK, ProviderOK, Following, NEW w \in Workers,
         NEW step \in HandlerSteps, NEW next \in Steps, Handler(w, step, next)
  PROVE  /\ pc[w] = step /\ pc[w] # "idle" /\ pc'[w] = next
         /\ Goto(w, cur[w], next) /\ cur' = cur /\ UnchangedProvider /\ Grown /\ sent' = sent
         /\ \E ev \in Event :
              /\ ev = EventAt(w) /\ EventAt(w)' = ev /\ ev = sent[cur[w]] /\ cur[w] \in 1 .. Len(sent)
              /\ ev.sub \in Subs \ Foreign /\ ev.seats \in Nat \ {0} /\ ev.at \in Nat /\ 0 < ev.at
              /\ ev.plan \in Plans /\ ev.kind \in EventKinds
              /\ (ev.kind \in LifecycleKinds => Moves(cur[w]))
         /\ Fit(w) /\ Written(w)
<1>1. /\ pc[w] = step /\ pc'[w] = next /\ Goto(w, cur[w], next) /\ cur' = cur
      /\ UnchangedProvider /\ EventAt(w)' = EventAt(w)
  BY HandlerFrame
<1>2. Grown /\ sent' = sent
  BY <1>1, ProviderRests DEF UnchangedProvider, providerVars
<1>3. PICK ev \in Event : ev = EventAt(w)
  BY <1>1, AtWork
<1>4. /\ EventAt(w)' = ev /\ ev = sent[cur[w]] /\ cur[w] \in 1 .. Len(sent)
      /\ ev.sub \in Subs \ Foreign /\ ev.seats \in Nat \ {0} /\ ev.at \in Nat /\ 0 < ev.at
      /\ ev.plan \in Plans /\ ev.kind \in EventKinds
      /\ (ev.kind \in LifecycleKinds => Moves(cur[w])) /\ Fit(w) /\ Written(w)
  BY <1>1, <1>3, AtWork
<1>5. pc[w] # "idle"
  BY <1>1 DEF HandlerSteps
<1> QED BY <1>1, <1>2, <1>3, <1>4, <1>5

(* The handlers that run before an event is done write nothing more of it  *)
(* than this.                                                              *)
LEMMA DoneNow ==
  ASSUME Grown, NEW e \in 1 .. Len(sent), NEW ev \in Event, ev = sent[e],
         ev.kind \in LifecycleKinds => Shown(ev)', ev.kind \in PaymentKinds => Recorded(ev)'
  PROVE  Done(e)'
<1>1. e <= Len(sent') /\ sent'[e] = ev
  BY DEF Grown
<1>2. Moves(e)' => ev.kind \in LifecycleKinds
  BY <1>1 DEF Moves
<1> QED BY <1>1, <1>2 DEF Done

LEMMA OnlyHistory ==
  ASSUME IInv
  PROVE  /\ company' = company => RowMoves
         /\ history' = history => HistoryGrows
BY RowTypes DEF RowMoves, KeepsRow, HistoryGrows

LEMMA FillFollows ==
  ASSUME IInv, EventsOK, ProviderOK, Following, NEW w \in Workers, FillSubscription(w)
  PROVE  Following'
<1>1. Handler(w, "fill", "reconcile") /\ history' = history /\ seen' = seen /\ ended' = ended
  BY DEF FillSubscription
<1>2. "fill" \in HandlerSteps /\ "reconcile" \in Steps
  BY DEF HandlerSteps, Steps
<1>3. /\ pc[w] = "fill" /\ pc[w] # "idle" /\ pc'[w] = "reconcile"
      /\ Goto(w, cur[w], "reconcile") /\ cur' = cur /\ Grown /\ Fit(w) /\ Written(w)
  BY <1>1, <1>2, AtStep
<1>4. PICK ev \in Event :
        /\ ev = EventAt(w) /\ EventAt(w)' = ev /\ ev = sent[cur[w]] /\ cur[w] \in 1 .. Len(sent)
        /\ ev.sub \in Subs \ Foreign /\ (ev.kind \in LifecycleKinds => Moves(cur[w])) /\ ev.at \in Nat
  BY <1>1, <1>2, AtStep
<1>5. ev.kind = "created" /\ Moves(cur[w]) /\ ev.at < company.at
  BY <1>2, <1>3, <1>4 DEF Fit, Written, LifecycleKinds
<1>6. company \in Company /\ company.at \in Nat
  BY RowTypes DEF IInv, TypeOK
<1>7. company'.at = company.at /\ RowMoves
  <2>1. CASE company.sub = NoSub /\ company.tier # "FREE"
    <3>1. company' = [company EXCEPT !.sub = ev.sub]
      BY <1>4, <2>1 DEF FillSubscription
    <3>2. Fills(ev) /\ company'.at = company.at
      BY <1>5, <1>6, <2>1, <3>1 DEF Company, Fills
    <3> QED BY <1>4, <1>5, <3>2 DEF RowMoves
  <2>2. CASE ~(company.sub = NoSub /\ company.tier # "FREE")
    BY <2>2, OnlyHistory DEF FillSubscription
  <2> QED BY <2>1, <2>2
<1>8. Shown(ev)'
  BY <1>4, <1>5, <1>6, <1>7 DEF Shown, Reached, SeatsShown, TierShown
<1>9. Fit(w)' /\ Written(w)'
  BY <1>3, <1>4, <1>5, <1>8 DEF Fit, Written
<1> QED BY <1>1, <1>2, <1>3, <1>7, <1>9, OnlyHistory, RequestFollows

LEMMA ReconcileFollows ==
  ASSUME IInv, EventsOK, ProviderOK, Following, NEW w \in Workers, ReconcileSeats(w)
  PROVE  Following'
<1> PICK next \in Steps :
      next = IF company.sub # EventAt(w).sub \/ company.tier = "FREE" THEN "mark" ELSE "resize"
  BY DEF Steps, HandlerSteps
<1>1. /\ Handler(w, "reconcile", next) /\ company' = company /\ history' = history
      /\ seen' = seen /\ ended' = ended
  BY DEF ReconcileSeats
<1>2. "reconcile" \in HandlerSteps
  BY DEF HandlerSteps
<1>3. /\ pc[w] = "reconcile" /\ pc[w] # "idle" /\ pc'[w] = next
      /\ Goto(w, cur[w], next) /\ cur' = cur /\ Grown /\ Fit(w) /\ Written(w)
  BY <1>1, <1>2, AtStep
<1>4. PICK ev \in Event :
        /\ ev = EventAt(w) /\ EventAt(w)' = ev /\ ev = sent[cur[w]] /\ cur[w] \in 1 .. Len(sent)
        /\ ev.sub \in Subs \ Foreign
  BY <1>1, <1>2, AtStep
<1>5. ev.kind = "created" /\ Shown(ev)
  BY <1>2, <1>3, <1>4 DEF Fit, Written
<1>6. Shown(ev)'
  BY <1>1, <1>5 DEF Shown, Reached, SeatsShown, TierShown, EndShown
<1>7. Fit(w)' /\ Written(w)'
  BY <1>3, <1>4, <1>5, <1>6 DEF Fit, Written, HandlerSteps
<1>8. Done(cur[w])'
  BY <1>3, <1>4, <1>5, <1>6, DoneNow DEF PaymentKinds
<1> QED BY <1>1, <1>3, <1>7, <1>8, OnlyHistory, RequestFollows

(* A resize emits the update of its subscription.                          *)
LEMMA ResizeEmits ==
  ASSUME IInv, EventsOK, ProviderOK, Following, NEW w \in Workers, ResizeSeats(w)
  PROVE  EventsOK' /\ ProviderOK' /\ Grown
<1> PICK s \in Subs : s = EventAt(w).sub
  BY AtWork DEF ResizeSeats, HandlerSteps
<1>1. s \notin Foreign
  BY AtWork DEF ResizeSeats, HandlerSteps
<1>2. CASE Live(s) /\ provider[s].seats # Team
  <2>0. provider[s] \in Subscription
    BY DEF IInv, TypeOK
  <2>1. PICK p \in Subscription : p = [provider[s] EXCEPT !.seats = Team]
    <3>1. [provider[s] EXCEPT !.seats = Team] \in Subscription
      BY <2>0, ChangeType
    <3> QED BY <3>1
  <2>2. Emit(s, p, <<"updated">>) /\ opened' = opened
    BY <1>2, <2>1 DEF ResizeSeats
  <2>3. "updated" \in EventKinds
    BY DEF EventKinds, LifecycleKinds
  <2>4. p.seats = Team /\ Changes(s, p, {"updated"})
    BY <1>2, <2>0, <2>1, <2>2 DEF Changes, Live, Subscription
  <2>5. Len(sent') = Len(sent) + 1 /\ Len(sent) \in Nat
    <3>1. PICK kinds \in Seq({"updated"}) : kinds = <<"updated">> /\ Len(kinds) = 1
      <4>1. Len(<<"updated">>) = 1
        OBVIOUS
      <4> QED BY <2>3, <4>1, OneKind
    <3>2. Len(sent') = Len(sent) + Len(kinds) /\ Len(sent) \in Nat
      <4>1. PICK K \in SUBSET EventKinds : kinds \in Seq(K)
        BY <2>3, <3>1
      <4>2. Len(kinds) > 0 /\ Emit(s, p, kinds)
        BY <2>2, <3>1
      <4> QED BY <2>1, <4>1, <4>2, Emitted
    <3> QED BY <3>1, <3>2
  <2>6. OneCheckout => Len(sent) < MaxEvents
    BY <1>1, <1>2 DEF ProviderOK, LiveSubs
  <2>7. OneCheckout => Len(sent') <= MaxEvents
    BY <2>5, <2>6
  <2>8. Roomy(s, p)
    BY <1>1, <2>4, <2>7 DEF Roomy
  <2> QED BY <2>2, <2>3, <2>4, <2>8, OneKind, Emission
<1>3. CASE ~(Live(s) /\ provider[s].seats # Team)
  BY <1>3, ProviderRests DEF ResizeSeats, UnchangedProvider, providerVars
<1> QED BY <1>2, <1>3

LEMMA ResizeFollows ==
  ASSUME IInv, EventsOK, ProviderOK, Following, NEW w \in Workers, ResizeSeats(w)
  PROVE  Following'
<1> PICK next \in Steps : next = IF Live(EventAt(w).sub) THEN "mark" ELSE "release"
  BY DEF Steps
<1>1. /\ pc[w] = "resize" /\ pc[w] # "idle" /\ Goto(w, cur[w], next) /\ cur' = cur
      /\ company' = company /\ history' = history /\ seen' = seen /\ ended' = ended
  BY DEF ResizeSeats
<1>2. "resize" \in HandlerSteps /\ next \notin HandlerSteps
  BY DEF HandlerSteps
<1>3. pc'[w] = next
  BY <1>1 DEF Goto, IInv, TypeOK
<1>4. Grown
  BY ResizeEmits
<1>5. PICK ev \in Event : ev = EventAt(w)
  BY <1>1, <1>2, AtWork
<1>6. ev = sent[cur[w]] /\ cur[w] \in 1 .. Len(sent) /\ ev.kind = "created" /\ Shown(ev)
  BY <1>1, <1>2, <1>5, AtWork DEF Fit, Written
<1>7. Shown(ev)'
  BY <1>1, <1>6 DEF Shown, Reached, SeatsShown, TierShown, EndShown
<1>8. Done(cur[w])'
  BY <1>1, <1>4, <1>5, <1>6, <1>7, DoneNow DEF PaymentKinds
<1>9. Fit(w)' /\ Written(w)'
  BY <1>2, <1>3, NothingOwed
<1> QED BY <1>1, <1>4, <1>8, <1>9, OnlyHistory, RequestFollows

(* The seats of an update, written by one handler and again by the next.   *)
LEMMA SeatsFollow ==
  ASSUME IInv, EventsOK, ProviderOK, Following, NEW w \in Workers,
         UpdateSubscription(w) \/ ChangeSeats(w)
  PROVE  Following'
<1> PICK step \in HandlerSteps, next \in Steps :
      \/ step = "update" /\ next = "seats" /\ UpdateSubscription(w)
      \/ step = "seats" /\ next = "read_tier" /\ ChangeSeats(w)
  <2>1. {"update", "seats"} \subseteq HandlerSteps /\ {"seats", "read_tier"} \subseteq Steps
    BY DEF HandlerSteps, Steps
  <2> QED BY <2>1
<1>1. /\ Handler(w, step, next) /\ history' = history /\ seen' = seen /\ ended' = ended
      /\ step \in {"update", "seats"} /\ next \in {"seats", "read_tier"}
  BY DEF UpdateSubscription, ChangeSeats
<1>2. /\ pc[w] = step /\ pc[w] # "idle" /\ pc'[w] = next
      /\ Goto(w, cur[w], next) /\ cur' = cur /\ Grown /\ Fit(w) /\ Written(w)
  BY <1>1, AtStep
<1>3. PICK ev \in Event :
        /\ ev = EventAt(w) /\ EventAt(w)' = ev /\ ev = sent[cur[w]] /\ cur[w] \in 1 .. Len(sent)
        /\ ev.sub \in Subs \ Foreign /\ (ev.kind \in LifecycleKinds => Moves(cur[w]))
        /\ ev.at \in Nat /\ ev.seats \in Nat \ {0}
  BY <1>1, AtStep
<1>4. ev.kind = "updated" /\ Moves(cur[w])
  BY <1>1, <1>2, <1>3 DEF Fit, LifecycleKinds
<1>5. company \in Company /\ company.at \in Nat
  BY RowTypes DEF IInv, TypeOK
<1>6. RowMoves /\ (Reached(ev) /\ SeatsShown(ev))'
  <2>1. CASE Sync(ev)
    <3>1. /\ company'.sub = company.sub /\ company'.tier = company.tier
          /\ company'.limits = company.limits /\ company'.seats = AtLeastOne(ev.seats)
          /\ company'.at = ev.at
      <4>1. CASE UpdateSubscription(w)
        BY <1>3, <1>5, <2>1, <4>1 DEF UpdateSubscription, ApplyRecencyGuardedSync, Company
      <4>2. CASE ChangeSeats(w)
        BY <1>3, <1>5, <2>1, <4>2 DEF ChangeSeats, ApplyRecencyGuardedSync, Company
      <4> QED BY <4>1, <4>2
    <3>2. company'.seats = ev.seats
      BY <1>3, <3>1 DEF AtLeastOne
    <3>3. company.limits = company.tier
      BY DEF Following, MarkOK
    <3>4. Writes(ev)
      BY <1>4, <2>1, <3>1, <3>2, <3>3 DEF Writes, Sync
    <3> QED BY <1>3, <1>4, <3>1, <3>2, <3>4 DEF RowMoves, Reached, SeatsShown
  <2>2. CASE ~Sync(ev)
    <3>1. company' = company
      BY <1>3, <2>2 DEF UpdateSubscription, ChangeSeats, ApplyRecencyGuardedSync
    <3>2. ev.at < company'.at
      BY <1>3, <1>5, <2>2, <3>1 DEF Sync
    <3> QED BY <1>3, <1>5, <3>1, <3>2, OnlyHistory DEF Reached, SeatsShown
  <2> QED BY <2>1, <2>2
<1>7. Fit(w)' /\ Written(w)'
  BY <1>1, <1>2, <1>3, <1>4, <1>6 DEF Fit, Written
<1> QED BY <1>1, <1>2, <1>6, <1>7, OnlyHistory, RequestFollows

LEMMA ReadTierFollows ==
  ASSUME IInv, EventsOK, ProviderOK, Following, NEW w \in Workers, ReadTier(w)
  PROVE  Following'
<1>1. /\ Handler(w, "read_tier", "plan") /\ company' = company /\ history' = history
      /\ ended' = ended /\ seen' = [seen EXCEPT ![w] = company.tier]
      /\ seen \in [Workers -> Tiers]
  BY DEF ReadTier, IInv, TypeOK
<1>2. "read_tier" \in HandlerSteps /\ "plan" \in Steps
  BY DEF HandlerSteps, Steps
<1>3. /\ pc[w] = "read_tier" /\ pc[w] # "idle" /\ pc'[w] = "plan"
      /\ Goto(w, cur[w], "plan") /\ cur' = cur /\ Grown /\ Fit(w) /\ Written(w)
  BY <1>1, <1>2, AtStep
<1>4. PICK ev \in Event :
        /\ ev = EventAt(w) /\ EventAt(w)' = ev /\ ev = sent[cur[w]] /\ cur[w] \in 1 .. Len(sent)
        /\ ev.sub \in Subs \ Foreign
  BY <1>1, <1>2, AtStep
<1>5. ev.kind = "updated" /\ Reached(ev) /\ SeatsShown(ev)
  BY <1>2, <1>3, <1>4 DEF Fit, Written
<1>6. (Reached(ev) /\ SeatsShown(ev))'
  BY <1>1, <1>5 DEF Reached, SeatsShown
<1>7. seen'[w] = company'.tier /\ \A v \in Workers \ {w} : seen'[v] = seen[v]
  BY <1>1
<1>8. seen'[w] = ev.plan => TierShown(ev)'
  BY <1>7 DEF TierShown
<1>9. Fit(w)' /\ Written(w)'
  BY <1>3, <1>4, <1>5, <1>6, <1>8 DEF Fit, Written
<1> QED BY <1>1, <1>2, <1>3, <1>7, <1>9, OnlyHistory, RequestFollows

LEMMA PlanFollows ==
  ASSUME IInv, EventsOK, ProviderOK, Following, NEW w \in Workers, ChangePlan(w)
  PROVE  Following'
<1>1. /\ Handler(w, "plan", "mark") /\ history' = history /\ ended' = ended
      /\ seen' = [seen EXCEPT ![w] = "FREE"] /\ seen \in [Workers -> Tiers]
  BY DEF ChangePlan, IInv, TypeOK
<1>2. "plan" \in HandlerSteps /\ "mark" \in Steps /\ "mark" \notin HandlerSteps
  BY DEF HandlerSteps, Steps
<1>3. /\ pc[w] = "plan" /\ pc[w] # "idle" /\ pc'[w] = "mark"
      /\ Goto(w, cur[w], "mark") /\ cur' = cur /\ Grown /\ Fit(w) /\ Written(w)
  BY <1>1, <1>2, AtStep
<1>4. PICK ev \in Event :
        /\ ev = EventAt(w) /\ ev = sent[cur[w]] /\ cur[w] \in 1 .. Len(sent)
        /\ (ev.kind \in LifecycleKinds => Moves(cur[w])) /\ ev.at \in Nat
  BY <1>1, <1>2, AtStep
<1>5. /\ ev.kind = "updated" /\ Moves(cur[w]) /\ Reached(ev) /\ SeatsShown(ev)
      /\ (seen[w] = ev.plan => TierShown(ev))
  BY <1>2, <1>3, <1>4 DEF Fit, Written, LifecycleKinds
<1>6. company \in Company /\ company.at \in Nat
  BY RowTypes DEF IInv, TypeOK
<1>7. RowMoves /\ Shown(ev)'
  <2>1. CASE Sync(ev)
    <3>1. company.at = ev.at /\ company.seats = ev.seats /\ company.limits = company.tier
      BY <1>4, <1>5, <1>6, <2>1 DEF Sync, Reached, SeatsShown, Following, MarkOK
    <3>2. company' = [company EXCEPT !.tier = ev.plan,
                        !.limits = IF seen[w] = ev.plan THEN @ ELSE ev.plan, !.at = ev.at]
      BY <1>4, <2>1 DEF ChangePlan, ApplyRecencyGuardedSync
    <3>3. /\ company'.sub = company.sub /\ company'.tier = ev.plan
          /\ company'.limits = (IF seen[w] = ev.plan THEN company.limits ELSE ev.plan)
          /\ company'.seats = company.seats /\ company'.at = ev.at
      BY <1>6, <3>2 DEF Company
    <3>4. company'.limits = ev.plan
      BY <1>5, <3>1, <3>3 DEF TierShown
    <3>5. Writes(ev)
      BY <1>5, <2>1, <3>1, <3>3, <3>4 DEF Writes, Sync
    <3>6. Shown(ev)'
      BY <1>4, <1>5, <3>1, <3>3 DEF Shown, Reached, SeatsShown, TierShown
    <3> QED BY <1>4, <1>5, <3>5, <3>6 DEF RowMoves
  <2>2. CASE ~Sync(ev)
    <3>1. company' = company
      BY <1>4, <2>2 DEF ChangePlan, ApplyRecencyGuardedSync
    <3>2. ev.at < company'.at
      BY <1>4, <1>6, <2>2, <3>1 DEF Sync
    <3> QED BY <1>4, <1>5, <1>6, <3>1, <3>2, OnlyHistory
            DEF Shown, Reached, SeatsShown, TierShown
  <2> QED BY <2>1, <2>2
<1>8. Done(cur[w])'
  BY <1>3, <1>4, <1>5, <1>7, DoneNow DEF PaymentKinds
<1>9. Fit(w)' /\ Written(w)'
  BY <1>2, <1>3, NothingOwed
<1>10. \A v \in Workers \ {w} : seen'[v] = seen[v]
  BY <1>1
<1> QED BY <1>1, <1>2, <1>3, <1>7, <1>8, <1>9, <1>10, OnlyHistory, RequestFollows

LEMMA CancelFollows ==
  ASSUME IInv, EventsOK, ProviderOK, Following, NEW w \in Workers, Cancel(w)
  PROVE  Following'
<1>1. /\ Handler(w, "cancel", "mark") /\ history' = history /\ seen' = seen
  BY DEF Cancel
<1>2. "cancel" \in HandlerSteps /\ "mark" \in Steps /\ "mark" \notin HandlerSteps
  BY DEF HandlerSteps, Steps
<1>3. /\ pc[w] = "cancel" /\ pc[w] # "idle" /\ pc'[w] = "mark" /\ UnchangedProvider
      /\ Goto(w, cur[w], "mark") /\ cur' = cur /\ Grown /\ Fit(w) /\ Written(w)
  BY <1>1, <1>2, AtStep
<1>4. PICK ev \in Event :
        /\ ev = EventAt(w) /\ ev = sent[cur[w]] /\ cur[w] \in 1 .. Len(sent)
        /\ (ev.kind \in LifecycleKinds => Moves(cur[w])) /\ ev.at \in Nat
  BY <1>1, <1>2, AtStep
<1>5. ev.kind = "canceled" /\ Moves(cur[w])
  BY <1>2, <1>3, <1>4 DEF Fit, LifecycleKinds
<1>6. company \in Company /\ company.at \in Nat
  BY RowTypes DEF IInv, TypeOK
<1>7. RowMoves /\ Shown(ev)' /\ \A s \in ended' : s \in ended \/ EndedAt(s)'
  <2>1. CASE Sync(ev)
    <3>1. company' = [company EXCEPT !.tier = "FREE", !.limits = "FREE", !.sub = NoSub,
                                     !.status = "canceled", !.at = ev.at]
      BY <1>4, <2>1 DEF Cancel, ApplyRecencyGuardedSync
    <3>2. /\ company'.sub = NoSub /\ company'.tier = "FREE" /\ company'.limits = "FREE"
          /\ company'.at = ev.at
      BY <1>6, <3>1 DEF Company
    <3>3. Writes(ev)
      BY <1>5, <2>1, <3>2 DEF Writes, Sync
    <3>4. Shown(ev)'
      BY <1>4, <1>5, <3>2 DEF Shown, Reached, EndShown
    <3>5. EndedAt(ev.sub)'
      <4>1. provider[ev.sub].state = "canceled"
        BY <1>4, <1>5 DEF EventsOK
      <4>2. \A i \in 1 .. Len(sent) :
              sent[i].sub = ev.sub /\ sent[i].kind # "canceled" => sent[i].at < ev.at
        BY <1>4, <1>5 DEF EventsOK
      <4> QED BY <1>3, <3>2, <4>1, <4>2 DEF EndedAt, UnchangedProvider, providerVars
    <3>6. ended' = ended \cup {ev.sub}
      BY <1>4, <2>1 DEF Cancel
    <3> QED BY <1>4, <1>5, <3>3, <3>4, <3>5, <3>6 DEF RowMoves
  <2>2. CASE ~Sync(ev)
    <3>1. company' = company /\ ended' = ended
      BY <1>4, <2>2 DEF Cancel, ApplyRecencyGuardedSync
    <3>2. ev.at < company'.at
      BY <1>4, <1>6, <2>2, <3>1 DEF Sync
    <3> QED BY <1>4, <1>5, <1>6, <3>1, <3>2, OnlyHistory DEF Shown, Reached, EndShown
  <2> QED BY <2>1, <2>2
<1>8. Done(cur[w])'
  BY <1>3, <1>4, <1>5, <1>7, DoneNow DEF PaymentKinds
<1>9. Fit(w)' /\ Written(w)'
  BY <1>2, <1>3, NothingOwed
<1> QED BY <1>1, <1>2, <1>3, <1>7, <1>8, <1>9, OnlyHistory, RequestFollows

LEMMA RecordFollows ==
  ASSUME IInv, EventsOK, ProviderOK, Following, NEW w \in Workers, RecordPayment(w)
  PROVE  Following'
<1>1. Handler(w, "record", "status") /\ company' = company /\ seen' = seen /\ ended' = ended
  BY DEF RecordPayment
<1>2. "record" \in HandlerSteps /\ "status" \in Steps
  BY DEF HandlerSteps, Steps
<1>3. /\ pc[w] = "record" /\ pc[w] # "idle" /\ pc'[w] = "status"
      /\ Goto(w, cur[w], "status") /\ cur' = cur /\ Grown /\ Fit(w)
  BY <1>1, <1>2, AtStep
<1>4. PICK ev \in Event :
        /\ ev = EventAt(w) /\ EventAt(w)' = ev /\ ev = sent[cur[w]]
        /\ ev.sub \in Subs \ Foreign /\ ev.at \in Nat
  BY <1>1, <1>2, AtStep
<1>5. ev.kind \in PaymentKinds
  BY <1>2, <1>3, <1>4 DEF Fit
<1>6. /\ history' = [history EXCEPT ![ev.sub][ev.kind] = IF @ <= ev.at THEN ev.at ELSE @]
      /\ history \in [Subs -> [PaymentKinds -> Nat]]
  BY <1>4 DEF RecordPayment, IInv, TypeOK
<1>7. ASSUME NEW s \in Subs, NEW k \in PaymentKinds
      PROVE  /\ history[s][k] \in Nat
             /\ history'[s][k] = IF s = ev.sub /\ k = ev.kind
                                 THEN (IF history[s][k] <= ev.at THEN ev.at ELSE history[s][k])
                                 ELSE history[s][k]
  BY <1>4, <1>5, <1>6
<1>8. HistoryGrows
  <2>1. ev.sub \notin Foreign
    BY <1>4
  <2> QED BY <1>4, <1>7, <2>1 DEF HistoryGrows
<1>9. Recorded(ev)'
  <2>1. history'[ev.sub][ev.kind] = IF history[ev.sub][ev.kind] <= ev.at THEN ev.at
                                    ELSE history[ev.sub][ev.kind]
    BY <1>4, <1>5, <1>7
  <2>2. history[ev.sub][ev.kind] \in Nat
    BY <1>4, <1>5, <1>7
  <2> QED BY <1>4, <2>1, <2>2 DEF Recorded
<1>10. Fit(w)' /\ Written(w)'
  BY <1>3, <1>4, <1>5, <1>9 DEF Fit, Written
<1> QED BY <1>1, <1>2, <1>3, <1>8, <1>10, OnlyHistory, RequestFollows

LEMMA StatusFollows ==
  ASSUME IInv, EventsOK, ProviderOK, Following, NEW w \in Workers, ApplyPaymentStatus(w)
  PROVE  Following'
<1>1. Handler(w, "status", "mark") /\ history' = history /\ seen' = seen /\ ended' = ended
  BY DEF ApplyPaymentStatus
<1>2. "status" \in HandlerSteps /\ "mark" \in Steps /\ "mark" \notin HandlerSteps
  BY DEF HandlerSteps, Steps
<1>3. /\ pc[w] = "status" /\ pc[w] # "idle" /\ pc'[w] = "mark"
      /\ Goto(w, cur[w], "mark") /\ cur' = cur /\ Grown /\ Fit(w) /\ Written(w)
  BY <1>1, <1>2, AtStep
<1>4. PICK ev \in Event :
        ev = EventAt(w) /\ ev = sent[cur[w]] /\ cur[w] \in 1 .. Len(sent)
  BY <1>1, <1>2, AtStep
<1>5. ev.kind \in PaymentKinds /\ Recorded(ev)
  BY <1>2, <1>3, <1>4 DEF Fit, Written
<1>6. RowMoves
  <2>1. company \in Company
    BY DEF IInv, TypeOK
  <2>2. KeepsRow
    BY <2>1 DEF ApplyPaymentStatus, KeepsRow, Company
  <2> QED BY <2>2 DEF RowMoves
<1>7. Recorded(ev)'
  BY <1>1, <1>5 DEF Recorded
<1>8. Done(cur[w])'
  BY <1>3, <1>4, <1>5, <1>7, DoneNow DEF PaymentKinds, LifecycleKinds
<1>9. Fit(w)' /\ Written(w)'
  BY <1>2, <1>3, NothingOwed
<1> QED BY <1>1, <1>2, <1>3, <1>6, <1>8, <1>9, OnlyHistory, RequestFollows

LEMMA HandlersFollow ==
  ASSUME IInv, EventsOK, ProviderOK, Following, NEW w \in Workers, RunHandler(w)
  PROVE  EventsOK' /\ ProviderOK' /\ Following'
<1>1. CASE ResizeSeats(w)
  BY <1>1, ResizeEmits, ResizeFollows
<1>2. CASE ~ResizeSeats(w)
  <2>1. UnchangedProvider
    BY <1>2 DEF RunHandler, Activate, FillSubscription, ReconcileSeats, UpdateSubscription,
                ChangeSeats, ReadTier, ChangePlan, Cancel, RecordPayment, ApplyPaymentStatus,
                Handler, UnchangedClaims
  <2>2. EventsOK' /\ ProviderOK'
    BY <2>1, ProviderRests
  <2>3. Following'
    BY <1>2, ActivateFollows, FillFollows, ReconcileFollows, SeatsFollow, ReadTierFollows,
       PlanFollows, CancelFollows, RecordFollows, StatusFollows DEF RunHandler
  <2> QED BY <2>2, <2>3
<1> QED BY <1>1, <1>2

-----------------------------------------------------------------------------
(* The steps around the handlers write nothing of the events.              *)

(* A stranger's event is done before it begins; another begins with the    *)
(* handlers of its kind.                                                   *)
LEMMA Begins ==
  ASSUME IInv, NEW e \in 1 .. Len(sent)
  PROVE  LET step == Begin(sent[e])
         IN /\ step = "mark" => sent[e].sub \in Foreign
            /\ step # "mark" =>
                 /\ sent[e].sub \notin Foreign
                 /\ step \in {"activate", "update", "cancel", "record"}
                 /\ step = "activate" => sent[e].kind = "created"
                 /\ step = "update" => sent[e].kind = "updated"
                 /\ step = "cancel" => sent[e].kind = "canceled"
                 /\ step = "record" => sent[e].kind \in PaymentKinds
<1>1. sent[e].kind \in EventKinds
  BY SentType
<1> QED BY <1>1 DEF Begin, FirstStep, EventKinds, LifecycleKinds, PaymentKinds

LEMMA BeginFollows ==
  ASSUME IInv, EventsOK, Following, Grown, NEW w \in Workers, NEW e \in 1 .. Len(sent),
         Goto(w, e, Begin(sent[e])), cur'[w] = e, \A v \in Workers \ {w} : cur'[v] = cur[v],
         company' = company, history' = history, seen' = seen, ended' = ended
  PROVE  Following'
<1>1. pc \in [Workers -> Steps] /\ handled \subseteq Ids /\ ended \subseteq Subs
  BY DEF IInv, TypeOK
<1>2. pc'[w] = Begin(sent[e]) /\ \A v \in Workers \ {w} : pc'[v] = pc[v]
  BY <1>1 DEF Goto
<1>3. EventAt(w)' = sent[e]
  BY DEF EventAt, Grown
<1>4. Fit(w)' /\ Written(w)'
  BY <1>2, <1>3, Begins DEF Fit, Written, HandlerSteps
<1>5. Begin(sent[e]) = "mark" => Done(e)'
  BY Begins DEF Done, Moves, Grown
<1>6. \A n \in handled' : n \in handled \/ Done(n)'
  BY <1>5 DEF Goto
<1>7. RowMoves /\ HistoryGrows
  BY OnlyHistory
<1>8. \A v \in Workers : \/ pc'[v] = pc[v] /\ cur'[v] = cur[v] /\ seen'[v] = seen[v]
                         \/ Fit(v)' /\ Written(v)'
  BY <1>2, <1>4
<1> QED BY <1>1, <1>6, <1>7, <1>8, StepFollows

LEMMA ReceiveFollows ==
  ASSUME IInv, EventsOK, ProviderOK, Following, NEW w \in Workers, NEW e \in Ids, Receive(w, e)
  PROVE  Following'
<1>1. /\ UnchangedProvider /\ e \in 1 .. Len(sent) /\ cur' = [cur EXCEPT ![w] = e]
      /\ company' = company /\ history' = history /\ seen' = seen /\ ended' = ended
      /\ cur \in [Workers -> Ids] /\ pc \in [Workers -> Steps]
      /\ handled \subseteq Ids /\ ended \subseteq Subs
  BY DEF Receive, IInv, TypeOK
<1>2. Grown /\ RowMoves /\ HistoryGrows
  BY <1>1, ProviderRests, OnlyHistory
<1>3. CASE row[e].exists
  <2>1. Goto(w, e, "lookup")
    BY <1>3 DEF Receive
  <2>2. pc'[w] = "lookup" /\ (\A v \in Workers \ {w} : pc'[v] = pc[v]) /\ handled' = handled
    BY <1>1, <2>1 DEF Goto
  <2>3. Fit(w)' /\ Written(w)'
    BY <2>2 DEF Fit, Written, HandlerSteps
  <2>4. \A v \in Workers : \/ pc'[v] = pc[v] /\ cur'[v] = cur[v] /\ seen'[v] = seen[v]
                           \/ Fit(v)' /\ Written(v)'
    BY <1>1, <2>2, <2>3
  <2> QED BY <1>1, <1>2, <2>2, <2>4, StepFollows
<1>4. CASE ~row[e].exists
  <2>1. Goto(w, e, Begin(sent[e]))
    BY <1>4 DEF Receive
  <2>2. cur'[w] = e /\ \A v \in Workers \ {w} : cur'[v] = cur[v]
    BY <1>1
  <2> QED BY <1>1, <1>2, <2>1, <2>2, BeginFollows
<1> QED BY <1>3, <1>4

(* A step of the claim, a failure or a crash.                              *)
LEMMA LeaveFollows ==
  ASSUME IInv, EventsOK, ProviderOK, Following, NEW w \in Workers, pc[w] # "idle",
         NEW next \in {"idle", "lookup", "claim", "release", "respond"}, Goto(w, cur[w], next),
         UnchangedProvider, UNCHANGED <<cur, company, history, seen, ended>>
  PROVE  Following'
<1>1. next \in Steps /\ next \notin HandlerSteps /\ next # "mark"
  BY DEF Steps, HandlerSteps
<1>2. pc'[w] = next
  BY DEF Goto, IInv, TypeOK
<1>3. Fit(w)' /\ Written(w)'
  BY <1>1, <1>2, NothingOwed
<1>4. Grown /\ RowMoves /\ HistoryGrows
  BY ProviderRests, OnlyHistory
<1> QED BY <1>1, <1>3, <1>4, RequestFollows

LEMMA ClaimFollows ==
  ASSUME IInv, EventsOK, ProviderOK, Following, NEW w \in Workers, Claim(w)
  PROVE  Following'
<1>1. /\ pc[w] # "idle" /\ UnchangedProvider
      /\ UNCHANGED <<cur, company, history, seen, ended>>
  BY DEF Claim
<1>2. CASE Claimable(row[cur[w]])
  <2>1. cur[w] \in 1 .. Len(sent) /\ Goto(w, cur[w], Begin(sent[cur[w]]))
    BY <1>1, <1>2, CurrentEvent DEF Claim, EventAt
  <2>2. Grown
    BY <1>1, ProviderRests
  <2> QED BY <1>1, <2>1, <2>2, BeginFollows
<1>3. CASE ~Claimable(row[cur[w]])
  BY <1>1, <1>3, LeaveFollows DEF Claim
<1> QED BY <1>2, <1>3

LEMMA OthersFollow ==
  ASSUME IInv, EventsOK, ProviderOK, Following, NEW w \in Workers,
         Lookup(w) \/ Release(w) \/ Mark(w) \/ Respond(w) \/ Fail(w) \/ Crash(w)
  PROVE  Following'
<1>1. /\ pc[w] # "idle" /\ UnchangedProvider
      /\ UNCHANGED <<cur, company, history, seen, ended>>
  BY DEF Lookup, Release, Mark, Respond, Fail, Crash, UnchangedClaims, HandlerSteps
<1>2. \E next \in {"idle", "lookup", "claim", "release", "respond"} : Goto(w, cur[w], next)
  BY DEF Lookup, Release, Mark, Respond, Fail, Crash
<1> QED BY <1>1, <1>2, LeaveFollows

LEMMA ExpireFollows ==
  ASSUME IInv, EventsOK, ProviderOK, Following, NEW e \in Ids, Expire(e)
  PROVE  Following'
<1>1. UnchangedProvider /\ UNCHANGED <<company, history, pc, cur, seen, handled, ended>>
      /\ handled \subseteq Ids /\ ended \subseteq Subs
  BY DEF Expire, IInv, TypeOK
<1>2. Grown /\ RowMoves /\ HistoryGrows
  BY <1>1, ProviderRests, OnlyHistory
<1> QED BY <1>1, <1>2, StepFollows

-----------------------------------------------------------------------------
(* The invariant.                                                          *)

RowInv == IInv /\ EventsOK /\ ProviderOK /\ Following

LEMMA InitRow == Init => RowInv
<1> SUFFICES ASSUME Init PROVE RowInv
  OBVIOUS
<1>1. IInv
  BY InitInv
<1>2. Len(sent) = 0 /\ 1 .. Len(sent) = {} /\ clock = 1
  BY DEF Init
<1>3. EventsOK
  BY <1>2 DEF EventsOK
<1>4. LiveSubs = {} /\ opened = {}
  BY DEF Init, LiveSubs, Live
<1>5. Len(sent) <= MaxEvents
  BY <1>2
<1>6. ProviderOK
  BY <1>2, <1>4, <1>5 DEF ProviderOK
<1>7. RequestsOK
  <2>1. \A w \in Workers : pc[w] = "idle"
    BY DEF Init
  <2> QED BY <2>1 DEF RequestsOK, Fit, Written, HandlerSteps
<1>8. DoneOK /\ EndedOK
  BY DEF Init, DoneOK, EndedOK
<1>9. MarkOK
  <2>1. company.at = 0 /\ company.tier = StartTier /\ company.sub = NoSub /\ company.limits = StartTier
    BY DEF Init
  <2>2. \A s \in Foreign, k \in PaymentKinds : history[s][k] = 0
    BY DEF Init
  <2> QED BY <2>1, <2>2 DEF MarkOK
<1> QED BY <1>1, <1>3, <1>6, <1>7, <1>8, <1>9 DEF RowInv, Following

LEMMA NextRow == RowInv /\ [Next]_vars => RowInv'
<1> SUFFICES ASSUME RowInv, [Next]_vars PROVE RowInv'
  OBVIOUS
<1>0. IInv /\ EventsOK /\ ProviderOK /\ Following /\ IInv'
  BY NextInv DEF RowInv
<1>1. CASE Provider
  BY <1>0, <1>1, ProviderMoves, ProviderFollows DEF RowInv
<1>2. ASSUME NEW w \in Workers, NEW e \in Ids, Receive(w, e)
      PROVE  RowInv'
  <2>1. UnchangedProvider
    BY <1>2 DEF Receive
  <2> QED BY <1>0, <1>2, <2>1, ProviderRests, ReceiveFollows DEF RowInv
<1>3. ASSUME NEW w \in Workers, RunHandler(w)
      PROVE  RowInv'
  BY <1>0, <1>3, HandlersFollow DEF RowInv
<1>4. ASSUME NEW w \in Workers,
             Lookup(w) \/ Claim(w) \/ Release(w) \/ Mark(w) \/ Respond(w) \/ Fail(w) \/ Crash(w)
      PROVE  RowInv'
  <2>1. UnchangedProvider
    BY <1>4 DEF Lookup, Claim, Release, Mark, Respond, Fail, Crash, UnchangedClaims
  <2> QED BY <1>0, <1>4, <2>1, ProviderRests, ClaimFollows, OthersFollow DEF RowInv
<1>5. ASSUME NEW e \in Ids, Expire(e)
      PROVE  RowInv'
  <2>1. UnchangedProvider
    BY <1>5 DEF Expire
  <2> QED BY <1>0, <1>5, <2>1, ProviderRests, ExpireFollows DEF RowInv
<1>6. CASE UNCHANGED vars
  <2>1. /\ UnchangedProvider /\ UNCHANGED <<company, history, pc, cur, seen, handled, ended>>
        /\ handled \subseteq Ids /\ ended \subseteq Subs
    BY <1>0, <1>6 DEF vars, UnchangedProvider, providerVars, IInv, TypeOK
  <2>2. EventsOK' /\ ProviderOK' /\ Grown /\ RowMoves /\ HistoryGrows
    BY <1>0, <2>1, ProviderRests, OnlyHistory
  <2> QED BY <1>0, <2>1, <2>2, StepFollows DEF RowInv
<1> QED BY <1>1, <1>2, <1>3, <1>4, <1>5, <1>6 DEF Next, Proceed

LEMMA SpecRow == Spec => []RowInv
BY InitRow, NextRow, PTL DEF Spec

-----------------------------------------------------------------------------
(* The billing status.  The row tells of the live subscription as soon as  *)
(* one of its events has moved the mark: payments of another are older.    *)

Own(i) == sent[i].sub \notin Foreign

(* With one checkout at a time, the events of two subscriptions of the     *)
(* company do not mix.                                                     *)
Apart(i, j) ==
  Own(i) /\ Own(j) /\ sent[i].sub # sent[j].sub /\ sent[i].at < sent[j].at =>
    provider[sent[i].sub].state = "canceled"

OrderOK == OneCheckout => \A i, j \in 1 .. Len(sent) : Apart(i, j)

(* The row was last moved by event i, of a live subscription that it names *)
(* or that no other replaces.                                              *)
Tells(i) ==
  /\ Moves(i) /\ sent[i].at = company.at /\ Live(sent[i].sub)
  /\ company.sub \in {sent[i].sub, NoSub}

StatusOK ==
  OneCheckout => \A i \in 1 .. Len(sent) : Tells(i) => company.status \in Told(sent[i].sub)

StatusInv == RowInv /\ OrderOK /\ StatusOK

(* What a step may do to the status: leave it with the mark, take it from  *)
(* an event that moves the mark, or from a current payment.                *)
StatusKept ==
  /\ company'.status = company.status /\ company'.at = company.at
  /\ company'.sub = company.sub \/ company.sub = NoSub

StatusTaken(ev) ==
  company'.at = ev.at /\ (ev.kind = "canceled" \/ company'.status = ev.status)

StatusPaid(ev) ==
  /\ IsCurrent(ev) /\ company'.status = ToldStatus(ev)
  /\ company'.at = company.at /\ company'.sub = company.sub

StatusMoves ==
  \/ StatusKept
  \/ \E k \in 1 .. Len(sent) : Moves(k) /\ StatusTaken(sent[k])
  \/ \E k \in 1 .. Len(sent) : Own(k) /\ StatusPaid(sent[k])

LEMMA ToldBy ==
  ASSUME NEW i \in 1 .. Len(sent)
  PROVE  ToldStatus(sent[i]) \in Told(sent[i].sub)
BY DEF Told

LEMMA ToldGrows ==
  ASSUME Grown, NEW s \in Subs
  PROVE  Told(s) \subseteq Told(s)'
<1> SUFFICES ASSUME NEW e \in 1 .. Len(sent), sent[e].sub = s
             PROVE  ToldStatus(sent[e]) \in Told(s)'
  BY DEF Told
<1>1. e \in 1 .. Len(sent') /\ sent'[e] = sent[e]
  BY DEF Grown
<1> QED BY <1>1 DEF Told, ToldStatus

LEMMA OrderStays ==
  ASSUME IInv, EventsOK, Grown, OrderOK
  PROVE  OrderOK'
<1> SUFFICES ASSUME OneCheckout, NEW i \in 1 .. Len(sent'), NEW j \in 1 .. Len(sent'),
                    sent'[i].sub \notin Foreign, sent'[j].sub \notin Foreign,
                    sent'[i].sub # sent'[j].sub, sent'[i].at < sent'[j].at
             PROVE  provider'[sent'[i].sub].state = "canceled"
  BY DEF OrderOK, Apart, Own
<1>1. \A k \in 1 .. Len(sent) : sent'[k] = sent[k] /\ sent[k].at \in Nat /\ sent[k].at < clock
  BY SentType DEF Grown, EventsOK
<1>2. \A k \in 1 .. Len(sent') : k \notin 1 .. Len(sent) => NewEvent(sent'[k])
  BY DEF Grown
<1>3. clock \in Nat
  BY SentType
<1>4. i \in 1 .. Len(sent)
  <2> SUFFICES ASSUME i \notin 1 .. Len(sent) PROVE FALSE
    OBVIOUS
  <2>1. sent'[i].at = clock
    BY <1>2 DEF NewEvent
  <2>2. sent'[j].at <= clock
    BY <1>1, <1>2, <1>3 DEF NewEvent
  <2>3. sent'[j].at \in Nat
    BY <1>1, <1>2, <1>3 DEF NewEvent
  <2> QED BY <1>3, <2>1, <2>2, <2>3
<1>5. /\ sent'[i] = sent[i] /\ sent[i].sub \in Subs \ Foreign /\ provider[sent[i].sub].state # "none"
  BY <1>1, <1>4, SentType DEF EventsOK
<1>6. provider[sent[i].sub].state = "canceled"
  <2>1. CASE j \in 1 .. Len(sent)
    BY <1>1, <1>4, <1>5, <2>1 DEF OrderOK, Apart, Own
  <2>2. CASE j \notin 1 .. Len(sent)
    <3>1. sent[i].sub \notin LiveSubs
      BY <1>2, <1>5, <2>2 DEF NewEvent
    <3>2. provider[sent[i].sub] \in Subscription
      BY <1>5 DEF IInv, TypeOK
    <3> QED BY <1>5, <3>1, <3>2 DEF LiveSubs, Live, Subscription
  <2> QED BY <2>1, <2>2
<1> QED BY <1>5, <1>6 DEF Grown

LEMMA StatusStays ==
  ASSUME IInv, EventsOK, MarkOK, Grown, OrderOK, StatusOK, StatusMoves
  PROVE  StatusOK'
<1> SUFFICES ASSUME OneCheckout, NEW i \in 1 .. Len(sent'), Tells(i)'
             PROVE  (company.status \in Told(sent[i].sub))'
  BY DEF StatusOK
<1>1. \A k \in 1 .. Len(sent) : sent'[k] = sent[k] /\ sent[k].at \in Nat /\ sent[k].at < clock
                                /\ sent[k].sub \in Subs /\ sent[k].kind \in EventKinds /\ 0 < sent[k].at
  BY SentType DEF Grown, EventsOK
<1>2. clock \in Nat /\ clock > 0
  BY SentType DEF EventsOK
<1>3. company'.at # clock
  <2>1. company.at \in Nat /\ company.at # clock
    BY <1>1, <1>2 DEF MarkOK
  <2>2. CASE company'.at = company.at
    BY <2>1, <2>2
  <2>3. ASSUME NEW k \in 1 .. Len(sent), company'.at = sent[k].at
        PROVE  company'.at # clock
    <3>1. sent[k].at \in Nat /\ sent[k].at < clock
      BY <1>1
    <3> QED BY <1>2, <2>3, <3>1
  <2> QED BY <2>2, <2>3 DEF StatusMoves, StatusKept, StatusTaken, StatusPaid
<1>4. i \in 1 .. Len(sent)
  BY <1>3 DEF Tells, Grown, NewEvent
<1>5. PICK r \in Subs : r = sent[i].sub
  BY <1>1, <1>4
<1>6. /\ sent'[i] = sent[i] /\ sent[i].at = company'.at /\ Moves(i) /\ company'.sub \in {r, NoSub}
      /\ r \notin Foreign
  BY <1>1, <1>4, <1>5 DEF Tells, Moves
<1>7. Live(r)
  <2>1. provider'[r].state = "live"
    BY <1>5, <1>6 DEF Tells, Live
  <2>2. provider[r].state # "canceled"
    BY <2>1 DEF Grown
  <2>3. provider[r].state # "none" /\ provider[r] \in Subscription
    BY <1>4, <1>5 DEF EventsOK, IInv, TypeOK
  <2> QED BY <2>2, <2>3 DEF Live, Subscription
<1>8. company'.status \in Told(r)
  <2>1. CASE StatusKept
    <3>1. Tells(i)
      BY <1>5, <1>6, <1>7, <2>1 DEF StatusKept, Tells
    <3>2. company.status \in Told(r)
      BY <1>4, <1>5, <3>1 DEF StatusOK
    <3> QED BY <2>1, <3>2 DEF StatusKept
  <2>2. ASSUME NEW k \in 1 .. Len(sent), Moves(k), StatusTaken(sent[k])
        PROVE  company'.status \in Told(r)
    <3>1. sent[k].at = sent[i].at
      BY <1>6, <2>2 DEF StatusTaken
    <3>2. SameChange(sent[k], sent[i])
      BY <1>4, <3>1 DEF EventsOK
    <3>3. sent[i].kind # "canceled"
      BY <1>4, <1>5, <1>7 DEF EventsOK, Live
    <3>4. sent[k].kind # "canceled" /\ sent[k].sub = r
      BY <1>5, <3>2, <3>3 DEF SameChange
    <3>5. ToldStatus(sent[k]) = sent[k].status
      BY <2>2 DEF Moves, ToldStatus, LifecycleKinds
    <3> QED BY <2>2, <3>4, <3>5, ToldBy DEF StatusTaken
  <2>3. ASSUME NEW k \in 1 .. Len(sent), Own(k), StatusPaid(sent[k])
        PROVE  company'.status \in Told(r)
    <3>1. sent[k].sub = r
      <4>1. CASE company.sub = sent[k].sub
        BY <1>1, <1>6, <2>3, <4>1 DEF StatusPaid
      <4>2. CASE company.sub # sent[k].sub
        <5>1. company.at <= sent[k].at
          BY <2>3, <4>2 DEF StatusPaid, IsCurrent, Sync
        <5>2. sent[i].at <= sent[k].at
          BY <1>6, <2>3, <5>1 DEF StatusPaid
        <5>3. CASE sent[i].at = sent[k].at
          BY <1>4, <1>5, <5>3 DEF EventsOK, SameChange
        <5>4. CASE sent[i].at < sent[k].at
          <6>1. Apart(i, k)
            BY <1>4 DEF OrderOK
          <6> QED BY <1>5, <1>6, <1>7, <2>3, <5>4, <6>1 DEF Apart, Own, Live
        <5>5. sent[i].at \in Nat /\ sent[k].at \in Nat
          BY <1>1, <1>4
        <5> QED BY <5>2, <5>3, <5>4, <5>5
      <4> QED BY <4>1, <4>2
    <3> QED BY <2>3, <3>1, ToldBy DEF StatusPaid
  <2> QED BY <2>1, <2>2, <2>3 DEF StatusMoves
<1> QED BY <1>5, <1>6, <1>8, ToldGrows

(* A step of the handlers moves the status so.                             *)
LEMMA HandlersMoveStatus ==
  ASSUME RowInv, NEW w \in Workers, RunHandler(w)
  PROVE  StatusMoves
<1>0. /\ IInv /\ EventsOK /\ ProviderOK /\ Following /\ company \in Company
      /\ company.at \in Nat /\ pc[w] \in HandlerSteps
  BY RowTypes DEF RowInv, IInv, TypeOK, RunHandler, Activate, FillSubscription, ReconcileSeats,
     ResizeSeats, UpdateSubscription, ChangeSeats, ReadTier, ChangePlan, Cancel, RecordPayment,
     ApplyPaymentStatus, Handler, HandlerSteps
<1>1. PICK ev \in Event, k \in 1 .. Len(sent) :
        /\ ev = EventAt(w) /\ ev = sent[k] /\ ev.at \in Nat /\ ev.sub \in Subs \ Foreign
        /\ (ev.kind \in LifecycleKinds => Moves(k)) /\ Fit(w) /\ Written(w)
  BY <1>0, AtWork
<1>2. CASE company' = company
  BY <1>2 DEF StatusMoves, StatusKept
<1>3. CASE Activate(w) \/ UpdateSubscription(w) \/ Cancel(w)
  <2>1. Moves(k)
    BY <1>0, <1>1, <1>3 DEF Activate, UpdateSubscription, Cancel, Handler, Fit, LifecycleKinds
  <2>2. CASE Sync(ev)
    <3>1. StatusTaken(ev)
      <4>1. CASE Activate(w)
        BY <1>0, <1>1, <2>2, <4>1 DEF Activate, ApplyRecencyGuardedSync, Company, StatusTaken
      <4>2. CASE UpdateSubscription(w)
        BY <1>0, <1>1, <2>2, <4>2 DEF UpdateSubscription, ApplyRecencyGuardedSync, Company, StatusTaken
      <4>3. CASE Cancel(w)
        <5>1. ev.kind = "canceled"
          BY <1>0, <1>1, <4>3 DEF Cancel, Handler, Fit
        <5> QED BY <1>0, <1>1, <2>2, <4>3, <5>1 DEF Cancel, ApplyRecencyGuardedSync, Company, StatusTaken
      <4> QED BY <1>3, <4>1, <4>2, <4>3
    <3> QED BY <1>1, <2>1, <3>1 DEF StatusMoves
  <2>3. CASE ~Sync(ev)
    <3>1. company' = company
      BY <1>1, <1>3, <2>3 DEF Activate, UpdateSubscription, Cancel, ApplyRecencyGuardedSync
    <3> QED BY <1>2, <3>1
  <2> QED BY <2>2, <2>3
<1>4. CASE ChangeSeats(w) \/ ChangePlan(w)
  <2>1. ev.at <= company.at
    BY <1>0, <1>1, <1>4 DEF ChangeSeats, ChangePlan, Handler, Written, Reached
  <2>2. CASE Sync(ev)
    <3>1. ev.at = company.at
      BY <1>0, <1>1, <2>1, <2>2 DEF Sync
    <3>2. StatusKept
      <4>1. CASE ChangeSeats(w)
        BY <1>0, <1>1, <2>2, <3>1, <4>1 DEF ChangeSeats, ApplyRecencyGuardedSync, Company, StatusKept
      <4>2. CASE ChangePlan(w)
        BY <1>0, <1>1, <2>2, <3>1, <4>2 DEF ChangePlan, ApplyRecencyGuardedSync, Company, StatusKept
      <4> QED BY <1>4, <4>1, <4>2
    <3> QED BY <3>2 DEF StatusMoves
  <2>3. CASE ~Sync(ev)
    <3>1. company' = company
      BY <1>1, <1>4, <2>3 DEF ChangeSeats, ChangePlan, ApplyRecencyGuardedSync
    <3> QED BY <1>2, <3>1
  <2> QED BY <2>2, <2>3
<1>5. CASE FillSubscription(w)
  <2>1. CASE company.sub = NoSub /\ company.tier # "FREE"
    <3>1. StatusKept
      BY <1>0, <1>1, <1>5, <2>1 DEF FillSubscription, Company, StatusKept
    <3> QED BY <3>1 DEF StatusMoves
  <2>2. CASE ~(company.sub = NoSub /\ company.tier # "FREE")
    BY <1>2, <1>5, <2>2 DEF FillSubscription
  <2> QED BY <2>1, <2>2
<1>6. CASE ApplyPaymentStatus(w)
  <2>1. ev.kind \in PaymentKinds
    BY <1>0, <1>1, <1>6 DEF ApplyPaymentStatus, Handler, Fit
  <2>2. CASE ev.kind # "settled" /\ IsCurrent(ev)
    <3>1. company' = [company EXCEPT !.status = IF ev.kind = "failed" THEN "past_due" ELSE "active"]
      BY <1>1, <1>6, <2>2 DEF ApplyPaymentStatus
    <3>2. ToldStatus(ev) = IF ev.kind = "failed" THEN "past_due" ELSE "active"
      BY <2>1, <2>2 DEF ToldStatus, PaymentKinds
    <3>3. StatusPaid(ev)
      BY <1>0, <2>2, <3>1, <3>2 DEF StatusPaid, Company
    <3> QED BY <1>1, <3>3 DEF StatusMoves, Own
  <2>3. CASE ~(ev.kind # "settled" /\ IsCurrent(ev))
    <3>1. company' = company
      BY <1>1, <1>6, <2>3 DEF ApplyPaymentStatus
    <3> QED BY <1>2, <3>1
  <2> QED BY <2>2, <2>3
<1>7. CASE ReconcileSeats(w) \/ ResizeSeats(w) \/ ReadTier(w) \/ RecordPayment(w)
  <2>1. company' = company
    BY <1>7 DEF ReconcileSeats, ResizeSeats, ReadTier, RecordPayment
  <2> QED BY <1>2, <2>1
<1> QED BY <1>3, <1>4, <1>5, <1>6, <1>7 DEF RunHandler

LEMMA StepGrows ==
  ASSUME RowInv, [Next]_vars
  PROVE  Grown /\ StatusMoves
<1>0. IInv /\ EventsOK /\ ProviderOK /\ Following
  BY DEF RowInv
<1>1. CASE Provider
  <2>1. Grown /\ company' = company
    BY <1>0, <1>1, ProviderMoves DEF UnchangedApp
  <2> QED BY <2>1 DEF StatusMoves, StatusKept
<1>2. ASSUME NEW w \in Workers, RunHandler(w)
      PROVE  Grown /\ StatusMoves
  <2>1. StatusMoves
    BY <1>2, HandlersMoveStatus
  <2>2. CASE ResizeSeats(w)
    BY <1>0, <2>1, <2>2, ResizeEmits
  <2>3. CASE ~ResizeSeats(w)
    <3>1. UnchangedProvider
      BY <1>2, <2>3 DEF RunHandler, Activate, FillSubscription, ReconcileSeats, UpdateSubscription,
                  ChangeSeats, ReadTier, ChangePlan, Cancel, RecordPayment, ApplyPaymentStatus,
                  Handler, UnchangedClaims
    <3> QED BY <1>0, <2>1, <3>1, ProviderRests
  <2> QED BY <2>2, <2>3
<1>3. CASE ~Provider /\ ~\E w \in Workers : RunHandler(w)
  <2>1. UnchangedProvider /\ company' = company
    BY <1>3 DEF Next, Proceed, Receive, Lookup, Claim, Release, Mark, Respond, Fail, Crash,
                UnchangedClaims, Expire, vars, UnchangedProvider, providerVars
  <2> QED BY <1>0, <2>1, ProviderRests DEF StatusMoves, StatusKept
<1> QED BY <1>1, <1>2, <1>3

LEMMA SpecStatus == Spec => []StatusInv
<1>1. Init => StatusInv
  <2> SUFFICES ASSUME Init PROVE StatusInv
    OBVIOUS
  <2>1. 1 .. Len(sent) = {}
    BY DEF Init
  <2> QED BY <2>1, InitRow DEF StatusInv, OrderOK, StatusOK
<1>2. StatusInv /\ [Next]_vars => StatusInv'
  <2> SUFFICES ASSUME StatusInv, [Next]_vars PROVE StatusInv'
    OBVIOUS
  <2>1. RowInv' /\ Grown /\ StatusMoves /\ IInv /\ EventsOK /\ MarkOK
    BY NextRow, StepGrows DEF StatusInv, RowInv, Following
  <2> QED BY <2>1, OrderStays, StatusStays DEF StatusInv
<1> QED BY <1>1, <1>2, PTL DEF Spec

-----------------------------------------------------------------------------
(* The properties.                                                         *)

(* The recorded payment of an invoice and type is the newest one handled,  *)
(* however the deliveries overlap (the upsert of recordPayment).           *)
THEOREM NewestRecorded == Spec => []HistoryIsNewest
<1>1. RowInv => HistoryIsNewest
  <2> SUFFICES ASSUME RowInv, NEW e \in handled, sent[e].kind \in PaymentKinds,
                      sent[e].sub \notin Foreign
               PROVE  history[sent[e].sub][sent[e].kind] >= sent[e].at
    BY DEF HistoryIsNewest
  <2>1. IInv /\ Done(e) /\ e \in Ids
    BY DEF RowInv, Following, DoneOK, IInv, TypeOK
  <2>2. Recorded(sent[e]) /\ e \in 1 .. Len(sent)
    BY <2>1, SentType DEF Done, Ids
  <2>3. sent[e].sub \in Subs /\ sent[e].at \in Nat
    BY <2>1, <2>2, SentType
  <2>4. history[sent[e].sub][sent[e].kind] \in Nat
    BY <2>1, <2>3, RowTypes
  <2> QED BY <2>2, <2>3, <2>4 DEF Recorded
<1> QED BY <1>1, SpecRow, PTL

(* Nothing but an event of the company's own moves its mark.               *)
LEMMA NeverMoved ==
  ASSUME RowInv, \A i \in 1 .. Len(sent) : ~Moves(i)
  PROVE  company.at = 0 /\ company.tier = StartTier /\ company.sub = NoSub
BY DEF RowInv, Following, MarkOK

(* Once all is settled, the row shows the newest event.                    *)
LEMMA NewestShown ==
  ASSUME RowInv, OneCheckout, Settled, NEW i \in 1 .. Len(sent), Newest(i)
  PROVE  sent[i].at = company.at /\ Shown(sent[i])
<1>0. IInv
  BY DEF RowInv
<1>1. i \in Ids
  <2>1. Len(sent) <= MaxEvents /\ Len(sent) \in Nat
    BY <1>0, SentType DEF RowInv, ProviderOK
  <2> QED BY <2>1 DEF Ids
<1>2. i \in handled
  BY <1>0, <1>1 DEF Settled, IInv, ClaimsOK
<1>3. Shown(sent[i])
  BY <1>2 DEF RowInv, Following, DoneOK, Done, Newest
<1>4. sent[i].at <= company.at /\ sent[i].at \in Nat /\ company.at \in Nat /\ 0 < sent[i].at
  BY <1>0, <1>3, SentType, RowTypes DEF Shown, Reached, RowInv, EventsOK
<1>5. company.at # 0
  BY <1>4
<1>6. PICK j \in 1 .. Len(sent) : Moves(j) /\ sent[j].at = company.at
  BY <1>5 DEF RowInv, Following, MarkOK
<1>7. sent[j].at <= sent[i].at
  BY <1>6 DEF Newest
<1> QED BY <1>3, <1>4, <1>6, <1>7

LEMMA Converges ==
  ASSUME StatusInv
  PROVE  RowConverges
<1> SUFFICES ASSUME OneCheckout, Quiet
             PROVE  /\ company.limits = company.tier
                    /\ \A s \in LiveSubs :
                         /\ company.tier = provider[s].plan /\ company.seats = provider[s].seats
                         /\ company.sub = s => company.status \in Told(s)
                    /\ LiveSubs = {} => /\ company.sub = NoSub
                                       /\ company.tier = IF company.at = 0 THEN StartTier ELSE "FREE"
  BY DEF RowConverges
<1>0. RowInv
  BY DEF StatusInv
<1>1. Settled
  BY DEF Quiet
<1>2. company.limits = company.tier
  BY <1>0 DEF RowInv, Following, MarkOK
<1>3. ASSUME NEW s \in LiveSubs
      PROVE  /\ company.tier = provider[s].plan /\ company.seats = provider[s].seats
             /\ company.sub = s => company.status \in Told(s)
  <2>1. PICK i \in 1 .. Len(sent) :
          /\ Newest(i) /\ sent[i].kind # "canceled" /\ sent[i].sub = s
          /\ sent[i].plan = provider[s].plan /\ sent[i].seats = provider[s].seats
    BY <1>0 DEF RowInv, ProviderOK
  <2>2. sent[i].at = company.at /\ Shown(sent[i])
    BY <1>0, <1>1, <2>1, NewestShown
  <2>3. company.sub = s => Tells(i)
    BY <2>1, <2>2 DEF Tells, Newest, LiveSubs
  <2>4. company.sub = s => company.status \in Told(s)
    BY <2>1, <2>3 DEF StatusInv, StatusOK
  <2> QED BY <2>1, <2>2, <2>4 DEF Shown, SeatsShown, TierShown
<1>4. ASSUME LiveSubs = {}
      PROVE  /\ company.sub = NoSub
             /\ company.tier = IF company.at = 0 THEN StartTier ELSE "FREE"
  <2>1. CASE \A j \in 1 .. Len(sent) : ~Moves(j)
    BY <1>0, <2>1, NeverMoved
  <2>2. ASSUME NEW i \in 1 .. Len(sent), Newest(i), sent[i].kind = "canceled"
        PROVE  company.tier = "FREE" /\ company.sub = NoSub /\ company.at # 0
    <3>1. sent[i].at = company.at /\ Shown(sent[i])
      BY <1>0, <1>1, <2>2, NewestShown
    <3>2. 0 < sent[i].at
      BY <1>0 DEF RowInv, EventsOK
    <3> QED BY <2>2, <3>1, <3>2 DEF Shown, EndShown
  <2> QED BY <1>0, <1>4, <2>1, <2>2 DEF RowInv, ProviderOK
<1> QED BY <1>2, <1>3, <1>4

(* Once every event was processed, in whatever order, the row has the plan *)
(* and seats the provider bills and a status its subscription reported; its *)
(* limits are its tier's; and no stranger moves it.                        *)
THEOREM RowFollows == Spec => []CompanyFollows
<1>1. ASSUME StatusInv PROVE RowConverges
  BY <1>1, Converges
<1>2. ASSUME RowInv PROVE LimitsFollowTier
  BY <1>2 DEF RowInv, Following, MarkOK, LimitsFollowTier
<1>3. ASSUME RowInv PROVE ForeignIgnored
  <2>1. company.sub \notin Foreign /\ \A s \in Foreign, k \in PaymentKinds : history[s][k] = 0
    BY <1>3 DEF RowInv, Following, MarkOK
  <2>2. ASSUME \A s \in Subs \ Foreign : provider[s].state = "none"
        PROVE  company.tier = StartTier /\ company.at = 0
    <3>1. \A i \in 1 .. Len(sent) : sent[i].sub \in Subs /\ provider[sent[i].sub].state # "none"
      BY <1>3, SentType DEF RowInv, EventsOK
    <3>2. \A i \in 1 .. Len(sent) : ~Moves(i)
      BY <2>2, <3>1 DEF Moves
    <3> QED BY <1>3, <3>2, NeverMoved
  <2> QED BY <2>1, <2>2 DEF ForeignIgnored
<1>4. StatusInv => CompanyFollows
  BY <1>1, <1>2, <1>3 DEF CompanyFollows, StatusInv
<1> QED BY <1>4, SpecStatus, PTL

-----------------------------------------------------------------------------
(* What a step may never do.                                               *)

(* A change of the plan, of the seats, or of a subscription that is set.   *)
Rewrites ==
  \/ company'.tier # company.tier \/ company'.seats # company.seats
  \/ company'.sub # company.sub /\ company.sub # NoSub

LEMMA SyncMoves ==
  ASSUME IInv, NEW w \in Workers, pc[w] \in HandlerSteps,
         NEW ev \in Event, ev = EventAt(w), NEW patched, ApplyRecencyGuardedSync(ev, patched),
         patched \in Company
  PROVE  company'.at >= company.at /\ (Rewrites => EventAt(w).at = company'.at)
<1>1. company.at \in Nat /\ ev.at \in Nat
  BY RowTypes DEF Event
<1>2. CASE Sync(ev)
  <2>1. company' = [patched EXCEPT !.at = ev.at]
    BY <1>2 DEF ApplyRecencyGuardedSync
  <2>2. company'.at = ev.at
    BY <2>1 DEF Company
  <2> QED BY <1>1, <1>2, <2>2 DEF Sync
<1>3. CASE ~Sync(ev)
  BY <1>1, <1>3 DEF ApplyRecencyGuardedSync, Rewrites
<1> QED BY <1>2, <1>3

LEMMA HandlerMoves ==
  ASSUME IInv, NEW w \in Workers, RunHandler(w)
  PROVE  company'.at >= company.at /\ (Rewrites => EventAt(w).at = company'.at)
<1>1. pc[w] \in HandlerSteps
  BY DEF RunHandler, Activate, FillSubscription, ReconcileSeats, ResizeSeats, UpdateSubscription,
         ChangeSeats, ReadTier, ChangePlan, Cancel, RecordPayment, ApplyPaymentStatus, Handler,
         HandlerSteps
<1>2. PICK ev \in Event : ev = EventAt(w)
  BY <1>1, CurrentEvent DEF HandlerSteps
<1>3. company \in Company /\ company.at \in Nat /\ AtLeastOne(ev.seats) \in Nat \ {0}
      /\ ev.sub \in Subs /\ ev.plan \in Plans /\ ev.status \in Statuses
  BY <1>2, RowTypes DEF IInv, TypeOK, Event, AtLeastOne
<1>4. CASE Activate(w)
  <2>1. [company EXCEPT !.sub = ev.sub, !.status = ev.status, !.tier = ev.plan, !.limits = ev.plan,
                        !.seats = AtLeastOne(ev.seats)] \in Company
    BY <1>3 DEF Company, Tiers
  <2> QED BY <1>1, <1>2, <1>4, <2>1, SyncMoves DEF Activate
<1>5. CASE UpdateSubscription(w)
  <2>1. [company EXCEPT !.seats = AtLeastOne(ev.seats), !.status = ev.status] \in Company
    BY <1>3 DEF Company
  <2> QED BY <1>1, <1>2, <1>5, <2>1, SyncMoves DEF UpdateSubscription
<1>6. CASE ChangeSeats(w)
  <2>1. [company EXCEPT !.seats = AtLeastOne(ev.seats)] \in Company
    BY <1>3 DEF Company
  <2> QED BY <1>1, <1>2, <1>6, <2>1, SyncMoves DEF ChangeSeats
<1>7. CASE ChangePlan(w)
  <2>1. [company EXCEPT !.tier = ev.plan, !.limits = IF seen[w] = ev.plan THEN @ ELSE ev.plan]
          \in Company
    BY <1>3 DEF Company, Tiers
  <2> QED BY <1>1, <1>2, <1>7, <2>1, SyncMoves DEF ChangePlan
<1>8. CASE Cancel(w)
  <2>1. [company EXCEPT !.tier = "FREE", !.limits = "FREE", !.sub = NoSub, !.status = "canceled"]
          \in Company
    BY <1>3 DEF Company, Tiers
  <2> QED BY <1>1, <1>2, <1>8, <2>1, SyncMoves DEF Cancel
<1>9. CASE FillSubscription(w)
  <2>1. company' = IF company.sub = NoSub /\ company.tier # "FREE"
                   THEN [company EXCEPT !.sub = EventAt(w).sub] ELSE company
    BY <1>9 DEF FillSubscription
  <2>2. company'.at = company.at /\ ~Rewrites
    BY <1>3, <2>1 DEF Company, Rewrites
  <2> QED BY <1>3, <2>2
<1>10. CASE ApplyPaymentStatus(w)
  <2>1. KeepsRow
    BY <1>3, <1>10 DEF ApplyPaymentStatus, KeepsRow, Company
  <2> QED BY <1>3, <2>1 DEF KeepsRow, Rewrites
<1>11. CASE ReconcileSeats(w) \/ ResizeSeats(w) \/ ReadTier(w) \/ RecordPayment(w)
  <2>1. company' = company
    BY <1>11 DEF ReconcileSeats, ResizeSeats, ReadTier, RecordPayment
  <2> QED BY <1>3, <2>1 DEF Rewrites
<1> QED BY <1>4, <1>5, <1>6, <1>7, <1>8, <1>9, <1>10, <1>11 DEF RunHandler

(* The row never goes back in time: its mark only grows, and its plan,     *)
(* seats and subscription change only by an event as new as the mark.      *)
THEOREM NeverGoesBack == Spec => RowNeverGoesBack
<1> DEFINE Forward ==
      /\ company'.at >= company.at
      /\ \/ company'.tier # company.tier \/ company'.seats # company.seats
         \/ company'.sub # company.sub /\ company.sub # NoSub
         => \E w \in Workers : pc[w] \in HandlerSteps /\ EventAt(w).at = company'.at
<1>1. ASSUME IInv, NEW w \in Workers, RunHandler(w) PROVE Forward
  <2>1. pc[w] \in HandlerSteps
    BY <1>1 DEF RunHandler, Activate, FillSubscription, ReconcileSeats, ResizeSeats,
         UpdateSubscription, ChangeSeats, ReadTier, ChangePlan, Cancel, RecordPayment,
         ApplyPaymentStatus, Handler, HandlerSteps
  <2> QED BY <1>1, <2>1, HandlerMoves DEF Rewrites
<1>2. ASSUME IInv, company' = company PROVE Forward
  <2>1. company.at \in Nat
    BY <1>2, RowTypes
  <2> QED BY <1>2, <2>1
<1>3. ASSUME IInv, [Next]_vars PROVE Forward
  <2>1. CASE \E w \in Workers : RunHandler(w)
    BY <1>1, <1>3, <2>1
  <2>2. CASE ~\E w \in Workers : RunHandler(w)
    <3>1. company' = company
      <4>1. CASE Provider
        BY <4>1 DEF Provider, StartCheckout, Subscribe, ChangeSubscription, CancelSubscription,
                    Bill, UnchangedApp
      <4>2. CASE ~Provider
        BY <1>3, <2>2, <4>2 DEF Next, Proceed, Receive, Lookup, Claim, Release, Mark, Respond,
             Fail, Crash, Expire, vars
      <4> QED BY <4>1, <4>2
    <3> QED BY <1>2, <1>3, <3>1
  <2> QED BY <2>1, <2>2
<1> HIDE DEF Forward
<1>4. IInv /\ [Next]_vars => [Forward]_vars
  BY <1>3
<1>5. Spec => [][Forward]_vars
  BY <1>4, SpecInv, PTL DEF Spec
<1> QED BY <1>5 DEF RowNeverGoesBack, Forward

(* A late payment of a subscription whose end the row has taken leaves the *)
(* billing status alone.                                                   *)
THEOREM LatePaymentInert == Spec => CanceledPaymentInert
<1> DEFINE Inert ==
      \A w \in Workers : /\ pc[w] = "status" /\ pc'[w] = "mark"
                         /\ EventAt(w).sub \in ended /\ EventAt(w).sub # company.sub
        => company'.status = company.status
<1>1. ASSUME RowInv, [Next]_vars, NEW w \in Workers, pc[w] = "status", pc'[w] = "mark",
             EventAt(w).sub \in ended, EventAt(w).sub # company.sub
      PROVE  company'.status = company.status
  <2>0. IInv /\ EventsOK /\ ProviderOK /\ Following /\ pc \in [Workers -> Steps]
    BY <1>1 DEF RowInv, IInv, TypeOK
  <2>1. ApplyPaymentStatus(w)
    <3>1. ~Provider /\ ~UNCHANGED vars /\ \A e \in Ids : ~Expire(e)
      BY <1>1 DEF Provider, StartCheckout, Subscribe, ChangeSubscription, CancelSubscription,
                  Bill, UnchangedApp, vars, Expire
    <3>2. \A v \in Workers, e \in Ids : ~Receive(v, e)
      <4> SUFFICES ASSUME NEW v \in Workers, NEW e \in Ids, Receive(v, e) PROVE FALSE
        OBVIOUS
      <4>1. v # w
        BY <1>1 DEF Receive
      <4> QED BY <1>1, <2>0, <4>1 DEF Receive, Goto
    <3>3. ASSUME NEW v \in Workers, Proceed(v) \/ Fail(v) \/ Crash(v)
          PROVE  v = w
      <4>1. \E step : pc' = [pc EXCEPT ![v] = step]
        BY <3>3 DEF Proceed, RunHandler, Activate, FillSubscription, ReconcileSeats, ResizeSeats,
             UpdateSubscription, ChangeSeats, ReadTier, ChangePlan, Cancel, RecordPayment,
             ApplyPaymentStatus, Handler, Goto, Lookup, Claim, Release, Mark, Respond, Fail, Crash
      <4> QED BY <1>1, <2>0, <4>1
    <3>4. Proceed(w) \/ Fail(w) \/ Crash(w)
      BY <1>1, <3>1, <3>2, <3>3 DEF Next
    <3>5. ~Fail(w) /\ ~Crash(w)
      BY <1>1, <2>0 DEF Fail, Crash, Goto
    <3> QED BY <1>1, <3>4, <3>5 DEF Proceed, RunHandler, Activate, FillSubscription,
         ReconcileSeats, ResizeSeats, UpdateSubscription, ChangeSeats, ReadTier, ChangePlan,
         Cancel, RecordPayment, Handler, Lookup, Claim, Release, Mark, Respond
  <2>2. /\ cur[w] \in 1 .. Len(sent) /\ EventAt(w) = sent[cur[w]]
        /\ EventAt(w).sub \in Subs /\ EventAt(w).at \in Nat /\ EventAt(w).kind \in PaymentKinds
    BY <1>1, <2>0, AtWork DEF HandlerSteps, Fit
  <2>3. EventAt(w).at < company.at /\ company.at \in Nat
    BY <1>1, <2>0, <2>2, RowTypes DEF Following, EndedOK, EndedAt, PaymentKinds
  <2>4. ~IsCurrent(EventAt(w))
    BY <1>1, <2>2, <2>3 DEF IsCurrent, Sync
  <2> QED BY <2>1, <2>4 DEF ApplyPaymentStatus
<1>2. ASSUME RowInv, [Next]_vars PROVE Inert
  BY <1>1, <1>2
<1> HIDE DEF Inert
<1>3. RowInv /\ [Next]_vars => [Inert]_vars
  BY <1>2
<1>4. Spec => [][Inert]_vars
  BY <1>3, SpecRow, PTL DEF Spec
<1> QED BY <1>4 DEF CanceledPaymentInert, Inert
=============================================================================
