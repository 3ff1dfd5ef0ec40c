------------------------------- MODULE Seats -------------------------------
(* The team of a company and the seats it is billed for: adding, removing and *)
(* reactivating users under the company lock (users.service), each with a     *)
(* call to the billing provider before the commit (billing.service), the      *)
(* records and the WhatsApp number a removed user leaves behind, and the      *)
(* writes that do not take the lock: an edit of a user, an assignment, a      *)
(* WhatsApp sign-up, a plan switched by the operator, and the webhook's       *)
(* writes of the plan when a subscription starts, is switched or ends.        *)
EXTENDS Integers, FiniteSets

CONSTANTS
  Users,
  Admins,     \* users whose role is COMPANY_ADMIN
  Records,    \* leads, units, work orders, documents, contacts, pending commissions
  Reqs,       \* requests on the team
  Cap,        \* companies.max_users of the plans that are not billed by seat
  Cases       \* bounds: the team, its former users and plan at first, and how often
              \* each thing outside the lock happens in one behaviour

Plans == {"free", "comp", "pro", "enterprise"}
Counted == {"edits", "joins", "assigns", "checkouts", "subs", "swaps", "faults"}

ASSUME SeatAssumption ==
  /\ IsFiniteSet(Users) /\ Admins \subseteq Users
  /\ Cap \in [{"free", "comp"} -> Nat \ {0}]
  /\ \A c \in Cases : /\ c.team # {} /\ c.team \subseteq Users /\ c.owners \subseteq c.team
                     /\ c.plan \in Plans /\ c.editable \in BOOLEAN
                     /\ c.limits \in [Counted -> Nat]

VARIABLES
  user,       \* each user: none, active, inactive or deleted
  plan,       \* the tier; "comp" is a paid tier without a subscription
  sub,        \* the subscription on the company row
  sold,       \* the plan of that subscription at the provider
  billed,     \* the live seat quantity at the provider
  checkout,   \* the open checkout: its plan, its seats and the team they are for
  swap,       \* the switch of plan under way: the quantity changePlan has read
  editable,   \* the provider's checkoutQuantityEditable
  settling,   \* SubscriptionActivated is handled up to reconcileSeats
  op,         \* what each request does under the company lock
  editing,    \* users.update: the state it read of the user it will save
  owner,      \* the user each record is assigned to
  assigning,  \* assign: the agent it has checked, not yet saved
  wa,         \* users whose WhatsApp connection is CONNECTED
  joining,    \* sign-ups that have not stored their connection yet
  cron,       \* connections StrandedWhatsappRowsCron has read and will disconnect
  left,       \* what the case still allows
  drifted,    \* a crash, a failed undo or a write outside the lock set the seats apart
  stale,      \* the alignment under way counts by a plan or a team that is another now
  loose,      \* users last written by an edit that overlapped their removal
  strayed     \* records assigned to a user removed since the check

team == <<user, owner, loose, strayed>>
billing == <<plan, sub, sold, billed, checkout, swap, editable, settling>>
chat == <<wa, joining, cron>>
work == <<editing, assigning>>
vars == <<team, billing, op, chat, work, drifted, stale, left>>

Active == {u \in Users : user[u] = "active"}
Larger(m, n) == IF m >= n THEN m ELSE n
Billed(p) == p \in {"pro", "enterprise"}
Floor(p) == IF p = "enterprise" THEN 0 ELSE 1

\* The seats a team of n costs: the ENTERPRISE base covers the first.
Needed(p, n) == Larger(IF p = "enterprise" THEN n - 1 ELSE n, Floor(p))

NoCheckout == [plan |-> "free", seats |-> 0, team |-> 0]
NoSwap == [plan |-> "free", sub |-> 0, live |-> 0]

Idle == [kind |-> "none", who |-> {}, to |-> {}, plan |-> "free", sub |-> 0, live |-> 0, target |-> 0, pc |-> "idle"]

Init ==
  /\ \E c \in Cases :
       /\ user = [u \in Users |-> IF u \in c.team THEN "active" ELSE IF u \in c.former THEN "inactive" ELSE "none"]
       /\ owner \in [Records -> c.owners]
       /\ plan = c.plan /\ left = c.limits /\ editable = c.editable
       /\ billed = (IF Billed(plan) THEN Needed(plan, Cardinality(c.team)) ELSE 0)
  /\ sub = 0 /\ sold = plan /\ checkout = NoCheckout /\ swap = NoSwap /\ settling = FALSE
  /\ op = [r \in Reqs |-> Idle] /\ editing = [u \in Users |-> "none"] /\ assigning = [k \in Records |-> {}]
  /\ wa = {} /\ joining = {} /\ cron = {}
  /\ drifted = FALSE /\ stale = FALSE /\ loose = {} /\ strayed = {}

Spend(what) == left[what] > 0 /\ left' = [left EXCEPT ![what] = @ - 1]
Fault == Spend("faults")
NoFault == UNCHANGED left

-----------------------------------------------------------------------------
(* Requests under the company lock: the checks, the provider, the commit.    *)

\* Mutant: the checks and the seat are not serialised.
LockFree_Missing == TRUE

\* pg_advisory_xact_lock: one request of a company at a time.
LockFree == \A r \in Reqs : op[r].pc \in {"idle", "left"}

Running(r, pc) == op[r].pc = pc
Aligning == \E r \in Reqs : Running(r, "bill") /\ op[r].kind = "reconcile"
Grows(kind) == kind \in {"add", "reactivate"}
Removes(kind) == kind \in {"deactivate", "delete", "trim"}

\* The rows the request holds FOR NO KEY UPDATE.
Held == UNION {op[r].who \cup op[r].to : r \in {q \in Reqs : op[q].pc # "left"}}

\* Mutant: the alignment forgets that the ENTERPRISE base covers a seat.
Target_BaseForgotten(kind) ==
  CASE Grows(kind)        -> billed + 1
    [] kind = "trim"      -> Floor(plan)
    [] kind = "reconcile" -> Larger(Cardinality(Active), Floor(plan))
    [] OTHER              -> Larger(billed - 1, Floor(plan))

\* The quantity asked of the provider, from the live one.
Target(kind) ==
  CASE Grows(kind)        -> billed + 1
    [] kind = "trim"      -> Floor(plan)
    [] kind = "reconcile" -> Needed(plan, Cardinality(Active))
    [] OTHER              -> Larger(billed - 1, Floor(plan))

\* Requests are alike: a new one takes the first place that is free.
Slot == CHOOSE r \in Reqs : op[r] = Idle

Begin(r, kind, who, to) ==
  /\ LockFree /\ op[r] = Idle /\ r = Slot
  /\ op' = [op EXCEPT ![r] = [kind |-> kind, who |-> who, to |-> to, plan |-> plan, sub |-> sub,
                              live |-> billed, target |-> Target(kind),
                              pc |-> IF Billed(plan) /\ (kind = "delete" => who \subseteq Active)
                                     THEN "bill" ELSE "save"]]
  /\ stale' = (kind = "reconcile" /\ plan # sold) /\ drifted' = (drifted \/ plan # sold)
  /\ UNCHANGED <<team, billing, chat, work, left>>

UnderCap == Cardinality(Active) < Cap[plan]

\* create, inviteUser.
Add(r, u) ==
  /\ user[u] = "none"
  /\ ~Billed(plan) => UnderCap
  /\ Begin(r, "add", {u}, {})

\* A comp account is not held to its cap here.
Reactivate(r, u) ==
  /\ user[u] = "inactive"
  /\ plan = "free" => UnderCap
  /\ Begin(r, "reactivate", {u}, {})

\* loadRemovalContext.
Deactivate(r, u, v) ==
  /\ u # v /\ {u, v} \subseteq Active
  /\ Begin(r, "deactivate", {u}, {v})

Delete(r, u, v) ==
  /\ u # v /\ user[u] \in {"active", "inactive"} /\ v \in Active
  /\ Begin(r, "delete", {u}, {v})

\* trimToOneActiveUser.
Trim(r, k) ==
  /\ k \in Admins \cap Active /\ Active # {k}
  /\ Begin(r, "trim", Active \ {k}, {k})

\* reconcileSeats, on every delivery of the activation until it succeeds.
BeginReconcile(r) ==
  /\ settling /\ Billed(plan)
  /\ Begin(r, "reconcile", {}, {})

Finish(r) == op' = [op EXCEPT ![r] = Idle]
Goto(r, pc) == op' = [op EXCEPT ![r].pc = pc]
Alive(r) == op[r].sub = sub

\* updateSeatQuantity; on an error it may have taken effect.
CallProvider(r) ==
  /\ Running(r, "bill") /\ op[r].kind # "reconcile"
  /\ \/ NoFault /\ Alive(r) /\ billed' = op[r].target /\ Goto(r, "save") /\ UNCHANGED drifted
     \/ NoFault /\ ~Alive(r) /\ Finish(r) /\ UNCHANGED <<billed, drifted>>
     \/ Fault /\ Finish(r) /\ UNCHANGED <<billed, drifted>>
     \/ Fault /\ Alive(r) /\ Finish(r) /\ billed' = op[r].target /\ drifted' = TRUE
  /\ UNCHANGED <<team, plan, sub, sold, checkout, swap, editable, settling, chat, work, stale>>

\* reconcileSeatsToActiveUsers, from its count to the provider: seats that were
\* apart are right again, unless the team or the plan changed since the count.
AlignProvider(r) ==
  /\ Running(r, "bill") /\ op[r].kind = "reconcile" /\ Finish(r)
  /\ \/ /\ NoFault /\ Alive(r) /\ billed' = op[r].target /\ settling' = FALSE
        /\ drifted' = (stale \/ Active = {})
     \/ NoFault /\ ~Alive(r) /\ UNCHANGED <<billed, settling, drifted>>
     \/ Fault /\ UNCHANGED <<billed, settling, drifted>>
     \/ Fault /\ Alive(r) /\ billed' = op[r].target /\ UNCHANGED <<settling, drifted>>
  /\ UNCHANGED <<team, plan, sub, sold, checkout, swap, editable, chat, work, stale>>

After(kind) ==
  IF Grows(kind) THEN "active" ELSE IF kind = "delete" THEN "deleted" ELSE "inactive"

\* Mutant: the records stay with the removed user.
Reassigned_None(from, to) == owner

\* reassignOwnedRecords.
Reassigned(from, to) == [k \in Records |-> IF owner[k] \in from THEN CHOOSE v \in to : TRUE ELSE owner[k]]

\* The backstop of the trim: somebody else is active again.
Crowded(r) == op[r].kind = "trim" /\ Cardinality(Active \ op[r].who) > 1

\* The user rows, their records and the commit.
Save(r) ==
  LET o == op[r] IN
  /\ Running(r, "save") /\ ~Crowded(r)
  /\ user' = [u \in Users |-> IF u \in o.who THEN After(o.kind) ELSE user[u]]
  /\ loose' = loose \ o.who
  /\ IF Removes(o.kind)
     THEN /\ owner' = Reassigned(o.who, o.to)
          /\ strayed' = {k \in strayed : owner[k] \notin o.who}
          /\ op' = [op EXCEPT ![r] = [Idle EXCEPT !.who = o.who, !.pc = "left"]]
     ELSE UNCHANGED <<owner, strayed>> /\ Finish(r)
  /\ drifted' = (drifted \/ ~Alive(r))
  /\ UNCHANGED <<billing, chat, work, stale, left>>

BilledBy(r) == op[r].pc \in {"save", "undo"} /\ Billed(op[r].plan)
                 /\ (op[r].kind = "delete" => \A u \in op[r].who : user[u] = "active")

SaveFails(r) ==
  /\ Running(r, "save")
  /\ IF Crowded(r) THEN NoFault ELSE Fault
  /\ IF BilledBy(r) THEN Goto(r, "undo") ELSE Finish(r)
  /\ UNCHANGED <<team, billing, chat, work, drifted, stale>>

Restored(r) == IF Alive(r) THEN op[r].live ELSE billed

\* release, compensate: never throws.
Undo(r) ==
  /\ Running(r, "undo") /\ Finish(r)
  /\ \/ NoFault /\ billed' = Restored(r) /\ UNCHANGED drifted
     \/ Fault /\ UNCHANGED billed /\ drifted' = TRUE
  /\ UNCHANGED <<team, plan, sub, sold, checkout, swap, editable, settling, chat, work, stale>>

\* The process dies, or the commit itself fails, and nothing undoes the seat.
Crash(r) ==
  /\ Fault /\ op[r] # Idle /\ Finish(r)
  /\ drifted' = (drifted \/ BilledBy(r))
  /\ UNCHANGED <<team, billing, chat, work, stale>>

-----------------------------------------------------------------------------
(* Writes outside the lock.                                                  *)

\* users.update reads the whole row, then saves the whole row.
ReadForEdit(u) ==
  /\ editing[u] = "none" /\ user[u] \in {"active", "inactive"} /\ Spend("edits")
  /\ editing' = [editing EXCEPT ![u] = user[u]]
  /\ UNCHANGED <<team, billing, op, chat, assigning, drifted, stale>>

SaveEdit(u) ==
  /\ editing[u] # "none" /\ u \notin Held
  /\ user' = [user EXCEPT ![u] = editing[u]]
  /\ editing' = [editing EXCEPT ![u] = "none"]
  /\ IF user[u] = editing[u] THEN UNCHANGED <<loose, drifted, stale>>
                             ELSE loose' = loose \cup {u} /\ drifted' = TRUE /\ stale' = Aligning
  /\ UNCHANGED <<owner, strayed, billing, op, chat, assigning, left>>

\* leads.assign checks the agent, then saves the lead.
CheckAgent(k, u) ==
  /\ assigning[k] = {} /\ u \in Active /\ Spend("assigns")
  /\ assigning' = [assigning EXCEPT ![k] = {u}]
  /\ UNCHANGED <<team, billing, op, chat, editing, drifted, stale>>

SaveAssignment(k) ==
  /\ \E u \in assigning[k] :
       /\ owner' = [owner EXCEPT ![k] = u]
       /\ strayed' = IF u \in Active THEN strayed \ {k} ELSE strayed \cup {k}
  /\ assigning' = [assigning EXCEPT ![k] = {}]
  /\ UNCHANGED <<user, loose, billing, op, chat, editing, drifted, stale, left>>

Open(c) ==
  /\ Spend("checkouts") /\ checkout' = c
  /\ UNCHANGED <<team, plan, sub, sold, billed, swap, editable, settling, op, chat, work, drifted, stale>>

\* The seats of PRO for the active team.
StartCheckout ==
  /\ plan = "free"
  /\ Open([plan |-> "pro", seats |-> Larger(Cardinality(Active), 1), team |-> Cardinality(Active)])

\* The operator chooses the plan and the size of the team, also for a company
\* with a paid tier and no subscription.
AdminStartCheckout ==
  /\ ~Billed(plan)
  /\ \E n \in 1..Cardinality(Users) :
       \/ Open([plan |-> "pro", seats |-> n, team |-> n])
       \/ Open([plan |-> "enterprise", seats |-> n - 1, team |-> n])

\* SubscriptionActivated: with the seats of the checkout, or the buyer's own
\* number, which the second handler aligns. Seats nobody aligns are apart when
\* the team is another than the one they were for.
Activate ==
  /\ checkout # NoCheckout /\ Spend("subs")
  /\ plan' = checkout.plan /\ sold' = checkout.plan /\ sub' = sub + 1 /\ checkout' = NoCheckout
  /\ billed' \in {checkout.seats} \cup IF editable THEN 1..Cardinality(Users) ELSE {}
  /\ settling' = editable
  /\ drifted' = (Active = {} \/ (~editable /\ checkout.team # Cardinality(Active)))
  /\ UNCHANGED <<team, swap, editable, op, chat, work, stale>>

\* changePlanForCompany: the adapter reads the live lines, without the lock.
ReadForSwap(p) ==
  /\ Billed(plan) /\ swap = NoSwap /\ Spend("swaps")
  /\ swap' = [plan |-> p, sub |-> sub, live |-> billed]
  /\ UNCHANGED <<team, plan, sub, sold, billed, checkout, editable, settling, op, chat, work, drifted, stale>>

\* The base of ENTERPRISE absorbs a seat, PRO releases it.
Shifted(p, live) == IF p = "enterprise" THEN Larger(live - 1, 0) ELSE live + 1

\* ... and writes the shifted line, or fails. The seats are apart when they had
\* changed since, a request is about to change them, or the plan was sold already.
Swap ==
  /\ swap # NoSwap /\ swap' = NoSwap
  /\ \/ /\ swap.sub = sub
        /\ billed' = Shifted(swap.plan, swap.live) /\ sold' = swap.plan /\ stale' = Aligning
        /\ drifted' = (drifted \/ billed # swap.live \/ ~LockFree \/ sold = swap.plan)
     \/ UNCHANGED <<billed, sold, stale, drifted>>
  /\ UNCHANGED <<team, plan, sub, checkout, editable, settling, op, chat, work, left>>

PlanChanged ==
  /\ plan # sold /\ plan' = sold
  /\ UNCHANGED <<team, sub, sold, billed, checkout, swap, editable, settling, op, chat, work, drifted, stale, left>>

\* SubscriptionCanceled.
End ==
  /\ Billed(plan) /\ Spend("subs")
  /\ plan' = "free" /\ sold' = "free" /\ sub' = sub + 1 /\ billed' = 0 /\ settling' = FALSE
  /\ UNCHANGED <<team, checkout, swap, editable, op, chat, work, drifted, stale>>

-----------------------------------------------------------------------------
(* WhatsApp numbers.                                                         *)

Connect(u) ==
  /\ u \in Active \ (wa \cup joining) /\ Spend("joins")
  /\ joining' = joining \cup {u}
  /\ UNCHANGED <<team, billing, op, wa, cron, editing, assigning, drifted, stale>>

StoreConnection(u) ==
  /\ u \in joining
  /\ joining' = joining \ {u} /\ wa' = wa \cup {u}
  /\ UNCHANGED <<team, billing, op, cron, work, drifted, stale, left>>

\* disconnectWhatsappAfterRemoval: a failure is only logged.
DisconnectRemoved(r, u) ==
  /\ Running(r, "left") /\ u \in op[r].who
  /\ IF op[r].who = {u} THEN Finish(r) ELSE op' = [op EXCEPT ![r].who = @ \ {u}]
  /\ \/ NoFault /\ wa' = wa \ {u}
     \/ Fault /\ UNCHANGED wa
  /\ UNCHANGED <<team, billing, joining, cron, work, drifted, stale>>

\* Mutant: users that were only deactivated are not looked for.
Departed_Deleted(u) == user[u] = "deleted"

Departed(u) == user[u] \in {"inactive", "deleted"}

FindStranded ==
  /\ cron = {} /\ cron' = {u \in wa : Departed(u)} /\ cron' # {}
  /\ UNCHANGED <<team, billing, op, wa, joining, work, drifted, stale, left>>

CronDisconnect(u) ==
  /\ u \in cron
  /\ cron' = cron \ {u}
  /\ \/ NoFault /\ wa' = wa \ {u}
     \/ Fault /\ UNCHANGED wa
  /\ UNCHANGED <<team, billing, op, joining, work, drifted, stale>>

-----------------------------------------------------------------------------
Request(r) ==
  \/ \E u \in Users : Add(r, u) \/ Reactivate(r, u)
  \/ \E u, v \in Users : Deactivate(r, u, v) \/ Delete(r, u, v)
  \/ \E k \in Users : Trim(r, k)

Step(r) == CallProvider(r) \/ AlignProvider(r) \/ Save(r) \/ SaveFails(r) \/ Undo(r) \/ Crash(r)
           \/ \E u \in Users : DisconnectRemoved(r, u)

Next ==
  \/ \E r \in Reqs : Request(r) \/ BeginReconcile(r) \/ Step(r)
  \/ \E u \in Users : ReadForEdit(u) \/ SaveEdit(u)
  \/ \E k \in Records : (\E u \in Users : CheckAgent(k, u)) \/ SaveAssignment(k)
  \/ StartCheckout \/ AdminStartCheckout \/ Activate \/ End
  \/ (\E p \in {"pro", "enterprise"} : ReadForSwap(p)) \/ Swap \/ PlanChanged
  \/ \E u \in Users : Connect(u) \/ StoreConnection(u) \/ CronDisconnect(u)
  \/ FindStranded

Spec == Init /\ [][Next]_vars

\* Every call under the lock ends, the queue for the lock is first come first
\* served, the provider redelivers the activation, and the cron runs every day.
FairSpec ==
  /\ Spec
  /\ \A r \in Reqs : WF_vars(Step(r))
  /\ SF_vars(\E r \in Reqs : BeginReconcile(r))
  /\ WF_vars(FindStranded) /\ \A u \in Users : WF_vars(CronDisconnect(u))

-----------------------------------------------------------------------------
Operation ==
  [kind : {"none", "add", "reactivate", "deactivate", "delete", "trim", "reconcile"},
   who : SUBSET Users, to : SUBSET Users, plan : Plans, sub : Nat, live : Nat, target : Nat,
   pc : {"idle", "bill", "save", "undo", "left"}]

TypeOK ==
  /\ user \in [Users -> {"none", "active", "inactive", "deleted"}]
  /\ plan \in Plans /\ sold \in Plans /\ sub \in Nat /\ billed \in Nat
  /\ checkout \in [plan : Plans, seats : Nat, team : Nat]
  /\ swap \in [plan : Plans, sub : Nat, live : Nat]
  /\ left \in [Counted -> Nat]
  /\ editable \in BOOLEAN /\ settling \in BOOLEAN /\ drifted \in BOOLEAN /\ stale \in BOOLEAN
  /\ op \in [Reqs -> Operation]
  /\ editing \in [Users -> {"none", "active", "inactive"}]
  /\ owner \in [Records -> Users] /\ assigning \in [Records -> SUBSET Users]
  /\ wa \cup joining \cup cron \cup loose \subseteq Users /\ strayed \subseteq Records

\* Between requests a company pays for exactly its active team: no interleaving of
\* adds, removals, undone saves, retried activations, switched and ended plans
\* drifts by a seat. What does is named where it happens (drifted): a crash, a lost
\* answer or undo, an edit without the lock, a request that overlaps a switch of
\* plan or the end of its subscription, a switch repeated, and a team that is
\* another than the one its checkout was for where the buyer cannot edit it.
SeatsMatch ==
  Billed(plan) /\ ~drifted /\ ~settling /\ LockFree => billed = Needed(sold, Cardinality(Active))

\* The cap of a plan that is not billed by seat: no two adds or reactivations at
\* once take the team past it, whatever the plan becomes meanwhile (enforceUserLimit).
CapHolds ==
  [][\A r \in Reqs :
       Save(r) /\ loose = {} /\ (\/ op[r].plan = "free" /\ Grows(op[r].kind)
                                 \/ op[r].plan = "comp" /\ op[r].kind = "add")
         => Cardinality(Active') <= Cap[op[r].plan]]_vars

\* Removals that name each other as the new owner never empty the company: some
\* user stays active (loadRemovalContext, trimToOneActiveUser).
SomeoneActive == loose = {} => Active # {}

\* Every record belongs to an active user, also when its new owner is being removed
\* at the same time (reassignOwnedRecords; an assignment checked before may stray).
OwnersActive ==
  \A k \in Records : owner[k] \in Active \/ k \in strayed \/ owner[k] \in loose

\* A number connected for a user who left stops receiving: the disconnect after the
\* commit, or the cron when that failed or a sign-up came after it.
StrandedEnds == \A u \in Users : (u \in wa /\ user[u] # "active") ~> (u \notin wa \/ user[u] = "active")

\* An activated subscription gets its seats aligned, however often that fails.
ActivationSettles == settling ~> ~settling

\* The team is never left without an active user, nor a record without one who
\* answers for it, whichever removals name each other as the new owner.
TeamHolds == TypeOK /\ SomeoneActive /\ OwnersActive

\* What a removal or an activation left open is made up for: numbers are
\* disconnected and seats aligned (the cron, the redelivered activation).
TeamSettles == StrandedEnds /\ ActivationSettles
=============================================================================
