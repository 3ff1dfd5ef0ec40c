-------------------------- MODULE BillingDowngrade --------------------------
(***************************************************************************)
(* The delayed downgrade to Free: a customer's request, the job that plans *)
(* the refund of the unused days, ends the subscription at the provider    *)
(* and then sends the planned refunds, and the provider's reports on them. *)
(*                                                                         *)
(* The job holds the company lock from its first read to its last write,   *)
(* but its checkpoints commit one by one outside the lock's transaction: a *)
(* crash drops the lock and keeps them.  A provider call may fail, or time *)
(* out after it took effect.                                               *)
(***************************************************************************)
EXTENDS Naturals, Sequences, FiniteSets

CONSTANTS
  Subs,          \* subscriptions of the company, one after another
  Rows,          \* bound: payment_remedies rows
  MaxParts,      \* bound: card payments one refund is spread over
  MaxPeriods,    \* bound: billing periods of a subscription
  MaxTeam,       \* bound: active users
  MaxAttempts,   \* MAX_PROVIDER_ATTEMPTS
  MaxFaults,     \* bound: failed calls and crashes
  NoSub, NoRow   \* the NULL subscription id, no row

ASSUME DowngradeAssumption ==
  /\ NoSub \notin Subs /\ NoRow \notin Rows
  /\ MaxParts \in Nat /\ MaxPeriods \in Nat \ {0}
  /\ MaxTeam \in Nat \ {0} /\ MaxAttempts \in Nat \ {0} /\ MaxFaults \in Nat

VARIABLES
  provider,   \* external: each subscription's state and current period
  refunds,    \* external: refunds made at the provider, in order; an id is an index
  inbox,      \* external: refund events not yet delivered for the last time
  company,    \* the subscription and the downgrade columns of the company row
  billed,     \* billing_history: the newest period with a recorded payment or failure
  team,       \* active users
  asking,     \* cancelSubscription past its checks: the subscription it read
  remedy,     \* payment_remedies of cause 'cancel'
  hist,       \* billing_history: refund_status of the refunds it has a row of
  pc, job,    \* the job's next step and its locals
  canceled,   \* history variable: subscriptions a call of the job ended
  unheard,    \* history variable: rows whose insert took effect but threw, at the
              \* last attempt of a planning
  faults      \* failed calls and crashes so far

vars == <<provider, refunds, inbox, company, billed, team, asking, remedy, hist,
          pc, job, canceled, unheard, faults>>

RefundStates == {"pending", "approved", "rejected", "reversed"}
RemedyStatuses == {"none", "queued", "initiated", "approved", "rejected", "reversed", "failed"}

Queued == {r \in Rows : remedy[r].status = "queued"}
Live(s) == s \in Subs /\ provider[s].state = "live"

\* NO_REQUEST
Cleared == [company EXCEPT !.request = NoSub, !.age = "fresh", !.attempts = 0]

UnchangedJob == UNCHANGED <<pc, job, canceled, unheard, faults>>
UnchangedRefunds == UNCHANGED <<refunds, inbox, remedy, hist>>

-----------------------------------------------------------------------------
(* The provider, the buyer and the rest of the application.                *)

\* A company without a subscription buys one; its webhook fills the row.
Subscribe(s) ==
  /\ company.sub = NoSub /\ provider[s].state = "none" /\ \A r \in Subs : ~Live(r)
  /\ provider' = [provider EXCEPT ![s].state = "live"]
  /\ company' = [company EXCEPT !.sub = s]
  /\ billed' = 0
  /\ UNCHANGED <<team, asking>> /\ UnchangedRefunds /\ UnchangedJob

Renew(s) ==
  /\ Live(s) /\ provider[s].period < MaxPeriods
  /\ provider' = [provider EXCEPT ![s].period = @ + 1]
  /\ UNCHANGED <<company, billed, team, asking>> /\ UnchangedRefunds /\ UnchangedJob

\* A payment webhook, of the current period or an earlier one.
RecordPayment ==
  /\ company.sub # NoSub /\ billed < provider[company.sub].period
  /\ billed' \in billed + 1 .. provider[company.sub].period
  /\ UNCHANGED <<provider, company, team, asking>> /\ UnchangedRefunds /\ UnchangedJob

\* The provider ends a subscription that was not paid.
EndUnpaid(s) ==
  /\ Live(s)
  /\ provider' = [provider EXCEPT ![s].state = "canceled"]
  /\ UNCHANGED <<company, billed, team, asking>> /\ UnchangedRefunds /\ UnchangedJob

\* The cancellation webhook; it does not take the company lock.
CancelRecorded ==
  /\ company.sub # NoSub /\ ~Live(company.sub)
  /\ company' = [company EXCEPT !.sub = NoSub]
  /\ UNCHANGED <<provider, billed, team, asking>> /\ UnchangedRefunds /\ UnchangedJob

\* The company lock is free; the operations that take it run in one
\* transaction and are one step.
Unlocked == pc = "idle"

\* A seat is bought from the provider inside the transaction that adds a user.
AddUser ==
  /\ Unlocked /\ team < MaxTeam /\ Live(company.sub)
  /\ team' = team + 1
  /\ UNCHANGED <<provider, company, billed, asking>> /\ UnchangedRefunds /\ UnchangedJob

RemoveUser ==
  /\ Unlocked /\ team > 1
  /\ team' = team - 1
  /\ UNCHANGED <<provider, company, billed, asking>> /\ UnchangedRefunds /\ UnchangedJob

\* The provider decides on a refund it holds, or takes an approved one back.
DecideRefund(i) ==
  \E state \in RefundStates \ {"pending"} :
    /\ IF state = "reversed" THEN refunds[i].state = "approved"
                             ELSE refunds[i].state = "pending"
    /\ refunds' = [refunds EXCEPT ![i].state = state]
    /\ inbox' = inbox \cup {<<i, state>>}
    /\ UNCHANGED <<provider, company, billed, team, asking, remedy, hist>> /\ UnchangedJob

-----------------------------------------------------------------------------
(* The customer's request.                                                 *)

\* The checks of cancelSubscription, made before the lock is taken.
AskCancel ==
  /\ asking = NoSub /\ company.sub # NoSub /\ team = 1
  /\ asking' = company.sub
  /\ UNCHANGED <<provider, company, billed, team>> /\ UnchangedRefunds /\ UnchangedJob

\* Mutant: a refund still queued does not stop a new request.
Accepts_AnyTime == company.request = NoSub

\* A repeat changes nothing; a refund still queued is a 409.
Accepts == company.request = NoSub /\ Queued = {}

Request ==
  /\ Unlocked /\ asking # NoSub
  /\ asking' = NoSub
  /\ company' = IF Accepts THEN [Cleared EXCEPT !.request = asking] ELSE company
  /\ UNCHANGED <<provider, billed, team>> /\ UnchangedRefunds /\ UnchangedJob

\* Mutant: withdrawing does not look at the queued refunds.
Withdrawable_AnyTime == company.request # NoSub

Withdrawable == company.request # NoSub /\ Queued = {}

\* resumeSubscription reads the company's subscription first.
Withdraw ==
  /\ Unlocked /\ company.sub # NoSub /\ Withdrawable
  /\ company' = Cleared
  /\ UNCHANGED <<provider, billed, team, asking>> /\ UnchangedRefunds /\ UnchangedJob

\* The delay passes, then the wait for an unrecorded renewal.
Ripen ==
  /\ company.request # NoSub /\ company.age # "late"
  /\ company' = [company EXCEPT !.age = IF @ = "fresh" THEN "due" ELSE "late"]
  /\ UNCHANGED <<provider, billed, team, asking>> /\ UnchangedRefunds /\ UnchangedJob

-----------------------------------------------------------------------------
(* The job, one await per step.                                            *)

JobSteps == {"plan", "basis", "save", "replan", "supersede", "cancel", "check",
             "release", "drop", "clear", "send", "record", "settle"}

NoJob == [rows |-> {}, sub |-> NoSub, current |-> NoSub, attempts |-> 0, age |-> "fresh",
          period |-> 1, row |-> NoRow, refund |-> 0, state |-> "pending"]

\* The locals are gone once the job returns.
Goto(step, locals) == pc' = step /\ job' = IF step = "idle" THEN NoJob ELSE locals

Fault == faults < MaxFaults /\ faults' = faults + 1
Outside == <<billed, team, asking, unheard>>

\* Mutant: queued refunds are sent only while their request is due.
Starts_OnlyDue == company.request # NoSub /\ company.age # "fresh"

\* What executeDue selects and executeFor does not leave at once.
Starts == \/ company.request # NoSub /\ company.age # "fresh"
          \/ company.request = NoSub /\ Queued # {}

\* Rows queued with no request left belong to a cancel that already happened.
ExecuteFor ==
  /\ pc = "idle" /\ Starts
  /\ Goto(IF company.request = NoSub THEN "send" ELSE IF Queued = {} THEN "plan" ELSE "replan",
          [NoJob EXCEPT !.rows = Queued, !.sub = company.request, !.current = company.sub,
                        !.attempts = company.attempts, !.age = company.age])
  /\ UNCHANGED <<provider, company, canceled, faults, Outside>> /\ UnchangedRefunds

\* dropRequest: the request goes, the plan stays.
Drop == company' = Cleared /\ Goto("idle", job)

PlanRefund ==
  /\ pc = "plan"
  /\ IF job.current # job.sub \/ team > 1
     THEN Drop
     ELSE Goto("basis", job) /\ UNCHANGED company
  /\ UNCHANGED <<provider, canceled, faults, Outside>> /\ UnchangedRefunds

RefundBasis ==
  /\ pc = "basis"
  /\ IF ~Live(job.sub)
     THEN Drop
     ELSE /\ Goto("save", [job EXCEPT !.period = provider[job.sub].period])
          /\ UNCHANGED company
  /\ UNCHANGED <<provider, canceled, faults, Outside>> /\ UnchangedRefunds

Fresh == {r \in Rows : remedy[r].status = "none"}

Planned == [status |-> "queued", sub |-> job.sub, period |-> job.period, attempts |-> 0,
            ref |-> 0, superseded |-> FALSE]

\* currentPeriodPaid: the renewal is not recorded and the wait has not passed.
Waits == billed < job.period /\ job.age # "late"

\* Waits for an unrecorded renewal, else writes the rows of the refund in one
\* statement; a refund of nothing has none.
SaveRows ==
  /\ pc = "save"
  /\ IF Waits
     THEN Goto("idle", job) /\ UNCHANGED remedy
     ELSE \E rows \in SUBSET Fresh :
            /\ Cardinality(rows) <= MaxParts
            /\ remedy' = [r \in Rows |-> IF r \in rows THEN Planned ELSE remedy[r]]
            /\ Goto("cancel", [job EXCEPT !.rows = rows])
  /\ UNCHANGED <<provider, company, refunds, inbox, hist, canceled, faults, Outside>>

\* replanIfRenewed: rows planned for an earlier period are planned again.  The
\* rows of a plan are written at one time, so the first of them is any.
ReplanIfRenewed ==
  /\ pc = "replan"
  /\ \E r \in job.rows :
       Goto(IF Live(job.sub)
               /\ <<remedy[r].sub, remedy[r].period>> # <<job.sub, provider[job.sub].period>>
            THEN "supersede" ELSE "cancel", job)
  /\ UNCHANGED <<provider, company, canceled, faults, Outside>> /\ UnchangedRefunds

Supersede ==
  /\ pc = "supersede"
  /\ \E r \in job.rows :
        /\ remedy' = [remedy EXCEPT ![r].status = "failed", ![r].superseded = TRUE]
        /\ Goto(IF job.rows = {r} THEN "plan" ELSE "supersede", [job EXCEPT !.rows = @ \ {r}])
  /\ UNCHANGED <<provider, company, refunds, inbox, hist, canceled, faults, Outside>>

LastAttempt == job.attempts + 1 >= MaxAttempts

\* stepFailed: an attempt more, or after the last one the step `last`.
StepFailed(last, locals) ==
  IF LastAttempt
  THEN Goto(last, locals) /\ UNCHANGED company
  ELSE company' = [company EXCEPT !.attempts = job.attempts + 1] /\ Goto("idle", locals)

\* A provider call or a statement of the planning throws and has done nothing.
PlanningFails ==
  /\ pc \in {"plan", "basis", "save", "replan", "supersede"}
  /\ Fault /\ StepFailed("release", job)
  /\ UNCHANGED <<provider, canceled, Outside>> /\ UnchangedRefunds

\* The insert of the rows commits and throws: the catch works on with the rows
\* read before, of which there are none.
SaveUnheard ==
  /\ pc = "save" /\ ~Waits
  /\ Fault /\ StepFailed("release", job)
  /\ \E rows \in SUBSET Fresh :
       /\ Cardinality(rows) <= MaxParts
       /\ remedy' = [r \in Rows |-> IF r \in rows THEN Planned ELSE remedy[r]]
       /\ unheard' = IF LastAttempt THEN unheard \cup rows ELSE unheard
  /\ UNCHANGED <<provider, refunds, inbox, hist, canceled, billed, team, asking>>

\* The discard of a row commits and throws.
SupersedeUnheard ==
  /\ pc = "supersede"
  /\ Fault
  /\ \E r \in job.rows :
       /\ remedy' = [remedy EXCEPT ![r].status = "failed", ![r].superseded = TRUE]
       /\ StepFailed("release", [job EXCEPT !.rows = @ \ {r}])
  /\ UNCHANGED <<provider, refunds, inbox, hist, canceled, Outside>>

End(s) ==
  /\ provider' = [provider EXCEPT ![s].state = "canceled"]
  /\ canceled' = IF Live(s) THEN canceled \cup {s} ELSE canceled

CancelImmediately ==
  /\ pc = "cancel"
  /\ End(job.sub)
  /\ Goto("clear", job)
  /\ UNCHANGED <<company, faults, Outside>> /\ UnchangedRefunds

\* The call fails, or times out after it took effect.
CancelFails ==
  /\ pc = "cancel"
  /\ Fault /\ StepFailed("check", job)
  /\ \/ End(job.sub)
     \/ UNCHANGED <<provider, canceled>>
  /\ UNCHANGED Outside /\ UnchangedRefunds

\* providerEnded, after the last attempt; a failed call counts as not ended.
CheckEnded ==
  /\ pc = "check"
  /\ \/ Goto(IF Live(job.sub) THEN "release" ELSE "clear", job) /\ UNCHANGED faults
     \/ Goto("release", job) /\ Fault
  /\ UNCHANGED <<provider, company, canceled, Outside>> /\ UnchangedRefunds

\* The planned refunds are given up one by one, then the request is dropped.
ReleaseRow ==
  /\ pc = "release"
  /\ IF job.rows = {}
     THEN Goto("drop", job) /\ UNCHANGED remedy
     ELSE \E r \in job.rows :
             /\ remedy' = [remedy EXCEPT ![r] = IF @.status = "queued"
                             THEN [@ EXCEPT !.status = "failed", !.attempts = job.attempts + 1]
                             ELSE @]
             /\ Goto("release", [job EXCEPT !.rows = @ \ {r}])
  /\ UNCHANGED <<provider, company, refunds, inbox, hist, canceled, faults, Outside>>

\* The request of a plan that could not be ended is dropped and the customer
\* is told that the plan continues.
DropRequest ==
  /\ pc = "drop"
  /\ Drop
  /\ UNCHANGED <<provider, canceled, faults, Outside>> /\ UnchangedRefunds

ClearRequest ==
  /\ pc = "clear"
  /\ company' = Cleared
  /\ Goto(IF job.rows = {} THEN "idle" ELSE "send", job)
  /\ UNCHANGED <<provider, canceled, faults, Outside>> /\ UnchangedRefunds

(* Sending the refunds.                                                    *)

\* Mutant: a retry does not look for the refund an earlier attempt made.
Existing_None(r) == {}

\* listRefunds, by the reference in the reason.
Existing(r) == {i \in 1 .. Len(refunds) : refunds[i].row = r}

MakeRefund(r, state) ==
  /\ refunds' = Append(refunds, [row |-> r, state |-> state])
  /\ inbox' = IF state = "pending" THEN inbox ELSE inbox \cup {<<Len(refunds) + 1, state>>}

\* Finds the refund of an earlier attempt or makes one.
RefundInvoicePayment ==
  /\ pc = "send"
  /\ \E r \in job.rows :
       \/ \E i \in Existing(r) :
            /\ Goto("record", [job EXCEPT !.row = r, !.refund = i, !.state = refunds[i].state])
            /\ UNCHANGED <<refunds, inbox>>
       \/ \E state \in {"pending", "approved"} :
            /\ Existing(r) = {} /\ MakeRefund(r, state)
            /\ Goto("record", [job EXCEPT !.row = r, !.refund = Len(refunds) + 1, !.state = state])
  /\ UNCHANGED <<provider, company, remedy, hist, canceled, faults, Outside>>

NextRow(r) == Goto(IF job.rows = {r} THEN "idle" ELSE "send",
                   [job EXCEPT !.rows = @ \ {r}, !.row = NoRow, !.refund = 0, !.state = "pending"])

\* refundFailed: an attempt more on the row, given up after the last one.
RefundFailed(r) ==
  remedy' = [remedy EXCEPT ![r] =
    IF @.status # "queued" THEN @
    ELSE [@ EXCEPT !.attempts = remedy[r].attempts + 1,
                   !.status = IF remedy[r].attempts + 1 >= MaxAttempts THEN "failed" ELSE "queued"]]

\* The state the customer sees: money taken back reads as rejected.
HistoryStatusOf(state) == IF state = "reversed" THEN "rejected" ELSE state

\* The state of the remedy: a pending refund is initiated.
RemedyStatusOf(state) == IF state = "pending" THEN "initiated" ELSE state

\* The insert keeps a row that is there.
InsertRefund(i, state) ==
  [j \in DOMAIN hist \cup {i} |-> IF j \in DOMAIN hist THEN hist[j] ELSE HistoryStatusOf(state)]

\* The call, the insert or the update throws; the call and the insert may have
\* taken effect (an update that has is a MoveRemedy).
SendFails ==
  /\ pc \in {"send", "record", "settle"}
  /\ Fault
  /\ \E r \in job.rows :
        /\ pc # "send" => r = job.row
        /\ NextRow(r) /\ RefundFailed(r)
        /\ \/ UNCHANGED <<refunds, inbox>>
           \/ /\ pc = "send" /\ Existing(r) = {}
              /\ \E state \in {"pending", "approved"} : MakeRefund(r, state)
        /\ hist' = hist \/ (pc = "record" /\ hist' = InsertRefund(job.refund, job.state))
  /\ UNCHANGED <<provider, company, canceled, Outside>>

RecordRefund ==
  /\ pc = "record"
  /\ hist' = InsertRefund(job.refund, job.state)
  /\ Goto("settle", job)
  /\ UNCHANGED <<provider, company, refunds, inbox, remedy, canceled, faults, Outside>>

MoveRemedy ==
  /\ pc = "settle"
  /\ remedy' = [remedy EXCEPT ![job.row] =
        IF @.status = "queued"
        THEN [@ EXCEPT !.status = RemedyStatusOf(job.state), !.ref = job.refund] ELSE @]
  /\ NextRow(job.row)
  /\ UNCHANGED <<provider, company, refunds, inbox, hist, canceled, faults, Outside>>

\* The process dies: the lock goes with its connection.
Crash ==
  /\ pc # "idle" /\ Fault
  /\ Goto("idle", job)
  /\ UNCHANGED <<provider, company, canceled, Outside>> /\ UnchangedRefunds

Work == \/ PlanRefund \/ RefundBasis \/ SaveRows \/ ReplanIfRenewed \/ Supersede
        \/ CancelImmediately \/ CheckEnded \/ ReleaseRow \/ DropRequest \/ ClearRequest
        \/ RefundInvoicePayment \/ RecordRefund \/ MoveRemedy

-----------------------------------------------------------------------------
(* The provider's report on a refund.                                      *)

\* Mutant: an approval moves no row that is still queued.
SettleFrom_NotQueued(state) ==
  IF state = "approved" THEN {"initiated", "failed"} ELSE {"queued", "initiated", "approved"}

\* Mutant: an approval moves a row in any state.
SettleFrom_Unordered(state) ==
  IF state = "approved" THEN RemedyStatuses ELSE {"queued", "initiated", "approved"}

SettleFrom(state) ==
  CASE state = "approved" -> {"queued", "initiated", "failed"}
    [] state = "rejected" -> {"queued", "initiated"}
    [] state = "reversed" -> {"queued", "initiated", "approved"}

\* Makes the history row if the event beat the job to it, and sets its status.
SettleHistory(i, state) ==
  [j \in DOMAIN hist \cup {i} |-> IF j = i THEN HistoryStatusOf(state) ELSE hist[j]]

\* The row that holds the refund's id, else the row its reference names if
\* that row holds none.
RowOf(i) == {r \in Rows : remedy[r].ref = i \/ (refunds[i].row = r /\ remedy[r].ref = 0)}

\* The event may come again; the row and the history move in one transaction.
ApplyRefundUpdate(e) ==
  /\ Unlocked
  /\ inbox' \in {inbox, inbox \ {e}}
  /\ LET i == e[1]
         state == e[2]
         moved == {r \in RowOf(i) : remedy[r].status \in SettleFrom(state)}
     IN /\ remedy' = [r \in Rows |-> IF r \in moved
                        THEN [remedy[r] EXCEPT !.status = state, !.ref = i] ELSE remedy[r]]
        /\ hist' = IF moved = {} THEN hist ELSE SettleHistory(i, state)
  /\ UNCHANGED <<provider, company, refunds, Outside>> /\ UnchangedJob

-----------------------------------------------------------------------------
Init ==
  /\ provider = [s \in Subs |-> [state |-> "none", period |-> 1]]
  /\ refunds = <<>> /\ inbox = {}
  /\ company = [sub |-> NoSub, request |-> NoSub, age |-> "fresh", attempts |-> 0]
  /\ billed = 0 /\ team = 1 /\ asking = NoSub
  /\ remedy = [r \in Rows |-> [status |-> "none", sub |-> NoSub, period |-> 1, attempts |-> 0,
                               ref |-> 0, superseded |-> FALSE]]
  /\ hist = <<>>
  /\ pc = "idle"
  /\ job = NoJob
  /\ canceled = {} /\ unheard = {} /\ faults = 0

Environment == \/ \E s \in Subs : Subscribe(s) \/ Renew(s) \/ EndUnpaid(s)
               \/ RecordPayment \/ CancelRecorded \/ AddUser \/ RemoveUser
               \/ \E i \in 1 .. Len(refunds) : DecideRefund(i)
               \/ \E e \in inbox : ApplyRefundUpdate(e)

Customer == AskCancel \/ Request \/ Withdraw

Next == \/ Environment \/ Customer \/ Ripen
        \/ ExecuteFor \/ Work \/ PlanningFails \/ SaveUnheard \/ SupersedeUnheard \/ CancelFails \/ SendFails \/ Crash

Spec == Init /\ [][Next]_vars

\* The cron runs every 15 minutes, a run goes on until it returns, time passes.
FairSpec == Spec /\ WF_vars(ExecuteFor) /\ WF_vars(Work) /\ WF_vars(Ripen)

-----------------------------------------------------------------------------
(* Properties.                                                             *)

Company == [sub : Subs \cup {NoSub}, request : Subs \cup {NoSub},
            age : {"fresh", "due", "late"}, attempts : 0 .. MaxAttempts - 1]

Remedy == [status : RemedyStatuses, sub : Subs \cup {NoSub}, period : 1 .. MaxPeriods,
           attempts : 0 .. MaxAttempts, ref : Nat, superseded : BOOLEAN]

Job == [rows : SUBSET Rows, sub : Subs \cup {NoSub}, current : Subs \cup {NoSub},
        attempts : 0 .. MaxAttempts - 1, age : {"fresh", "due", "late"},
        period : 1 .. MaxPeriods, row : Rows \cup {NoRow}, refund : Nat, state : RefundStates]

\* Every variable stays in its range (the downgrade columns of companies,
\* payment_remedies, billing_history and the locals of executeFor).
TypeOK ==
  /\ provider \in [Subs -> [state : {"none", "live", "canceled"}, period : 1 .. MaxPeriods]]
  /\ refunds \in Seq([row : Rows, state : RefundStates])
  /\ inbox \subseteq (Nat \X RefundStates)
  /\ company \in Company /\ asking \in Subs \cup {NoSub}
  /\ billed \in 0 .. MaxPeriods /\ team \in 1 .. MaxTeam
  /\ remedy \in [Rows -> Remedy]
  /\ DOMAIN hist \subseteq 1 .. Len(refunds)
  /\ hist \in [DOMAIN hist -> {"pending", "approved", "rejected"}]
  /\ pc \in JobSteps \cup {"idle"} /\ job \in Job
  /\ canceled \subseteq Subs /\ unheard \subseteq Rows /\ faults \in Nat

RemedyOf(i) == remedy[refunds[i].row]

\* No refund leaves before the plan has ended: a failed cancel, a withdrawal, a
\* release or a crash between any two of their writes refunds nothing
\* (executeFor's order, and its rows with no request left).  Excepted are the
\* rows that the last attempt of a planning inserted without hearing of it: their
\* request is released with the rows read before, they stay queued, and the next
\* run sends them although the plan runs on.
RefundFollowsCancel ==
  \A i \in 1 .. Len(refunds) :
    refunds[i].row \in unheard \/ provider[RemedyOf(i).sub].state = "canceled"

\* One remedy is never paid out twice, however its calls time out and the
\* process dies between the call and the rows that record it.
OneRefundPerRemedy ==
  \A i, j \in 1 .. Len(refunds) : i # j => refunds[i].row # refunds[j].row

\* A row discarded because a renewal came first is one that was never sent (the
\* note replanIfRenewed leaves on it).
SupersededNeverSent == \A i \in 1 .. Len(refunds) : ~RemedyOf(i).superseded

\* A remedy that names a refund has its history row, whichever of the job and
\* the webhook came first.
RefundIsRecorded == \A r \in Rows : remedy[r].ref # 0 => remedy[r].ref \in DOMAIN hist

Quiet == pc = "idle" /\ inbox = {}

Follows(state) == IF state = "pending" THEN {"queued", "initiated"} ELSE {state}

\* With every report delivered, a remedy that was not given up has the state of
\* its refund, in whatever order the reports and the job's own answer came.
RemedyConverges ==
  Quiet => \A i \in 1 .. Len(refunds) :
    RemedyOf(i).attempts < MaxAttempts => RemedyOf(i).status \in Follows(refunds[i].state)

\* An approved remedy is one the provider approved and has not taken back: its
\* status follows the provider (payment-remedy.entity.ts), given up before or not.
ApprovedIsApproved ==
  Quiet => \A i \in 1 .. Len(refunds) :
    RemedyOf(i).status = "approved" => refunds[i].state = "approved"

\* With every report delivered, the customer's history shows what the remedy
\* says (the history insert of sendRefunds and its retry after a crash).
HistoryConverges ==
  Quiet => \A r \in Rows :
    remedy[r].ref # 0 /\ remedy[r].status \in RefundStates
      => hist[remedy[r].ref] = HistoryStatusOf(remedy[r].status)

\* The plan is ended only for a team of one (the recheck of planRefund).
CancelKeepsTeam == [][canceled' # canceled => team = 1]_vars

\* A withdrawal that is accepted keeps the plan: it is refused once the job has
\* ended the subscription (withdraw).
WithdrawnPlanContinues ==
  [][pc = "idle" /\ company.request # NoSub /\ company'.request = NoSub
       => company.request \notin canceled]_vars

\* The customer is told that the plan continues only of a plan that the job has
\* not ended (stepFailed and dropRequest).
ReleasedPlanContinues == pc = "drop" => job.sub \notin canceled

Given == {r \in Rows : remedy[r].status # "none"}

Lifecycle == INSTANCE RefundLifecycle WITH
  Refunds <- Rows,
  status  <- [r \in Rows |-> remedy[r].status],
  ended   <- {r \in Given : r \in unheard \/ ~Live(remedy[r].sub)},
  paid    <- {refunds[i].row : i \in 1 .. Len(refunds)}

\* The rows of payment_remedies implement the life of a refund: planned, paid
\* once and only when its plan has ended (a row excepted by RefundFollowsCancel
\* counts as one whose plan has), and settled in one direction.
ImplementsLifecycle == Lifecycle!LifecycleSpec

\* A due request is carried out, dropped or withdrawn in the end, the renewal
\* recorded or not, the provider failing or not.
RequestResolves == company.request # NoSub ~> company.request = NoSub

\* A queued refund is sent, settled or given up in the end, the process dying
\* at any step.
QueuedResolves == \A r \in Rows : remedy[r].status = "queued" ~> remedy[r].status # "queued"

\* Nothing is left half done: every request and every queued refund comes to an
\* end, whatever failed on the way (billing-downgrade.cron.ts).
DowngradesEnd == RequestResolves /\ QueuedResolves
=============================================================================
