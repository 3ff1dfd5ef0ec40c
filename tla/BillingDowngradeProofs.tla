----------------------- MODULE BillingDowngradeProofs -----------------------
(***************************************************************************)
(* Proofs about BillingDowngrade for any number of subscriptions, planned  *)
(* refunds, parts, periods, users, attempts and faults.                    *)
(***************************************************************************)
EXTENDS BillingDowngrade, SequenceTheorems, TLAPS

(* The plan of a row has ended, or the row was inserted unheard.           *)
Ended(r) == r \in unheard \/ (remedy[r].sub \in Subs /\ provider[remedy[r].sub].state = "canceled")

(* A subscription the application holds exists at the provider.            *)
SubsOK == \A s \in {company.sub, company.request, asking} \ {NoSub} : provider[s].state # "none"

(* A queued refund has attempts left; it belongs to the pending request,   *)
(* or to a plan that has ended.                                            *)
RowsOK ==
  \A r \in Rows :
    /\ remedy[r].status # "none" => remedy[r].sub \in Subs
    /\ r \in unheard => remedy[r].status # "none"
    /\ remedy[r].status = "queued" =>
         /\ remedy[r].attempts < MaxAttempts /\ ~remedy[r].superseded
         /\ IF company.request = NoSub THEN Ended(r) ELSE remedy[r].sub = company.request

(* Up to the cancel, the job holds every queued refund, all of one request; *)
(* only while it gives them up may there be some it has not heard of.       *)
PreSend == pc \in JobSteps \ {"send", "record", "settle"}

Missed == IF pc \in {"release", "drop"} THEN unheard ELSE {}

RequestOK ==
  PreSend =>
    /\ job.sub \in Subs /\ company.request = job.sub
    /\ Queued \subseteq job.rows \cup Missed
    /\ \A r \in job.rows : /\ remedy[r].status # "none" /\ remedy[r].sub = job.sub
                           /\ ~remedy[r].superseded
    /\ pc \in {"plan", "basis", "save", "drop"} => job.rows = {}
    /\ pc \in {"replan", "supersede"} => job.rows # {} /\ job.rows \subseteq Queued
    /\ pc = "clear" => provider[job.sub].state = "canceled"

(* While it sends, the job holds refunds of plans that have ended.         *)
SendingOK ==
  /\ pc \in {"send", "record", "settle"} =>
       /\ job.rows # {} /\ company.request = NoSub
       /\ \A r \in job.rows : /\ remedy[r].status # "none" /\ Ended(r)
                              /\ ~remedy[r].superseded
  /\ pc \in {"record", "settle"} => job.row \in job.rows /\ job.refund \in 1 .. Len(refunds)
  /\ pc = "settle" => job.refund \in DOMAIN hist

(* A refund that was made is one of a plan that had ended; while a request  *)
(* is pending, none of the rows it waits for has been sent.                 *)
RefundsOK ==
  \A i \in 1 .. Len(refunds) :
    /\ RemedyOf(i).status # "none" /\ Ended(refunds[i].row) /\ ~RemedyOf(i).superseded
    /\ RemedyOf(i).status = "queued" => company.request = NoSub

(* The provider reports decisions on the refunds it made.                  *)
InboxOK == \A e \in inbox : e[1] \in 1 .. Len(refunds) /\ e[2] # "pending"

IInv == /\ TypeOK /\ SubsOK /\ RowsOK /\ RequestOK /\ SendingOK /\ RefundsOK /\ InboxOK
        /\ OneRefundPerRemedy /\ RefundIsRecorded

USE DowngradeAssumption

-----------------------------------------------------------------------------
(* The provider, the buyer and the application.                            *)

LEMMA InitKeeps == Init => IInv
<1> SUFFICES ASSUME Init PROVE IInv
  OBVIOUS
<1>1. TypeOK
  BY DEF Init, TypeOK, Company, Remedy, RemedyStatuses, Job, NoJob, RefundStates
<1>2. SubsOK /\ RowsOK /\ RequestOK /\ SendingOK
  BY DEF Init, SubsOK, RowsOK, RequestOK, PreSend, Missed, JobSteps, SendingOK
<1>3. RefundsOK /\ InboxOK /\ OneRefundPerRemedy /\ RefundIsRecorded
  BY DEF Init, RefundsOK, InboxOK, OneRefundPerRemedy, RefundIsRecorded
<1> QED BY <1>1, <1>2, <1>3 DEF IInv

(* What the types say of one refund and one subscription.                  *)
LEMMA RefundType ==
  ASSUME TypeOK
  PROVE  /\ Len(refunds) \in Nat
         /\ \A i \in 1 .. Len(refunds) : refunds[i].row \in Rows /\ refunds[i].state \in RefundStates
<1> DEFINE R == [row : Rows, state : RefundStates]
<1>1. refunds \in Seq(R)
  BY DEF TypeOK
<1>2. \A x \in R : x.row \in Rows /\ x.state \in RefundStates
  OBVIOUS
<1> HIDE DEF R
<1>3. Len(refunds) \in Nat /\ \A i \in 1 .. Len(refunds) : refunds[i] \in R
  BY <1>1
<1> QED BY <1>2, <1>3

LEMMA ProviderType ==
  ASSUME TypeOK, NEW s \in Subs
  PROVE  provider[s] \in [state : {"none", "live", "canceled"}, period : 1 .. MaxPeriods]
BY DEF TypeOK

(* A subscription moves on at the provider.                                *)
LEMMA ProviderKeeps ==
  ASSUME IInv, NEW s \in Subs, Subscribe(s) \/ Renew(s) \/ EndUnpaid(s)
  PROVE  IInv'
<1>0. UNCHANGED <<refunds, inbox, remedy, hist, pc, job, canceled, unheard, faults, asking, company.request>>
  BY DEF Subscribe, Renew, EndUnpaid, UnchangedRefunds, UnchangedJob, IInv, TypeOK, Company
<1> DEFINE P == [state : {"none", "live", "canceled"}, period : 1 .. MaxPeriods]
<1>a. PICK now \in P : /\ provider' = [provider EXCEPT ![s] = now] /\ now.state # "none"
                       /\ provider[s].state = "canceled" => now.state = "canceled"
  <2>1. provider[s] \in P
    BY ProviderType DEF IInv
  <2>2. CASE Subscribe(s)
    <3> DEFINE now == [provider[s] EXCEPT !.state = "live"]
    <3>1. provider' = [provider EXCEPT ![s] = now] /\ provider[s].state = "none"
      BY <2>2 DEF Subscribe
    <3>2. now \in P /\ now.state = "live"
      BY <2>1
    <3> HIDE DEF now
    <3> QED BY <3>1, <3>2
  <2>3. CASE Renew(s)
    <3> DEFINE now == [provider[s] EXCEPT !.period = provider[s].period + 1]
    <3>1. /\ provider' = [provider EXCEPT ![s] = now]
          /\ provider[s].state = "live" /\ provider[s].period < MaxPeriods
      BY <2>3 DEF Renew, Live
    <3>2. now \in P /\ now.state = "live"
      BY <2>1, <3>1
    <3> HIDE DEF now
    <3> QED BY <3>1, <3>2
  <2>4. CASE EndUnpaid(s)
    <3> DEFINE now == [provider[s] EXCEPT !.state = "canceled"]
    <3>1. provider' = [provider EXCEPT ![s] = now]
      BY <2>4 DEF EndUnpaid
    <3>2. now \in P /\ now.state = "canceled"
      BY <2>1
    <3> HIDE DEF now
    <3> QED BY <3>1, <3>2
  <2> QED BY <2>2, <2>3, <2>4
<1>b. provider \in [Subs -> P]
  BY DEF IInv, TypeOK
<1>1. TypeOK'
  <2>1. provider' \in [Subs -> P]
    BY <1>a, <1>b
  <2>2. company' \in Company /\ billed' \in 0 .. MaxPeriods /\ team' \in 1 .. MaxTeam
    BY SMTT(30) DEF Subscribe, Renew, EndUnpaid, IInv, TypeOK, Company
  <2> QED BY <1>0, <2>1, <2>2 DEF IInv, TypeOK
<1>2. /\ \A u \in Subs : provider[u].state = "canceled" => provider'[u].state = "canceled"
      /\ \A u \in Subs : provider[u].state # "none" => provider'[u].state # "none"
      /\ company'.sub = company.sub \/ (company'.sub = s /\ provider'[s].state # "none")
  <2>1. company'.sub = company.sub \/ company'.sub = s
    BY DEF Subscribe, Renew, EndUnpaid, IInv, TypeOK, Company
  <2> QED BY <1>a, <1>b, <2>1
<1>3. SubsOK'
  BY <1>0, <1>2 DEF IInv, SubsOK, TypeOK, Company
<1>4. \A r \in Rows : Ended(r) => Ended(r)'
  BY <1>0, <1>2 DEF Ended
<1>5. RowsOK'
  BY <1>0, <1>4 DEF IInv, RowsOK
<1>6. RequestOK'
  BY <1>0, <1>2 DEF IInv, RequestOK, PreSend, Queued, Missed
<1>7. SendingOK'
  BY <1>0, <1>4 DEF IInv, SendingOK, TypeOK, Job
<1>8. RefundsOK'
  BY <1>0, <1>4, RefundType DEF IInv, RefundsOK, RemedyOf
<1>9. InboxOK' /\ OneRefundPerRemedy' /\ RefundIsRecorded'
  BY <1>0 DEF IInv, InboxOK, OneRefundPerRemedy, RefundIsRecorded
<1> QED BY <1>1, <1>3, <1>5, <1>6, <1>7, <1>8, <1>9 DEF IInv

(* Nothing about the refunds and the job moves, and the request is the     *)
(* same or, with no refund queued and no job running, another.             *)
LEMMA CompanyKeeps ==
  ASSUME IInv, UnchangedRefunds, UnchangedJob, UNCHANGED provider,
         company' \in Company, asking' \in Subs \cup {NoSub},
         billed' \in 0 .. MaxPeriods, team' \in 1 .. MaxTeam,
         company'.sub \in {company.sub, NoSub}, asking' \in {asking, company.sub, NoSub},
         \/ company'.request = company.request
         \/ pc = "idle" /\ Queued = {} /\ company'.request \in {asking, NoSub}
  PROVE  IInv'
<1>1. TypeOK'
  BY DEF IInv, TypeOK, UnchangedRefunds, UnchangedJob
<1>2. SubsOK'
  BY DEF IInv, SubsOK
<1>3. \A r \in Rows : Ended(r)' <=> Ended(r)
  BY DEF Ended, UnchangedRefunds, UnchangedJob
<1>4. RowsOK'
  BY <1>3 DEF IInv, RowsOK, UnchangedRefunds, UnchangedJob, Queued
<1>5. RequestOK'
  BY DEF IInv, RequestOK, PreSend, JobSteps, Queued, Missed, UnchangedRefunds, UnchangedJob
<1>6. SendingOK'
  BY <1>3 DEF IInv, SendingOK, UnchangedRefunds, UnchangedJob, TypeOK, Job, JobSteps
<1>7. RefundsOK'
  <2>1. \A i \in 1 .. Len(refunds) : RemedyOf(i).status = "queued" => refunds[i].row \in Queued
    BY RefundType DEF IInv, RemedyOf, Queued
  <2> QED BY <1>3, <2>1, RefundType DEF IInv, RefundsOK, RemedyOf, UnchangedRefunds, UnchangedJob
<1>8. InboxOK' /\ OneRefundPerRemedy' /\ RefundIsRecorded'
  BY DEF IInv, InboxOK, OneRefundPerRemedy, RefundIsRecorded, UnchangedRefunds
<1> QED BY <1>1, <1>2, <1>4, <1>5, <1>6, <1>7, <1>8 DEF IInv

LEMMA ClearedType ==
  ASSUME company \in Company
  PROVE  Cleared \in Company /\ Cleared.sub = company.sub /\ Cleared.request = NoSub
<1>1. 0 \in 0 .. MaxAttempts - 1
  OBVIOUS
<1> QED BY <1>1 DEF Cleared, Company

LEMMA ApplicationKeeps ==
  ASSUME IInv, \/ RecordPayment \/ CancelRecorded \/ AddUser \/ RemoveUser
               \/ Customer \/ Ripen
  PROVE  IInv'
<1>0. /\ company \in Company /\ asking \in Subs \cup {NoSub}
      /\ billed \in 0 .. MaxPeriods /\ team \in 1 .. MaxTeam
  BY DEF IInv, TypeOK
<1>1. CASE RecordPayment
  <2>1. company.sub \in Subs /\ provider[company.sub].period \in 1 .. MaxPeriods
    BY <1>1 DEF RecordPayment, IInv, TypeOK, Company
  <2>2. billed' \in 0 .. MaxPeriods
    BY <1>0, <1>1, <2>1 DEF RecordPayment
  <2> QED BY <1>0, <1>1, <2>2, CompanyKeeps DEF RecordPayment
<1>2. CASE CancelRecorded
  <2>1. company' \in Company /\ company'.sub = NoSub /\ company'.request = company.request
    BY <1>0, <1>2 DEF CancelRecorded, Company
  <2> QED BY <1>0, <1>2, <2>1, CompanyKeeps DEF CancelRecorded
<1>3. CASE AddUser \/ RemoveUser
  <2>1. team' \in 1 .. MaxTeam
    BY <1>0, <1>3 DEF AddUser, RemoveUser
  <2> QED BY <1>0, <1>3, <2>1, CompanyKeeps DEF AddUser, RemoveUser
<1>4. CASE AskCancel
  <2>1. asking' \in Subs \cup {NoSub} /\ asking' = company.sub
    BY <1>0, <1>4 DEF AskCancel, Company
  <2> QED BY <1>0, <1>4, <2>1, CompanyKeeps DEF AskCancel
<1>5. CASE Request
  <2>1. CASE Accepts
    <3>1. company' = [Cleared EXCEPT !.request = asking] /\ asking' = NoSub
      BY <1>5, <2>1 DEF Request
    <3>2. company' \in Company /\ company'.sub = company.sub /\ company'.request = asking
      BY <1>0, <3>1, ClearedType DEF Company
    <3> QED BY <1>0, <1>5, <2>1, <3>1, <3>2, CompanyKeeps DEF Request, Accepts, Unlocked
  <2>2. CASE ~Accepts
    BY <1>0, <1>5, <2>2, CompanyKeeps DEF Request
  <2> QED BY <2>1, <2>2
<1>6. CASE Withdraw
  BY <1>0, <1>6, ClearedType, CompanyKeeps DEF Withdraw, Withdrawable, Unlocked
<1>7. CASE Ripen
  <2>1. company' \in Company /\ company'.sub = company.sub /\ company'.request = company.request
    BY <1>0, <1>7 DEF Ripen, Company
  <2> QED BY <1>0, <1>7, <2>1, CompanyKeeps DEF Ripen
<1> QED BY <1>1, <1>2, <1>3, <1>4, <1>5, <1>6, <1>7 DEF Customer

-----------------------------------------------------------------------------
(* The job's steps that leave the refunds alone.                           *)

Subscription == [state : {"none", "live", "canceled"}, period : 1 .. MaxPeriods]

(* What the provider has started stays started, what it ended stays ended. *)
Onward == \A s \in Subs : /\ provider[s].state = "canceled" => provider'[s].state = "canceled"
                          /\ provider[s].state # "none" => provider'[s].state # "none"

LEMMA JobMoves ==
  ASSUME IInv, UnchangedRefunds, UNCHANGED Outside,
         provider' \in [Subs -> Subscription], Onward,
         company' \in Company, company'.sub = company.sub,
         canceled' \subseteq Subs, faults' \in Nat,
         pc' \in JobSteps \cup {"idle"}, job' \in Job,
         \/ company'.request = company.request
         \/ company'.request = NoSub /\ \A r \in Queued : Ended(r)',
         RequestOK', SendingOK'
  PROVE  IInv'
<1>1. TypeOK'
  BY DEF IInv, TypeOK, UnchangedRefunds, Outside, Subscription
<1>2. SubsOK'
  BY DEF IInv, SubsOK, TypeOK, Company, Onward, Outside
<1>3. \A r \in Rows : Ended(r) => Ended(r)'
  BY DEF Ended, Onward, UnchangedRefunds, Outside
<1>4. RowsOK'
  BY <1>3 DEF IInv, RowsOK, UnchangedRefunds, Outside, Queued
<1>5. RefundsOK'
  BY <1>3, RefundType DEF IInv, RefundsOK, RemedyOf, UnchangedRefunds
<1>6. InboxOK' /\ OneRefundPerRemedy' /\ RefundIsRecorded'
  BY DEF IInv, InboxOK, OneRefundPerRemedy, RefundIsRecorded, UnchangedRefunds
<1> QED BY <1>1, <1>2, <1>4, <1>5, <1>6 DEF IInv

LEMMA NoJobType == NoJob \in Job
BY DEF NoJob, Job, RefundStates

LEMMA JobStops ==
  ASSUME IInv, UnchangedRefunds, UNCHANGED Outside,
         provider' \in [Subs -> Subscription], Onward,
         company' \in Company, company'.sub = company.sub,
         canceled' \subseteq Subs, faults' \in Nat,
         pc' = "idle", job' = NoJob,
         \/ company'.request = company.request
         \/ company'.request = NoSub /\ \A r \in Queued : Ended(r)'
  PROVE  IInv'
<1>1. RequestOK' /\ SendingOK'
  BY DEF RequestOK, SendingOK, PreSend, JobSteps
<1> QED BY <1>1, JobMoves, NoJobType

(* A step that stays before the cancel and holds the same refunds.         *)
LEMMA JobGoesOn ==
  ASSUME IInv, UnchangedRefunds, UNCHANGED <<Outside, company>>, PreSend,
         provider' \in [Subs -> Subscription], Onward,
         canceled' \subseteq Subs, faults' \in Nat,
         NEW step \in JobSteps \ {"send", "record", "settle", "supersede"}, pc' = step,
         job' \in Job, job'.sub = job.sub, job'.rows = job.rows,
         step \in {"plan", "basis", "save", "drop"} => job.rows = {},
         step = "replan" => job.rows # {} /\ job.rows \subseteq Queued,
         pc \in {"release", "drop"} => step \in {"release", "drop"},
         step = "clear" => provider'[job.sub].state = "canceled"
  PROVE  IInv'
<1>1. RequestOK'
  BY DEF IInv, RequestOK, PreSend, Queued, Missed, UnchangedRefunds, Outside
<1>2. SendingOK'
  BY DEF SendingOK, JobSteps
<1>3. company' \in Company /\ pc' \in JobSteps \cup {"idle"}
  BY DEF IInv, TypeOK
<1> QED BY <1>1, <1>2, <1>3, JobMoves

(* What a job before its cancel holds.                                     *)
LEMMA BeforeCancel ==
  ASSUME IInv, PreSend
  PROVE  /\ job.sub \in Subs /\ company.request = job.sub
         /\ Queued \subseteq job.rows \cup Missed /\ Missed \subseteq unheard
         /\ pc \notin {"release", "drop"} => Queued \subseteq job.rows
         /\ provider[job.sub] \in Subscription /\ provider[job.sub].state # "none"
         /\ pc \in {"plan", "basis", "save", "drop"} => job.rows = {} /\ Queued \subseteq unheard
         /\ pc \in {"plan", "basis", "save"} => Queued = {}
         /\ job.attempts \in 0 .. MaxAttempts - 1
         /\ pc \in {"replan", "supersede"} => job.rows # {} /\ job.rows \subseteq Queued
<1>1. /\ job.sub \in Subs /\ company.request = job.sub /\ Queued \subseteq job.rows \cup Missed
      /\ pc \in {"plan", "basis", "save", "drop"} => job.rows = {}
      /\ pc \in {"replan", "supersede"} => job.rows # {} /\ job.rows \subseteq Queued
  BY DEF IInv, RequestOK
<1>m. Missed \subseteq unheard /\ (pc \notin {"release", "drop"} => Missed = {})
  BY DEF Missed
<1>2. provider[job.sub].state # "none"
  BY <1>1 DEF IInv, SubsOK
<1>3. provider[job.sub] \in Subscription
  BY <1>1, ProviderType DEF IInv, Subscription
<1>4. job.attempts \in 0 .. MaxAttempts - 1
  BY DEF IInv, TypeOK, Job
<1> QED BY <1>1, <1>m, <1>2, <1>3, <1>4

LEMMA DropKeeps ==
  ASSUME IInv, pc \in {"plan", "basis", "drop"}, Drop,
         UnchangedRefunds, UNCHANGED <<provider, canceled, faults, Outside>>
  PROVE  IInv'
<1>1. PreSend
  BY DEF PreSend, JobSteps
<1>2. \A r \in Queued : Ended(r)'
  BY <1>1, BeforeCancel DEF Ended, Outside
<1>3. company' \in Company /\ company'.sub = company.sub /\ company'.request = NoSub
  BY ClearedType DEF IInv, TypeOK, Drop
<1>4. pc' = "idle" /\ job' = NoJob
  BY DEF Drop, Goto
<1>5. /\ provider' \in [Subs -> Subscription] /\ Onward
      /\ canceled' \subseteq Subs /\ faults' \in Nat
  BY DEF IInv, TypeOK, Subscription, Onward
<1> QED BY <1>2, <1>3, <1>4, <1>5, JobStops

LEMMA FailKeeps ==
  ASSUME IInv, PreSend, pc \notin {"release", "drop"},
         NEW last \in {"release", "check"}, StepFailed(last, job),
         UnchangedRefunds, UNCHANGED Outside, faults' \in Nat,
         provider' \in [Subs -> Subscription], Onward, canceled' \subseteq Subs
  PROVE  IInv'
<1>1. CASE ~LastAttempt
  <2>1. company' = [company EXCEPT !.attempts = job.attempts + 1] /\ pc' = "idle" /\ job' = NoJob
    BY <1>1 DEF StepFailed, Goto
  <2>2. job.attempts + 1 \in 0 .. MaxAttempts - 1
    BY <1>1, BeforeCancel DEF LastAttempt
  <2>3. /\ company' \in Company /\ company'.sub = company.sub
        /\ company'.request = company.request
    BY <2>1, <2>2 DEF IInv, TypeOK, Company
  <2> QED BY <2>1, <2>3, JobStops
<1>2. CASE LastAttempt
  <2>1. UNCHANGED company /\ pc' = last /\ job' = job
    BY <1>2 DEF StepFailed, Goto
  <2>2. last \in JobSteps \ {"send", "record", "settle", "supersede"}
    BY DEF JobSteps
  <2>3. job' \in Job
    BY <2>1 DEF IInv, TypeOK
  <2> QED BY <2>1, <2>2, <2>3, JobGoesOn
<1> QED BY <1>1, <1>2

LEMMA NowType ==
  ASSUME IInv
  PROVE  /\ provider \in [Subs -> Subscription] /\ company \in Company /\ job \in Job
         /\ canceled \subseteq Subs /\ faults \in Nat /\ remedy \in [Rows -> Remedy]
         /\ pc \in JobSteps \cup {"idle"}
         /\ UNCHANGED provider => Onward
BY DEF IInv, TypeOK, Subscription, Onward

LEMMA StartKeeps ==
  ASSUME IInv, ExecuteFor
  PROVE  IInv'
<1> DEFINE step == IF company.request = NoSub THEN "send" ELSE IF Queued = {} THEN "plan" ELSE "replan"
<1>1. /\ pc' = step
      /\ job' = [NoJob EXCEPT !.rows = Queued, !.sub = company.request, !.current = company.sub,
                              !.attempts = company.attempts, !.age = company.age]
      /\ UnchangedRefunds /\ UNCHANGED <<provider, company, canceled, faults, Outside>>
  BY DEF ExecuteFor, Goto
<1>2. /\ job'.rows = Queued /\ job'.sub = company.request /\ job' \in Job
  <2>1. job' = [rows |-> Queued, sub |-> company.request, current |-> company.sub,
                attempts |-> company.attempts, age |-> company.age,
                period |-> 1, row |-> NoRow, refund |-> 0, state |-> "pending"]
    BY <1>1 DEF NoJob
  <2>2. Queued \in SUBSET Rows
    BY DEF Queued
  <2>3. /\ company.request \in Subs \cup {NoSub} /\ company.sub \in Subs \cup {NoSub}
        /\ company.attempts \in 0 .. MaxAttempts - 1 /\ company.age \in {"fresh", "due", "late"}
    BY NowType DEF Company
  <2> QED BY <2>1, <2>2, <2>3 DEF Job, RefundStates
<1>3. company.request = NoSub => Queued # {}
  BY DEF ExecuteFor, Starts
<1>4. RequestOK'
  BY <1>1, <1>2, NowType DEF IInv, RowsOK, RequestOK, PreSend, Queued, Missed, UnchangedRefunds, Company
<1>5. SendingOK'
  BY <1>1, <1>2, <1>3 DEF IInv, RowsOK, SendingOK, Queued, UnchangedRefunds, Ended, Outside
<1>6. step \in JobSteps \cup {"idle"}
  BY DEF JobSteps
<1> QED BY <1>1, <1>2, <1>4, <1>5, <1>6, NowType, JobMoves

LEMMA PlanningKeeps ==
  ASSUME IInv, PlanRefund \/ RefundBasis \/ PlanningFails
  PROVE  IInv'
<1>1. CASE PlanRefund
  <2>1. PreSend /\ pc = "plan"
    BY <1>1 DEF PlanRefund, PreSend, JobSteps
  <2>2. CASE Drop
    BY <1>1, <2>1, <2>2, DropKeeps DEF PlanRefund
  <2>3. CASE Goto("basis", job) /\ UNCHANGED company
    <3>1. pc' = "basis" /\ job' = job /\ "basis" \in JobSteps
      BY <2>3 DEF Goto, JobSteps
    <3> QED BY <1>1, <2>1, <2>3, <3>1, NowType, BeforeCancel, JobGoesOn DEF PlanRefund
  <2> QED BY <1>1, <2>2, <2>3 DEF PlanRefund
<1>2. CASE RefundBasis
  <2>1. PreSend /\ pc = "basis"
    BY <1>2 DEF RefundBasis, PreSend, JobSteps
  <2>2. CASE Drop
    BY <1>2, <2>1, <2>2, DropKeeps DEF RefundBasis
  <2>3. CASE Goto("save", [job EXCEPT !.period = provider[job.sub].period]) /\ UNCHANGED company
    <3>1. pc' = "save" /\ job' = [job EXCEPT !.period = provider[job.sub].period]
          /\ "save" \in JobSteps
      BY <2>3 DEF Goto, JobSteps
    <3>2. provider[job.sub].period \in 1 .. MaxPeriods
      BY <2>1, BeforeCancel DEF Subscription
    <3>3. job' \in Job /\ job'.sub = job.sub /\ job'.rows = job.rows
      BY <3>1, <3>2, NowType DEF Job
    <3> QED BY <1>2, <2>1, <2>3, <3>1, <3>3, NowType, BeforeCancel, JobGoesOn DEF RefundBasis
  <2> QED BY <1>2, <2>2, <2>3 DEF RefundBasis
<1>3. CASE PlanningFails
  <2>1. PreSend /\ faults' \in Nat
    BY <1>3, NowType DEF PlanningFails, PreSend, JobSteps, Fault
  <2> QED BY <1>3, <2>1, NowType, FailKeeps DEF PlanningFails, Outside
<1> QED BY <1>1, <1>2, <1>3

LEMMA ReplanKeeps ==
  ASSUME IInv, ReplanIfRenewed
  PROVE  IInv'
<1>0. pc = "replan" /\ PreSend
  BY DEF ReplanIfRenewed, PreSend, JobSteps
<1>1. PICK r \in job.rows :
        Goto(IF Live(job.sub)
                /\ <<remedy[r].sub, remedy[r].period>> # <<job.sub, provider[job.sub].period>>
             THEN "supersede" ELSE "cancel", job)
  BY DEF ReplanIfRenewed
<1>2. /\ job' = job /\ UnchangedRefunds
      /\ UNCHANGED <<provider, company, canceled, faults, Outside>>
      /\ pc' \in {"supersede", "cancel"}
      /\ pc' = "supersede" => Live(job.sub)
  BY <1>1 DEF Goto, ReplanIfRenewed
<1>3. CASE pc' = "cancel"
  <2>1. "cancel" \in JobSteps \ {"send", "record", "settle", "supersede"}
    BY DEF JobSteps
  <2> QED BY <1>0, <1>2, <1>3, <2>1, NowType, JobGoesOn
<1>4. CASE pc' = "supersede"
  <2>2. RequestOK'
    BY <1>0, <1>2, <1>4 DEF IInv, RequestOK, PreSend, Queued, Missed, UnchangedRefunds, JobSteps
  <2>3. SendingOK'
    BY <1>4 DEF SendingOK
  <2>4. "supersede" \in JobSteps \cup {"idle"}
    BY DEF JobSteps
  <2> QED BY <1>2, <1>4, <2>2, <2>3, <2>4, NowType, JobMoves
<1> QED BY <1>2, <1>3, <1>4

LEMMA EndKeeps ==
  ASSUME IInv, NEW s \in Subs, End(s)
  PROVE  /\ provider' \in [Subs -> Subscription] /\ Onward /\ canceled' \subseteq Subs
         /\ provider'[s].state = "canceled"
<1> DEFINE now == [provider[s] EXCEPT !.state = "canceled"]
<1>1. provider' = [provider EXCEPT ![s] = now]
  BY DEF End
<1>2. now \in Subscription /\ now.state = "canceled"
  BY ProviderType DEF Subscription, IInv
<1> HIDE DEF now
<1>3. provider' \in [Subs -> Subscription] /\ Onward /\ provider'[s].state = "canceled"
  BY <1>1, <1>2, NowType DEF Onward
<1>4. canceled' \subseteq Subs
  BY NowType DEF End
<1> QED BY <1>3, <1>4

LEMMA CancelKeeps ==
  ASSUME IInv, CancelImmediately \/ CancelFails \/ CheckEnded
  PROVE  IInv'
<1>0. PreSend
  BY DEF CancelImmediately, CancelFails, CheckEnded, PreSend, JobSteps
<1>1. "clear" \in JobSteps \ {"send", "record", "settle", "supersede"}
      /\ "release" \in JobSteps \ {"send", "record", "settle", "supersede"}
  BY DEF JobSteps
<1>2. job.sub \in Subs /\ provider[job.sub].state \in {"live", "canceled"}
  BY <1>0, BeforeCancel DEF Subscription
<1>3. CASE CancelImmediately
  <2>1. pc' = "clear" /\ job' = job
    BY <1>3 DEF CancelImmediately, Goto
  <2>2. /\ provider' \in [Subs -> Subscription] /\ Onward /\ canceled' \subseteq Subs
        /\ provider'[job.sub].state = "canceled"
    BY <1>2, <1>3, EndKeeps DEF CancelImmediately
  <2> QED BY <1>0, <1>1, <1>3, <2>1, <2>2, NowType, JobGoesOn DEF CancelImmediately
<1>4. CASE CancelFails
  <2>1. /\ provider' \in [Subs -> Subscription] /\ Onward /\ canceled' \subseteq Subs
        /\ faults' \in Nat
    BY <1>2, <1>4, EndKeeps, NowType DEF CancelFails, Fault
  <2> QED BY <1>0, <1>4, <2>1, FailKeeps DEF CancelFails, Outside
<1>5. CASE CheckEnded
  <2>1. /\ job' = job /\ pc' \in {"release", "clear"} /\ faults' \in Nat
        /\ pc' = "clear" => ~Live(job.sub)
    BY <1>5, NowType DEF CheckEnded, Goto, Fault
  <2>2. pc' = "clear" => provider[job.sub].state = "canceled"
    BY <1>2, <2>1 DEF Live
  <2> QED BY <1>0, <1>1, <1>5, <2>1, <2>2, NowType, JobGoesOn DEF CheckEnded
<1> QED BY <1>3, <1>4, <1>5

LEMMA ClearKeeps ==
  ASSUME IInv, ClearRequest
  PROVE  IInv'
<1>0. PreSend /\ pc = "clear"
  BY DEF ClearRequest, PreSend, JobSteps
<1>1. /\ company' = Cleared /\ UnchangedRefunds
      /\ UNCHANGED <<provider, canceled, faults, Outside>>
      /\ Goto(IF job.rows = {} THEN "idle" ELSE "send", job)
  BY DEF ClearRequest
<1>2. company' \in Company /\ company'.sub = company.sub /\ company'.request = NoSub
  BY <1>1, ClearedType, NowType
<1>3. \A r \in job.rows : /\ remedy[r].status # "none" /\ Ended(r)' /\ Ended(r)
                          /\ ~remedy[r].superseded
  BY <1>0, <1>1 DEF IInv, RequestOK, Ended, UnchangedRefunds, Outside
<1>4. Queued \subseteq job.rows
  BY <1>0, BeforeCancel
<1>5. CASE job.rows = {}
  <2>1. pc' = "idle" /\ job' = NoJob /\ Queued = {}
    BY <1>1, <1>4, <1>5 DEF Goto
  <2> QED BY <1>1, <1>2, <2>1, NowType, JobStops
<1>6. CASE job.rows # {}
  <2>1. pc' = "send" /\ job' = job /\ "send" \in JobSteps
    BY <1>1, <1>6 DEF Goto, JobSteps
  <2>2. SendingOK'
    BY <1>1, <1>2, <1>3, <1>6, <2>1 DEF SendingOK, UnchangedRefunds
  <2>3. RequestOK'
    BY <2>1 DEF RequestOK, PreSend
  <2> QED BY <1>1, <1>2, <1>3, <1>4, <2>1, <2>2, <2>3, NowType, JobMoves
<1> QED BY <1>5, <1>6

-----------------------------------------------------------------------------
(* The steps that write the planned refunds.                               *)

(* The rows change and nothing else but the job; what is proved of the new *)
(* rows is what the invariant says of them.                                *)
LEMMA RowsMove ==
  ASSUME IInv, UNCHANGED <<provider, refunds, inbox, hist, canceled, billed, team, asking>>,
         company' \in Company, company'.sub = company.sub, company'.request = company.request,
         unheard \subseteq unheard', unheard' \subseteq Rows,
         faults' \in Nat, remedy' \in [Rows -> Remedy],
         pc' \in JobSteps \cup {"idle"}, job' \in Job,
         \A r \in Rows : \/ remedy[r].status = "none"
                         \/ /\ remedy'[r].status # "none" /\ remedy'[r].sub = remedy[r].sub
                            /\ remedy'[r].status = "queued" => remedy[r].status = "queued"
                            /\ remedy'[r].superseded =>
                                 \/ remedy[r].superseded
                                 \/ \A i \in 1 .. Len(refunds) : refunds[i].row # r,
         \A r \in Rows : remedy'[r].ref # 0 => remedy'[r].ref \in DOMAIN hist,
         RowsOK', RequestOK', SendingOK'
  PROVE  IInv'
<1>1. TypeOK'
  BY DEF IInv, TypeOK
<1>2. SubsOK' /\ InboxOK' /\ OneRefundPerRemedy'
  BY DEF IInv, SubsOK, InboxOK, OneRefundPerRemedy
<1>3. RefundIsRecorded'
  BY DEF RefundIsRecorded
<1>4. ASSUME NEW i \in 1 .. Len(refunds)
      PROVE  /\ RemedyOf(i)'.status # "none" /\ Ended(refunds[i].row)' /\ ~RemedyOf(i)'.superseded
             /\ RemedyOf(i)'.status = "queued" => company'.request = NoSub
  <2>1. /\ refunds[i].row \in Rows /\ remedy[refunds[i].row].status # "none"
        /\ Ended(refunds[i].row) /\ ~remedy[refunds[i].row].superseded
        /\ remedy[refunds[i].row].status = "queued" => company.request = NoSub
    BY RefundType DEF IInv, RefundsOK, RemedyOf
  <2>2. /\ remedy'[refunds[i].row].status # "none" /\ ~remedy'[refunds[i].row].superseded
        /\ remedy'[refunds[i].row].sub = remedy[refunds[i].row].sub
        /\ remedy'[refunds[i].row].status = "queued" => remedy[refunds[i].row].status = "queued"
    BY <2>1
  <2> QED BY <2>1, <2>2 DEF RemedyOf, Ended
<1>5. RefundsOK'
  BY <1>4 DEF RefundsOK, RemedyOf, Ended
<1> QED BY <1>1, <1>2, <1>3, <1>5 DEF IInv

(* What is written of a plan, whether the job hears of it or not.          *)
LEMMA RowsSaved ==
  ASSUME IInv, pc = "save", NEW rows \in SUBSET Fresh,
         remedy' = [r \in Rows |-> IF r \in rows THEN Planned ELSE remedy[r]],
         UNCHANGED <<provider, refunds, inbox, hist, canceled, billed, team, asking>>,
         company' \in Company, company'.sub = company.sub, company'.request = company.request,
         unheard \subseteq unheard', unheard' \subseteq unheard \cup rows,
         faults' \in Nat, pc' \in JobSteps \cup {"idle"}, job' \in Job,
         \/ pc' = "idle"
         \/ /\ pc' \in {"cancel", "release"} /\ job'.sub = job.sub
            /\ \/ job'.rows = rows
               \/ pc' = "release" /\ job'.rows = {} /\ rows \subseteq unheard'
  PROVE  IInv'
<1>1. PreSend
  BY DEF PreSend, JobSteps
<1>2. rows \subseteq Rows /\ \A r \in rows : remedy[r].status = "none"
  BY DEF Fresh
<1>3. job.sub \in Subs /\ company.request = job.sub /\ Queued = {}
  BY <1>1, BeforeCancel
<1>4. /\ Planned \in Remedy /\ Planned.sub = job.sub /\ Planned.attempts = 0 /\ Planned.ref = 0
      /\ Planned.status = "queued" /\ ~Planned.superseded
  BY <1>3, NowType DEF Planned, Remedy, RemedyStatuses, Job
<1>5. remedy' \in [Rows -> Remedy]
  BY <1>4, NowType
<1>6. \A r \in Rows : remedy'[r] = IF r \in rows THEN Planned ELSE remedy[r]
  OBVIOUS
<1>7. \A r \in Rows : remedy'[r].status = "queued" => r \in rows
  BY <1>3, <1>6 DEF Queued
<1>8. RowsOK'
  BY <1>3, <1>4, <1>6, <1>7 DEF IInv, RowsOK
<1>9. RequestOK'
  BY <1>2, <1>3, <1>4, <1>6, <1>7 DEF RequestOK, PreSend, JobSteps, Queued, Missed
<1>10. SendingOK'
  BY DEF SendingOK
<1>11. \A r \in Rows : remedy'[r].ref # 0 => remedy'[r].ref \in DOMAIN hist
  BY <1>4, <1>6 DEF IInv, RefundIsRecorded
<1>12. \A r \in Rows : remedy[r].status = "none" \/ remedy'[r] = remedy[r]
  BY <1>2, <1>6
<1>13. unheard' \subseteq Rows
  BY <1>2 DEF IInv, TypeOK
<1> QED BY <1>13, <1>5, <1>8, <1>9, <1>10, <1>11, <1>12, RowsMove

LEMMA SaveKeeps ==
  ASSUME IInv, SaveRows
  PROVE  IInv'
<1>1. UNCHANGED <<provider, company, refunds, inbox, hist, canceled, faults, Outside>> /\ pc = "save"
  BY DEF SaveRows
<1>2. CASE Waits
  <2>1. pc' = "idle" /\ job' = NoJob /\ UNCHANGED remedy
    BY <1>2 DEF SaveRows, Goto
  <2> QED BY <1>1, <2>1, NowType, JobStops DEF UnchangedRefunds
<1>3. CASE ~Waits
  <2>1. PICK rows \in SUBSET Fresh :
          /\ remedy' = [r \in Rows |-> IF r \in rows THEN Planned ELSE remedy[r]]
          /\ Goto("cancel", [job EXCEPT !.rows = rows])
    BY <1>3 DEF SaveRows
  <2>2. /\ pc' = "cancel" /\ pc' \in JobSteps
        /\ job' \in Job /\ job'.rows = rows /\ job'.sub = job.sub
    <3>1. pc' = "cancel" /\ job' = [job EXCEPT !.rows = rows] /\ rows \subseteq Rows
      BY <2>1 DEF Goto, Fresh
    <3> QED BY <3>1, NowType DEF Job, JobSteps
  <2>3. unheard' = unheard /\ UNCHANGED <<billed, team, asking>>
    BY <1>1 DEF Outside
  <2> QED BY <1>1, <2>1, <2>2, <2>3, NowType, RowsSaved
<1> QED BY <1>2, <1>3

(* What a failed attempt of the planning leaves of the request.            *)
LEMMA FailGoes ==
  ASSUME IInv, PreSend, NEW locals \in Job, StepFailed("release", locals), Fault
  PROVE  /\ company' \in Company /\ company'.sub = company.sub
         /\ company'.request = company.request
         /\ IF LastAttempt THEN pc' = "release" /\ job' = locals
                           ELSE pc' = "idle" /\ job' = NoJob
         /\ pc' \in JobSteps \cup {"idle"} /\ job' \in Job /\ faults' \in Nat
<1>1. faults' \in Nat
  BY NowType DEF Fault
<1>2. CASE ~LastAttempt
  <2>1. company' = [company EXCEPT !.attempts = job.attempts + 1] /\ pc' = "idle" /\ job' = NoJob
    BY <1>2 DEF StepFailed, Goto
  <2>2. job.attempts + 1 \in 0 .. MaxAttempts - 1
    BY <1>2, BeforeCancel DEF LastAttempt
  <2> QED BY <1>1, <1>2, <2>1, <2>2, NowType, NoJobType DEF Company
<1>3. CASE LastAttempt
  BY <1>1, <1>3, NowType DEF StepFailed, Goto, JobSteps
<1> QED BY <1>2, <1>3

LEMMA SaveUnheardKeeps ==
  ASSUME IInv, SaveUnheard
  PROVE  IInv'
<1>1. pc = "save" /\ PreSend /\ job \in Job /\ job.rows = {}
  BY NowType DEF SaveUnheard, PreSend, JobSteps, IInv, RequestOK
<1>2. PICK rows \in SUBSET Fresh :
        /\ remedy' = [r \in Rows |-> IF r \in rows THEN Planned ELSE remedy[r]]
        /\ unheard' = IF LastAttempt THEN unheard \cup rows ELSE unheard
  BY DEF SaveUnheard
<1>3. UNCHANGED <<provider, refunds, inbox, hist, canceled, billed, team, asking>>
  BY DEF SaveUnheard
<1>4. unheard \subseteq unheard' /\ unheard' \subseteq unheard \cup rows
  BY <1>2
<1>5. /\ company' \in Company /\ company'.sub = company.sub
      /\ company'.request = company.request
      /\ IF LastAttempt THEN pc' = "release" /\ job' = job
                        ELSE pc' = "idle" /\ job' = NoJob
      /\ pc' \in JobSteps \cup {"idle"} /\ job' \in Job /\ faults' \in Nat
  BY <1>1, FailGoes DEF SaveUnheard
<1>6. \/ pc' = "idle"
      \/ pc' = "release" /\ job'.sub = job.sub /\ job'.rows = {} /\ rows \subseteq unheard'
  BY <1>1, <1>2, <1>5
<1> QED BY <1>1, <1>2, <1>3, <1>4, <1>5, <1>6, RowsSaved

(* A row of the job is discarded.                                          *)
LEMMA RowSuperseded ==
  ASSUME IInv, pc = "supersede", NEW r \in job.rows,
         remedy' = [remedy EXCEPT ![r].status = "failed", ![r].superseded = TRUE],
         UNCHANGED <<provider, refunds, inbox, hist, canceled, Outside>>,
         company' \in Company, company'.sub = company.sub, company'.request = company.request,
         faults' \in Nat, pc' \in JobSteps \cup {"idle"}, job' \in Job,
         \/ pc' = "idle"
         \/ /\ job'.rows = job.rows \ {r} /\ job'.sub = job.sub
            /\ \/ pc' = "release"
               \/ pc' = IF job.rows = {r} THEN "plan" ELSE "supersede"
  PROVE  IInv'
<1>0. PreSend
  BY DEF PreSend, JobSteps
<1>3. job.rows \in SUBSET Rows /\ r \in Rows
  BY NowType DEF Job
<1>5. DEFINE gone == [remedy[r] EXCEPT !.status = "failed", !.superseded = TRUE]
<1>6. remedy' = [remedy EXCEPT ![r] = gone]
  OBVIOUS
<1>7. /\ gone \in Remedy /\ gone.status = "failed" /\ gone.sub = remedy[r].sub
      /\ gone.ref = remedy[r].ref
  <2>1. remedy[r] \in Remedy
    BY <1>3, NowType
  <2> QED BY <2>1 DEF Remedy, RemedyStatuses
<1> HIDE DEF gone
<1>8. /\ remedy' \in [Rows -> Remedy] /\ remedy'[r] = gone
      /\ \A q \in Rows \ {r} : remedy'[q] = remedy[q]
  BY <1>3, <1>6, <1>7, NowType
<1>9. /\ job.sub \in Subs /\ company.request = job.sub /\ job.rows \subseteq Queued
      /\ Queued \subseteq job.rows
      /\ \A q \in job.rows : /\ remedy[q].status # "none" /\ remedy[q].sub = job.sub
                             /\ ~remedy[q].superseded
  BY <1>0, BeforeCancel DEF IInv, RequestOK
<1>10. RowsOK'
  BY <1>3, <1>7, <1>8, <1>9 DEF IInv, RowsOK, Ended, Outside
<1>11. RequestOK'
  BY <1>3, <1>7, <1>8, <1>9 DEF RequestOK, PreSend, JobSteps, Queued, Missed
<1>12. SendingOK'
  BY DEF SendingOK
<1>13. \A i \in 1 .. Len(refunds) : refunds[i].row # r
  <2> SUFFICES ASSUME NEW i \in 1 .. Len(refunds), refunds[i].row = r PROVE FALSE
    OBVIOUS
  <2>1. remedy[r].status = "queued" => company.request = NoSub
    BY DEF IInv, RefundsOK, RemedyOf
  <2> QED BY <1>9, <2>1, DowngradeAssumption DEF Queued
<1>14. \A q \in Rows : remedy'[q].ref # 0 => remedy'[q].ref \in DOMAIN hist
  BY <1>3, <1>7, <1>8 DEF IInv, RefundIsRecorded
<1>15. \A q \in Rows : \/ remedy[q].status = "none"
                       \/ /\ remedy'[q].status # "none" /\ remedy'[q].sub = remedy[q].sub
                          /\ remedy'[q].status = "queued" => remedy[q].status = "queued"
                          /\ remedy'[q].superseded =>
                               \/ remedy[q].superseded
                               \/ \A i \in 1 .. Len(refunds) : refunds[i].row # q
  BY <1>7, <1>8, <1>13
<1>16. unheard' = unheard /\ unheard \subseteq Rows /\ UNCHANGED <<billed, team, asking>>
  BY DEF IInv, TypeOK, Outside
<1> QED BY <1>8, <1>10, <1>11, <1>12, <1>14, <1>15, <1>16, NowType, RowsMove

LEMMA SupersedeKeeps ==
  ASSUME IInv, Supersede \/ SupersedeUnheard
  PROVE  IInv'
<1>1. UNCHANGED <<provider, refunds, inbox, hist, canceled, Outside>> /\ pc = "supersede"
  BY DEF Supersede, SupersedeUnheard
<1>2. PreSend /\ job \in Job
  BY <1>1, NowType DEF PreSend, JobSteps
<1>3. CASE Supersede
  <2>1. PICK r \in job.rows :
          /\ remedy' = [remedy EXCEPT ![r].status = "failed", ![r].superseded = TRUE]
          /\ Goto(IF job.rows = {r} THEN "plan" ELSE "supersede", [job EXCEPT !.rows = @ \ {r}])
    BY <1>3 DEF Supersede
  <2>2. /\ pc' = (IF job.rows = {r} THEN "plan" ELSE "supersede") /\ pc' \in JobSteps
        /\ job' \in Job /\ job'.rows = job.rows \ {r} /\ job'.sub = job.sub
    <3>1. job' = [job EXCEPT !.rows = job.rows \ {r}]
          /\ pc' = IF job.rows = {r} THEN "plan" ELSE "supersede"
      BY <2>1 DEF Goto
    <3> QED BY <1>2, <3>1 DEF Job, JobSteps
  <2>3. company' = company /\ faults' = faults
    BY <1>3 DEF Supersede
  <2> QED BY <1>1, <2>1, <2>2, <2>3, NowType, RowSuperseded
<1>4. CASE SupersedeUnheard
  <2>1. PICK r \in job.rows :
          /\ remedy' = [remedy EXCEPT ![r].status = "failed", ![r].superseded = TRUE]
          /\ StepFailed("release", [job EXCEPT !.rows = job.rows \ {r}])
    BY <1>4 DEF SupersedeUnheard
  <2> DEFINE locals == [job EXCEPT !.rows = job.rows \ {r}]
  <2>2. locals \in Job /\ locals.rows = job.rows \ {r} /\ locals.sub = job.sub
    BY <1>2 DEF Job
  <2> HIDE DEF locals
  <2>3. StepFailed("release", locals) /\ Fault
    BY <1>4, <2>1 DEF locals, SupersedeUnheard
  <2>4. /\ company' \in Company /\ company'.sub = company.sub
        /\ company'.request = company.request
        /\ IF LastAttempt THEN pc' = "release" /\ job' = locals
                          ELSE pc' = "idle" /\ job' = NoJob
        /\ pc' \in JobSteps \cup {"idle"} /\ job' \in Job /\ faults' \in Nat
    BY <1>2, <2>2, <2>3, FailGoes
  <2> QED BY <1>1, <2>1, <2>2, <2>4, RowSuperseded
<1> QED BY <1>3, <1>4

(* A row that was queued is given up or keeps its place.                   *)
LEMMA ReleaseKeeps ==
  ASSUME IInv, ReleaseRow
  PROVE  IInv'
<1>0. PreSend /\ pc = "release"
  BY DEF ReleaseRow, PreSend, JobSteps
<1>1. UNCHANGED <<provider, company, refunds, inbox, hist, canceled, faults, Outside>>
  BY DEF ReleaseRow
<1>2. CASE job.rows = {}
  <2>1. pc' = "drop" /\ job' = job /\ UNCHANGED remedy
    BY <1>2 DEF ReleaseRow, Goto
  <2>2. "drop" \in JobSteps \ {"send", "record", "settle", "supersede"}
    BY DEF JobSteps
  <2> QED BY <1>0, <1>1, <1>2, <2>1, <2>2, NowType, JobGoesOn DEF UnchangedRefunds
<1>3. CASE job.rows # {}
  <2>1. PICK r \in job.rows :
          /\ remedy' = [remedy EXCEPT ![r] =
               IF remedy[r].status = "queued"
               THEN [remedy[r] EXCEPT !.status = "failed", !.attempts = job.attempts + 1]
               ELSE remedy[r]]
          /\ Goto("release", [job EXCEPT !.rows = job.rows \ {r}])
    BY <1>3 DEF ReleaseRow
  <2>2. job.rows \in SUBSET Rows /\ r \in Rows
    BY NowType DEF Job
  <2>3. /\ pc' = "release" /\ pc' \in JobSteps
        /\ job' \in Job /\ job'.rows = job.rows \ {r} /\ job'.sub = job.sub
    <3>1. job' = [job EXCEPT !.rows = job.rows \ {r}] /\ pc' = "release"
      BY <2>1 DEF Goto
    <3> QED BY <2>2, <3>1, NowType DEF Job, JobSteps
  <2>4. DEFINE gone == IF remedy[r].status = "queued"
                       THEN [remedy[r] EXCEPT !.status = "failed", !.attempts = job.attempts + 1]
                       ELSE remedy[r]
  <2>5. remedy' = [remedy EXCEPT ![r] = gone]
    BY <2>1
  <2>6. /\ gone \in Remedy /\ gone.status # "queued" /\ gone.sub = remedy[r].sub
        /\ gone.ref = remedy[r].ref /\ gone.superseded = remedy[r].superseded
        /\ remedy[r].status # "none" => gone.status # "none"
    <3>1. remedy[r] \in Remedy /\ job.attempts + 1 \in 0 .. MaxAttempts
      BY <1>0, <2>2, NowType, BeforeCancel
    <3> QED BY <3>1 DEF Remedy, RemedyStatuses
  <2> HIDE DEF gone
  <2>7. /\ remedy' \in [Rows -> Remedy] /\ remedy'[r] = gone
        /\ \A q \in Rows \ {r} : remedy'[q] = remedy[q]
    BY <2>2, <2>5, <2>6, NowType
  <2>8. /\ job.sub \in Subs /\ company.request = job.sub /\ Queued \subseteq job.rows \cup unheard
        /\ \A q \in job.rows : /\ remedy[q].status # "none" /\ remedy[q].sub = job.sub
                               /\ ~remedy[q].superseded
    BY <1>0 DEF IInv, RequestOK, Missed
  <2>9. RowsOK'
    BY <1>1, <2>6, <2>7, <2>8 DEF IInv, RowsOK, Ended, Outside
  <2>10. RequestOK'
    BY <1>1, <2>2, <2>3, <2>6, <2>7, <2>8 DEF RequestOK, Queued, Missed, Outside
  <2>11. SendingOK'
    BY <2>3 DEF SendingOK
  <2>12. \A q \in Rows : remedy'[q].ref # 0 => remedy'[q].ref \in DOMAIN hist
    BY <2>2, <2>6, <2>7 DEF IInv, RefundIsRecorded
  <2>13. \A q \in Rows : \/ remedy[q].status = "none"
                         \/ /\ remedy'[q].status # "none" /\ remedy'[q].sub = remedy[q].sub
                            /\ remedy'[q].status = "queued" => remedy[q].status = "queued"
                            /\ remedy'[q].superseded => remedy[q].superseded
    BY <2>6, <2>7
  <2>14. unheard' = unheard /\ unheard \subseteq Rows /\ UNCHANGED <<billed, team, asking>>
    BY <1>1 DEF IInv, TypeOK, Outside
  <2> QED BY <1>1, <2>3, <2>7, <2>9, <2>10, <2>11, <2>12, <2>13, <2>14, NowType, RowsMove
<1> QED BY <1>2, <1>3

LEMMA LeaveKeeps ==
  ASSUME IInv, DropRequest \/ Crash
  PROVE  IInv'
<1>1. CASE DropRequest
  BY <1>1, DropKeeps DEF DropRequest
<1>2. CASE Crash
  <2>1. pc' = "idle" /\ job' = NoJob /\ faults' \in Nat
    BY <1>2, NowType DEF Crash, Goto, Fault
  <2> QED BY <1>2, <2>1, NowType, JobStops DEF Crash
<1> QED BY <1>1, <1>2

-----------------------------------------------------------------------------
(* Sending the refunds.                                                    *)

LEMMA MadeRefund ==
  ASSUME IInv, NEW r \in Rows, NEW state \in {"pending", "approved"},
         MakeRefund(r, state), Existing(r) = {}
  PROVE  /\ refunds' \in Seq([row : Rows, state : RefundStates])
         /\ Len(refunds) \in Nat /\ Len(refunds') = Len(refunds) + 1
         /\ \A i \in 1 .. Len(refunds) : refunds'[i] = refunds[i]
         /\ refunds'[Len(refunds) + 1].row = r
         /\ inbox' \subseteq (Nat \X RefundStates)
         /\ InboxOK' /\ OneRefundPerRemedy'
<1> DEFINE R == [row : Rows, state : RefundStates]
           new == [row |-> r, state |-> state]
<1>1. new \in R /\ refunds \in Seq(R) /\ refunds' = Append(refunds, new)
  BY DEF IInv, TypeOK, MakeRefund, RefundStates
<1>2. new.row = r
  OBVIOUS
<1> HIDE DEF R, new
<1>3. /\ refunds' \in Seq(R) /\ Len(refunds) \in Nat /\ Len(refunds') = Len(refunds) + 1
      /\ \A i \in 1 .. Len(refunds) : refunds'[i] = refunds[i]
      /\ refunds'[Len(refunds) + 1] = new
  BY <1>1
<1>4. \A i \in 1 .. Len(refunds) : refunds[i].row # r
  BY DEF Existing
<1>5. OneRefundPerRemedy'
  BY <1>2, <1>3, <1>4 DEF IInv, OneRefundPerRemedy
<1>6. inbox' \subseteq inbox \cup {<<Len(refunds) + 1, state>>}
      /\ (state = "pending" => inbox' = inbox)
  BY DEF MakeRefund
<1>7. inbox' \subseteq (Nat \X RefundStates)
  BY <1>3, <1>6 DEF IInv, TypeOK, RefundStates
<1>8. InboxOK'
  BY <1>3, <1>6 DEF IInv, InboxOK
<1> QED BY <1>2, <1>3, <1>5, <1>7, <1>8 DEF R

HistoryStates == {"pending", "approved", "rejected"}

LEMMA InsertType ==
  ASSUME IInv, NEW i \in 1 .. Len(refunds), NEW state \in RefundStates
  PROVE  /\ InsertRefund(i, state) \in [DOMAIN hist \cup {i} -> HistoryStates]
         /\ SettleHistory(i, state) \in [DOMAIN hist \cup {i} -> HistoryStates]
<1>1. HistoryStatusOf(state) \in HistoryStates
  BY DEF HistoryStatusOf, HistoryStates, RefundStates
<1>2. \A j \in DOMAIN hist : hist[j] \in HistoryStates
  BY DEF IInv, TypeOK, HistoryStates
<1> QED BY <1>1, <1>2 DEF InsertRefund, SettleHistory

LEMMA SendMoves ==
  ASSUME IInv, UNCHANGED <<provider, company, canceled, Outside>>,
         faults' \in Nat, remedy' \in [Rows -> Remedy],
         hist' \in [DOMAIN hist' -> HistoryStates],
         DOMAIN hist \subseteq DOMAIN hist', DOMAIN hist' \subseteq 1 .. Len(refunds),
         pc \in {"send", "record", "settle"}, pc' \in {"idle", "send", "record", "settle"},
         job' \in Job, SendingOK',
         \A q \in Rows :
           /\ remedy'[q].sub = remedy[q].sub /\ remedy'[q].superseded = remedy[q].superseded
           /\ remedy'[q].status = "none" <=> remedy[q].status = "none"
           /\ remedy'[q].status = "queued" =>
                remedy[q].status = "queued" /\ remedy'[q].attempts < MaxAttempts
           /\ remedy'[q].ref = remedy[q].ref \/ remedy'[q].ref \in DOMAIN hist,
         \/ UNCHANGED <<refunds, inbox>>
         \/ \E r \in job.rows, state \in {"pending", "approved"} :
              Existing(r) = {} /\ MakeRefund(r, state)
  PROVE  IInv'
<1>1. \A r \in Rows : Ended(r)' <=> Ended(r)
  BY DEF Ended, Outside
<1>2. /\ refunds' \in Seq([row : Rows, state : RefundStates])
      /\ Len(refunds') \in Nat /\ Len(refunds) \in Nat /\ Len(refunds) <= Len(refunds')
      /\ inbox' \subseteq (Nat \X RefundStates)
      /\ InboxOK' /\ OneRefundPerRemedy'
      /\ \A i \in 1 .. Len(refunds') :
           \/ i \in 1 .. Len(refunds) /\ refunds'[i].row = refunds[i].row
           \/ refunds'[i].row \in job.rows
  <2>1. CASE UNCHANGED <<refunds, inbox>>
    BY <2>1, RefundType DEF IInv, TypeOK, InboxOK, OneRefundPerRemedy
  <2>2. CASE \E r \in job.rows, state \in {"pending", "approved"} :
               Existing(r) = {} /\ MakeRefund(r, state)
    <3>1. PICK r \in job.rows, state \in {"pending", "approved"} :
            Existing(r) = {} /\ MakeRefund(r, state)
      BY <2>2
    <3>2. r \in Rows
      BY NowType DEF Job
    <3>3. /\ Len(refunds) \in Nat /\ Len(refunds') = Len(refunds) + 1
          /\ \A i \in 1 .. Len(refunds) : refunds'[i] = refunds[i]
          /\ refunds'[Len(refunds) + 1].row = r
      BY <3>1, <3>2, MadeRefund
    <3>4. /\ refunds' \in Seq([row : Rows, state : RefundStates])
          /\ inbox' \subseteq (Nat \X RefundStates)
          /\ InboxOK' /\ OneRefundPerRemedy'
      BY <3>1, <3>2, MadeRefund
    <3>5. ASSUME NEW i \in 1 .. Len(refunds')
          PROVE  \/ i \in 1 .. Len(refunds) /\ refunds'[i].row = refunds[i].row
                 \/ refunds'[i].row \in job.rows
      BY <3>3
    <3> HIDE <3>1
    <3> QED BY <3>3, <3>4, <3>5
  <2> QED BY <2>1, <2>2
<1>3. TypeOK'
  <2>1. DOMAIN hist' \subseteq 1 .. Len(refunds')
    BY <1>2
  <2> QED BY <1>2, <2>1 DEF IInv, TypeOK, Outside, JobSteps, HistoryStates
<1>4. SubsOK' /\ RefundIsRecorded'
  BY DEF IInv, SubsOK, RefundIsRecorded, Outside
<1>5. RowsOK'
  BY <1>1 DEF IInv, RowsOK, Outside
<1>6. RequestOK'
  BY DEF RequestOK, PreSend, JobSteps
<1>7. ASSUME NEW i \in 1 .. Len(refunds')
      PROVE  /\ refunds'[i].row \in Rows /\ remedy[refunds'[i].row].status # "none"
             /\ Ended(refunds'[i].row) /\ ~remedy[refunds'[i].row].superseded
             /\ company.request = NoSub
  <2>0. company.request = NoSub
    BY DEF IInv, SendingOK
  <2>1. CASE i \in 1 .. Len(refunds) /\ refunds'[i].row = refunds[i].row
    BY <2>0, <2>1, RefundType DEF IInv, RefundsOK, RemedyOf
  <2>2. CASE refunds'[i].row \in job.rows
    BY <2>0, <2>2, NowType DEF IInv, SendingOK, Job
  <2> QED BY <1>2, <2>1, <2>2
<1>8. RefundsOK'
  BY <1>1, <1>7 DEF RefundsOK, RemedyOf
<1> QED BY <1>2, <1>3, <1>4, <1>5, <1>6, <1>8 DEF IInv

(* The job takes the next refund, or stops after the last one.             *)
LEMMA NextRowKeeps ==
  ASSUME IInv, NEW r \in job.rows, pc \in {"send", "record", "settle"}, NextRow(r),
         UNCHANGED <<provider, company, unheard>>,
         \A q \in Rows :
           /\ remedy'[q].sub = remedy[q].sub /\ remedy'[q].superseded = remedy[q].superseded
           /\ remedy'[q].status = "none" <=> remedy[q].status = "none"
  PROVE  pc' \in {"idle", "send"} /\ job' \in Job /\ SendingOK'
<1> DEFINE next == [job EXCEPT !.rows = job.rows \ {r}, !.row = NoRow, !.refund = 0,
                               !.state = "pending"]
<1>1. job.rows \in SUBSET Rows
  BY NowType DEF Job
<1>2. next \in Job /\ next.rows = job.rows \ {r}
  BY <1>1, NowType DEF Job, RefundStates
<1>3. /\ pc' = IF job.rows = {r} THEN "idle" ELSE "send"
      /\ job' = IF pc' = "idle" THEN NoJob ELSE next
  BY DEF NextRow, Goto
<1> HIDE DEF next
<1>4. \A q \in job.rows : /\ remedy[q].status # "none" /\ Ended(q) /\ ~remedy[q].superseded
  BY DEF IInv, SendingOK
<1>5. \A q \in job.rows : /\ remedy'[q].status # "none" /\ Ended(q)' /\ ~remedy'[q].superseded
  BY <1>1, <1>4 DEF Ended
<1>6. SendingOK'
  BY <1>2, <1>3, <1>5 DEF SendingOK, IInv
<1> QED BY <1>2, <1>3, <1>6, NoJobType

LEMMA SendKeeps ==
  ASSUME IInv, RefundInvoicePayment
  PROVE  IInv'
<1>0. pc = "send" /\ UNCHANGED <<provider, company, remedy, hist, canceled, faults, Outside>>
  BY DEF RefundInvoicePayment
<1>1. PICK r \in job.rows :
       \/ \E i \in Existing(r) :
            /\ Goto("record", [job EXCEPT !.row = r, !.refund = i, !.state = refunds[i].state])
            /\ UNCHANGED <<refunds, inbox>>
       \/ \E state \in {"pending", "approved"} :
            /\ Existing(r) = {} /\ MakeRefund(r, state)
            /\ Goto("record", [job EXCEPT !.row = r, !.refund = Len(refunds) + 1, !.state = state])
  BY DEF RefundInvoicePayment
<1>2. job.rows \in SUBSET Rows /\ r \in Rows
  BY NowType DEF Job
<1>3. /\ \/ UNCHANGED <<refunds, inbox>>
         \/ \E q \in job.rows, state \in {"pending", "approved"} :
              Existing(q) = {} /\ MakeRefund(q, state)
      /\ pc' = "record"
      /\ \E i \in 1 .. Len(refunds'), state \in RefundStates :
           job' = [job EXCEPT !.row = r, !.refund = i, !.state = state]
  <2>1. CASE \E i \in Existing(r) :
            /\ Goto("record", [job EXCEPT !.row = r, !.refund = i, !.state = refunds[i].state])
            /\ UNCHANGED <<refunds, inbox>>
    <3>1. PICK i \in Existing(r) :
            /\ Goto("record", [job EXCEPT !.row = r, !.refund = i, !.state = refunds[i].state])
            /\ UNCHANGED <<refunds, inbox>>
      BY <2>1
    <3>2. i \in 1 .. Len(refunds) /\ refunds[i].state \in RefundStates
      BY RefundType DEF Existing, IInv
    <3> QED BY <3>1, <3>2 DEF Goto
  <2>2. CASE \E state \in {"pending", "approved"} :
            /\ Existing(r) = {} /\ MakeRefund(r, state)
            /\ Goto("record", [job EXCEPT !.row = r, !.refund = Len(refunds) + 1, !.state = state])
    <3>1. PICK state \in {"pending", "approved"} :
            /\ Existing(r) = {} /\ MakeRefund(r, state)
            /\ Goto("record", [job EXCEPT !.row = r, !.refund = Len(refunds) + 1, !.state = state])
      BY <2>2
    <3>2. Len(refunds) \in Nat /\ Len(refunds') = Len(refunds) + 1
      BY <1>2, <3>1, MadeRefund
    <3>3. Len(refunds) + 1 \in 1 .. Len(refunds') /\ state \in RefundStates
      BY <3>2 DEF RefundStates
    <3> QED BY <3>1, <3>3 DEF Goto
  <2> QED BY <1>1, <2>1, <2>2
<1>4. PICK i \in 1 .. Len(refunds'), state \in RefundStates :
        job' = [job EXCEPT !.row = r, !.refund = i, !.state = state]
  BY <1>3
<1>5. job' \in Job /\ job'.rows = job.rows /\ job'.row = r /\ job'.refund = i
  <2>1. i \in Nat
    OBVIOUS
  <2> QED BY <1>2, <1>4, <2>1, NowType DEF Job
<1>6. SendingOK'
  BY <1>0, <1>3, <1>4, <1>5 DEF IInv, SendingOK, Ended, Outside
<1>h. /\ hist \in [DOMAIN hist -> HistoryStates] /\ DOMAIN hist \subseteq 1 .. Len(refunds)
  BY DEF IInv, TypeOK, HistoryStates
<1>7. \A q \in Rows : remedy[q].status = "queued" => remedy[q].attempts < MaxAttempts
  BY DEF IInv, RowsOK
<1> QED BY <1>0, <1>3, <1>5, <1>6, <1>h, <1>7, NowType, SendMoves

LEMMA SendFailsKeeps ==
  ASSUME IInv, SendFails
  PROVE  IInv'
<1>0. /\ pc \in {"send", "record", "settle"} /\ faults' \in Nat
      /\ UNCHANGED <<provider, company, canceled, Outside>>
  BY NowType DEF SendFails, Fault
<1>1. PICK r \in job.rows :
        /\ NextRow(r) /\ RefundFailed(r)
        /\ \/ UNCHANGED <<refunds, inbox>>
           \/ /\ pc = "send" /\ Existing(r) = {}
              /\ \E state \in {"pending", "approved"} : MakeRefund(r, state)
        /\ hist' = hist \/ (pc = "record" /\ hist' = InsertRefund(job.refund, job.state))
  BY DEF SendFails
<1>2. r \in Rows
  BY NowType DEF Job
<1>h. /\ hist' \in [DOMAIN hist' -> HistoryStates]
      /\ DOMAIN hist \subseteq DOMAIN hist' /\ DOMAIN hist' \subseteq 1 .. Len(refunds)
  <2>1. hist \in [DOMAIN hist -> HistoryStates] /\ DOMAIN hist \subseteq 1 .. Len(refunds)
    BY DEF IInv, TypeOK, HistoryStates
  <2>2. CASE hist' = hist
    BY <2>1, <2>2
  <2>3. CASE pc = "record" /\ hist' = InsertRefund(job.refund, job.state)
    <3>1. job.refund \in 1 .. Len(refunds) /\ job.state \in RefundStates
      BY <2>3, NowType DEF IInv, SendingOK, Job
    <3>2. hist' \in [DOMAIN hist \cup {job.refund} -> HistoryStates]
      BY <2>3, <3>1, InsertType
    <3> QED BY <2>1, <3>1, <3>2
  <2> QED BY <1>1, <2>2, <2>3
<1> DEFINE after == IF remedy[r].status # "queued" THEN remedy[r]
                    ELSE [remedy[r] EXCEPT !.attempts = remedy[r].attempts + 1,
                            !.status = IF remedy[r].attempts + 1 >= MaxAttempts
                                       THEN "failed" ELSE "queued"]
<1>3. remedy' = [remedy EXCEPT ![r] = after]
  BY <1>1 DEF RefundFailed
<1>4. /\ remedy[r] \in Remedy
      /\ remedy[r].status = "queued" => remedy[r].attempts < MaxAttempts
  BY <1>2, NowType DEF IInv, RowsOK
<1>5. /\ after \in Remedy
      /\ after.sub = remedy[r].sub /\ after.superseded = remedy[r].superseded
      /\ after.ref = remedy[r].ref
      /\ after.status = "none" <=> remedy[r].status = "none"
      /\ after.status = "queued" => remedy[r].status = "queued" /\ after.attempts < MaxAttempts
  <2>1. CASE remedy[r].status # "queued"
    BY <1>4, <2>1
  <2>2. CASE remedy[r].status = "queued"
    <3> DEFINE n == remedy[r].attempts + 1
               status == IF n >= MaxAttempts THEN "failed" ELSE "queued"
    <3>1. n \in 0 .. MaxAttempts /\ status \in RemedyStatuses /\ status # "none"
          /\ (status = "queued" => n < MaxAttempts)
      BY <1>4, <2>2 DEF Remedy, RemedyStatuses
    <3>2. after = [remedy[r] EXCEPT !.attempts = n, !.status = status]
      BY <2>2
    <3> HIDE DEF n, status, after
    <3>3. /\ after \in Remedy
          /\ after.sub = remedy[r].sub /\ after.superseded = remedy[r].superseded
          /\ after.ref = remedy[r].ref /\ after.status = status /\ after.attempts = n
      BY <1>4, <3>1, <3>2 DEF Remedy
    <3> QED BY <2>2, <3>1, <3>3
  <2> QED BY <2>1, <2>2
<1> HIDE DEF after
<1>6. /\ remedy' \in [Rows -> Remedy] /\ remedy'[r] = after
      /\ \A q \in Rows \ {r} : remedy'[q] = remedy[q]
  BY <1>2, <1>3, <1>5, NowType
<1>7. \A q \in Rows : remedy[q].status = "queued" => remedy[q].attempts < MaxAttempts
  BY DEF IInv, RowsOK
<1>8. \A q \in Rows :
        /\ remedy'[q].sub = remedy[q].sub /\ remedy'[q].superseded = remedy[q].superseded
        /\ remedy'[q].status = "none" <=> remedy[q].status = "none"
        /\ remedy'[q].status = "queued" =>
             remedy[q].status = "queued" /\ remedy'[q].attempts < MaxAttempts
        /\ remedy'[q].ref = remedy[q].ref
  BY <1>5, <1>6, <1>7
<1>9. pc' \in {"idle", "send"} /\ job' \in Job /\ SendingOK'
  BY <1>0, <1>1, <1>8, NextRowKeeps DEF Outside
<1> QED BY <1>0, <1>1, <1>h, <1>6, <1>8, <1>9, SendMoves

LEMMA SettleKeeps ==
  ASSUME IInv, MoveRemedy
  PROVE  IInv'
<1>0. /\ pc = "settle" /\ NextRow(job.row)
      /\ UNCHANGED <<provider, company, refunds, inbox, hist, canceled, faults, Outside>>
  BY DEF MoveRemedy
<1>1. job.row \in job.rows /\ job.row \in Rows /\ job.refund \in DOMAIN hist /\ job.refund \in Nat
  BY <1>0, NowType DEF IInv, SendingOK, Job
<1> DEFINE r == job.row
           after == IF remedy[r].status = "queued"
                    THEN [remedy[r] EXCEPT !.status = RemedyStatusOf(job.state), !.ref = job.refund]
                    ELSE remedy[r]
<1>2. remedy' = [remedy EXCEPT ![r] = after]
  BY DEF MoveRemedy
<1>3. RemedyStatusOf(job.state) \in {"initiated", "approved", "rejected", "reversed"}
  BY NowType DEF RemedyStatusOf, Job, RefundStates
<1>4. remedy[r] \in Remedy
  BY <1>1, NowType
<1>5. /\ after \in Remedy
      /\ after.sub = remedy[r].sub /\ after.superseded = remedy[r].superseded
      /\ after.ref = remedy[r].ref \/ after.ref = job.refund
      /\ after.status = "none" <=> remedy[r].status = "none"
      /\ after.status # "queued"
  BY <1>1, <1>3, <1>4 DEF Remedy, RemedyStatuses
<1> HIDE DEF after
<1>6. /\ remedy' \in [Rows -> Remedy] /\ remedy'[r] = after
      /\ \A q \in Rows \ {r} : remedy'[q] = remedy[q]
  BY <1>1, <1>2, <1>5, NowType
<1>7. \A q \in Rows : remedy[q].status = "queued" => remedy[q].attempts < MaxAttempts
  BY DEF IInv, RowsOK
<1>8. \A q \in Rows :
        /\ remedy'[q].sub = remedy[q].sub /\ remedy'[q].superseded = remedy[q].superseded
        /\ remedy'[q].status = "none" <=> remedy[q].status = "none"
        /\ remedy'[q].status = "queued" =>
             remedy[q].status = "queued" /\ remedy'[q].attempts < MaxAttempts
        /\ remedy'[q].ref = remedy[q].ref \/ remedy'[q].ref \in DOMAIN hist
  BY <1>1, <1>5, <1>6, <1>7
<1>9. pc' \in {"idle", "send"} /\ job' \in Job /\ SendingOK'
  BY <1>0, <1>1, <1>8, NextRowKeeps DEF Outside
<1>h. /\ hist \in [DOMAIN hist -> HistoryStates] /\ DOMAIN hist \subseteq 1 .. Len(refunds)
  BY DEF IInv, TypeOK, HistoryStates
<1> QED BY <1>0, <1>6, <1>8, <1>9, <1>h, NowType, SendMoves

LEMMA RecordKeeps ==
  ASSUME IInv, RecordRefund
  PROVE  IInv'
<1>0. /\ pc = "record" /\ pc' = "settle" /\ job' = job
      /\ UNCHANGED <<provider, company, refunds, inbox, remedy, canceled, faults, Outside>>
  BY DEF RecordRefund, Goto
<1>1. job.refund \in 1 .. Len(refunds) /\ job.state \in RefundStates
  BY <1>0, NowType DEF IInv, SendingOK, Job
<1>2. hist' \in [DOMAIN hist \cup {job.refund} -> HistoryStates]
  BY <1>1, InsertType DEF RecordRefund
<1>3. DOMAIN hist' = DOMAIN hist \cup {job.refund}
  BY <1>2
<1>4. TypeOK'
  <2>1. hist' \in [DOMAIN hist' -> HistoryStates] /\ DOMAIN hist' \subseteq 1 .. Len(refunds')
    BY <1>0, <1>1, <1>2, <1>3 DEF IInv, TypeOK
  <2>2. pc' \in JobSteps \cup {"idle"}
    BY <1>0 DEF JobSteps
  <2> QED BY <1>0, <2>1, <2>2 DEF IInv, TypeOK, Outside, HistoryStates
<1>5. SubsOK' /\ InboxOK' /\ OneRefundPerRemedy'
  BY <1>0 DEF IInv, SubsOK, InboxOK, OneRefundPerRemedy, Outside
<1>6. RefundIsRecorded'
  BY <1>0, <1>3 DEF IInv, RefundIsRecorded
<1>7. RowsOK'
  BY <1>0 DEF IInv, RowsOK, Ended, Outside
<1>8. RequestOK'
  BY <1>0 DEF RequestOK, PreSend
<1>9. SendingOK'
  BY <1>0, <1>1, <1>3 DEF IInv, SendingOK, Ended, Outside
<1>10. RefundsOK'
  BY <1>0 DEF IInv, RefundsOK, RemedyOf, Ended, Outside
<1> QED BY <1>4, <1>5, <1>6, <1>7, <1>8, <1>9, <1>10 DEF IInv

-----------------------------------------------------------------------------
(* The provider's decisions and reports.                                   *)

LEMMA DecideKeeps ==
  ASSUME IInv, NEW i \in 1 .. Len(refunds), DecideRefund(i)
  PROVE  IInv'
<1>1. PICK state \in RefundStates \ {"pending"} :
        /\ refunds' = [refunds EXCEPT ![i].state = state]
        /\ inbox' = inbox \cup {<<i, state>>}
        /\ UNCHANGED <<provider, company, billed, team, asking, remedy, hist>> /\ UnchangedJob
  BY DEF DecideRefund
<1> DEFINE R == [row : Rows, state : RefundStates]
           now == [refunds[i] EXCEPT !.state = state]
<1>2. refunds \in Seq(R) /\ refunds' = [refunds EXCEPT ![i] = now]
  BY <1>1 DEF IInv, TypeOK
<1>3. refunds[i] \in R
  <2> HIDE DEF R
  <2> QED BY <1>2
<1>4. now \in R /\ now.row = refunds[i].row
  BY <1>3
<1> HIDE DEF R, now
<1>5. /\ refunds' \in Seq(R) /\ Len(refunds') = Len(refunds) /\ Len(refunds) \in Nat
      /\ \A j \in 1 .. Len(refunds) : refunds'[j] = IF j = i THEN now ELSE refunds[j]
  BY <1>2, <1>4
<1>6. \A j \in 1 .. Len(refunds) : refunds'[j].row = refunds[j].row
  BY <1>4, <1>5
<1>7. TypeOK'
  <2>1. inbox' \subseteq (Nat \X RefundStates)
    BY <1>1, <1>5 DEF IInv, TypeOK
  <2> QED BY <1>1, <1>5, <2>1 DEF IInv, TypeOK, UnchangedJob, R
<1>8. SubsOK' /\ RowsOK' /\ RequestOK' /\ RefundIsRecorded'
  BY <1>1 DEF IInv, SubsOK, RowsOK, RequestOK, PreSend, Missed, RefundIsRecorded, Queued, Ended, UnchangedJob
<1>9. SendingOK'
  BY <1>1, <1>5 DEF IInv, SendingOK, Ended, UnchangedJob
<1>10. RefundsOK'
  BY <1>1, <1>5, <1>6 DEF IInv, RefundsOK, RemedyOf, Ended, UnchangedJob
<1>11. InboxOK'
  BY <1>1, <1>5 DEF IInv, InboxOK
<1>12. OneRefundPerRemedy'
  BY <1>5, <1>6 DEF IInv, OneRefundPerRemedy
<1> QED BY <1>7, <1>8, <1>9, <1>10, <1>11, <1>12 DEF IInv

LEMMA ReportKeeps ==
  ASSUME IInv, NEW e \in inbox, ApplyRefundUpdate(e)
  PROVE  IInv'
<1> DEFINE i == e[1]
           state == e[2]
           moved == {r \in RowOf(i) : remedy[r].status \in SettleFrom(state)}
<1>1. i \in 1 .. Len(refunds) /\ state \in RefundStates \ {"pending"}
  BY DEF IInv, InboxOK, TypeOK
<1>2. /\ pc = "idle" /\ inbox' \in {inbox, inbox \ {e}}
      /\ UNCHANGED <<provider, company, refunds, Outside>> /\ UnchangedJob
      /\ remedy' = [r \in Rows |-> IF r \in moved
                      THEN [remedy[r] EXCEPT !.status = state, !.ref = i] ELSE remedy[r]]
      /\ hist' = IF moved = {} THEN hist ELSE SettleHistory(i, state)
  BY DEF ApplyRefundUpdate, Unlocked
<1>3. SettleFrom(state) \subseteq {"queued", "initiated", "approved", "failed"}
  <2>1. CASE state = "approved"
    BY <2>1 DEF SettleFrom
  <2>2. CASE state = "rejected"
    BY <2>2 DEF SettleFrom
  <2>3. CASE state = "reversed"
    BY <2>3 DEF SettleFrom
  <2> QED BY <1>1, <2>1, <2>2, <2>3 DEF RefundStates
<1>4. moved \subseteq Rows /\ \A r \in moved : remedy[r].status # "none"
  BY <1>3 DEF RowOf
<1> HIDE DEF moved
<1>5. ASSUME NEW r \in Rows
      PROVE  /\ remedy'[r] \in Remedy /\ remedy'[r].sub = remedy[r].sub
             /\ remedy'[r].superseded = remedy[r].superseded
             /\ remedy'[r].status = "none" <=> remedy[r].status = "none"
             /\ remedy'[r].status = "queued" => remedy'[r] = remedy[r]
             /\ remedy'[r].ref = remedy[r].ref \/ (remedy'[r].ref = i /\ moved # {})
  <2>1. remedy[r] \in Remedy
    BY NowType
  <2>2. CASE r \in moved
    <3> DEFINE after == [remedy[r] EXCEPT !.status = state, !.ref = i]
    <3>1. remedy'[r] = after
      BY <1>2, <2>2
    <3>2. state \in RemedyStatuses /\ state # "none" /\ state # "queued" /\ i \in Nat
      BY <1>1 DEF RefundStates, RemedyStatuses
    <3> HIDE DEF state, i
    <3>3. /\ after \in Remedy /\ after.sub = remedy[r].sub
          /\ after.superseded = remedy[r].superseded /\ after.status = state /\ after.ref = i
      BY <2>1, <3>2 DEF Remedy
    <3> QED BY <1>4, <2>2, <3>1, <3>2, <3>3
  <2>3. CASE r \notin moved
    BY <1>2, <2>1, <2>3
  <2> QED BY <2>2, <2>3
<1>6. remedy' \in [Rows -> Remedy]
  BY <1>2, <1>5
<1>7. /\ DOMAIN hist' = IF moved = {} THEN DOMAIN hist ELSE DOMAIN hist \cup {i}
      /\ hist' \in [DOMAIN hist' -> HistoryStates]
  BY <1>1, <1>2, InsertType DEF IInv, TypeOK, HistoryStates
<1> HIDE DEF i, state
<1>8. TypeOK'
  BY <1>1, <1>2, <1>6, <1>7 DEF IInv, TypeOK, UnchangedJob, Outside, HistoryStates
<1>9. SubsOK' /\ InboxOK' /\ OneRefundPerRemedy'
  BY <1>2 DEF IInv, SubsOK, InboxOK, OneRefundPerRemedy, Outside
<1>10. RefundIsRecorded'
  BY <1>5, <1>7 DEF IInv, RefundIsRecorded
<1>11. \A r \in Rows : Ended(r)' <=> Ended(r)
  BY <1>2, <1>5 DEF Ended, Outside
<1>12. RowsOK'
  <2> SUFFICES ASSUME NEW r \in Rows
               PROVE  /\ remedy'[r].status # "none" => remedy'[r].sub \in Subs
                      /\ r \in unheard => remedy'[r].status # "none"
                      /\ remedy'[r].status = "queued" =>
                           /\ remedy'[r].attempts < MaxAttempts /\ ~remedy'[r].superseded
                           /\ IF company.request = NoSub THEN Ended(r)'
                              ELSE remedy'[r].sub = company.request
    BY <1>2 DEF RowsOK, Outside
  <2>1. /\ remedy[r].status # "none" => remedy[r].sub \in Subs
        /\ r \in unheard => remedy[r].status # "none"
        /\ remedy[r].status = "queued" =>
             /\ remedy[r].attempts < MaxAttempts /\ ~remedy[r].superseded
             /\ IF company.request = NoSub THEN Ended(r) ELSE remedy[r].sub = company.request
    BY DEF IInv, RowsOK
  <2> QED BY <1>5, <1>11, <2>1
<1>13. RequestOK' /\ SendingOK'
  BY <1>2 DEF RequestOK, SendingOK, PreSend, JobSteps, UnchangedJob
<1>14. RefundsOK'
  <2> SUFFICES ASSUME NEW k \in 1 .. Len(refunds)
               PROVE  /\ RemedyOf(k)'.status # "none" /\ Ended(refunds[k].row)'
                      /\ ~RemedyOf(k)'.superseded
                      /\ RemedyOf(k)'.status = "queued" => company.request = NoSub
    BY <1>2 DEF RefundsOK, RemedyOf, Ended
  <2>1. PICK r \in Rows : r = refunds[k].row
    BY RefundType DEF IInv
  <2>2. /\ remedy[r].status # "none" /\ Ended(r) /\ ~remedy[r].superseded
        /\ remedy[r].status = "queued" => company.request = NoSub
    BY <2>1 DEF IInv, RefundsOK, RemedyOf
  <2>3. RemedyOf(k)' = remedy'[r] /\ (Ended(refunds[k].row)' <=> Ended(r)')
    BY <1>2, <2>1 DEF RemedyOf, Ended
  <2> QED BY <1>5, <1>11, <2>2, <2>3
<1> QED BY <1>8, <1>9, <1>10, <1>12, <1>13, <1>14 DEF IInv

-----------------------------------------------------------------------------
(* The invariant and what follows from it.                                 *)

LEMMA StepKeeps ==
  ASSUME IInv, [Next]_vars
  PROVE  IInv'
<1>1. CASE Environment
  <2>1. CASE \E s \in Subs : Subscribe(s) \/ Renew(s) \/ EndUnpaid(s)
    BY <2>1, ProviderKeeps
  <2>2. CASE RecordPayment \/ CancelRecorded \/ AddUser \/ RemoveUser
    BY <2>2, ApplicationKeeps
  <2>3. CASE \E i \in 1 .. Len(refunds) : DecideRefund(i)
    BY <2>3, DecideKeeps
  <2>4. CASE \E e \in inbox : ApplyRefundUpdate(e)
    BY <2>4, ReportKeeps
  <2> QED BY <1>1, <2>1, <2>2, <2>3, <2>4 DEF Environment
<1>2. CASE Customer \/ Ripen
  BY <1>2, ApplicationKeeps
<1>3. CASE ExecuteFor
  BY <1>3, StartKeeps
<1>4. CASE Work
  BY <1>4, PlanningKeeps, SaveKeeps, ReplanKeeps, SupersedeKeeps, CancelKeeps, ReleaseKeeps,
     LeaveKeeps, ClearKeeps, SendKeeps, RecordKeeps, SettleKeeps DEF Work
<1>5. CASE PlanningFails \/ SaveUnheard \/ SupersedeUnheard \/ CancelFails \/ SendFails \/ Crash
  BY <1>5, PlanningKeeps, SaveUnheardKeeps, SupersedeKeeps, CancelKeeps, SendFailsKeeps, LeaveKeeps
<1>6. CASE UNCHANGED vars
  <2>1. /\ UnchangedRefunds /\ UnchangedJob
        /\ UNCHANGED <<provider, company, asking, billed, team>>
    BY <1>6 DEF vars, UnchangedRefunds, UnchangedJob
  <2>2. /\ company' \in Company /\ asking' \in Subs \cup {NoSub}
        /\ billed' \in 0 .. MaxPeriods /\ team' \in 1 .. MaxTeam
    BY <2>1 DEF IInv, TypeOK
  <2> QED BY <2>1, <2>2, CompanyKeeps
<1> QED BY <1>1, <1>2, <1>3, <1>4, <1>5, <1>6 DEF Next

LEMMA Invariant == Spec => []IInv
<1>1. Init => IInv
  BY InitKeeps
<1>2. IInv /\ [Next]_vars => IInv'
  BY StepKeeps
<1> QED BY <1>1, <1>2, PTL DEF Spec

(* Every variable of the downgrade stays in its range: the rows of         *)
(* payment_remedies and companies, and what executeFor holds of them.      *)
THEOREM TypeCorrect == Spec => []TypeOK
<1>1. IInv => TypeOK
  BY DEF IInv
<1> QED BY <1>1, Invariant, PTL

(* No refund leaves before the plan has ended, but for the rows that the   *)
(* last attempt of a planning inserted without hearing of it (unheard), for *)
(* any number of rows, faults, users and renewals (the order of             *)
(* executeFor's writes).                                                   *)
THEOREM RefundsFollow == Spec => []RefundFollowsCancel
<1>1. IInv => RefundFollowsCancel
  BY DEF IInv, RefundsOK, Ended, RemedyOf, RefundFollowsCancel
<1> QED BY <1>1, Invariant, PTL

(* No remedy is paid out twice (refundInvoicePayment's search for the      *)
(* refund of an earlier attempt).                                          *)
THEOREM NeverTwice == Spec => []OneRefundPerRemedy
<1>1. IInv => OneRefundPerRemedy
  BY DEF IInv
<1> QED BY <1>1, Invariant, PTL

(* A row discarded by replanIfRenewed was never sent and is never sent.    *)
THEOREM DiscardedIsUnsent == Spec => []SupersededNeverSent
<1>1. IInv => SupersededNeverSent
  BY DEF IInv, RefundsOK, RemedyOf, SupersededNeverSent
<1> QED BY <1>1, Invariant, PTL

(* A remedy that names a refund has its history row (sendRefunds and       *)
(* applyRefundUpdate, in either order).                                    *)
THEOREM AlwaysRecorded == Spec => []RefundIsRecorded
<1>1. IInv => RefundIsRecorded
  BY DEF IInv
<1> QED BY <1>1, Invariant, PTL

-----------------------------------------------------------------------------
(* What becomes of a refund once it is planned: the remedy follows its     *)
(* refund at the provider, and the rows of payment_remedies implement      *)
(* RefundLifecycle.                                                        *)

(* A row is planned for a subscription the provider knows.                 *)
GivenOK == \A r \in Given : provider[remedy[r].sub].state # "none"

(* The job holds queued rows only: nothing else moves them while it runs.  *)
HeldOK == pc # "idle" => job.rows \subseteq Queued

(* A row names no refund but one made for it.                              *)
NamesOK ==
  \A r \in Rows : remedy[r].ref # 0 =>
    remedy[r].ref \in 1 .. Len(refunds) /\ refunds[remedy[r].ref].row = r

(* What was true of a refund that is in the state now.                     *)
Earlier(state, now) == state \in {now, "pending"} \/ (state = "approved" /\ now = "reversed")

(* The answer the job works with, and the reports to come, are of an       *)
(* earlier state of the refund.                                            *)
AnswerOK ==
  pc \in {"record", "settle"} =>
    refunds[job.refund].row = job.row /\ Earlier(job.state, refunds[job.refund].state)

ReportsOK == \A e \in inbox : Earlier(e[2], refunds[e[1]].state)

(* Only the job's last attempt gives its rows up.                          *)
LastOK == pc \in {"check", "release"} => job.attempts + 1 >= MaxAttempts

(* A remedy that does not follow its refund is behind it, and the report   *)
(* that will move it is still to come.                                     *)
Behind(state) == {"queued", "initiated"} \cup {s \in {"approved"} : state = "reversed"}

FollowsOK ==
  \A i \in 1 .. Len(refunds) : RemedyOf(i).attempts < MaxAttempts =>
    \/ RemedyOf(i).status \in Follows(refunds[i].state)
    \/ <<i, refunds[i].state>> \in inbox /\ RemedyOf(i).status \in Behind(refunds[i].state)

Paying == GivenOK /\ HeldOK /\ NamesOK /\ AnswerOK /\ ReportsOK /\ LastOK /\ FollowsOK

(* The same for one refund.                                                *)
FollowsAt(i) ==
  RemedyOf(i).attempts < MaxAttempts =>
    \/ RemedyOf(i).status \in Follows(refunds[i].state)
    \/ <<i, refunds[i].state>> \in inbox /\ RemedyOf(i).status \in Behind(refunds[i].state)

-----------------------------------------------------------------------------
(* Steps that leave the refunds alone.                                     *)

LEMMA InitPays == Init => Paying
BY DEF Init, Paying, GivenOK, Given, HeldOK, NamesOK, AnswerOK, ReportsOK, LastOK, FollowsOK

(* What the provider has started stays started, whatever step is taken.    *)
LEMMA OnwardStep ==
  ASSUME IInv, [Next]_vars
  PROVE  Onward
<1>1. ASSUME NEW s \in Subs, NEW now \in Subscription, provider' = [provider EXCEPT ![s] = now],
             now.state # "none", provider[s].state = "canceled" => now.state = "canceled"
      PROVE  Onward
  BY <1>1, NowType DEF Onward
<1>2. ASSUME NEW s \in Subs, Subscribe(s) PROVE Onward
  <2> DEFINE now == [provider[s] EXCEPT !.state = "live"]
  <2>1. provider' = [provider EXCEPT ![s] = now] /\ provider[s].state = "none"
    BY <1>2 DEF Subscribe
  <2>2. now \in Subscription /\ now.state = "live"
    BY ProviderType DEF IInv, Subscription
  <2> HIDE DEF now
  <2> QED BY <1>1, <2>1, <2>2
<1>3. ASSUME NEW s \in Subs, Renew(s) PROVE Onward
  <2> DEFINE now == [provider[s] EXCEPT !.period = provider[s].period + 1]
  <2>1. provider' = [provider EXCEPT ![s] = now] /\ provider[s].state = "live" /\ provider[s].period < MaxPeriods
    BY <1>3 DEF Renew, Live
  <2>2. now \in Subscription /\ now.state = "live"
    BY <2>1, ProviderType DEF IInv, Subscription
  <2> HIDE DEF now
  <2> QED BY <1>1, <2>1, <2>2
<1>4. ASSUME NEW s \in Subs, EndUnpaid(s) PROVE Onward
  <2> DEFINE now == [provider[s] EXCEPT !.state = "canceled"]
  <2>1. provider' = [provider EXCEPT ![s] = now]
    BY <1>4 DEF EndUnpaid
  <2>2. now \in Subscription /\ now.state = "canceled"
    BY ProviderType DEF IInv, Subscription
  <2> HIDE DEF now
  <2> QED BY <1>1, <2>1, <2>2
<1>5. ASSUME CancelImmediately \/ CancelFails PROVE Onward
  <2>1. PreSend
    BY <1>5 DEF CancelImmediately, CancelFails, PreSend, JobSteps
  <2>2. job.sub \in Subs
    BY <2>1, BeforeCancel
  <2> QED BY <1>5, <2>2, EndKeeps, NowType DEF CancelImmediately, CancelFails
<1>6. \/ \E s \in Subs : Subscribe(s) \/ Renew(s) \/ EndUnpaid(s)
      \/ CancelImmediately \/ CancelFails
      \/ UNCHANGED provider
  BY DEF Next, Environment, Customer, Work, RecordPayment, CancelRecorded, AddUser, RemoveUser, DecideRefund,
         ApplyRefundUpdate, AskCancel, Request, Withdraw, Ripen, ExecuteFor, PlanRefund, RefundBasis, SaveRows,
         ReplanIfRenewed, Supersede, CheckEnded, ReleaseRow, DropRequest, ClearRequest, RefundInvoicePayment,
         RecordRefund, MoveRemedy, PlanningFails, SaveUnheard, SupersedeUnheard, SendFails, Crash, vars
<1> QED BY <1>2, <1>3, <1>4, <1>5, <1>6, NowType

(* The rows and the refunds stay; the job may move.                        *)
LEMMA RowsStay ==
  ASSUME IInv, Paying, Onward, UNCHANGED <<remedy, refunds, inbox>>, HeldOK', AnswerOK', LastOK'
  PROVE  Paying'
<1>1. GivenOK'
  BY DEF Paying, GivenOK, Given, Onward, IInv, RowsOK
<1>2. NamesOK' /\ ReportsOK'
  BY DEF Paying, NamesOK, ReportsOK
<1>3. FollowsOK'
  BY DEF Paying, FollowsOK, RemedyOf
<1> QED BY <1>1, <1>2, <1>3 DEF Paying

(* A step of the job that holds the rows it held, or stops.                *)
LEMMA JobHolds ==
  ASSUME IInv, Paying, Onward, UNCHANGED <<remedy, refunds, inbox>>,
         \/ pc' = "idle"
         \/ pc # "idle" /\ job'.rows = job.rows
              /\ pc' \in JobSteps \ {"record", "settle", "check", "release"}
         \/ pc # "idle" /\ job' = job /\ pc' \in {"check", "release"} /\ job.attempts + 1 >= MaxAttempts
  PROVE  Paying'
<1>1. HeldOK'
  BY DEF Paying, HeldOK, Queued
<1>2. AnswerOK'
  BY DEF AnswerOK
<1>3. LastOK'
  BY DEF LastOK
<1> QED BY <1>1, <1>2, <1>3, RowsStay

(* Nothing of the job or the refunds moves.                                *)
LEMMA AllStay ==
  ASSUME IInv, Paying, Onward, UnchangedRefunds, UNCHANGED <<pc, job>>
  PROVE  Paying'
<1>1. UNCHANGED <<remedy, refunds, inbox>>
  BY DEF UnchangedRefunds
<1>2. HeldOK' /\ LastOK'
  BY <1>1 DEF Paying, HeldOK, Queued, LastOK
<1>3. AnswerOK'
  BY <1>1 DEF Paying, AnswerOK
<1> QED BY <1>1, <1>2, <1>3, RowsStay

LEMMA FailHolds ==
  ASSUME IInv, Paying, Onward, UNCHANGED <<remedy, refunds, inbox>>, pc # "idle",
         NEW last \in {"release", "check"}, StepFailed(last, job)
  PROVE  Paying'
<1>1. CASE ~LastAttempt
  <2>1. pc' = "idle"
    BY <1>1 DEF StepFailed, Goto
  <2> QED BY <2>1, JobHolds
<1>2. CASE LastAttempt
  <2>1. pc' = last /\ job' = job
    BY <1>2 DEF StepFailed, Goto
  <2>3. job.attempts + 1 >= MaxAttempts
    BY <1>2 DEF LastAttempt
  <2> QED BY <2>1, <2>3, JobHolds
<1> QED BY <1>1, <1>2

LEMMA JobPays ==
  ASSUME IInv, Paying, Onward,
         \/ ExecuteFor \/ PlanRefund \/ RefundBasis \/ ReplanIfRenewed \/ PlanningFails \/ CancelImmediately
         \/ CancelFails \/ CheckEnded \/ DropRequest \/ ClearRequest \/ RecordRefund \/ Crash
  PROVE  Paying'
<1>0. UNCHANGED <<remedy, refunds, inbox>>
  BY DEF ExecuteFor, PlanRefund, RefundBasis, ReplanIfRenewed, PlanningFails, CancelImmediately,
         CancelFails, CheckEnded, DropRequest, ClearRequest, RecordRefund, Crash, UnchangedRefunds
<1>1. CASE ExecuteFor
  <2>1. /\ pc' \in {"send", "plan", "replan"}
        /\ job' = [NoJob EXCEPT !.rows = Queued, !.sub = company.request, !.current = company.sub,
                                !.attempts = company.attempts, !.age = company.age]
    BY <1>1 DEF ExecuteFor, Goto
  <2>2. job'.rows = Queued
    BY <2>1 DEF NoJob
  <2>3. HeldOK'
    BY <1>0, <2>2 DEF HeldOK, Queued
  <2>4. AnswerOK' /\ LastOK'
    BY <2>1 DEF AnswerOK, LastOK
  <2> QED BY <1>0, <2>3, <2>4, RowsStay
<1>2. CASE PlanRefund \/ RefundBasis \/ DropRequest \/ Crash
  <2>1. pc # "idle" /\ job.rows \in SUBSET Rows
    BY <1>2, NowType DEF PlanRefund, RefundBasis, DropRequest, Crash, Job
  <2>2. \/ pc' = "idle"
        \/ pc' = "basis" /\ job' = job
        \/ pc' = "save" /\ job' = [job EXCEPT !.period = provider[job.sub].period]
    BY <1>2 DEF PlanRefund, RefundBasis, DropRequest, Crash, Drop, Goto
  <2>3. pc' = "idle" \/ (pc' \in {"basis", "save"} /\ job'.rows = job.rows)
    BY <2>2, NowType DEF Job
  <2>4. {"basis", "save"} \subseteq JobSteps \ {"record", "settle", "check", "release"}
    BY DEF JobSteps
  <2> QED BY <1>0, <2>1, <2>3, <2>4, JobHolds
<1>3. CASE ReplanIfRenewed \/ CancelImmediately \/ ClearRequest
  <2>1. pc # "idle" /\ (pc' = "idle" \/ (job' = job /\ pc' \in {"supersede", "cancel", "clear", "send"}))
    BY <1>3 DEF ReplanIfRenewed, CancelImmediately, ClearRequest, Goto
  <2>2. {"supersede", "cancel", "clear", "send"} \subseteq JobSteps \ {"record", "settle", "check", "release"}
    BY DEF JobSteps
  <2> QED BY <1>0, <2>1, <2>2, JobHolds
<1>4. CASE PlanningFails
  BY <1>0, <1>4, FailHolds DEF PlanningFails
<1>5. CASE CancelFails
  BY <1>0, <1>5, FailHolds DEF CancelFails
<1>6. CASE CheckEnded
  <2>1. pc = "check" /\ job' = job /\ pc' \in {"release", "clear"}
    BY <1>6 DEF CheckEnded, Goto
  <2>2. job.attempts + 1 >= MaxAttempts
    BY <2>1 DEF Paying, LastOK
  <2>3. "clear" \in JobSteps \ {"record", "settle", "check", "release"}
    BY DEF JobSteps
  <2> QED BY <1>0, <2>1, <2>2, <2>3, JobHolds
<1>7. CASE RecordRefund
  <2>1. pc = "record" /\ pc' = "settle" /\ job' = job
    BY <1>7 DEF RecordRefund, Goto
  <2>2. HeldOK' /\ AnswerOK' /\ LastOK'
    BY <1>0, <2>1 DEF Paying, HeldOK, AnswerOK, LastOK, Queued
  <2> QED BY <1>0, <2>2, RowsStay
<1> QED BY <1>1, <1>2, <1>3, <1>4, <1>5, <1>6, <1>7

-----------------------------------------------------------------------------
(* Steps that move rows.                                                   *)

LEMMA RemedyMoves ==
  ASSUME IInv, Paying, Onward, UNCHANGED <<refunds, inbox>>,
         \A r \in Rows : remedy[r].status # "none" => remedy'[r].sub = remedy[r].sub,
         \A r \in Rows : remedy[r].status = "none" /\ remedy'[r].status # "none" =>
           provider'[remedy'[r].sub].state # "none",
         \A r \in Rows : remedy'[r].ref # remedy[r].ref /\ remedy'[r].ref # 0 =>
           remedy'[r].ref \in 1 .. Len(refunds) /\ refunds[remedy'[r].ref].row = r,
         \A i \in 1 .. Len(refunds) : remedy'[refunds[i].row] # remedy[refunds[i].row] => FollowsAt(i)',
         HeldOK', AnswerOK', LastOK'
  PROVE  Paying'
<1>1. GivenOK'
  BY DEF Paying, GivenOK, Given, Onward, IInv, RowsOK
<1>2. NamesOK' /\ ReportsOK'
  BY DEF Paying, NamesOK, ReportsOK
<1>3. ASSUME NEW i \in 1 .. Len(refunds) PROVE FollowsAt(i)'
  <2>1. FollowsAt(i)
    BY DEF Paying, FollowsOK, FollowsAt
  <2>2. CASE remedy'[refunds[i].row] = remedy[refunds[i].row]
    BY <2>1, <2>2 DEF FollowsAt, RemedyOf
  <2> QED BY <2>2
<1>4. FollowsOK'
  BY <1>3 DEF FollowsOK, FollowsAt
<1> QED BY <1>1, <1>2, <1>4 DEF Paying

LEMMA RowsSavedPay ==
  ASSUME IInv, Paying, Onward, pc = "save", UNCHANGED <<provider, refunds, inbox>>,
         NEW rows \in SUBSET Fresh,
         remedy' = [r \in Rows |-> IF r \in rows THEN Planned ELSE remedy[r]],
         HeldOK', AnswerOK', LastOK'
  PROVE  Paying'
<1>1. rows \subseteq Rows /\ \A r \in rows : remedy[r].status = "none"
  BY DEF Fresh
<1>2. PreSend
  BY DEF PreSend, JobSteps
<1>3. job.sub \in Subs /\ provider[job.sub].state # "none"
  BY <1>2, BeforeCancel
<1>4. Planned.sub = job.sub /\ Planned.ref = 0 /\ Planned.status = "queued"
  BY DEF Planned
<1>5. \A r \in Rows : remedy'[r] = IF r \in rows THEN Planned ELSE remedy[r]
  OBVIOUS
<1>6. \A i \in 1 .. Len(refunds) : refunds[i].row \in Rows \ rows
  BY <1>1, RefundType DEF IInv, RefundsOK, RemedyOf
<1> QED BY <1>1, <1>3, <1>4, <1>5, <1>6, RemedyMoves

LEMMA SavePays ==
  ASSUME IInv, Paying, Onward, SaveRows
  PROVE  Paying'
<1>0. pc = "save" /\ UNCHANGED <<provider, refunds, inbox>>
  BY DEF SaveRows
<1>1. CASE Waits
  <2>1. pc' = "idle" /\ UNCHANGED remedy
    BY <1>1 DEF SaveRows, Goto
  <2> QED BY <1>0, <2>1, JobHolds
<1>2. CASE ~Waits
  <2>1. PICK rows \in SUBSET Fresh :
          /\ remedy' = [r \in Rows |-> IF r \in rows THEN Planned ELSE remedy[r]]
          /\ Goto("cancel", [job EXCEPT !.rows = rows])
    BY <1>2 DEF SaveRows
  <2>2. rows \subseteq Rows /\ Planned.status = "queued"
    BY DEF Fresh, Planned
  <2>3. pc' = "cancel" /\ job'.rows = rows
    <3>1. pc' = "cancel" /\ job' = [job EXCEPT !.rows = rows]
      BY <2>1 DEF Goto
    <3> QED BY <3>1, NowType DEF Job
  <2>4. \A r \in rows : remedy'[r] = Planned
    BY <2>1, <2>2
  <2>5. HeldOK' /\ AnswerOK' /\ LastOK'
    BY <2>2, <2>3, <2>4 DEF HeldOK, AnswerOK, LastOK, Queued
  <2> QED BY <1>0, <2>1, <2>5, RowsSavedPay
<1> QED BY <1>1, <1>2

(* A planning that fails with locals it still holds.                       *)
LEMMA FailStops ==
  ASSUME IInv, PreSend, NEW locals \in Job, StepFailed("release", locals), Fault,
         locals.attempts = job.attempts, locals.rows \subseteq Queued'
  PROVE  HeldOK' /\ AnswerOK' /\ LastOK'
<1>1. /\ IF LastAttempt THEN pc' = "release" /\ job' = locals
                        ELSE pc' = "idle" /\ job' = NoJob
  BY FailGoes
<1> QED BY <1>1 DEF HeldOK, AnswerOK, LastOK, LastAttempt

LEMMA SaveUnheardPays ==
  ASSUME IInv, Paying, Onward, SaveUnheard
  PROVE  Paying'
<1>1. /\ pc = "save" /\ PreSend /\ job \in Job /\ job.rows = {}
      /\ StepFailed("release", job) /\ Fault /\ UNCHANGED <<provider, refunds, inbox>>
  BY NowType DEF SaveUnheard, PreSend, JobSteps, IInv, RequestOK
<1>2. PICK rows \in SUBSET Fresh :
        remedy' = [r \in Rows |-> IF r \in rows THEN Planned ELSE remedy[r]]
  BY DEF SaveUnheard
<1>3. HeldOK' /\ AnswerOK' /\ LastOK'
  BY <1>1, FailStops
<1> QED BY <1>1, <1>2, <1>3, RowsSavedPay

LEMMA RowSupersededPays ==
  ASSUME IInv, Paying, Onward, pc = "supersede", UNCHANGED <<provider, refunds, inbox>>,
         NEW r \in job.rows,
         remedy' = [remedy EXCEPT ![r].status = "failed", ![r].superseded = TRUE],
         HeldOK', AnswerOK', LastOK'
  PROVE  Paying'
<1>1. PreSend /\ r \in Rows
  BY NowType DEF PreSend, JobSteps, Job
<1>2. company.request \in Subs /\ r \in Queued
  BY <1>1, BeforeCancel DEF Paying, HeldOK
<1>3. \A q \in Rows \ {r} : remedy'[q] = remedy[q]
  BY NowType
<1>4. remedy'[r].sub = remedy[r].sub /\ remedy'[r].ref = remedy[r].ref /\ remedy'[r].status = "failed"
  <2>1. remedy[r] \in Remedy /\ remedy'[r] = [remedy[r] EXCEPT !.status = "failed", !.superseded = TRUE]
    BY <1>1, NowType
  <2> QED BY <2>1 DEF Remedy
<1>5. \A i \in 1 .. Len(refunds) : refunds[i].row \in Rows \ {r}
  <2> SUFFICES ASSUME NEW i \in 1 .. Len(refunds), refunds[i].row = r PROVE FALSE
    BY RefundType DEF IInv
  <2>1. remedy[r].status = "queued" => company.request = NoSub
    BY DEF IInv, RefundsOK, RemedyOf
  <2> QED BY <1>2, <2>1, DowngradeAssumption DEF Queued
<1> QED BY <1>2, <1>3, <1>4, <1>5, RemedyMoves DEF Queued

LEMMA SupersedePays ==
  ASSUME IInv, Paying, Onward, Supersede \/ SupersedeUnheard
  PROVE  Paying'
<1>0. /\ pc = "supersede" /\ PreSend /\ job \in Job
      /\ UNCHANGED <<provider, refunds, inbox>> /\ job.rows \subseteq Queued
  BY NowType DEF Supersede, SupersedeUnheard, PreSend, JobSteps, Paying, HeldOK
<1>1. CASE Supersede
  <2>1. PICK r \in job.rows :
          /\ remedy' = [remedy EXCEPT ![r].status = "failed", ![r].superseded = TRUE]
          /\ Goto(IF job.rows = {r} THEN "plan" ELSE "supersede", [job EXCEPT !.rows = @ \ {r}])
    BY <1>1 DEF Supersede
  <2>2. pc' \in {"plan", "supersede"} /\ job'.rows = job.rows \ {r}
    <3>1. job' = [job EXCEPT !.rows = job.rows \ {r}] /\ pc' \in {"plan", "supersede"}
      BY <2>1 DEF Goto
    <3> QED BY <1>0, <3>1 DEF Job
  <2>3. \A q \in Rows \ {r} : remedy'[q] = remedy[q]
    BY <2>1, NowType
  <2>4. HeldOK' /\ AnswerOK' /\ LastOK'
    BY <1>0, <2>2, <2>3 DEF HeldOK, AnswerOK, LastOK, Queued
  <2> QED BY <1>0, <2>1, <2>4, RowSupersededPays
<1>2. CASE SupersedeUnheard
  <2>1. PICK r \in job.rows :
          /\ remedy' = [remedy EXCEPT ![r].status = "failed", ![r].superseded = TRUE]
          /\ StepFailed("release", [job EXCEPT !.rows = job.rows \ {r}])
    BY <1>2 DEF SupersedeUnheard
  <2> DEFINE locals == [job EXCEPT !.rows = job.rows \ {r}]
  <2>2. locals \in Job /\ locals.rows = job.rows \ {r} /\ locals.attempts = job.attempts
    BY <1>0 DEF Job
  <2> HIDE DEF locals
  <2>3. StepFailed("release", locals) /\ Fault
    BY <1>2, <2>1 DEF locals, SupersedeUnheard
  <2>4. \A q \in Rows \ {r} : remedy'[q] = remedy[q]
    BY <2>1, NowType
  <2>5. locals.rows \subseteq Queued'
    BY <1>0, <2>2, <2>4 DEF Queued
  <2>6. HeldOK' /\ AnswerOK' /\ LastOK'
    BY <1>0, <2>2, <2>3, <2>5, FailStops
  <2> QED BY <1>0, <2>1, <2>6, RowSupersededPays
<1> QED BY <1>1, <1>2

LEMMA ReleasePays ==
  ASSUME IInv, Paying, Onward, ReleaseRow
  PROVE  Paying'
<1>0. PreSend /\ pc = "release" /\ UNCHANGED <<provider, refunds, inbox>>
  BY DEF ReleaseRow, PreSend, JobSteps
<1>1. CASE job.rows = {}
  <2>1. pc' = "drop" /\ job' = job /\ UNCHANGED remedy
    BY <1>1 DEF ReleaseRow, Goto
  <2>2. "drop" \in JobSteps \ {"record", "settle", "check", "release"}
    BY DEF JobSteps
  <2> QED BY <1>0, <2>1, <2>2, JobHolds
<1>2. CASE job.rows # {}
  <2>1. PICK r \in job.rows :
          /\ remedy' = [remedy EXCEPT ![r] =
               IF remedy[r].status = "queued"
               THEN [remedy[r] EXCEPT !.status = "failed", !.attempts = job.attempts + 1]
               ELSE remedy[r]]
          /\ Goto("release", [job EXCEPT !.rows = job.rows \ {r}])
    BY <1>2 DEF ReleaseRow
  <2>2. job.rows \in SUBSET Rows /\ r \in Rows
    BY NowType DEF Job
  <2>3. pc' = "release" /\ job'.rows = job.rows \ {r} /\ job'.attempts = job.attempts
    <3>1. job' = [job EXCEPT !.rows = job.rows \ {r}] /\ pc' = "release"
      BY <2>1 DEF Goto
    <3> QED BY <3>1, NowType DEF Job
  <2>4. remedy[r].status = "queued"
    BY <1>0, <2>1 DEF Paying, HeldOK, Queued
  <2>5. /\ remedy'[r].sub = remedy[r].sub /\ remedy'[r].ref = remedy[r].ref
        /\ remedy'[r].attempts = job.attempts + 1
    <3>1. remedy[r] \in Remedy
          /\ remedy'[r] = [remedy[r] EXCEPT !.status = "failed", !.attempts = job.attempts + 1]
      BY <2>1, <2>2, <2>4, NowType
    <3> QED BY <3>1 DEF Remedy
  <2>6. \A q \in Rows \ {r} : remedy'[q] = remedy[q]
    BY <2>1, NowType
  <2>7. job.attempts + 1 >= MaxAttempts /\ job.attempts \in Nat
    BY <1>0, NowType DEF Paying, LastOK, Job
  <2>8. HeldOK' /\ AnswerOK' /\ LastOK'
    <3>1. HeldOK'
      BY <1>0, <2>2, <2>3, <2>6 DEF Paying, HeldOK, Queued
    <3> QED BY <2>3, <2>7, <3>1 DEF AnswerOK, LastOK
  <2>9. ASSUME NEW i \in 1 .. Len(refunds), refunds[i].row = r PROVE FollowsAt(i)'
    <3>1. ~(RemedyOf(i)'.attempts < MaxAttempts)
      BY <1>0, <2>5, <2>7, <2>9 DEF RemedyOf
    <3> QED BY <3>1 DEF FollowsAt
  <2>10. \A i \in 1 .. Len(refunds) : refunds[i].row \in Rows
    BY RefundType DEF IInv
  <2> QED BY <1>0, <2>4, <2>5, <2>6, <2>8, <2>9, <2>10, RemedyMoves
<1> QED BY <1>1, <1>2

(* The job turns to its next row.                                          *)
LEMMA NextRowHolds ==
  ASSUME IInv, Paying, NEW r \in job.rows, pc \in {"send", "record", "settle"}, NextRow(r),
         \A q \in Rows \ {r} : remedy'[q] = remedy[q]
  PROVE  HeldOK' /\ AnswerOK' /\ LastOK' /\ pc' \in {"idle", "send"}
<1>1. job.rows \in SUBSET Rows
  BY NowType DEF Job
<1>2. pc' \in {"idle", "send"} /\ (pc' # "idle" => job'.rows = job.rows \ {r})
  <2>1. /\ pc' = IF job.rows = {r} THEN "idle" ELSE "send"
        /\ pc' # "idle" => job' = [job EXCEPT !.rows = job.rows \ {r}, !.row = NoRow, !.refund = 0,
                                             !.state = "pending"]
    BY DEF NextRow, Goto
  <2> QED BY <2>1, NowType DEF Job
<1>3. HeldOK'
  BY <1>1, <1>2 DEF Paying, HeldOK, Queued
<1> QED BY <1>2, <1>3 DEF AnswerOK, LastOK

LEMMA MovePays ==
  ASSUME IInv, Paying, Onward, MoveRemedy
  PROVE  Paying'
<1>0. /\ pc = "settle" /\ NextRow(job.row) /\ UNCHANGED <<provider, refunds, inbox>>
      /\ remedy' = [remedy EXCEPT ![job.row] =
           IF @.status = "queued" THEN [@ EXCEPT !.status = RemedyStatusOf(job.state), !.ref = job.refund] ELSE @]
  BY DEF MoveRemedy
<1>1. PICK r \in Rows : r = job.row /\ r \in job.rows
  BY <1>0, NowType DEF IInv, SendingOK, Job
<1>2. PICK i \in 1 .. Len(refunds) : i = job.refund /\ refunds[i].row = r
  BY <1>0, <1>1 DEF IInv, SendingOK, Paying, AnswerOK
<1>3. Earlier(job.state, refunds[i].state) /\ job.state \in RefundStates
  BY <1>0, <1>2, NowType DEF Paying, AnswerOK, Job
<1>4. remedy[r].status = "queued"
  BY <1>0, <1>1 DEF Paying, HeldOK, Queued
<1>5. /\ remedy'[r].sub = remedy[r].sub /\ remedy'[r].attempts = remedy[r].attempts
      /\ remedy'[r].ref = i /\ remedy'[r].status = RemedyStatusOf(job.state)
  <2>1. remedy[r] \in Remedy
        /\ remedy'[r] = [remedy[r] EXCEPT !.status = RemedyStatusOf(job.state), !.ref = job.refund]
    BY <1>0, <1>1, <1>4, NowType
  <2> QED BY <1>2, <2>1 DEF Remedy
<1>6. \A q \in Rows \ {r} : remedy'[q] = remedy[q]
  BY <1>0, <1>1, NowType
<1>7. HeldOK' /\ AnswerOK' /\ LastOK'
  BY <1>0, <1>1, <1>6, NextRowHolds
<1>8. refunds[i].state \in RefundStates
  BY RefundType DEF IInv
<1>9. FollowsAt(i)'
  <2>1. FollowsAt(i) /\ RemedyOf(i) = remedy[r] /\ RemedyOf(i)' = remedy'[r]
    BY <1>0, <1>2 DEF Paying, FollowsOK, FollowsAt, RemedyOf
  <2>2. CASE job.state = refunds[i].state
    <3>1. RemedyStatusOf(job.state) \in Follows(refunds[i].state)
      BY <2>2 DEF RemedyStatusOf, Follows
    <3> QED BY <1>0, <1>5, <2>1, <3>1 DEF FollowsAt
  <2>3. CASE job.state # refunds[i].state
    <3>1. refunds[i].state # "pending" /\ RemedyStatusOf(job.state) \in Behind(refunds[i].state)
      BY <1>3, <1>8, <2>3 DEF Earlier, RemedyStatusOf, Behind, RefundStates
    <3>2. "queued" \notin Follows(refunds[i].state)
      BY <1>8, <3>1 DEF Follows, RefundStates
    <3>3. remedy[r].attempts < MaxAttempts => <<i, refunds[i].state>> \in inbox
      BY <1>4, <2>1, <3>2 DEF FollowsAt
    <3> QED BY <1>0, <1>5, <2>1, <3>1, <3>3 DEF FollowsAt
  <2> QED BY <2>2, <2>3
<1>10. \A k \in 1 .. Len(refunds) : refunds[k].row \in Rows /\ (refunds[k].row = r => k = i)
  BY <1>2, RefundType DEF IInv, OneRefundPerRemedy
<1> QED BY <1>0, <1>2, <1>4, <1>5, <1>6, <1>7, <1>9, <1>10, RemedyMoves, ZenonT(30)

(* Making a refund: its first state is reported at once unless pending.    *)
LEMMA MadeReports ==
  ASSUME IInv, Paying, NEW r \in Rows, NEW state \in {"pending", "approved"},
         Existing(r) = {}, MakeRefund(r, state)
  PROVE  /\ Len(refunds) \in Nat /\ Len(refunds') = Len(refunds) + 1
         /\ \A i \in 1 .. Len(refunds) : refunds'[i] = refunds[i] /\ refunds[i].row # r
         /\ refunds'[Len(refunds) + 1].row = r /\ refunds'[Len(refunds) + 1].state = state
         /\ inbox \subseteq inbox'
         /\ state = "approved" => <<Len(refunds) + 1, state>> \in inbox'
         /\ ReportsOK'
<1> DEFINE n == Len(refunds) + 1
           new == [row |-> r, state |-> state]
<1>1. /\ refunds \in Seq([row : Rows, state : RefundStates]) /\ refunds' = Append(refunds, new)
      /\ new.row = r /\ new.state = state
  BY DEF IInv, TypeOK, MakeRefund
<1> HIDE DEF new
<1>2. /\ Len(refunds) \in Nat /\ Len(refunds') = n
      /\ \A i \in 1 .. Len(refunds) : refunds'[i] = refunds[i]
      /\ refunds'[n] = new
  BY <1>1
<1>3. \A i \in 1 .. Len(refunds) : refunds[i].row # r
  BY DEF Existing
<1>4. inbox' = IF state = "pending" THEN inbox ELSE inbox \cup {<<n, state>>}
  BY DEF MakeRefund
<1> HIDE DEF n
<1>5. ReportsOK'
  <2> SUFFICES ASSUME NEW e \in inbox' PROVE Earlier(e[2], refunds'[e[1]].state)
    BY DEF ReportsOK, Earlier
  <2>1. CASE e \in inbox
    <3>1. e[1] \in 1 .. Len(refunds) /\ Earlier(e[2], refunds[e[1]].state)
      BY <2>1 DEF IInv, InboxOK, Paying, ReportsOK
    <3> QED BY <1>2, <3>1
  <2>2. CASE e = <<n, state>>
    BY <1>1, <1>2, <2>2 DEF Earlier
  <2> QED BY <1>4, <2>1, <2>2
<1> QED BY <1>1, <1>2, <1>3, <1>4, <1>5 DEF n

LEMMA MakeMoves ==
  ASSUME IInv, Paying, Onward, pc = "send", NEW r \in job.rows,
         NEW state \in {"pending", "approved"}, Existing(r) = {}, MakeRefund(r, state),
         \A q \in Rows \ {r} : remedy'[q] = remedy[q],
         remedy'[r].sub = remedy[r].sub, remedy'[r].ref = remedy[r].ref,
         remedy'[r].status = "queued" \/ ~(remedy'[r].attempts < MaxAttempts),
         HeldOK', AnswerOK', LastOK'
  PROVE  Paying'
<1>1. r \in Rows /\ remedy[r].status = "queued"
  BY NowType DEF Job, Paying, HeldOK, Queued
<1>2. /\ Len(refunds) \in Nat /\ Len(refunds') = Len(refunds) + 1
      /\ \A i \in 1 .. Len(refunds) : refunds'[i] = refunds[i] /\ refunds[i].row # r
      /\ refunds'[Len(refunds) + 1].row = r /\ refunds'[Len(refunds) + 1].state = state
      /\ inbox \subseteq inbox'
      /\ state = "approved" => <<Len(refunds) + 1, state>> \in inbox'
      /\ ReportsOK'
  BY <1>1, MadeReports
<1>3. GivenOK'
  BY <1>1 DEF Paying, GivenOK, Given, Onward, IInv, RowsOK
<1>4. NamesOK'
  <2> SUFFICES ASSUME NEW q \in Rows, remedy'[q].ref # 0
               PROVE  remedy'[q].ref \in 1 .. Len(refunds') /\ refunds'[remedy'[q].ref].row = q
    BY DEF NamesOK
  <2>1. remedy'[q].ref = remedy[q].ref
    OBVIOUS
  <2>2. remedy[q].ref \in 1 .. Len(refunds) /\ refunds[remedy[q].ref].row = q
    BY <2>1 DEF Paying, NamesOK
  <2> QED BY <1>2, <2>1, <2>2
<1>5. ASSUME NEW i \in 1 .. Len(refunds') PROVE FollowsAt(i)'
  <2>1. CASE i \in 1 .. Len(refunds)
    <3>1. FollowsAt(i)
      BY <2>1 DEF Paying, FollowsOK, FollowsAt
    <3>2. refunds'[i] = refunds[i] /\ refunds[i].row \in Rows \ {r}
      BY <1>2, <2>1, RefundType DEF IInv
    <3>3. RemedyOf(i)' = RemedyOf(i)
      BY <3>2 DEF RemedyOf
    <3> QED BY <1>2, <3>1, <3>2, <3>3 DEF FollowsAt
  <2>2. CASE i = Len(refunds) + 1
    <3>1. RemedyOf(i)' = remedy'[r] /\ refunds'[i].state = state
      BY <1>2, <2>2 DEF RemedyOf
    <3>2. state = "pending" => "queued" \in Follows(refunds'[i].state)
      BY <3>1 DEF Follows
    <3>3. "queued" \in Behind(refunds'[i].state)
      BY DEF Behind
    <3>4. state = "approved" => <<i, refunds'[i].state>> \in inbox'
      BY <1>2, <2>2, <3>1
    <3> QED BY <3>1, <3>2, <3>3, <3>4 DEF FollowsAt
  <2> QED BY <1>2, <2>1, <2>2
<1>6. FollowsOK'
  BY <1>5 DEF FollowsOK, FollowsAt
<1> QED BY <1>2, <1>3, <1>4, <1>6 DEF Paying

LEMMA SendPays ==
  ASSUME IInv, Paying, Onward, RefundInvoicePayment
  PROVE  Paying'
<1>0. pc = "send" /\ UNCHANGED <<provider, remedy>>
  BY DEF RefundInvoicePayment
<1>1. PICK r \in job.rows :
       \/ \E i \in Existing(r) :
            /\ Goto("record", [job EXCEPT !.row = r, !.refund = i, !.state = refunds[i].state])
            /\ UNCHANGED <<refunds, inbox>>
       \/ \E state \in {"pending", "approved"} :
            /\ Existing(r) = {} /\ MakeRefund(r, state)
            /\ Goto("record", [job EXCEPT !.row = r, !.refund = Len(refunds) + 1, !.state = state])
  BY DEF RefundInvoicePayment
<1>2. job.rows \in SUBSET Rows /\ r \in Rows /\ remedy[r].status = "queued"
  BY <1>0, NowType DEF Job, Paying, HeldOK, Queued
<1>3. ASSUME NEW i, NEW state, Goto("record", [job EXCEPT !.row = r, !.refund = i, !.state = state])
      PROVE  /\ pc' = "record" /\ job'.rows = job.rows
             /\ job'.row = r /\ job'.refund = i /\ job'.state = state
  <2>1. pc' = "record" /\ job' = [job EXCEPT !.row = r, !.refund = i, !.state = state]
    BY <1>3 DEF Goto
  <2> QED BY <2>1, NowType DEF Job
<1>4. CASE \E i \in Existing(r) :
             /\ Goto("record", [job EXCEPT !.row = r, !.refund = i, !.state = refunds[i].state])
             /\ UNCHANGED <<refunds, inbox>>
  <2>1. PICK i \in Existing(r) :
             /\ Goto("record", [job EXCEPT !.row = r, !.refund = i, !.state = refunds[i].state])
             /\ UNCHANGED <<refunds, inbox>>
    BY <1>4
  <2>2. /\ pc' = "record" /\ job'.rows = job.rows
        /\ job'.row = r /\ job'.refund = i /\ job'.state = refunds[i].state
    BY <1>3, <2>1
  <2>3. refunds[i].row = r
    BY DEF Existing
  <2>4. HeldOK' /\ LastOK'
    BY <1>0, <2>2 DEF Paying, HeldOK, LastOK, Queued
  <2>5. AnswerOK'
    BY <2>1, <2>2, <2>3 DEF AnswerOK, Earlier
  <2> QED BY <1>0, <2>1, <2>4, <2>5, RowsStay
<1>5. CASE \E state \in {"pending", "approved"} :
             /\ Existing(r) = {} /\ MakeRefund(r, state)
             /\ Goto("record", [job EXCEPT !.row = r, !.refund = Len(refunds) + 1, !.state = state])
  <2>1. PICK state \in {"pending", "approved"} :
             /\ Existing(r) = {} /\ MakeRefund(r, state)
             /\ Goto("record", [job EXCEPT !.row = r, !.refund = Len(refunds) + 1, !.state = state])
    BY <1>5
  <2>2. /\ pc' = "record" /\ job'.rows = job.rows
        /\ job'.row = r /\ job'.refund = Len(refunds) + 1 /\ job'.state = state
    BY <1>3, <2>1
  <2>3. refunds'[Len(refunds) + 1].row = r /\ refunds'[Len(refunds) + 1].state = state
    BY <1>2, <2>1, MadeReports
  <2>4. HeldOK' /\ LastOK'
    BY <1>0, <2>2 DEF Paying, HeldOK, LastOK, Queued
  <2>5. AnswerOK'
    BY <2>2, <2>3 DEF AnswerOK, Earlier
  <2> QED BY <1>0, <1>2, <2>1, <2>4, <2>5, MakeMoves
<1> QED BY <1>1, <1>4, <1>5

LEMMA SendFailsPays ==
  ASSUME IInv, Paying, Onward, SendFails
  PROVE  Paying'
<1>0. pc \in {"send", "record", "settle"} /\ UNCHANGED provider
  BY DEF SendFails
<1>1. PICK r \in job.rows :
        /\ NextRow(r) /\ RefundFailed(r)
        /\ \/ UNCHANGED <<refunds, inbox>>
           \/ /\ pc = "send" /\ Existing(r) = {}
              /\ \E state \in {"pending", "approved"} : MakeRefund(r, state)
  BY DEF SendFails
<1>2. r \in Rows /\ remedy[r].status = "queued"
  BY <1>0, NowType DEF Job, Paying, HeldOK, Queued
<1>3. /\ \A q \in Rows \ {r} : remedy'[q] = remedy[q]
      /\ remedy'[r].sub = remedy[r].sub /\ remedy'[r].ref = remedy[r].ref
      /\ remedy'[r].status = "queued" \/ ~(remedy'[r].attempts < MaxAttempts)
      /\ remedy[r].attempts < MaxAttempts
  <2> DEFINE n == remedy[r].attempts + 1
             status == IF n >= MaxAttempts THEN "failed" ELSE "queued"
  <2>1. remedy[r] \in Remedy /\ remedy[r].attempts < MaxAttempts
    BY <1>2, NowType DEF IInv, RowsOK
  <2>2. n \in Nat /\ (status = "queued" \/ ~(n < MaxAttempts))
    BY <2>1 DEF Remedy
  <2>3. remedy' = [remedy EXCEPT ![r] = [remedy[r] EXCEPT !.attempts = n, !.status = status]]
    BY <1>1, <1>2 DEF RefundFailed
  <2> HIDE DEF n, status
  <2>4. remedy'[r] = [remedy[r] EXCEPT !.attempts = n, !.status = status]
    BY <1>2, <2>3, NowType
  <2>5. /\ remedy'[r].sub = remedy[r].sub /\ remedy'[r].ref = remedy[r].ref
        /\ remedy'[r].status = status /\ remedy'[r].attempts = n
    BY <2>1, <2>4 DEF Remedy
  <2> QED BY <1>2, <2>1, <2>2, <2>3, <2>5, NowType
<1>4. HeldOK' /\ AnswerOK' /\ LastOK'
  BY <1>0, <1>1, <1>3, NextRowHolds
<1>5. CASE UNCHANGED <<refunds, inbox>>
  <2>1. ASSUME NEW i \in 1 .. Len(refunds), refunds[i].row = r PROVE FollowsAt(i)'
    <3>1. FollowsAt(i) /\ RemedyOf(i) = remedy[r] /\ RemedyOf(i)' = remedy'[r]
      BY <1>5, <2>1 DEF Paying, FollowsOK, FollowsAt, RemedyOf
    <3> QED BY <1>2, <1>3, <1>5, <3>1 DEF FollowsAt
  <2>2. \A i \in 1 .. Len(refunds) : refunds[i].row \in Rows
    BY RefundType DEF IInv
  <2> QED BY <1>2, <1>3, <1>4, <1>5, <2>1, <2>2, RemedyMoves
<1>6. CASE /\ pc = "send" /\ Existing(r) = {}
           /\ \E state \in {"pending", "approved"} : MakeRefund(r, state)
  BY <1>3, <1>4, <1>6, MakeMoves
<1> QED BY <1>1, <1>5, <1>6

-----------------------------------------------------------------------------
(* The provider's decisions and reports.                                   *)

LEMMA DecidePays ==
  ASSUME IInv, Paying, Onward, NEW i \in 1 .. Len(refunds), DecideRefund(i)
  PROVE  Paying'
<1>1. PICK state \in RefundStates \ {"pending"} :
        /\ IF state = "reversed" THEN refunds[i].state = "approved" ELSE refunds[i].state = "pending"
        /\ refunds' = [refunds EXCEPT ![i].state = state]
        /\ inbox' = inbox \cup {<<i, state>>}
        /\ UNCHANGED <<provider, remedy, pc, job>>
  BY DEF DecideRefund, UnchangedJob
<1> DEFINE R == [row : Rows, state : RefundStates]
           now == [refunds[i] EXCEPT !.state = state]
<1>2. refunds \in Seq(R) /\ refunds' = [refunds EXCEPT ![i] = now]
  BY <1>1 DEF IInv, TypeOK
<1>3. refunds[i] \in R
  <2> HIDE DEF R
  <2> QED BY <1>2
<1>4. now.row = refunds[i].row /\ now.state = state
  BY <1>3
<1> HIDE DEF R, now
<1>5. /\ Len(refunds') = Len(refunds) /\ Len(refunds) \in Nat
      /\ \A j \in 1 .. Len(refunds) : refunds'[j] = IF j = i THEN now ELSE refunds[j]
  BY <1>2
<1>6. \A j \in 1 .. Len(refunds) : refunds'[j].row = refunds[j].row /\ (j # i => refunds'[j] = refunds[j])
  BY <1>4, <1>5
<1>7. refunds'[i].state = state
  BY <1>4, <1>5
<1>8. ASSUME NEW answer, NEW j \in 1 .. Len(refunds), Earlier(answer, refunds[j].state)
      PROVE  Earlier(answer, refunds'[j].state)
  BY <1>1, <1>6, <1>7, <1>8 DEF Earlier
<1>9. GivenOK' /\ HeldOK' /\ LastOK'
  BY <1>1 DEF Paying, GivenOK, Given, HeldOK, LastOK, Queued
<1>10. NamesOK'
  BY <1>1, <1>5, <1>6 DEF Paying, NamesOK
<1>11. AnswerOK'
  <2> SUFFICES ASSUME pc \in {"record", "settle"}
               PROVE  refunds'[job.refund].row = job.row /\ Earlier(job.state, refunds'[job.refund].state)
    BY <1>1 DEF AnswerOK, Earlier
  <2>1. job.refund \in 1 .. Len(refunds) /\ refunds[job.refund].row = job.row
        /\ Earlier(job.state, refunds[job.refund].state)
    BY DEF IInv, SendingOK, Paying, AnswerOK
  <2> QED BY <1>6, <1>8, <2>1
<1>12. ReportsOK'
  <2> SUFFICES ASSUME NEW e \in inbox' PROVE Earlier(e[2], refunds'[e[1]].state)
    BY DEF ReportsOK, Earlier
  <2>1. CASE e \in inbox
    <3>1. e[1] \in 1 .. Len(refunds) /\ Earlier(e[2], refunds[e[1]].state)
      BY <2>1 DEF IInv, InboxOK, Paying, ReportsOK
    <3> QED BY <1>8, <3>1
  <2>2. CASE e = <<i, state>>
    BY <1>7, <2>2 DEF Earlier
  <2> QED BY <1>1, <2>1, <2>2
<1>13. ASSUME NEW j \in 1 .. Len(refunds) PROVE FollowsAt(j)'
  <2>1. FollowsAt(j) /\ RemedyOf(j)' = RemedyOf(j)
    BY <1>1, <1>6 DEF Paying, FollowsOK, FollowsAt, RemedyOf
  <2>2. CASE j # i
    BY <1>1, <1>6, <2>1, <2>2 DEF FollowsAt
  <2>3. CASE j = i
    <3>1. <<i, "pending">> \notin inbox
      BY DEF IInv, InboxOK
    <3>2. RemedyOf(i).attempts < MaxAttempts => RemedyOf(i).status \in Behind(state)
      BY <1>1, <2>1, <2>3, <3>1 DEF FollowsAt, Follows, Behind
    <3> QED BY <1>1, <1>7, <2>1, <2>3, <3>2 DEF FollowsAt
  <2> QED BY <2>2, <2>3
<1>14. FollowsOK'
  BY <1>5, <1>13 DEF FollowsOK, FollowsAt
<1> QED BY <1>9, <1>10, <1>11, <1>12, <1>14 DEF Paying

(* The one row a report is about.                                          *)
LEMMA ReportedRow ==
  ASSUME IInv, Paying, NEW i \in 1 .. Len(refunds)
  PROVE  RowOf(i) = {refunds[i].row}
<1>1. refunds[i].row \in Rows /\ Len(refunds) \in Nat
  BY RefundType DEF IInv
<1>2. i # 0
  BY <1>1
<1>3. ASSUME NEW r \in RowOf(i) PROVE r = refunds[i].row
  BY <1>2 DEF RowOf, Paying, NamesOK
<1>4. refunds[i].row \in RowOf(i)
  <2> DEFINE r == refunds[i].row
  <2>1. CASE remedy[r].ref = 0
    BY <1>1, <2>1 DEF RowOf
  <2>2. CASE remedy[r].ref # 0
    <3>1. remedy[r].ref \in 1 .. Len(refunds) /\ refunds[remedy[r].ref].row = r
      BY <1>1, <2>2 DEF Paying, NamesOK
    <3>2. remedy[r].ref = i
      BY <3>1 DEF IInv, OneRefundPerRemedy
    <3> QED BY <1>1, <3>2 DEF RowOf
  <2> QED BY <2>1, <2>2
<1> QED BY <1>3, <1>4

(* What a report does to it.                                               *)
LEMMA ReportMoves ==
  ASSUME IInv, Paying, NEW e \in inbox, ApplyRefundUpdate(e)
  PROVE  LET r == refunds[e[1]].row IN
         /\ e[1] \in 1 .. Len(refunds) /\ r \in Rows
         /\ e[2] \in {"approved", "rejected", "reversed"}
         /\ \A q \in Rows \ {r} : remedy'[q] = remedy[q]
         /\ remedy'[r].sub = remedy[r].sub /\ remedy'[r].attempts = remedy[r].attempts
         /\ IF remedy[r].status \in SettleFrom(e[2])
            THEN remedy'[r].status = e[2] /\ remedy'[r].ref = e[1]
            ELSE remedy'[r] = remedy[r]
<1> DEFINE i == e[1]
           state == e[2]
           r == refunds[i].row
           moved == {q \in RowOf(i) : remedy[q].status \in SettleFrom(state)}
<1>1. i \in 1 .. Len(refunds) /\ state \in {"approved", "rejected", "reversed"}
  BY DEF IInv, InboxOK, TypeOK, RefundStates
<1>2. r \in Rows
  BY <1>1, RefundType DEF IInv
<1>3. moved = {q \in {r} : remedy[q].status \in SettleFrom(state)}
  BY <1>1, ReportedRow
<1>4. remedy' = [q \in Rows |-> IF q \in moved
                   THEN [remedy[q] EXCEPT !.status = state, !.ref = i] ELSE remedy[q]]
  BY DEF ApplyRefundUpdate
<1> HIDE DEF moved, i, state
<1>5. \A q \in Rows \ {r} : remedy'[q] = remedy[q]
  BY <1>3, <1>4
<1>6. remedy[r] \in Remedy
  BY <1>2, NowType DEF IInv
<1>7. CASE remedy[r].status \in SettleFrom(state)
  <2>1. remedy'[r] = [remedy[r] EXCEPT !.status = state, !.ref = i]
    BY <1>2, <1>3, <1>4, <1>7
  <2> QED BY <1>1, <1>2, <1>5, <1>6, <1>7, <2>1 DEF Remedy, i, state
<1>8. CASE remedy[r].status \notin SettleFrom(state)
  <2>1. remedy'[r] = remedy[r]
    BY <1>2, <1>3, <1>4, <1>8
  <2> QED BY <1>1, <1>2, <1>5, <1>8, <2>1 DEF i, state
<1> QED BY <1>7, <1>8

LEMMA ReportPays ==
  ASSUME IInv, Paying, Onward, NEW e \in inbox, ApplyRefundUpdate(e)
  PROVE  Paying'
<1> DEFINE i == e[1]
           state == e[2]
           r == refunds[i].row
<1>1. /\ i \in 1 .. Len(refunds) /\ r \in Rows /\ state \in {"approved", "rejected", "reversed"}
      /\ \A q \in Rows \ {r} : remedy'[q] = remedy[q]
      /\ remedy'[r].sub = remedy[r].sub /\ remedy'[r].attempts = remedy[r].attempts
      /\ IF remedy[r].status \in SettleFrom(state)
         THEN remedy'[r].status = state /\ remedy'[r].ref = i
         ELSE remedy'[r] = remedy[r]
  BY ReportMoves
<1>2. /\ pc = "idle" /\ inbox' \in {inbox, inbox \ {e}}
      /\ UNCHANGED <<provider, refunds, pc, job>>
  BY DEF ApplyRefundUpdate, Unlocked, UnchangedJob
<1>3. e = <<i, state>>
  BY DEF IInv, TypeOK
<1> HIDE DEF i, state
<1>4. Earlier(state, refunds[i].state)
  BY DEF Paying, ReportsOK, i, state
<1>5. HeldOK' /\ AnswerOK' /\ LastOK'
  BY <1>2 DEF HeldOK, AnswerOK, LastOK
<1>6. ReportsOK'
  BY <1>2 DEF Paying, ReportsOK
<1>7. remedy[r].status \in SettleFrom(state) => remedy[r].status # "none"
  BY <1>1 DEF SettleFrom
<1>8. GivenOK'
  BY <1>1, <1>2, <1>7 DEF Paying, GivenOK, Given
<1>9. NamesOK'
  BY <1>1, <1>2 DEF Paying, NamesOK
<1>10. ASSUME NEW j \in 1 .. Len(refunds) PROVE FollowsAt(j)'
  <2>1. FollowsAt(j)
    BY DEF Paying, FollowsOK, FollowsAt
  <2>2. CASE j # i
    <3>1. refunds[j].row # r /\ refunds[j].row \in Rows
      BY <1>1, <2>2, RefundType DEF IInv, OneRefundPerRemedy
    <3>2. RemedyOf(j)' = RemedyOf(j)
      BY <1>1, <1>2, <3>1 DEF RemedyOf
    <3>3. <<j, refunds[j].state>> \in inbox => <<j, refunds[j].state>> \in inbox'
      BY <1>2, <1>3, <2>2
    <3> QED BY <1>2, <2>1, <3>2, <3>3 DEF FollowsAt
  <2>3. CASE j = i
    <3>1. RemedyOf(i) = remedy[r] /\ RemedyOf(i)' = remedy'[r]
      BY <1>2 DEF RemedyOf
    <3>2. CASE state = refunds[i].state
      <4>1. Follows(state) = {state} /\ Behind(state) \subseteq SettleFrom(state)
        BY <1>1 DEF Follows, Behind, SettleFrom
      <4> QED BY <1>1, <1>2, <2>1, <2>3, <3>1, <3>2, <4>1 DEF FollowsAt
    <3>3. CASE state # refunds[i].state
      <4>1. state = "approved" /\ refunds[i].state = "reversed"
        BY <1>1, <1>4, <3>3 DEF Earlier
      <4>2. <<i, refunds[i].state>> \in inbox => <<i, refunds[i].state>> \in inbox'
        BY <1>2, <1>3, <3>3
      <4>3. /\ Follows(refunds[i].state) \cap SettleFrom(state) = {}
            /\ state \in Behind(refunds[i].state)
        BY <4>1 DEF Follows, Behind, SettleFrom
      <4> QED BY <1>1, <1>2, <2>1, <2>3, <3>1, <4>2, <4>3 DEF FollowsAt
    <3> QED BY <3>2, <3>3
  <2> QED BY <2>2, <2>3
<1>11. FollowsOK'
  BY <1>2, <1>10 DEF FollowsOK, FollowsAt
<1> QED BY <1>5, <1>6, <1>8, <1>9, <1>11 DEF Paying

-----------------------------------------------------------------------------
(* The invariant, and that remedies follow their refunds.                  *)

LEMMA StepPays ==
  ASSUME IInv, Paying, [Next]_vars
  PROVE  Paying'
<1>0. Onward
  BY OnwardStep
<1>1. CASE Environment
  <2>1. CASE \/ \E s \in Subs : Subscribe(s) \/ Renew(s) \/ EndUnpaid(s)
             \/ RecordPayment \/ CancelRecorded \/ AddUser \/ RemoveUser
    <3>1. UnchangedRefunds /\ UNCHANGED <<pc, job>>
      BY <2>1 DEF Subscribe, Renew, EndUnpaid, RecordPayment, CancelRecorded, AddUser, RemoveUser, UnchangedJob
    <3> QED BY <1>0, <3>1, AllStay
  <2>2. CASE \E i \in 1 .. Len(refunds) : DecideRefund(i)
    BY <1>0, <2>2, DecidePays
  <2>3. CASE \E e \in inbox : ApplyRefundUpdate(e)
    BY <1>0, <2>3, ReportPays
  <2> QED BY <1>1, <2>1, <2>2, <2>3 DEF Environment
<1>2. CASE Customer \/ Ripen \/ UNCHANGED vars
  <2>1. UnchangedRefunds /\ UNCHANGED <<pc, job>>
    BY <1>2 DEF Customer, AskCancel, Request, Withdraw, Ripen, vars, UnchangedRefunds, UnchangedJob
  <2> QED BY <1>0, <2>1, AllStay
<1>3. CASE ExecuteFor \/ Work \/ PlanningFails \/ SaveUnheard \/ SupersedeUnheard \/ CancelFails \/ SendFails \/ Crash
  BY <1>0, <1>3, JobPays, SavePays, SaveUnheardPays, SupersedePays, ReleasePays, SendPays, MovePays, SendFailsPays DEF Work
<1> QED BY <1>1, <1>2, <1>3 DEF Next

LEMMA PayingInvariant == Spec => [](IInv /\ Paying)
<1>1. Init => IInv /\ Paying
  BY InitKeeps, InitPays
<1>2. IInv /\ Paying /\ [Next]_vars => IInv' /\ Paying'
  BY StepKeeps, StepPays
<1> QED BY <1>1, <1>2, PTL DEF Spec

(* Once every report is delivered and the job rests, a remedy that was not *)
(* given up has the state of its refund, in whatever order the job's       *)
(* answer and the reports came (MoveRemedy's and applyRefundUpdate's       *)
(* guards on the status they move from).                                   *)
THEOREM RemediesConverge == Spec => []RemedyConverges
<1>1. IInv /\ Paying => RemedyConverges
  BY DEF Paying, FollowsOK, RemedyConverges, Quiet
<1> QED BY <1>1, PayingInvariant, PTL

-----------------------------------------------------------------------------
(* The rows of payment_remedies implement RefundLifecycle.                 *)

Statuses == [r \in Rows |-> remedy[r].status]
EndedRows == {r \in Given : r \in unheard \/ ~Live(remedy[r].sub)}
PaidRows == {refunds[i].row : i \in 1 .. Len(refunds)}

LifeStep == [Lifecycle!LifecycleNext]_(Lifecycle!lifecycleVars)

(* The steps of the life of a refund, one lemma each.                      *)
LEMMA LifePlans ==
  ASSUME NEW S \in SUBSET Rows, \A r \in S : Statuses[r] = "none",
         Statuses' = [r \in Rows |-> IF r \in S THEN "queued" ELSE Statuses[r]],
         EndedRows' \in {EndedRows, EndedRows \cup S}, PaidRows' = PaidRows
  PROVE  LifeStep
BY DEF LifeStep, Lifecycle!LifecycleNext, Lifecycle!Plan, Statuses, EndedRows, PaidRows

LEMMA LifeEnds ==
  ASSUME NEW S \in SUBSET Rows, S \cap EndedRows = {}, EndedRows' = EndedRows \cup S,
         Statuses' = Statuses, PaidRows' = PaidRows
  PROVE  LifeStep
BY DEF LifeStep, Lifecycle!LifecycleNext, Lifecycle!EndPlan, Statuses, EndedRows, PaidRows

LEMMA LifePays ==
  ASSUME NEW r \in Rows, Statuses[r] = "queued", r \in EndedRows \ PaidRows,
         PaidRows' = PaidRows \cup {r}, EndedRows' = EndedRows,
         Statuses' \in {Statuses, [Statuses EXCEPT ![r] = "failed"]}
  PROVE  LifeStep
BY DEF LifeStep, Lifecycle!LifecycleNext, Lifecycle!Pay, Statuses, EndedRows, PaidRows

LEMMA LifeGivesUp ==
  ASSUME NEW r \in Rows, Statuses[r] = "queued", Statuses' = [Statuses EXCEPT ![r] = "failed"],
         EndedRows' = EndedRows, PaidRows' = PaidRows
  PROVE  LifeStep
BY DEF LifeStep, Lifecycle!LifecycleNext, Lifecycle!GiveUp, Statuses, EndedRows, PaidRows

LEMMA LifeReports ==
  ASSUME NEW r \in PaidRows, r \in Rows, NEW s \in Lifecycle!Reports(Statuses[r]),
         Statuses' = [Statuses EXCEPT ![r] = s], EndedRows' = EndedRows, PaidRows' = PaidRows
  PROVE  LifeStep
BY DEF LifeStep, Lifecycle!LifecycleNext, Lifecycle!Report, Statuses, EndedRows, PaidRows

LEMMA LifeStays ==
  ASSUME Statuses' = Statuses, EndedRows' = EndedRows, PaidRows' = PaidRows
  PROVE  LifeStep
BY DEF LifeStep, Lifecycle!lifecycleVars, Statuses, EndedRows, PaidRows

(* A planned row's subscription runs or has ended.                         *)
LEMMA EndedIs ==
  ASSUME IInv, Paying
  PROVE  EndedRows = {r \in Given : Ended(r)}
<1> SUFFICES ASSUME NEW r \in Given PROVE r \in unheard \/ ~Live(remedy[r].sub) <=> Ended(r)
  BY DEF EndedRows
<1>1. remedy[r].sub \in Subs /\ provider[remedy[r].sub].state # "none"
  BY DEF Given, IInv, RowsOK, Paying, GivenOK
<1>2. provider[remedy[r].sub].state \in {"none", "live", "canceled"}
  BY <1>1, ProviderType DEF IInv
<1> QED BY <1>1, <1>2 DEF Live, Ended

(* The rows and the refunds stay; plans may end.                           *)
LEMMA PlansEnd ==
  ASSUME IInv, Paying, IInv', Paying', Onward, UNCHANGED <<remedy, unheard>>, PaidRows' = PaidRows
  PROVE  LifeStep
<1>1. Given' = Given
  BY DEF Given
<1>2. EndedRows' = {r \in Given' : Ended(r)'}
  <2>1. (IInv /\ Paying => EndedRows = {r \in Given : Ended(r)})'
    BY EndedIs, PTL
  <2> QED BY <2>1
<1>3. \A r \in Given : Ended(r) => Ended(r)'
  BY DEF Ended, Onward
<1>4. EndedRows \subseteq EndedRows' /\ EndedRows' \subseteq Rows
  BY <1>1, <1>2, <1>3, EndedIs DEF Given
<1>5. Statuses' = Statuses
  BY DEF Statuses
<1> DEFINE S == EndedRows' \ EndedRows
<1>6. S \in SUBSET Rows /\ S \cap EndedRows = {} /\ EndedRows' = EndedRows \cup S
  BY <1>4
<1> HIDE DEF S
<1> QED BY <1>5, <1>6, LifeEnds

(* One row moves, under the same subscription.                             *)
LEMMA RowMoves ==
  ASSUME IInv, UNCHANGED <<provider, unheard>>, NEW r \in Rows, \A q \in Rows \ {r} : remedy'[q] = remedy[q],
         remedy'[r].sub = remedy[r].sub, remedy[r].status # "none", remedy'[r].status # "none"
  PROVE  EndedRows' = EndedRows /\ Statuses' = [Statuses EXCEPT ![r] = remedy'[r].status]
<1>1. Given' = Given /\ \A q \in Rows : remedy'[q].sub = remedy[q].sub
  BY DEF Given
<1>2. Given \subseteq Rows
  BY DEF Given
<1>3. EndedRows' = EndedRows
  BY <1>1, <1>2 DEF EndedRows, Live
<1> QED BY <1>3 DEF Statuses

(* A refund is made for a row it was not made for.                         *)
LEMMA RowPaid ==
  ASSUME IInv, Paying, NEW r \in Rows, NEW state \in {"pending", "approved"},
         Existing(r) = {}, MakeRefund(r, state)
  PROVE  r \notin PaidRows /\ PaidRows' = PaidRows \cup {r}
<1>1. /\ Len(refunds) \in Nat /\ Len(refunds') = Len(refunds) + 1
      /\ \A i \in 1 .. Len(refunds) : refunds'[i] = refunds[i] /\ refunds[i].row # r
      /\ refunds'[Len(refunds) + 1].row = r
  BY MadeReports
<1>2. r \notin PaidRows
  BY <1>1 DEF PaidRows
<1>3. ASSUME NEW q PROVE q \in PaidRows' <=> q \in PaidRows \cup {r}
  <2>1. q \in PaidRows' <=> \E i \in 1 .. Len(refunds') : q = refunds'[i].row
    BY DEF PaidRows
  <2>2. q \in PaidRows <=> \E i \in 1 .. Len(refunds) : q = refunds[i].row
    BY DEF PaidRows
  <2>3. 1 .. Len(refunds') = 1 .. Len(refunds) \cup {Len(refunds) + 1}
    BY <1>1
  <2> QED BY <1>1, <2>1, <2>2, <2>3
<1> QED BY <1>2, <1>3

LEMMA SaveLives ==
  ASSUME IInv, Paying, IInv', Paying', Onward, SaveRows \/ SaveUnheard
  PROVE  LifeStep
<1>0. UNCHANGED <<provider, refunds>> /\ PaidRows' = PaidRows
  BY DEF SaveRows, SaveUnheard, PaidRows
<1>1. CASE SaveRows /\ Waits
  BY <1>0, <1>1, PlansEnd DEF SaveRows, Outside
<1>2. CASE SaveUnheard \/ (SaveRows /\ ~Waits)
  <2>1. PICK rows \in SUBSET Fresh :
          /\ remedy' = [r \in Rows |-> IF r \in rows THEN Planned ELSE remedy[r]]
          /\ unheard' \in {unheard, unheard \cup rows}
    BY <1>2 DEF SaveRows, SaveUnheard, Outside
  <2>2. rows \in SUBSET Rows /\ \A r \in rows : remedy[r].status = "none"
    BY DEF Fresh
  <2>3. Planned.sub = job.sub /\ Planned.status = "queued"
    BY DEF Planned
  <2>4. \A r \in Rows : remedy'[r] = IF r \in rows THEN Planned ELSE remedy[r]
    BY <2>1
  <2>5. Given' = Given \cup rows /\ Given \cap rows = {} /\ Given \subseteq Rows
    BY <2>2, <2>3, <2>4 DEF Given
  <2>6. \A r \in rows : remedy'[r].sub = job.sub
    BY <2>2, <2>3, <2>4
  <2>7. \A r \in Given : remedy'[r].sub = remedy[r].sub
    BY <2>4, <2>5
  <2>u. rows \cap unheard = {}
    BY <2>2 DEF IInv, RowsOK
  <2>8. /\ \A r \in rows : r \in EndedRows' <=> r \in unheard' \/ ~Live(job.sub)
        /\ \A r \in Given : r \in EndedRows' <=> r \in EndedRows
        /\ EndedRows' \subseteq Given \cup rows /\ EndedRows \subseteq Given
    <3>1. EndedRows' = {r \in Given \cup rows : r \in unheard' \/ ~Live(remedy'[r].sub)}
      BY <1>0, <2>5 DEF EndedRows, Live
    <3> QED BY <2>1, <2>5, <2>6, <2>7, <3>1 DEF EndedRows
  <2>9. /\ \A r \in rows : Statuses[r] = "none"
        /\ Statuses' = [r \in Rows |-> IF r \in rows THEN "queued" ELSE Statuses[r]]
    BY <2>2, <2>3, <2>4 DEF Statuses
  <2>10. EndedRows' \in {EndedRows, EndedRows \cup rows}
    BY <2>1, <2>5, <2>u, <2>8
  <2> QED BY <1>0, <2>2, <2>9, <2>10, LifePlans
<1> QED BY <1>1, <1>2

LEMMA GiveUpLives ==
  ASSUME IInv, Paying, IInv', Paying', Onward, Supersede \/ SupersedeUnheard \/ ReleaseRow
  PROVE  LifeStep
<1>0. pc \in {"supersede", "release"} /\ UNCHANGED <<provider, refunds, unheard>> /\ PaidRows' = PaidRows
  BY DEF Supersede, SupersedeUnheard, ReleaseRow, PaidRows, Outside
<1>1. CASE UNCHANGED remedy
  BY <1>0, <1>1, PlansEnd
<1>2. CASE ~UNCHANGED remedy
  <2>1. PICK r \in job.rows : \E n \in Nat, flag \in BOOLEAN :
          remedy' = [remedy EXCEPT ![r] =
            IF remedy[r].status = "queued"
            THEN [remedy[r] EXCEPT !.status = "failed", !.attempts = n, !.superseded = flag]
            ELSE remedy[r]]
    <3>1. CASE Supersede \/ SupersedeUnheard
      <4>1. PICK r \in job.rows : remedy' = [remedy EXCEPT ![r].status = "failed", ![r].superseded = TRUE]
        BY <3>1 DEF Supersede, SupersedeUnheard
      <4>2. r \in Rows /\ remedy[r].status = "queued" /\ remedy[r] \in Remedy
        BY <1>0, NowType DEF Job, Paying, HeldOK, Queued
      <4>3. remedy' = [remedy EXCEPT ![r] = [remedy[r] EXCEPT !.status = "failed", !.superseded = TRUE]]
        BY <4>1, <4>2, NowType
      <4>4. [remedy[r] EXCEPT !.status = "failed", !.superseded = TRUE]
              = [remedy[r] EXCEPT !.status = "failed", !.attempts = remedy[r].attempts, !.superseded = TRUE]
        BY <4>2 DEF Remedy
      <4>5. remedy[r].attempts \in Nat
        BY <4>2 DEF Remedy
      <4> QED BY <4>2, <4>3, <4>4, <4>5
    <3>2. CASE ReleaseRow
      <4>1. PICK r \in job.rows :
              remedy' = [remedy EXCEPT ![r] = IF remedy[r].status = "queued"
                THEN [remedy[r] EXCEPT !.status = "failed", !.attempts = job.attempts + 1] ELSE remedy[r]]
        BY <1>2, <3>2 DEF ReleaseRow
      <4>2. r \in Rows /\ remedy[r].status = "queued" /\ remedy[r] \in Remedy
        BY <1>0, NowType DEF Job, Paying, HeldOK, Queued
      <4>3. [remedy[r] EXCEPT !.status = "failed", !.attempts = job.attempts + 1]
              = [remedy[r] EXCEPT !.status = "failed", !.attempts = job.attempts + 1,
                                  !.superseded = remedy[r].superseded]
        BY <4>2 DEF Remedy
      <4>4. job.attempts + 1 \in Nat /\ remedy[r].superseded \in BOOLEAN
        BY <4>2, NowType DEF Remedy, Job
      <4> QED BY <4>1, <4>2, <4>3, <4>4
    <3> QED BY <3>1, <3>2
  <2>2. r \in Rows /\ remedy[r].status = "queued" /\ remedy[r] \in Remedy
    BY <1>0, NowType DEF Job, Paying, HeldOK, Queued
  <2>3. PICK n \in Nat, flag \in BOOLEAN :
          remedy' = [remedy EXCEPT ![r] =
            [remedy[r] EXCEPT !.status = "failed", !.attempts = n, !.superseded = flag]]
    BY <2>1, <2>2
  <2>4. remedy'[r].status = "failed" /\ remedy'[r].sub = remedy[r].sub
    <3>1. remedy'[r] = [remedy[r] EXCEPT !.status = "failed", !.attempts = n, !.superseded = flag]
      BY <2>2, <2>3, NowType
    <3> QED BY <2>2, <3>1 DEF Remedy
  <2>5. \A q \in Rows \ {r} : remedy'[q] = remedy[q]
    BY <2>3, NowType
  <2>6. EndedRows' = EndedRows /\ Statuses' = [Statuses EXCEPT ![r] = "failed"]
    BY <1>0, <2>2, <2>4, <2>5, RowMoves
  <2>7. Statuses[r] = "queued"
    BY <2>2 DEF Statuses
  <2> QED BY <1>0, <2>2, <2>6, <2>7, LifeGivesUp
<1> QED BY <1>1, <1>2

LEMMA SendLives ==
  ASSUME IInv, Paying, IInv', Paying', Onward, RefundInvoicePayment \/ SendFails
  PROVE  LifeStep
<1>0. pc \in {"send", "record", "settle"} /\ UNCHANGED <<provider, unheard>>
  BY DEF RefundInvoicePayment, SendFails, Outside
<1>1. PICK r \in job.rows :
        /\ UNCHANGED remedy \/ RefundFailed(r)
        /\ \/ UNCHANGED <<refunds, inbox>>
           \/ Existing(r) = {} /\ \E state \in {"pending", "approved"} : MakeRefund(r, state)
  BY DEF RefundInvoicePayment, SendFails
<1>2. r \in Rows /\ remedy[r].status = "queued" /\ remedy[r] \in Remedy
  BY <1>0, NowType DEF Job, Paying, HeldOK, Queued
<1>3. r \in EndedRows
  <2>1. Ended(r)
    BY <1>0 DEF IInv, SendingOK
  <2> QED BY <1>2, <2>1, EndedIs DEF Given
<1>4. Statuses[r] = "queued"
  BY <1>2 DEF Statuses
<1>5. EndedRows' = EndedRows /\ Statuses' \in {Statuses, [Statuses EXCEPT ![r] = "failed"]}
  <2>1. CASE UNCHANGED remedy
    BY <1>0, <2>1 DEF EndedRows, Given, Live, Statuses
  <2>2. CASE RefundFailed(r)
    <3> DEFINE n == remedy[r].attempts + 1
               status == IF n >= MaxAttempts THEN "failed" ELSE "queued"
    <3>1. remedy' = [remedy EXCEPT ![r] = [remedy[r] EXCEPT !.attempts = n, !.status = status]]
      BY <1>2, <2>2 DEF RefundFailed
    <3>2. status \in {"failed", "queued"}
      OBVIOUS
    <3> HIDE DEF n, status
    <3>3. remedy'[r] = [remedy[r] EXCEPT !.attempts = n, !.status = status]
      BY <1>2, <3>1, NowType
    <3>4. remedy'[r].sub = remedy[r].sub /\ remedy'[r].status = status
      BY <1>2, <3>3 DEF Remedy
    <3>5. \A q \in Rows \ {r} : remedy'[q] = remedy[q]
      BY <3>1, NowType
    <3>6. EndedRows' = EndedRows /\ Statuses' = [Statuses EXCEPT ![r] = status]
      BY <1>0, <1>2, <3>2, <3>4, <3>5, RowMoves
    <3>7. [Statuses EXCEPT ![r] = "queued"] = Statuses
      BY <1>2 DEF Statuses
    <3> QED BY <3>2, <3>6, <3>7
  <2> QED BY <1>1, <2>1, <2>2
<1>6. CASE UNCHANGED <<refunds, inbox>>
  <2>1. PaidRows' = PaidRows
    BY <1>6 DEF PaidRows
  <2>2. CASE Statuses' = Statuses
    BY <1>5, <2>1, <2>2, LifeStays
  <2>3. CASE Statuses' = [Statuses EXCEPT ![r] = "failed"]
    BY <1>2, <1>4, <1>5, <2>1, <2>3, LifeGivesUp
  <2> QED BY <1>5, <2>2, <2>3
<1>7. CASE Existing(r) = {} /\ \E state \in {"pending", "approved"} : MakeRefund(r, state)
  <2>1. r \notin PaidRows /\ PaidRows' = PaidRows \cup {r}
    BY <1>2, <1>7, RowPaid
  <2> QED BY <1>2, <1>3, <1>4, <1>5, <2>1, LifePays
<1> QED BY <1>1, <1>6, <1>7

LEMMA SettleLives ==
  ASSUME IInv, Paying, IInv', Paying', Onward, MoveRemedy
  PROVE  LifeStep
<1>0. /\ pc = "settle" /\ UNCHANGED <<provider, refunds, unheard>>
      /\ remedy' = [remedy EXCEPT ![job.row] =
           IF @.status = "queued" THEN [@ EXCEPT !.status = RemedyStatusOf(job.state), !.ref = job.refund] ELSE @]
  BY DEF MoveRemedy, Outside
<1>1. PICK r \in Rows : r = job.row /\ r \in job.rows
  BY <1>0, NowType DEF IInv, SendingOK, Job
<1>2. r \in PaidRows /\ PaidRows' = PaidRows
  <2>1. job.refund \in 1 .. Len(refunds) /\ refunds[job.refund].row = r
    BY <1>0, <1>1 DEF IInv, SendingOK, Paying, AnswerOK
  <2> QED BY <1>0, <2>1 DEF PaidRows
<1>3. remedy[r].status = "queued" /\ remedy[r] \in Remedy
  BY <1>0, <1>1, NowType DEF Paying, HeldOK, Queued
<1>4. PICK s \in {"initiated", "approved", "rejected", "reversed"} : s = RemedyStatusOf(job.state)
  BY NowType DEF RemedyStatusOf, Job, RefundStates
<1>5. remedy'[r].sub = remedy[r].sub /\ remedy'[r].status = s
  <2>1. remedy'[r] = [remedy[r] EXCEPT !.status = s, !.ref = job.refund]
    BY <1>0, <1>1, <1>3, <1>4, NowType
  <2> QED BY <1>3, <2>1 DEF Remedy
<1>6. \A q \in Rows \ {r} : remedy'[q] = remedy[q]
  BY <1>0, <1>1, NowType
<1>7. EndedRows' = EndedRows /\ Statuses' = [Statuses EXCEPT ![r] = s]
  BY <1>0, <1>3, <1>5, <1>6, RowMoves
<1>8. Statuses[r] = "queued"
  BY <1>3 DEF Statuses
<1>9. s \in Lifecycle!Reports(Statuses[r])
  BY <1>4, <1>8 DEF Lifecycle!Reports
<1> QED BY <1>2, <1>7, <1>9, LifeReports

LEMMA ReportLives ==
  ASSUME IInv, Paying, IInv', Paying', Onward, NEW e \in inbox, ApplyRefundUpdate(e)
  PROVE  LifeStep
<1> DEFINE i == e[1]
           state == e[2]
           r == refunds[i].row
<1>1. /\ i \in 1 .. Len(refunds) /\ r \in Rows /\ state \in {"approved", "rejected", "reversed"}
      /\ \A q \in Rows \ {r} : remedy'[q] = remedy[q]
      /\ remedy'[r].sub = remedy[r].sub
      /\ IF remedy[r].status \in SettleFrom(state) THEN remedy'[r].status = state
                                                   ELSE remedy'[r] = remedy[r]
  BY ReportMoves
<1>2. UNCHANGED <<provider, refunds, unheard>>
  BY DEF ApplyRefundUpdate, Outside
<1> HIDE DEF i, state
<1>3. r \in PaidRows /\ PaidRows' = PaidRows
  BY <1>1, <1>2 DEF PaidRows
<1>4. CASE remedy[r].status \in SettleFrom(state)
  <2>1. remedy[r].status # "none" /\ state \in Lifecycle!Reports(remedy[r].status) /\ state # "none"
    BY <1>1, <1>4 DEF SettleFrom, Lifecycle!Reports
  <2>2. EndedRows' = EndedRows /\ Statuses' = [Statuses EXCEPT ![r] = state]
    BY <1>1, <1>2, <1>4, <2>1, RowMoves
  <2>3. Statuses[r] = remedy[r].status
    BY <1>1 DEF Statuses
  <2> QED BY <1>1, <1>3, <2>1, <2>2, <2>3, LifeReports
<1>5. CASE remedy[r].status \notin SettleFrom(state)
  <2>1. \A q \in Rows : remedy'[q] = remedy[q]
    BY <1>1, <1>5
  <2>2. Statuses' = Statuses /\ EndedRows' = EndedRows
    BY <1>2, <2>1 DEF Statuses, EndedRows, Given, Live
  <2> QED BY <1>3, <2>2, LifeStays
<1> QED BY <1>4, <1>5

LEMMA DecideLives ==
  ASSUME IInv, Paying, IInv', Paying', Onward, NEW i \in 1 .. Len(refunds), DecideRefund(i)
  PROVE  LifeStep
<1>1. PICK state \in RefundStates : refunds' = [refunds EXCEPT ![i].state = state] /\ UNCHANGED <<remedy, unheard>>
  BY DEF DecideRefund, UnchangedJob
<1> DEFINE R == [row : Rows, state : RefundStates]
           now == [refunds[i] EXCEPT !.state = state]
<1>2. refunds \in Seq(R) /\ refunds' = [refunds EXCEPT ![i] = now]
  BY <1>1 DEF IInv, TypeOK
<1>3. refunds[i] \in R
  <2> HIDE DEF R
  <2> QED BY <1>2
<1>4. now.row = refunds[i].row
  BY <1>3
<1> HIDE DEF R, now
<1>5. Len(refunds') = Len(refunds) /\ \A j \in 1 .. Len(refunds) : refunds'[j].row = refunds[j].row
  BY <1>2, <1>4
<1>6. PaidRows' = PaidRows
  BY <1>5 DEF PaidRows
<1> QED BY <1>1, <1>6, PlansEnd

LEMMA StepLives ==
  ASSUME IInv, Paying, IInv', Paying', [Next]_vars
  PROVE  LifeStep
<1>0. Onward
  BY OnwardStep
<1>1. CASE SaveRows \/ SaveUnheard \/ Supersede \/ SupersedeUnheard \/ ReleaseRow \/ RefundInvoicePayment \/ SendFails \/ MoveRemedy
  BY <1>0, <1>1, SaveLives, GiveUpLives, SendLives, SettleLives
<1>2. CASE \/ \E i \in 1 .. Len(refunds) : DecideRefund(i)
           \/ \E e \in inbox : ApplyRefundUpdate(e)
  BY <1>0, <1>2, DecideLives, ReportLives
<1>3. CASE UNCHANGED <<remedy, refunds, unheard>>
  <2>1. PaidRows' = PaidRows
    BY <1>3 DEF PaidRows
  <2> QED BY <1>0, <1>3, <2>1, PlansEnd
<1>4. \/ SaveRows \/ SaveUnheard \/ Supersede \/ SupersedeUnheard \/ ReleaseRow \/ RefundInvoicePayment \/ SendFails \/ MoveRemedy
      \/ \E i \in 1 .. Len(refunds) : DecideRefund(i)
      \/ \E e \in inbox : ApplyRefundUpdate(e)
      \/ UNCHANGED <<remedy, refunds, unheard>>
  BY DEF Next, Environment, Customer, Work, Subscribe, Renew, EndUnpaid, RecordPayment, CancelRecorded, AddUser,
         RemoveUser, AskCancel, Request, Withdraw, Ripen, ExecuteFor, PlanRefund, RefundBasis, ReplanIfRenewed,
         CancelImmediately, CancelFails, CheckEnded, DropRequest, ClearRequest, RecordRefund, PlanningFails,
         Crash, UnchangedRefunds, UnchangedJob, Outside, vars
<1> QED BY <1>1, <1>2, <1>3, <1>4

LEMMA InitLives == Init => Lifecycle!LifecycleInit
BY DEF Init, Lifecycle!LifecycleInit, Given

(* The rows of payment_remedies implement the life of a refund: planned,   *)
(* paid once and only when its plan has ended (or the row was inserted     *)
(* unheard), settled in one direction (executeFor, sendRefunds and         *)
(* applyRefundUpdate together).                                            *)
THEOREM Implements == Spec => ImplementsLifecycle
<1>1. Init => Lifecycle!LifecycleInit
  BY InitLives
<1>2. /\ IInv /\ Paying /\ IInv' /\ Paying' /\ [Next]_vars
      => [Lifecycle!LifecycleNext]_(Lifecycle!lifecycleVars)
  BY StepLives DEF LifeStep
<1> QED BY <1>1, <1>2, PayingInvariant, PTL DEF Spec, ImplementsLifecycle, Lifecycle!LifecycleSpec
=============================================================================
