----------------------------- MODULE CardRefunds -----------------------------
(***************************************************************************)
(* The money of refunds on card payments: what the downgrade plans to give *)
(* back and how it spreads it over payments, what an operator's remedy     *)
(* gives back, and how both are spread over the provider's line items.     *)
(*                                                                         *)
(* The downgrade job works under the company lock; an operator does not.   *)
(* Both read what is left to refund from payment_remedies and call the     *)
(* provider afterwards.  A payment is one settled in full by card.         *)
(***************************************************************************)
EXTENDS Integers, Sequences, FiniteSets, Functions

CONSTANT Setups \* the cases by name: the provider's payments and bills, who works when, and the bounds of each case

VARIABLES
  setup,        \* the name of the case; it never changes
  adjustments,  \* external: refunds made at the provider; an id is an index
  inbox,        \* external: decisions not yet reported
  remedy,       \* payment_remedies, in order; a row is an index
  ended,        \* the plan has been ended, the planned refunds are due
  pc, job,      \* the job's next step and its locals
  op,           \* each operator's next step and locals
  lost,         \* history variable: refunds of operators who failed before saving the row
  faults

\* lines      external: the line item totals of each payment, the newest payment first
\* bases      bound: what the provider says of the bill when a refund is planned
\* operators  operators at the console
\* overlap    whether an operator's remedy may overlap a run of the job, or another's
\* operatorFaults  whether an operator's call or insert may fail
\* attempts   MAX_PROVIDER_ATTEMPTS
\* rows       bound: payment_remedies rows
\* faults     bound: failed calls and crashes
Basis == [start : Int, end : Int, at : Int, paid : BOOLEAN, held : Seq(Int \X Int), pending : Int, credit : Int]

ASSUME SetupAssumption == \A s \in Range(Setups) :
  /\ s.lines \in Seq(Seq(Nat)) /\ s.bases # {} /\ s.bases \subseteq Basis /\ IsFiniteSet(s.operators)
  /\ s.overlap \in BOOLEAN /\ s.operatorFaults \in BOOLEAN
  /\ s.attempts \in Nat \ {0} /\ s.rows \in Nat /\ s.faults \in Nat

Lines == Setups[setup].lines
Operators == Setups[setup].operators
Payments == 1 .. Len(Lines)

vars == <<setup, adjustments, inbox, remedy, ended, pc, job, op, lost, faults>>

-----------------------------------------------------------------------------
(* The arithmetic.                                                         *)

Least(a, b) == IF a < b THEN a ELSE b
AtLeastZero(n) == IF n < 0 THEN 0 ELSE n

Amount(p) == SumFunction(Lines[p])

\* Mutant: the share of the period is rounded up.
UnusedShare_RoundUp(held, unused, period) == (held * unused + period - 1) \div period

UnusedShare(held, unused, period) == (held * unused) \div period

\* What the held lines cost, each a number of units at a price.
HeldValue(b) == SumFunction([i \in DOMAIN b.held |-> AtLeastZero(b.held[i][1]) * AtLeastZero(b.held[i][2])])

\* Unused share of held lines, pending credit and balance, capped at card money.
ComputeCancelRefund(b, card) ==
  LET period == AtLeastZero(b.end - b.start)
      unused == Least(AtLeastZero(b.end - b.at), period)
      share  == IF b.paid /\ period > 0 THEN UnusedShare(HeldValue(b), unused, period) ELSE 0
  IN Least(AtLeastZero(share - b.pending + AtLeastZero(b.credit)), AtLeastZero(card))

\* Spreads an amount over caps in order; what is left over at the end is an error.
Spread(amount, caps) ==
  LET rest[i \in 0 .. Len(caps)] ==
        IF i = 0 THEN amount
        ELSE rest[i - 1] - AtLeastZero(Least(rest[i - 1], caps[i]))
  IN [parts |-> [i \in DOMAIN caps |-> rest[i - 1] - rest[i]], rest |-> rest[Len(caps)]]

\* Mutant: a planned refund that was not sent yet does not count.
LiveStatuses_NotQueued == {"initiated", "approved"}

LiveStatuses == {"queued", "initiated", "approved"}

\* liveRefundTotals, of one payment.
Refunded(p) ==
  SumFunction([r \in {r \in DOMAIN remedy : remedy[r].payment = p /\ remedy[r].status \in LiveStatuses}
                 |-> remedy[r].amount])

Refundable(p) == AtLeastZero(Amount(p) - Refunded(p))

-----------------------------------------------------------------------------
(* The provider.                                                           *)

AdjustmentStates == {"pending", "approved", "rejected", "reversed"}

HoldsMoney(i) == adjustments[i].state \in {"pending", "approved"}
RefundsOf(p) == {i \in DOMAIN adjustments : adjustments[i].payment = p /\ HoldsMoney(i)}

\* refundedByLineItem, taken from each line's total.
LeftByLine(p) ==
  [l \in DOMAIN Lines[p] |-> Lines[p][l] - SumFunction([i \in RefundsOf(p) |-> adjustments[i].items[l]])]

\* The provider refuses a refund of more than a line has left.
Takes(p, items) == \A l \in DOMAIN items : items[l] <= LeftByLine(p)[l]

Adjust(p, row, items, state) ==
  /\ adjustments' = Append(adjustments, [payment |-> p, row |-> row, items |-> items, state |-> state])
  /\ inbox' = IF state = "pending" THEN inbox ELSE inbox \cup {<<Len(adjustments) + 1, state>>}

Decide(i) ==
  \E state \in AdjustmentStates \ {"pending"} :
    /\ IF state = "reversed" THEN adjustments[i].state = "approved"
                             ELSE adjustments[i].state = "pending"
    /\ adjustments' = [adjustments EXCEPT ![i].state = state]
    /\ inbox' = inbox \cup {<<i, state>>}
    /\ UNCHANGED <<remedy, ended, pc, job, op, lost, faults>>

-----------------------------------------------------------------------------
(* The downgrade job.                                                      *)

Queued == {r \in DOMAIN remedy : remedy[r].status = "queued"}
Existing(r) == {i \in DOMAIN adjustments : adjustments[i].row = r}
Busy == {o \in Operators : op[o].step # "idle"}

NoJob == [basis |-> CHOOSE b \in Setups[setup].bases : TRUE, rows |-> {}, row |-> 0,
          caps |-> <<>>, parts |-> <<>>, items |-> <<>>, refund |-> 0]
Goto(step, locals) == pc' = step /\ job' = IF step = "idle" THEN NoJob ELSE locals

Fault == faults < Setups[setup].faults /\ faults' = faults + 1
Provider == <<adjustments, inbox>>

\* A new plan, or the rows of an earlier run.
Start ==
  /\ pc = "idle" /\ (Setups[setup].overlap \/ Busy = {})
  /\ IF Queued = {}
     THEN ~ended /\ Len(remedy) + Len(Lines) <= Setups[setup].rows /\ Goto("plan", NoJob)
     ELSE Goto(IF ended THEN "list" ELSE "cancel", [NoJob EXCEPT !.rows = Queued])
  /\ UNCHANGED <<Provider, remedy, ended, op, lost, faults>>

\* Rows of a plan that is not carried out are discarded, one by one.
Discard ==
  /\ pc = "idle" /\ ~ended
  /\ \E r \in Queued : remedy' = [remedy EXCEPT ![r].status = "failed"]
  /\ UNCHANGED <<Provider, ended, pc, job, op, lost, faults>>

\* planRefund: the refund and its parts, from what the rows say is left.
Plan ==
  /\ pc = "plan"
  /\ \E b \in Setups[setup].bases :
       LET caps == [p \in Payments |-> Refundable(p)]
       IN Goto("save", [job EXCEPT !.basis = b, !.caps = caps,
                          !.parts = Spread(ComputeCancelRefund(b, SumFunction(caps)), caps).parts])
  /\ UNCHANGED <<Provider, remedy, ended, op, lost, faults>>

Row(p, amount, status, cause, ref) ==
  [payment |-> p, amount |-> amount, status |-> status, cause |-> cause, attempts |-> 0, ref |-> ref]

\* A row for each payment, in order; a part of nothing has none.
SaveRows ==
  /\ pc = "save"
  /\ LET due == {p \in Payments : job.parts[p] > 0}
     IN \E order \in [1 .. Cardinality(due) -> due] :
          /\ \A j, k \in DOMAIN order : j < k => order[j] < order[k]
          /\ remedy' = remedy \o [k \in DOMAIN order |-> Row(order[k], job.parts[order[k]], "queued", "cancel", 0)]
  /\ Goto("cancel", [NoJob EXCEPT !.rows = DOMAIN remedy' \ DOMAIN remedy])
  /\ UNCHANGED <<Provider, ended, op, lost, faults>>

\* The plan ends; a failed call leaves the rows for the next run.
Cancel ==
  /\ pc = "cancel"
  /\ ended' = TRUE
  /\ Goto(IF job.rows = {} THEN "idle" ELSE "list", job)
  /\ UNCHANGED <<Provider, remedy, op, lost, faults>>

NextRow(r) == Goto(IF job.rows = {r} THEN "idle" ELSE "list", [NoJob EXCEPT !.rows = job.rows \ {r}])

\* refundFailed: an attempt more on the row, given up after the last one.
RefundFailed(r) ==
  /\ remedy' = [remedy EXCEPT ![r].attempts = @ + 1,
                  ![r].status = IF remedy[r].attempts + 1 >= Setups[setup].attempts THEN "failed" ELSE @]
  /\ NextRow(r)

\* Mutant: a retry does not look for the refund an earlier attempt made.
ListRefunds_NoSearch ==
  /\ pc = "list"
  /\ \E r \in job.rows :
       LET split == Spread(remedy[r].amount, LeftByLine(remedy[r].payment))
       IN IF split.rest > 0 THEN RefundFailed(r)
          ELSE Goto("create", [job EXCEPT !.row = r, !.items = split.parts]) /\ UNCHANGED remedy
  /\ UNCHANGED <<Provider, ended, op, lost, faults>>

\* The refund of an earlier attempt, else the items of a new one.
ListRefunds ==
  /\ pc = "list"
  /\ \E r \in job.rows :
       LET split == Spread(remedy[r].amount, LeftByLine(remedy[r].payment))
       IN \/ /\ Existing(r) # {}
             /\ Goto("settle", [job EXCEPT !.row = r, !.refund = CHOOSE i \in Existing(r) : TRUE])
             /\ UNCHANGED remedy
          \/ Existing(r) = {} /\ split.rest > 0 /\ RefundFailed(r)
          \/ /\ Existing(r) = {} /\ split.rest = 0
             /\ Goto("create", [job EXCEPT !.row = r, !.items = split.parts])
             /\ UNCHANGED remedy
  /\ UNCHANGED <<Provider, ended, op, lost, faults>>

CreateRefund ==
  /\ pc = "create"
  /\ LET p == remedy[job.row].payment
     IN \/ /\ Takes(p, job.items)
           /\ \E state \in {"pending", "approved"} : Adjust(p, job.row, job.items, state)
           /\ Goto("settle", [job EXCEPT !.refund = Len(adjustments) + 1])
           /\ UNCHANGED remedy
        \/ ~Takes(p, job.items) /\ RefundFailed(job.row) /\ UNCHANGED Provider
  /\ UNCHANGED <<ended, op, lost, faults>>

\* A call throws; the refund may have been made.
SendFails ==
  /\ pc \in {"list", "create"} /\ Fault
  /\ \E r \in job.rows :
       /\ pc = "create" => r = job.row
       /\ RefundFailed(r)
       /\ \/ UNCHANGED Provider
          \/ /\ pc = "create" /\ Takes(remedy[r].payment, job.items)
             /\ \E state \in {"pending", "approved"} :
                  Adjust(remedy[r].payment, r, job.items, state)
  /\ UNCHANGED <<ended, op, lost>>

StatusOf(state) == IF state = "pending" THEN "initiated" ELSE state

Settle ==
  /\ pc = "settle"
  /\ remedy' = [remedy EXCEPT ![job.row].status = StatusOf(adjustments[job.refund].state),
                              ![job.row].ref = job.refund]
  /\ NextRow(job.row)
  /\ UNCHANGED <<Provider, ended, op, lost, faults>>

Crash ==
  /\ pc # "idle" /\ Fault
  /\ Goto("idle", job)
  /\ UNCHANGED <<Provider, remedy, ended, op, lost>>

-----------------------------------------------------------------------------
(* An operator's remedy.                                                   *)

NoOp == [step |-> "idle", payment |-> 0, amount |-> 0, items |-> <<>>, refund |-> 0]
Move(o, now) == op' = [op EXCEPT ![o] = now]

\* assertRefundable: earlier live refunds count against what is left.
ApplyRemedy(o) ==
  /\ op[o].step = "idle" /\ (Setups[setup].overlap \/ (pc = "idle" /\ Busy = {}))
  /\ Len(remedy) + Cardinality(Busy) < Setups[setup].rows
  /\ \E p \in Payments :
       \/ /\ Refunded(p) = 0 /\ Amount(p) > 0
          /\ Move(o, [NoOp EXCEPT !.step = "create", !.payment = p, !.amount = Amount(p),
                                  !.items = Lines[p]])
       \/ \E amount \in 1 .. Refundable(p) :
            Move(o, [NoOp EXCEPT !.step = "list", !.payment = p, !.amount = amount])
  /\ UNCHANGED <<Provider, remedy, ended, pc, job, lost, faults>>

\* A partial refund is spread over the lines; more than they have left is a 502.
ListFor(o) ==
  /\ op[o].step = "list"
  /\ LET split == Spread(op[o].amount, LeftByLine(op[o].payment))
     IN Move(o, IF split.rest > 0 THEN NoOp
                ELSE [op[o] EXCEPT !.step = "create", !.items = split.parts])
  /\ UNCHANGED <<Provider, remedy, ended, pc, job, lost, faults>>

\* refundCardPayment: no reference names the remedy.
CreateFor(o) ==
  /\ op[o].step = "create"
  /\ \/ /\ Takes(op[o].payment, op[o].items)
        /\ \E state \in {"pending", "approved"} : Adjust(op[o].payment, 0, op[o].items, state)
        /\ Move(o, [op[o] EXCEPT !.step = "save", !.refund = Len(adjustments) + 1])
     \/ ~Takes(op[o].payment, op[o].items) /\ Move(o, NoOp) /\ UNCHANGED Provider
  /\ UNCHANGED <<remedy, ended, pc, job, lost, faults>>

SaveRemedy(o) ==
  /\ op[o].step = "save"
  /\ remedy' = Append(remedy, Row(op[o].payment, op[o].amount, "initiated", "make_it_right", op[o].refund))
  /\ Move(o, NoOp)
  /\ UNCHANGED <<Provider, ended, pc, job, lost, faults>>

\* A call or the insert throws, or the process dies; the refund may have been made.
OperatorFails(o) ==
  /\ Setups[setup].operatorFaults /\ op[o].step # "idle" /\ Fault
  /\ Move(o, NoOp)
  /\ \/ UNCHANGED Provider /\ lost' = lost \cup ({op[o].refund} \ {0})
     \/ /\ op[o].step = "create" /\ Takes(op[o].payment, op[o].items)
        /\ \E state \in {"pending", "approved"} : Adjust(op[o].payment, 0, op[o].items, state)
        /\ lost' = lost \cup {Len(adjustments) + 1}
  /\ UNCHANGED <<remedy, ended, pc, job>>

-----------------------------------------------------------------------------
(* The provider's report on a refund, of either kind.                      *)

SettleFrom(state) ==
  CASE state = "approved" -> {"queued", "initiated", "failed"}
    [] state = "rejected" -> {"queued", "initiated"}
    [] state = "reversed" -> {"queued", "initiated", "approved"}

RowOf(i) == {r \in DOMAIN remedy : remedy[r].ref = i \/ (adjustments[i].row = r /\ remedy[r].ref = 0)}

\* Waits for the job; a report on a refund no row knows is ignored.
ApplyRefundUpdate(e) ==
  /\ pc = "idle"
  /\ inbox' = inbox \ {e}
  /\ LET moved == {r \in RowOf(e[1]) : remedy[r].status \in SettleFrom(e[2])}
     IN remedy' = [r \in DOMAIN remedy |-> IF r \in moved
                     THEN [remedy[r] EXCEPT !.status = e[2], !.ref = e[1]] ELSE remedy[r]]
  /\ UNCHANGED <<adjustments, ended, pc, job, op, lost, faults>>

-----------------------------------------------------------------------------
Init ==
  /\ setup \in DOMAIN Setups
  /\ adjustments = <<>> /\ inbox = {} /\ remedy = <<>> /\ ended = FALSE
  /\ pc = "idle" /\ job = NoJob
  /\ op = [o \in Operators |-> NoOp] /\ lost = {} /\ faults = 0

Next ==
  \/ Start \/ Discard \/ Plan \/ SaveRows \/ Cancel \/ ListRefunds \/ CreateRefund
  \/ SendFails \/ Settle \/ Crash
  \/ \E o \in Operators : ApplyRemedy(o) \/ ListFor(o) \/ CreateFor(o) \/ SaveRemedy(o)
                          \/ OperatorFails(o)
  \/ \E i \in DOMAIN adjustments : Decide(i)
  \/ \E e \in inbox : ApplyRefundUpdate(e)

Spec == Init /\ [][Next /\ UNCHANGED setup]_vars

-----------------------------------------------------------------------------
(* Properties.                                                             *)

Remedy == [payment : Payments, amount : Nat \ {0}, status : LiveStatuses \cup {"rejected", "reversed", "failed"},
           cause : {"cancel", "make_it_right"}, attempts : 0 .. Setups[setup].attempts, ref : Nat]

Adjustment == [payment : Payments, row : Nat, items : Seq(Nat), state : AdjustmentStates]

\* Every variable stays in its range: no row of nothing, no negative item, no
\* more attempts than allowed (payment_remedies and the provider's adjustments).
TypeOK ==
  /\ adjustments \in Seq(Adjustment) /\ inbox \subseteq (Nat \X AdjustmentStates)
  /\ remedy \in Seq(Remedy) /\ ended \in BOOLEAN
  /\ pc \in {"idle", "plan", "save", "cancel", "list", "create", "settle"}
  /\ job \in [basis : Setups[setup].bases, rows : SUBSET Nat, row : Nat,
             caps : Seq(Nat), parts : Seq(Nat), items : Seq(Nat), refund : Nat]
  /\ op \in [Operators -> [step : {"idle", "list", "create", "save"}, payment : Payments \cup {0},
                           amount : Nat, items : Seq(Nat), refund : Nat]]
  /\ lost \subseteq DOMAIN adjustments /\ faults \in Nat

HeldBy(S) == SumFunction([i \in S |-> SumFunction(adjustments[i].items)])
Held(p) == HeldBy(RefundsOf(p))

GivenUp(i) == adjustments[i].row # 0 /\ remedy[adjustments[i].row].status = "failed"

\* Every refund the provider holds is counted by the application, whichever of
\* the job, its retries, an operator and the reports came first: a row, or an
\* operator about to write it, stands for it, unless its row was given up or its
\* operator failed (liveRefundTotals).
LedgerCovers ==
  \A p \in Payments :
    HeldBy({i \in RefundsOf(p) \ lost : ~GivenUp(i)})
      <= Refunded(p) + SumFunction([o \in {o \in Operators : op[o].step = "save" /\ op[o].payment = p}
                                      |-> op[o].amount])

Unsent(p) == {r \in Queued : remedy[r].payment = p /\ Existing(r) = {}}

\* What the job has planned and not sent can still be paid: the rows and the
\* provider's lines agree on what is left, after any remedies in between, each
\* saved and none overlapping a run of the job (planRefund's reading and the lines' caps of refundInvoicePayment).
PlanPayable ==
  ~Setups[setup].overlap /\ lost = {} => \A p \in Payments :
    Held(p) + SumFunction([r \in Unsent(p) |-> remedy[r].amount]) <= Amount(p)

NewRows == DOMAIN remedy' \ DOMAIN remedy
PlannedOn(p) == SumFunction([r \in {r \in NewRows : remedy'[r].payment = p} |-> remedy'[r].amount])

\* A plan gives back a payment only when every newer one is given back in full,
\* as far as the plan found it refundable (refundablePayments' order and allocateCancelRefund).
NewestFirst ==
  [][pc = "save" /\ pc' = "cancel" =>
       \A p \in Payments : PlannedOn(p) > 0 => \A q \in 1 .. p - 1 : PlannedOn(q) = job.caps[q]]_vars

\* An amount above the exact unused share of a bill, the credit held on it and
\* the charges that wait for the next one.
Exceeds(b, n) ==
  LET unused == IF ~b.paid \/ b.at >= b.end THEN 0
                ELSE IF b.at <= b.start THEN b.end - b.start ELSE b.end - b.at
      credit == AtLeastZero(b.credit) - b.pending
  IN IF b.end <= b.start THEN n > credit
     ELSE (n - credit) * (b.end - b.start) > HeldValue(b) * unused

\* A plan gives back all that is due and no more: one unit more would exceed it,
\* unless nothing refundable is left (the floor and the limits of computeCancelRefund,
\* and allocateCancelRefund, which leaves nothing over).
ExactlyDue ==
  [][pc = "save" /\ pc' = "cancel" =>
       LET planned == SumFunction([p \in Payments |-> PlannedOn(p)])
           card    == SumFunction(job.caps)
       IN /\ planned = 0 \/ ~Exceeds(job.basis, planned)
          /\ planned = card \/ (planned < card /\ Exceeds(job.basis, planned + 1))]_vars

\* A refund given up holds no money: rejected, reversed, failed do not
\* (live-refunds.util.ts).
FailedHoldsNoMoney ==
  \A r \in DOMAIN remedy : remedy[r].status = "failed" => ~\E i \in Existing(r) : HoldsMoney(i)

\* Earlier live refunds on the payment count against what is left to refund
\* (assertRefundable): what an operator may ask for is left at the provider.
EarlierRefundsCount ==
  [][\A o \in Operators : op[o].step = "idle" /\ op'[o].step # "idle"
       => Held(op'[o].payment) + op'[o].amount <= Amount(op'[o].payment)]_vars

\* With every report delivered and nobody at work, a remedy that names a refund
\* has its state (payment-remedy.entity.ts: the rest follow the provider).
RemedyFollows ==
  pc = "idle" /\ inbox = {} /\ Busy = {} =>
    \A r \in DOMAIN remedy : remedy[r].ref # 0 =>
      remedy[r].status = StatusOf(adjustments[remedy[r].ref].state)

\* A plan pays back what is due and no more, from the newest payment backwards
\* (planRefunds, refundCents).
PlanIsDue == NewestFirst /\ ExactlyDue

\* The amounts stay in their ranges, and no refund the provider holds is missed
\* by the rows that the next refund is checked against (liveRefundTotals).
LedgerHolds == TypeOK /\ LedgerCovers
=============================================================================
