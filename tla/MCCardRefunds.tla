--------------------------- MODULE MCCardRefunds ---------------------------
(* Values for the run of CardRefunds.                                      *)
EXTENDS CardRefunds, TLC

CONSTANTS o1, o2

Symmetry == Permutations({o1, o2})

\* The newest payment has two lines, the one before it one.
TwoPayments == << <<1, 1>>, <<1>> >>

Bill == [start : {0}, end : {3}, at : {1}, paid : {TRUE}, held : {<< <<1, 4>> >>},
         pending : {0}, credit : {0}]

OneBill == {[b EXCEPT !.at = 2] : b \in Bill}

\* Mid-period, before and after it, unpaid, a charge pending, a credit held.
Bills == {[b EXCEPT !.at = at] : b \in Bill, at \in {0, 1, 2, 4}}
           \cup {[b EXCEPT !.paid = FALSE] : b \in Bill}
           \cup {[b EXCEPT !.pending = n] : b \in Bill, n \in {-1, 1, 3}}
           \cup {[b EXCEPT !.credit = n] : b \in Bill, n \in {-1, 2, 4}}
           \cup {[b EXCEPT !.end = 0] : b \in Bill}

\* The job and an operator take turns, at every kind of bill.
PlanSetup ==
  [lines |-> TwoPayments, bases |-> Bills, operators |-> {o1}, overlap |-> FALSE,
   operatorFaults |-> FALSE, attempts |-> 2, rows |-> 3, faults |-> 1]

\* An operator and the job at once on parts of a payment, calls and inserts failing.
PartsSetup ==
  [lines |-> << <<2>> >>, bases |-> OneBill, operators |-> {o1}, overlap |-> TRUE,
   operatorFaults |-> TRUE, attempts |-> 1, rows |-> 2, faults |-> 1]

\* Two operators, or one and the job, at once on a payment that only one can refund.
CrowdSetup ==
  [lines |-> << <<1>> >>, bases |-> OneBill, operators |-> {o1, o2}, overlap |-> TRUE,
   operatorFaults |-> TRUE, attempts |-> 1, rows |-> 2, faults |-> 1]

MCSetups == [plan |-> PlanSetup, parts |-> PartsSetup, crowd |-> CrowdSetup]
=============================================================================
