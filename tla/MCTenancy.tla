----------------------------- MODULE MCTenancy -----------------------------
(* Values for the run of Tenancy.                                          *)
EXTENDS Tenancy, TLC

CONSTANTS u1, u2, l1, l2, c1, o1, d1, e1, q1, q2

NoLease == [status |-> "free", unit |-> None, archived |-> FALSE]
NoCheque == [status |-> "free", unit |-> None, lease |-> None, version |-> 0, dated |-> FALSE]
NoRow == [status |-> "free", unit |-> None]

ChequeOps == {"create cheque", "update cheque", "bounce", "clear", "unclear", "ocr", "remove cheque"}
LeaseOps == {"create lease", "update lease", "renew", "terminate", "remove lease", "archive lease", "unarchive lease"}
OrderOps == {"create order", "update order", "remove order"}
EntryOps == {"create entry", "update entry"}
UnitOps == {"archive unit", "unarchive unit", "remove unit"}

\* Everything once, and whatever runs beside it.
Bare ==
  [unit |-> u1 :> "open" @@ u2 :> "open", lease |-> [l \in Leases |-> NoLease],
   cheque |-> [c \in Cheques |-> NoCheque], payments |-> [c \in Cheques |-> <<>>],
   order |-> [o \in Orders |-> NoRow], lead |-> [d \in Leads |-> NoRow],
   entry |-> [e \in Entries |-> NoRow], requests |-> 3, edits |-> ChequeStatuses,
   ops |-> ChequeOps \cup LeaseOps \cup OrderOps \cup UnitOps \cup {"create lead"}]

Draft == [Bare EXCEPT !.lease[l1] = NewLease(u1)]
Active == [Bare EXCEPT !.lease[l1] = [NewLease(u1) EXCEPT !.status = "ACTIVE"]]

\* Two drafts on one unit.
Drafts ==
  [Draft EXCEPT !.lease[l2] = NewLease(u1), !.requests = 2, !.ops = {"update lease", "archive unit"}]

\* A lease ends and is renewed.
Renewals ==
  [Active EXCEPT !.requests = 3, !.ops = LeaseOps \cup {"archive unit", "remove unit"}]

Owed == [NoCheque EXCEPT !.status = "PENDING", !.lease = l1, !.version = 1]

\* The life of a cheque of an active lease.
Cleared ==
  [Active EXCEPT !.cheque[c1] = Owed, !.requests = 5,
     !.ops = {"bounce", "clear", "unclear", "ocr", "remove cheque", "archive lease", "terminate"}]

\* A cheque that moves to other units.
Moved ==
  [Draft EXCEPT !.cheque[c1] = [Owed EXCEPT !.unit = u2], !.requests = 3,
     !.edits = {"PENDING", "DEPOSITED", "CANCELLED"},
     !.ops = {"update cheque", "bounce", "clear", "archive lease", "archive unit"}]

\* A draft that moves, and its cheque with it.
Carried ==
  [Draft EXCEPT !.cheque[c1] = Owed, !.requests = 3,
     !.ops = {"update lease", "bounce", "create cheque", "archive unit", "unarchive unit", "remove unit"}]

\* Rows that come and go.
Visited ==
  [Draft EXCEPT !.requests = 4,
     !.ops = {"create cheque", "remove cheque", "remove lease", "remove unit", "archive unit"} \cup OrderOps]

\* Leads that move, and payments, on units that are archived and deleted.
Prospects ==
  [Bare EXCEPT !.lead[d1] = [status |-> "open", unit |-> u1], !.requests = 3,
     !.ops = {"save lead", "archive unit", "remove unit"} \cup EntryOps]

MCWorlds ==
  [bare |-> Bare, drafts |-> Drafts, renewals |-> Renewals, cleared |-> Cleared,
   moved |-> Moved, carried |-> Carried, visited |-> Visited, prospects |-> Prospects]
=============================================================================
