------------------------------ MODULE Tenancy ------------------------------
(***************************************************************************)
(* Units, their leases, the leases' cheques and payments, work orders, leads *)
(* and payments entered by hand: requests of several users at once, the row *)
(* locks they take in PostgreSQL (READ COMMITTED) and what they write.      *)
(*                                                                         *)
(* A request that waits for several rows is a record of req and runs step  *)
(* by step; its writes are seen by others when it commits, which is its    *)
(* last step.  A request that locks one row and then waits for nothing is  *)
(* a single step, taken when no other request holds that row.              *)
(***************************************************************************)
EXTENDS Integers, Sequences, FiniteSets, Functions

CONSTANTS
  Units, Leases, Cheques, Orders, Leads, Entries, \* rows, existing or not yet created
  None,                           \* SQL NULL, or a field a request leaves alone
  Requests,                       \* slots for requests that wait for several rows
  Worlds                          \* bound: cases by name; the rows at first, the operations
                                  \* requested, how many requests there are, and the
                                  \* cheque statuses an edit names

ASSUME RowAssumption ==
  /\ None \notin Units \cup Leases \cup Cheques \cup Orders \cup Leads \cup Entries
  /\ Units \cap (Leases \cup Cheques \cup Orders \cup Leads \cup Entries) = {}
  /\ Leases \cap (Cheques \cup Orders \cup Leads \cup Entries) = {}
  /\ Cheques \cap (Orders \cup Leads \cup Entries) = {}
  /\ Orders \cap (Leads \cup Entries) = {} /\ Leads \cap Entries = {}

LeaseStatuses == {"DRAFT", "ACTIVE", "EXPIRED", "TERMINATED", "RENEWED"}
ChequeStatuses == {"PENDING", "DEPOSITED", "CLEARED", "BOUNCED", "CANCELLED", "REPLACED"}
TerminalStatuses == {"CLEARED", "CANCELLED", "REPLACED"}
OpenCheque == ChequeStatuses \ TerminalStatuses
OpenOrClosed == {"open", "closed"}
Absent == {"free", "gone"} \* not created yet, deleted

LeaseRow == [status : LeaseStatuses \cup Absent, unit : Units \cup {None}, archived : BOOLEAN]
ChequeRow == [status : ChequeStatuses \cup Absent, unit : Units \cup {None},
              lease : Leases \cup {None}, version : Nat, dated : BOOLEAN]
OrderRow == [status : OpenOrClosed \cup Absent, unit : Units \cup {None}]
PlainRow == [status : OpenOrClosed \cup {"free"}, unit : Units \cup {None}] \* a lead or an entry

\* Rows that exist refer to rows that do, and a unit has one active lease.
Linked(leases, cheques, orders) ==
  /\ \A l \in Leases : leases[l].status # "free" => leases[l].unit \in Units
  /\ \A l, m \in Leases : leases[l].status = "ACTIVE" /\ leases[m].status = "ACTIVE"
                           /\ leases[l].unit = leases[m].unit => l = m
  /\ \A c \in Cheques : cheques[c].status # "free" /\ cheques[c].lease # None =>
                           leases[cheques[c].lease].status # "free"
  /\ \A o \in Orders : orders[o].status # "free" => orders[o].unit \in Units

\* At first every unit is open, and nothing is paid or deleted.
ASSUME WorldAssumption ==
  \A w \in Range(Worlds) :
    /\ w.requests \in Nat
    /\ w.unit = [u \in Units |-> "open"]
    /\ w.lease \in [Leases -> LeaseRow] /\ \A l \in Leases : w.lease[l].status # "gone"
    /\ w.cheque \in [Cheques -> ChequeRow]
    /\ \A c \in Cheques : /\ w.cheque[c].status \notin {"gone", "CLEARED"}
                          /\ w.cheque[c].status = "DEPOSITED" => w.cheque[c].dated
    /\ w.payments = [c \in Cheques |-> <<>>]
    /\ w.order \in [Orders -> OrderRow] /\ \A o \in Orders : w.order[o].status # "gone"
    /\ w.lead \in [Leads -> PlainRow] /\ w.entry \in [Entries -> PlainRow]
    /\ Linked(w.lease, w.cheque, w.order)

VARIABLES
  unit,     \* units.deleted_at: open, archived, or gone
  lease,    \* leases: status, unit_id, deleted_at
  cheque,   \* cheques: status, unit_id, lease_id, version, and whether it has a deposit date
  payments, \* transactions recorded by each cheque: unit_id and whether it is not cancelled
  order,    \* work_orders: open or closed, unit_id
  lead,     \* leads: open or closed (WON, LOST), unit_id
  entry,    \* transactions entered by hand: open or closed, unit_id
  req,      \* the running requests
  held,     \* the row locks each of them holds
  world,    \* the name of the case; it never changes
  started,  \* requests so far
  reverted  \* history variable: cheques overwritten with an old copy by processOcr, and
            \* leads put back on a unit by the save of an old copy

rows == <<unit, lease, cheque, payments, order, lead, entry>>
vars == <<rows, req, held, world, started, reverted>>

Lease == {l \in Leases : lease[l].status \notin Absent}
Cheque == {c \in Cheques : cheque[c].status \notin Absent}
Order == {o \in Orders : order[o].status \notin Absent}
Lead == {d \in Leads : lead[d].status \notin Absent}
Entry == {e \in Entries : entry[e].status \notin Absent}

NoRequest == [op |-> "none", row |-> None, step |-> "idle", seen |-> None, want |-> None, units |-> <<>>]

-----------------------------------------------------------------------------
(* Row locks.                                                              *)

Lock(row, mode) == [row |-> row, mode |-> mode]

\* No other request's lock on the row is in the way.
Free(q, row, mode) ==
  \A p \in Requests \ {q} : \A h \in held[p] :
    h.row = row => h.mode = "share" /\ mode = "share"

Unlocked(row) == \A p \in Requests : \A h \in held[p] : h.row # row

Running(q) == req[q].op # "none"

Request(op) ==
  /\ op \in Worlds[world].ops /\ started < Worlds[world].requests
  /\ started' = started + 1

Begin(q, op, row, step, seen, want, units) ==
  /\ ~Running(q) /\ Request(op)
  /\ req' = [req EXCEPT ![q] = [op |-> op, row |-> row, step |-> step, seen |-> seen,
                                want |-> want, units |-> units]]
  /\ UNCHANGED <<rows, held, reverted>>

\* Commit or rollback: every lock is released.
End(q) ==
  /\ req' = [req EXCEPT ![q] = NoRequest]
  /\ held' = [held EXCEPT ![q] = {}]
  /\ UNCHANGED started

\* The lock is taken and the row read again; units are to be locked next.
Locked(q, row, mode, step, units) ==
  /\ Free(q, row, mode)
  /\ held' = [held EXCEPT ![q] = @ \cup {Lock(row, mode)}]
  /\ req' = [req EXCEPT ![q].step = step, ![q].units = units]
  /\ UNCHANGED started

\* The units to lock, in order: u comes last, unless it is NULL or among them.
With(units, u) == IF u = None \/ \E i \in DOMAIN units : units[i] = u THEN units ELSE Append(units, u)

\* Rows that a request may still create.
Fresh(S, table) ==
  {r \in S : table[r].status = "free" /\ \A q \in Requests : req[q].row # r /\ req[q].want # r}

\* assertUnitNotArchivedLocked, and the units of assertChequeEditable.
LockUnit(q) ==
  /\ req[q].step = "units" /\ req[q].units # <<>>
  /\ LET u == Head(req[q].units)
     IN \/ /\ unit[u] = "open"
           /\ Locked(q, u, "share", "units", Tail(req[q].units))
        \/ /\ unit[u] # "open" /\ Free(q, u, "share")
           /\ End(q)
  /\ UNCHANGED <<rows, reverted>>

Ready(q, op) == req[q].op = op /\ req[q].step = "units" /\ req[q].units = <<>>

-----------------------------------------------------------------------------
(* Cheques.                                                                *)

\* The unit the request reads before its transaction.
Selectable(u) == u # None => unit[u] = "open"

LeaseOpenForCheque(l) ==
  l # None => l \in Lease /\ ~lease[l].archived /\ unit[lease[l].unit] # "archived"

CreateCheque(q) ==
  \E c \in Fresh(Cheques, cheque), u \in Units \cup {None}, l \in Leases \cup {None} :
    /\ Selectable(u) /\ LeaseOpenForCheque(l)
    /\ LET row == [status |-> "PENDING", unit |-> u, lease |-> l, version |-> 1, dated |-> FALSE]
       IN Begin(q, "create cheque", c, "lease", row, row, <<>>)

\* The copy read, edited; a deposit without a date is dated today.
Edited(seen, to, u, dated) ==
  [status |-> to, unit |-> u, lease |-> seen.lease, version |-> seen.version,
   dated |-> seen.dated \/ dated \/ to = "DEPOSITED"]

\* The edit is written later, from the copy read here.
UpdateCheque(q) ==
  \E c \in Cheque, to \in ChequeStatuses \cap Worlds[world].edits, u \in Units \cup {None}, dated \in BOOLEAN :
    LET seen == cheque[c]
        want == Edited(seen, to, u, dated)
    IN /\ u # seen.unit => Selectable(u)
       /\ to # seen.status => seen.status \notin TerminalStatuses /\ to # "CLEARED"
       /\ seen.status = "CLEARED" => u = seen.unit /\ want.dated = seen.dated
       /\ want # seen
       /\ Begin(q, "update cheque", c, "lease", seen, want, <<>>)

BounceCheque(q) ==
  \E c \in Cheque :
    /\ cheque[c].status \notin TerminalStatuses
    /\ Begin(q, "bounce", c, "lease", cheque[c], cheque[c], <<>>)

Clearable(status) == status \in {"PENDING", "DEPOSITED"}

ClearCheque(q) ==
  \E c \in Cheque :
    /\ Clearable(cheque[c].status)
    /\ Begin(q, "clear", c, "lease", cheque[c], cheque[c], <<>>)

UnclearCheque(q) ==
  \E c \in Cheque :
    /\ cheque[c].status = "CLEARED"
    /\ Begin(q, "unclear", c, "lease", cheque[c], cheque[c], <<>>)

\* Reads the cheque and waits for the reading of its image.
ProcessOcr(q) ==
  \E c \in Cheque : Begin(q, "ocr", c, "image", cheque[c], cheque[c], <<>>)

\* Mutant: the rows are read without a lock.
LockLease_NoLock(q) ==
  /\ req[q].step = "lease"
  /\ LET seen == req[q].seen
         l == seen.lease
         units == With(With(With(<<>>, seen.unit), IF l = None THEN None ELSE lease[l].unit), req[q].want.unit)
     IN \/ /\ l # None => ~lease[l].archived
           /\ req' = [req EXCEPT ![q].step = "units", ![q].units = units]
           /\ UNCHANGED <<held, started>>
        \/ l # None /\ lease[l].archived /\ End(q)
  /\ UNCHANGED <<rows, reverted>>

\* assertChequeEditable: the lease, then the cheque's unit, the lease's unit
\* and the unit the cheque moves to.
LockLease(q) ==
  /\ req[q].step = "lease"
  /\ LET seen == req[q].seen
         l == seen.lease
         units == With(With(With(<<>>, seen.unit), IF l = None THEN None ELSE lease[l].unit), req[q].want.unit)
     IN \/ /\ l = None
           /\ req' = [req EXCEPT ![q].step = "units", ![q].units = units]
           /\ UNCHANGED <<held, started>>
        \/ /\ l # None /\ l \in Lease /\ ~lease[l].archived
           /\ Locked(q, l, "share", "units", units)
        \/ /\ l # None /\ (l \notin Lease \/ lease[l].archived) /\ Free(q, l, "share")
           /\ End(q)
  /\ UNCHANGED <<rows, reverted>>

Live(c) == {i \in DOMAIN payments[c] : payments[c][i].live}

InsertCheque(q) ==
  /\ Ready(q, "create cheque")
  /\ cheque' = [cheque EXCEPT ![req[q].row] = req[q].want]
  /\ End(q) /\ UNCHANGED <<unit, lease, payments, order, lead, entry, reverted>>

\* The WHERE clause of update(): the version read, and the status if it changes.
Unchanged(c, seen, want) ==
  /\ c \in Cheque /\ cheque[c].version = seen.version
  /\ want.status # seen.status =>
       cheque[c].status = seen.status /\ cheque[c].status \notin TerminalStatuses

SaveUpdate(q) ==
  /\ Ready(q, "update cheque")
  /\ LET c == req[q].row
         seen == req[q].seen
         want == req[q].want
     IN cheque' = IF Unchanged(c, seen, want)
                  THEN [cheque EXCEPT ![c] = [want EXCEPT !.version = cheque[c].version + 1]]
                  ELSE cheque
  /\ End(q) /\ UNCHANGED <<unit, lease, payments, order, lead, entry, reverted>>

\* Mutant: the status is not checked again in the UPDATE.
SaveBounce_NoPredicate(q) ==
  /\ Ready(q, "bounce")
  /\ LET c == req[q].row
     IN cheque' = IF c \in Cheque
                  THEN [cheque EXCEPT ![c].status = "BOUNCED", ![c].version = @ + 1]
                  ELSE cheque
  /\ End(q) /\ UNCHANGED <<unit, lease, payments, order, lead, entry, reverted>>

SaveBounce(q) ==
  /\ Ready(q, "bounce")
  /\ LET c == req[q].row
     IN cheque' = IF c \in Cheque /\ cheque[c].status \notin TerminalStatuses
                  THEN [cheque EXCEPT ![c].status = "BOUNCED", ![c].version = @ + 1]
                  ELSE cheque
  /\ End(q) /\ UNCHANGED <<unit, lease, payments, order, lead, entry, reverted>>

\* The cheque row, locked, is still where the other locks were taken.
NotMoved(c, seen) == c \in Cheque /\ cheque[c].unit = seen.unit /\ cheque[c].lease = seen.lease

\* UQ_TRANSACTIONS_ACTIVE_CHEQUE
ActivePaymentIndex(c) == Live(c) = {}

\* A deposit date may come with the request.
SaveClear(q) ==
  /\ Ready(q, "clear")
  /\ LET c == req[q].row
     IN IF NotMoved(c, req[q].seen) /\ Clearable(cheque[c].status) /\ ActivePaymentIndex(c)
        THEN \E dated \in {cheque[c].dated, TRUE} :
               /\ cheque' = [cheque EXCEPT ![c].status = "CLEARED", ![c].dated = dated,
                                           ![c].version = @ + 1]
               /\ payments' = [payments EXCEPT ![c] = Append(@, [unit |-> cheque[c].unit, live |-> TRUE])]
        ELSE UNCHANGED <<cheque, payments>>
  /\ End(q) /\ UNCHANGED <<unit, lease, order, lead, entry, reverted>>

SaveUnclear(q) ==
  /\ Ready(q, "unclear")
  /\ LET c == req[q].row
     IN IF NotMoved(c, req[q].seen) /\ cheque[c].status = "CLEARED"
        THEN /\ cheque' = [cheque EXCEPT ![c].status = IF cheque[c].dated THEN "DEPOSITED" ELSE "PENDING",
                                         ![c].version = @ + 1]
             /\ payments' = [payments EXCEPT ![c] = [i \in DOMAIN @ |-> [@[i] EXCEPT !.live = FALSE]]]
        ELSE UNCHANGED <<cheque, payments>>
  /\ End(q) /\ UNCHANGED <<unit, lease, order, lead, entry, reverted>>

\* save() writes every column of the copy that differs, or inserts a row that is gone.
SaveOcr(q) ==
  /\ req[q].step = "image"
  /\ LET c == req[q].row
         seen == req[q].seen
         refers == (seen.unit # None => unit[seen.unit] # "gone") /\ (seen.lease # None => seen.lease \in Lease)
     IN IF refers /\ seen # cheque[c]
        THEN cheque' = [cheque EXCEPT ![c] = seen] /\ reverted' = reverted \cup {c}
        ELSE UNCHANGED <<cheque, reverted>>
  /\ End(q) /\ UNCHANGED <<unit, lease, payments, order, lead, entry>>

Once(op) == Request(op) /\ UNCHANGED <<req, held, reverted>>

RemoveCheque(c) ==
  /\ Once("remove cheque")
  /\ c \in Cheque /\ cheque[c].status # "CLEARED" /\ payments[c] = <<>>
  /\ cheque' = [cheque EXCEPT ![c].status = "gone"]
  /\ UNCHANGED <<unit, lease, payments, order, lead, entry>>

-----------------------------------------------------------------------------
(* Leases.                                                                 *)

NewLease(u) == [status |-> "DRAFT", unit |-> u, archived |-> FALSE]

CreateLease(q) ==
  \E l \in Fresh(Leases, lease), u \in Units :
    Selectable(u) /\ Begin(q, "create lease", l, "units", NewLease(u), None, <<u>>)

InsertLease(q) ==
  /\ Ready(q, "create lease")
  /\ lease' = [lease EXCEPT ![req[q].row] = req[q].seen]
  /\ End(q) /\ UNCHANGED <<unit, cheque, payments, order, lead, entry, reverted>>

\* The request names a status, a unit, or both.
UpdateLease(q) ==
  \E l \in Lease, to \in LeaseStatuses \cup {None}, u \in Units \cup {None} :
    Begin(q, "update lease", l, "row", None, [status |-> to, unit |-> u], <<>>)

RenewLease(q) ==
  \E l \in Lease, new \in Fresh(Leases, lease), u \in Units :
    Selectable(u) /\ Begin(q, "renew", l, "row", NewLease(u), new, <<u>>)

\* Mutant: the lease is read FOR SHARE and written later.
LeaseLock_Share == "share"

LeaseLock == "write"

\* update() locks the lease, then the unit it is on or moves to.
LockForUpdate(q) ==
  /\ req[q].op = "update lease" /\ req[q].step = "row"
  /\ LET l == req[q].row
         want == req[q].want
         moves == want.unit # None /\ want.unit # lease[l].unit
     IN \/ /\ l \in Lease /\ ~lease[l].archived /\ (moves => lease[l].status = "DRAFT")
           /\ Locked(q, l, LeaseLock, "units", <<IF moves THEN want.unit ELSE lease[l].unit>>)
        \/ /\ l \notin Lease \/ lease[l].archived \/ (moves /\ lease[l].status # "DRAFT")
           /\ Free(q, l, LeaseLock) /\ End(q)
  /\ UNCHANGED <<rows, reverted>>

LockForRenew(q) ==
  /\ req[q].op = "renew" /\ req[q].step = "row"
  /\ LET l == req[q].row
         renewable == l \in Lease /\ ~lease[l].archived /\ lease[l].status \in {"ACTIVE", "EXPIRED"}
     IN \/ renewable /\ Locked(q, l, LeaseLock, "units", req[q].units)
        \/ ~renewable /\ Free(q, l, LeaseLock) /\ End(q)
  /\ UNCHANGED <<rows, reverted>>

OtherActive(l, u) == \E other \in Lease \ {l} : lease[other].unit = u /\ lease[other].status = "ACTIVE"

After(q) ==
  LET l == req[q].row
      want == req[q].want
  IN [status |-> IF want.status = None THEN lease[l].status ELSE want.status,
      unit |-> IF want.unit = None THEN lease[l].unit ELSE want.unit,
      archived |-> lease[l].archived]

\* The status rules, and assertNoOtherActiveLease.
CheckUpdate(q) ==
  /\ Ready(q, "update lease")
  /\ LET l == req[q].row
         from == lease[l].status
         to == After(q).status
         legal == /\ to # from => from \notin {"TERMINATED", "RENEWED"} /\ to # "DRAFT"
                  /\ to = "ACTIVE" => ~OtherActive(l, After(q).unit)
     IN \/ legal /\ req' = [req EXCEPT ![q].step = "save"] /\ UNCHANGED <<held, started>>
        \/ ~legal /\ End(q)
  /\ UNCHANGED <<rows, reverted>>

\* UQ_leases_active_unit; saveActiveLease turns the error into an answer.
ActiveLeaseIndex(l, row) == row.status = "ACTIVE" => ~OtherActive(l, row.unit)

SaveLease(q) ==
  /\ req[q].op = "update lease" /\ req[q].step = "save"
  /\ Free(q, req[q].row, "write")
  /\ LET l == req[q].row
     IN lease' = IF ActiveLeaseIndex(l, After(q)) THEN [lease EXCEPT ![l] = After(q)] ELSE lease
  /\ End(q) /\ UNCHANGED <<unit, cheque, payments, order, lead, entry, reverted>>

\* The new lease takes its default status.
SaveRenewal(q) ==
  /\ Ready(q, "renew") /\ Free(q, req[q].row, "write")
  /\ lease' = [lease EXCEPT ![req[q].row].status = "RENEWED", ![req[q].want] = req[q].seen]
  /\ End(q) /\ UNCHANGED <<unit, cheque, payments, order, lead, entry, reverted>>

ChangeLease(op, l, row) ==
  /\ Once(op) /\ l \in Lease /\ Unlocked(l)
  /\ lease' = [lease EXCEPT ![l] = row]
  /\ UNCHANGED <<unit, cheque, payments, order, lead, entry>>

Terminate(l) ==
  ~lease[l].archived /\ lease[l].status = "ACTIVE" /\ ChangeLease("terminate", l, [lease[l] EXCEPT !.status = "TERMINATED"])

\* Its cheques are counted under the lock.
RemoveLease(l) ==
  /\ lease[l].status = "DRAFT" /\ \A c \in Cheque : cheque[c].lease # l
  /\ ChangeLease("remove lease", l, [lease[l] EXCEPT !.status = "gone"])

ArchiveLease(l) ==
  ~lease[l].archived /\ lease[l].status # "ACTIVE" /\ ChangeLease("archive lease", l, [lease[l] EXCEPT !.archived = TRUE])

UnarchiveLease(l) ==
  lease[l].archived /\ ChangeLease("unarchive lease", l, [lease[l] EXCEPT !.archived = FALSE])

-----------------------------------------------------------------------------
(* Work orders.                                                            *)

CreateOrder(q) ==
  \E o \in Fresh(Orders, order), u \in Units :
    Selectable(u) /\ Begin(q, "create order", o, "units", [status |-> "open", unit |-> u], None, <<u>>)

InsertOrder(q) ==
  /\ Ready(q, "create order")
  /\ order' = [order EXCEPT ![req[q].row] = req[q].seen]
  /\ End(q) /\ UNCHANGED <<unit, lease, cheque, payments, lead, entry, reverted>>

\* A closed order may be opened again.
UpdateOrder(q) ==
  \E o \in Order, to \in OpenOrClosed, u \in Units :
    LET want == [status |-> to, unit |-> u]
    IN /\ want # order[o] /\ (u # order[o].unit => Selectable(u))
       /\ Begin(q, "update order", o, "row", None, want, <<>>)

LockOrder(q) ==
  /\ req[q].op = "update order" /\ req[q].step = "row"
  /\ LET o == req[q].row
     IN \/ o \in Order /\ Locked(q, o, "write", "units", With(With(<<>>, order[o].unit), req[q].want.unit))
        \/ o \notin Order /\ End(q)
  /\ UNCHANGED <<rows, reverted>>

SaveOrder(q) ==
  /\ Ready(q, "update order")
  /\ order' = [order EXCEPT ![req[q].row] = req[q].want]
  /\ End(q) /\ UNCHANGED <<unit, lease, cheque, payments, lead, entry, reverted>>

\* Only one without vendor and cost, which its status here does not tell.
RemoveOrder(o) ==
  /\ Once("remove order") /\ o \in Order /\ order[o].status = "open" /\ Unlocked(o)
  /\ order' = [order EXCEPT ![o].status = "gone"]
  /\ UNCHANGED <<unit, lease, cheque, payments, lead, entry>>

-----------------------------------------------------------------------------
(* Leads.                                                                  *)

CreateLead(q) ==
  \E d \in Fresh(Leads, lead), u \in Units \cup {None}, status \in OpenOrClosed :
    Selectable(u) /\ Begin(q, "create lead", d, "units", [status |-> status, unit |-> u], None, With(<<>>, u))

InsertLead(q) ==
  /\ Ready(q, "create lead")
  /\ lead' = [lead EXCEPT ![req[q].row] = req[q].seen]
  /\ End(q) /\ UNCHANGED <<unit, lease, cheque, payments, order, entry, reverted>>

\* update, assign and convert read the lead, change the copy, and save it later.
BeginSave(q, d, copy, asked) == Begin(q, "save lead", d, "row", lead[d], copy, <<asked>>)

\* The request may name a unit or take the lead off its unit.  The copy comes
\* with its unit loaded, and the loaded unit outweighs the id that is assigned.
UpdateLead(q) ==
  \E d \in Lead, to \in OpenOrClosed, asked \in Units \cup {None}, off \in BOOLEAN :
    LET seen == lead[d]
        at == IF off THEN None ELSE IF seen.unit = None THEN asked ELSE seen.unit
    IN /\ off => asked = None
       /\ asked # seen.unit => Selectable(asked)
       /\ BeginSave(q, d, [status |-> to, unit |-> at], asked)

AssignLead(q) == \E d \in Lead : BeginSave(q, d, lead[d], None)

ConvertLead(q) == \E d \in Lead : BeginSave(q, d, [lead[d] EXCEPT !.status = "closed"], None)

\* lockLeadUnitNotArchived: the lead, the unit it is on now, and then the unit named.
LockLead(q) ==
  /\ req[q].op = "save lead" /\ req[q].step = "row"
  /\ LET d == req[q].row
     IN Locked(q, d, "write", "units", With(With(<<>>, lead[d].unit), Head(req[q].units)))
  /\ UNCHANGED <<rows, reverted>>

\* save() writes every column of the copy that differs from the row: a lead
\* moved meanwhile goes back to the unit of the copy, which nobody locked.
SaveLead(q) ==
  /\ Ready(q, "save lead")
  /\ LET d == req[q].row
         copy == req[q].want
         back == copy.unit = req[q].seen.unit /\ copy.unit # lead[d].unit
     IN IF copy.unit # None => unit[copy.unit] # "gone"
        THEN /\ lead' = [lead EXCEPT ![d] = copy]
             /\ reverted' = IF back THEN reverted \cup {d} ELSE reverted
        ELSE UNCHANGED <<lead, reverted>>
  /\ End(q) /\ UNCHANGED <<unit, lease, cheque, payments, order, entry>>

-----------------------------------------------------------------------------
(* Payments entered by hand.                                               *)

CreateEntry(q) ==
  \E e \in Fresh(Entries, entry), u \in Units \cup {None}, status \in OpenOrClosed :
    Selectable(u) /\ Begin(q, "create entry", e, "units", [status |-> status, unit |-> u], None, With(<<>>, u))

InsertEntry(q) ==
  /\ Ready(q, "create entry")
  /\ entry' = [entry EXCEPT ![req[q].row] = req[q].seen]
  /\ End(q) /\ UNCHANGED <<unit, lease, cheque, payments, order, lead, reverted>>

\* Its unit cannot be changed.
UpdateEntry(q) ==
  \E e \in Entry, to \in OpenOrClosed : Begin(q, "update entry", e, "row", None, to, <<>>)

LockEntry(q) ==
  /\ req[q].op = "update entry" /\ req[q].step = "row"
  /\ LET e == req[q].row
     IN Locked(q, e, "write", "units", With(<<>>, entry[e].unit))
  /\ UNCHANGED <<rows, reverted>>

SaveEntry(q) ==
  /\ Ready(q, "update entry")
  /\ entry' = [entry EXCEPT ![req[q].row].status = req[q].want]
  /\ End(q) /\ UNCHANGED <<unit, lease, cheque, payments, order, lead, reverted>>

-----------------------------------------------------------------------------
(* Units.                                                                  *)

\* Cheques on the unit, and, where it says so, of a lease on the unit.
ChequesOn(u, throughLease) ==
  {c \in Cheque : \/ cheque[c].unit = u
                  \/ throughLease /\ cheque[c].lease # None /\ lease[cheque[c].lease].unit = u}

\* Mutant: cheques are found by their own unit only.
ArchiveBlocked_DirectOnly(u) ==
  \/ \E l \in Lease : lease[l].unit = u /\ lease[l].status = "ACTIVE"
  \/ \E c \in ChequesOn(u, FALSE) : cheque[c].status \in OpenCheque
  \/ \E o \in Order : order[o].unit = u /\ order[o].status = "open"
  \/ \E d \in Lead : lead[d].unit = u /\ lead[d].status = "open"
  \/ \E e \in Entry : entry[e].unit = u /\ entry[e].status = "open"

\* unitArchiveBlockers; a cheque's payment is completed or cancelled, never open.
ArchiveBlocked(u) ==
  \/ \E l \in Lease : lease[l].unit = u /\ lease[l].status = "ACTIVE"
  \/ \E c \in ChequesOn(u, TRUE) : cheque[c].status \in OpenCheque
  \/ \E o \in Order : order[o].unit = u /\ order[o].status = "open"
  \/ \E d \in Lead : lead[d].unit = u /\ lead[d].status = "open"
  \/ \E e \in Entry : entry[e].unit = u /\ entry[e].status = "open"

\* Mutant: work orders are not counted.
DeleteBlocked_NoOrders(u) ==
  \/ \E l \in Lease : lease[l].unit = u
  \/ \E c \in Cheque : cheque[c].unit = u \/ \E i \in DOMAIN payments[c] : payments[c][i].unit = u
  \/ \E d \in Lead : lead[d].unit = u
  \/ \E e \in Entry : entry[e].unit = u

DeleteBlocked(u) ==
  \/ \E l \in Lease : lease[l].unit = u
  \/ \E c \in Cheque : cheque[c].unit = u \/ \E i \in DOMAIN payments[c] : payments[c][i].unit = u
  \/ \E d \in Lead : lead[d].unit = u
  \/ \E e \in Entry : entry[e].unit = u
  \/ \E o \in Order : order[o].unit = u

ChangeUnit(op, u, to) ==
  /\ Once(op) /\ unit[u] # "gone" /\ Unlocked(u)
  /\ unit' = [unit EXCEPT ![u] = to]
  /\ UNCHANGED <<lease, cheque, payments, order, lead, entry>>

ArchiveUnit(u) == unit[u] = "open" /\ ~ArchiveBlocked(u) /\ ChangeUnit("archive unit", u, "archived")
UnarchiveUnit(u) == unit[u] = "archived" /\ ChangeUnit("unarchive unit", u, "open")
RemoveUnit(u) == ~DeleteBlocked(u) /\ ChangeUnit("remove unit", u, "gone")

-----------------------------------------------------------------------------
Init ==
  /\ world \in DOMAIN Worlds
  /\ LET w == Worlds[world]
     IN unit = w.unit /\ lease = w.lease /\ cheque = w.cheque /\ payments = w.payments
        /\ order = w.order /\ lead = w.lead /\ entry = w.entry
  /\ req = [q \in Requests |-> NoRequest] /\ held = [q \in Requests |-> {}]
  /\ started = 0 /\ reverted = {}

Start(q) ==
  \/ CreateCheque(q) \/ UpdateCheque(q) \/ BounceCheque(q) \/ ClearCheque(q) \/ UnclearCheque(q)
  \/ ProcessOcr(q) \/ CreateLease(q) \/ UpdateLease(q) \/ RenewLease(q)
  \/ CreateOrder(q) \/ UpdateOrder(q) \/ CreateLead(q) \/ UpdateLead(q) \/ AssignLead(q) \/ ConvertLead(q)
  \/ CreateEntry(q) \/ UpdateEntry(q)

Step(q) ==
  \/ LockLease(q) \/ LockUnit(q) \/ LockForUpdate(q) \/ LockForRenew(q) \/ LockOrder(q)
  \/ LockLead(q) \/ LockEntry(q)
  \/ InsertCheque(q) \/ SaveUpdate(q) \/ SaveBounce(q) \/ SaveClear(q) \/ SaveUnclear(q) \/ SaveOcr(q)
  \/ InsertLease(q) \/ CheckUpdate(q) \/ SaveLease(q) \/ SaveRenewal(q)
  \/ InsertOrder(q) \/ SaveOrder(q) \/ InsertLead(q) \/ SaveLead(q) \/ InsertEntry(q) \/ SaveEntry(q)

Next ==
  \/ \E q \in Requests : Start(q) \/ Step(q)
  \/ \E c \in Cheques : RemoveCheque(c)
  \/ \E l \in Leases : Terminate(l) \/ RemoveLease(l) \/ ArchiveLease(l) \/ UnarchiveLease(l)
  \/ \E o \in Orders : RemoveOrder(o)
  \/ \E u \in Units : ArchiveUnit(u) \/ UnarchiveUnit(u) \/ RemoveUnit(u)

Spec == Init /\ [][Next /\ UNCHANGED world]_vars /\ \A q \in Requests : WF_vars(Step(q) /\ UNCHANGED world)

-----------------------------------------------------------------------------
(* Properties.                                                             *)

\* Every variable stays in its range; a deposited cheque has its date, which
\* unclear reads to tell a deposited cheque from a pending one.
TypeOK ==
  /\ world \in DOMAIN Worlds /\ unit \in [Units -> {"open", "archived", "gone"}]
  /\ lease \in [Leases -> LeaseRow]
  /\ cheque \in [Cheques -> ChequeRow]
  /\ payments \in [Cheques -> Seq([unit : Units \cup {None}, live : BOOLEAN])]
  /\ order \in [Orders -> OrderRow] /\ lead \in [Leads -> PlainRow] /\ entry \in [Entries -> PlainRow]
  /\ held \in [Requests -> SUBSET [row : Units \cup Leases \cup Orders \cup Leads \cup Entries,
                                   mode : {"share", "write"}]]
  /\ started \in 0 .. Worlds[world].requests /\ reverted \subseteq Cheques \cup Leads
  /\ \A c \in Cheques : cheque[c].status = "DEPOSITED" => cheque[c].dated

\* An archived unit is quiet: no active lease, no open work order or payment, no
\* open lead, and no open cheque on it or of a lease on it, unless processOcr
\* brought the cheque back or the save of an old copy the lead
\* (unitArchiveBlockers, and the FOR SHARE locks of everything that opens one).
ArchivedQuiet ==
  \A u \in Units : unit[u] = "archived" =>
    /\ \A l \in Lease : lease[l].unit = u => lease[l].status # "ACTIVE"
    /\ \A o \in Order : order[o].unit = u => order[o].status # "open"
    /\ \A d \in Lead \ reverted : lead[d].unit = u => lead[d].status # "open"
    /\ \A e \in Entry : entry[e].unit = u => entry[e].status # "open"
    /\ \A c \in ChequesOn(u, TRUE) \ reverted : cheque[c].status \notin OpenCheque

\* A cheque is cleared exactly when one payment of it stands, and that payment
\* is for the cheque's unit, whatever other request ran beside clear() and
\* unclear().  Except a cheque that processOcr overwrote with an old copy: it may be
\* pending with a payment that stands, or cleared without one.
PaymentMatches ==
  \A c \in Cheque \ reverted :
    /\ Cardinality(Live(c)) = IF cheque[c].status = "CLEARED" THEN 1 ELSE 0
    /\ \A i \in Live(c) : payments[c][i].unit = cheque[c].unit

\* No cheque is ever paid twice, not even one that processOcr turned back to
\* pending (UQ_TRANSACTIONS_ACTIVE_CHEQUE).
PaidOnce == \A c \in Cheques : Cardinality(Live(c)) <= 1

\* A unit never has two active leases (assertNoOtherActiveLease reads before
\* it writes; the index decides).
OneActiveLease == \A l \in Lease : lease[l].status = "ACTIVE" => ~OtherActive(l, lease[l].unit)

\* No row points to a unit or a lease that was deleted: "the app already blocks
\* deleting a unit or lease that still has linked rows" (migration 1779700000007).
NoOrphans ==
  /\ \A l \in Lease : unit[lease[l].unit] # "gone"
  /\ \A o \in Order : unit[order[o].unit] # "gone"
  /\ \A row \in {lead[d] : d \in Lead} \cup {entry[e] : e \in Entry} :
       row.unit # None => unit[row.unit] # "gone"
  /\ \A c \in Cheque : /\ cheque[c].unit # None => unit[cheque[c].unit] # "gone"
                       /\ cheque[c].lease # None => cheque[c].lease \in Lease

\* A cancelled or replaced cheque stays so unless it is deleted, and a
\* terminated or renewed lease stays so, unless processOcr writes an old copy.
FinalStays ==
  [][/\ \A c \in Cheques \ reverted' :
          cheque[c].status \in {"CANCELLED", "REPLACED"} => cheque'[c].status \in {cheque[c].status, "gone"}
     /\ \A l \in Leases :
          lease[l].status \in {"TERMINATED", "RENEWED"} => lease'[l].status = lease[l].status]_vars

\* "This unit is archived. Its records can no longer be edited.": a cheque of an
\* archived unit or lease is not changed, only deleted, unless by processOcr.
ArchivedLocked ==
  [][\A c \in Cheque \ reverted' :
       cheque'[c] \in {cheque[c], [cheque[c] EXCEPT !.status = "gone"]}
       \/ LET l == cheque[c].lease
          IN /\ cheque[c].unit # None => unit[cheque[c].unit] = "open"
             /\ l # None => ~lease[l].archived /\ unit[lease[l].unit] = "open"]_vars

\* No requests wait for each other's row locks for ever (the order lease, then
\* unit; the lock of a row that is written is taken in full at once).
RequestsEnd == \A q \in Requests : Running(q) ~> ~Running(q)

\* Payments and cheques agree: one standing payment for a cleared cheque, none for
\* another (but for cheques that processOcr overwrote), and never two for any
\* cheque (clear, unclear, bounce, remove).
PaymentsHold == TypeOK /\ PaymentMatches /\ PaidOnce

\* The rows fit together: one active lease for a unit, no row of a deleted one.
RowsFit == OneActiveLease /\ NoOrphans

\* A final cheque or lease stays so, and a cheque of what is archived is not edited:
\* no copy read before its transaction does that, but the one processOcr saves.
ClosedStays == FinalStays /\ ArchivedLocked
=============================================================================
