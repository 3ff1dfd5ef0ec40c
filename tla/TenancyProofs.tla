--------------------------- MODULE TenancyProofs ---------------------------
(***************************************************************************)
(* Proofs about Tenancy for every set of rows and requests, every number   *)
(* of requests, and every case to start from.                              *)
(***************************************************************************)
EXTENDS Tenancy, FiniteSetTheorems, TLAPS

(* What requests carry.                                                    *)
Copy == {row \in ChequeRow : row.status \in ChequeStatuses /\ (row.status = "DEPOSITED" => row.dated)}
NewLeases == {NewLease(u) : u \in Units}
Plain == [status : OpenOrClosed, unit : Units \cup {None}]
LeaseWish == [status : LeaseStatuses \cup {None}, unit : Units \cup {None}]

Edits == {"create cheque", "update cheque", "bounce", "clear", "unclear"}
OfCheque == {"update cheque", "bounce", "clear", "unclear", "ocr"}
Creates == {"create cheque", "create lease", "create order", "create lead", "create entry", "renew"}
Ops == Edits \cup OfCheque \cup Creates \cup
       {"none", "update lease", "update order", "save lead", "update entry"}
Steps == {"idle", "lease", "image", "row", "units", "save"}

ReqRow ==
  [op : Ops, row : Leases \cup Cheques \cup Orders \cup Leads \cup Entries \cup {None}, step : Steps,
   seen : Copy \cup NewLeases \cup Plain \cup {None},
   want : Copy \cup LeaseWish \cup Plain \cup Leases \cup OpenOrClosed \cup {None},
   units : Seq(Units \cup {None})]

Form(r) ==
  /\ r.step # "row" \/ r.op = "renew" => r.units \in Seq(Units)
  /\ r.op = "none" => r.step = "idle"
  /\ r.op \in Edits => r.row \in Cheques /\ r.step \in {"lease", "units"}
  /\ r.op \in Edits \cup {"ocr"} => r.seen \in Copy /\ r.want \in Copy /\ r.want.lease = r.seen.lease
  /\ r.op = "create cheque" => r.want = r.seen /\ r.seen.status = "PENDING"
  /\ r.op = "update cheque" =>
       /\ r.want.status # r.seen.status => r.seen.status \notin TerminalStatuses /\ r.want.status # "CLEARED"
       /\ r.seen.status = "CLEARED" => r.want.unit = r.seen.unit
  /\ r.op = "ocr" => r.row \in Cheques /\ r.step = "image"
  /\ r.op = "create lease" => r.row \in Leases /\ r.step = "units" /\ r.seen \in NewLeases
  /\ r.op = "renew" => r.row \in Leases /\ r.step \in {"row", "units"} /\ r.seen \in NewLeases /\ r.want \in Leases
  /\ r.op = "update lease" => r.row \in Leases /\ r.step \in {"row", "units", "save"} /\ r.want \in LeaseWish
  /\ r.op = "create order" => r.row \in Orders /\ r.step = "units" /\ r.seen \in Plain /\ r.seen.unit # None
  /\ r.op = "update order" => r.row \in Orders /\ r.step \in {"row", "units"} /\ r.want \in Plain /\ r.want.unit # None
  /\ r.op = "create lead" => r.row \in Leads /\ r.step = "units" /\ r.seen \in Plain
  /\ r.op = "save lead" => /\ r.row \in Leads /\ r.step \in {"row", "units"} /\ r.seen \in Plain /\ r.want \in Plain
                           /\ r.step = "row" => Len(r.units) = 1
  /\ r.op = "create entry" => r.row \in Entries /\ r.step = "units" /\ r.seen \in Plain
  /\ r.op = "update entry" => r.row \in Entries /\ r.step \in {"row", "units"} /\ r.want \in OpenOrClosed

(* The row a request creates has not been created, the one it changes has. *)
Aimed(r) ==
  /\ r.op = "create cheque" => cheque[r.row].status = "free"
  /\ r.op \in OfCheque => cheque[r.row].status # "free" /\ cheque[r.row].lease = r.seen.lease
  /\ r.op = "create lease" => lease[r.row].status = "free"
  /\ r.op = "renew" => lease[r.want].status = "free" /\ lease[r.row].status # "free"
  /\ r.op = "update lease" => lease[r.row].status # "free"
  /\ r.op = "create lead" => lead[r.row].status = "free"
  /\ r.op = "save lead" => lead[r.row].status # "free"
  /\ r.op = "create entry" => entry[r.row].status = "free"
  /\ r.op = "update entry" => entry[r.row].status # "free"

(* A copy of a cheque is older than the row, or the same.                  *)
Copied(r) ==
  r.op \in OfCheque /\ r.row \in Cheque \ reverted =>
    /\ r.seen.version <= cheque[r.row].version
    /\ r.seen.version = cheque[r.row].version => r.seen = cheque[r.row]

(* A unit that is locked or will be.                                       *)
Has(units, u) == u = None \/ \E i \in DOMAIN units : units[i] = u
Got(r, locks, u) == Lock(u, "share") \in locks \/ Has(r.units, u)

(* The lease as an edit will leave it.                                     *)
ToStatus(r) == IF r.want.status = None THEN lease[r.row].status ELSE r.want.status
ToUnit(r) == IF r.want.unit = None THEN lease[r.row].unit ELSE r.want.unit

(* What a request writes from has been locked, or its units are about to   *)
(* be.                                                                     *)
Covered(r, locks) ==
  /\ r.op \in Edits /\ r.step = "units" =>
       /\ Got(r, locks, r.seen.unit) /\ Got(r, locks, r.want.unit)
       /\ r.seen.lease # None =>
            Lock(r.seen.lease, "share") \in locks /\ Got(r, locks, lease[r.seen.lease].unit)
  /\ r.op \in {"create lease", "create order", "create lead", "create entry", "renew"} =>
       Got(r, locks, r.seen.unit)
  /\ r.op = "renew" /\ r.step = "units" =>
       Lock(r.row, "write") \in locks /\ lease[r.row].status \in {"ACTIVE", "EXPIRED"}
  /\ r.op = "update lease" /\ r.step # "row" => Lock(r.row, "write") \in locks /\ Got(r, locks, ToUnit(r))
  /\ r.op = "update lease" /\ r.step = "save" =>
       /\ r.units = << >>
       /\ ToStatus(r) # lease[r.row].status =>
            lease[r.row].status \notin {"TERMINATED", "RENEWED"} /\ ToStatus(r) # "DRAFT"
  /\ r.op = "update order" /\ r.step = "units" => Got(r, locks, r.want.unit)
  /\ r.op = "save lead" => r.want.unit = r.seen.unit \/ Got(r, locks, r.want.unit)
  /\ r.op = "save lead" /\ r.step = "units" =>
       Lock(r.row, "write") \in locks /\ Got(r, locks, lead[r.row].unit)
  /\ r.op = "update entry" /\ r.step = "units" => Got(r, locks, entry[r.row].unit)

(* A locked unit is open, and a locked lease is not archived.              *)
Kept(locks) ==
  \A h \in locks :
    /\ h.row \in Units => unit[h.row] = "open"
    /\ h.row \in Leases => h.row \in Lease /\ ~lease[h.row].archived

Sound(r, locks) == Form(r) /\ Aimed(r) /\ Copied(r) /\ Covered(r, locks) /\ Kept(locks)

(* Locks of two requests on one row are shared.                            *)
Shared(p, q) ==
  \A h \in held[p], g \in held[q] : h.row = g.row => h.mode = "share" /\ g.mode = "share"

(* Two requests do not create one row.                                     *)
New(r) == IF r.op = "renew" THEN r.want ELSE r.row
Apart(p, q) == req[p].op \in Creates /\ req[q].op \in Creates => New(req[p]) # New(req[q])

RequestsOK ==
  /\ req \in [Requests -> ReqRow]
  /\ \A q \in Requests : Sound(req[q], held[q])
  /\ \A p, q \in Requests : p # q => Shared(p, q) /\ Apart(p, q)

(* The payments of a cheque, and none without one.                         *)
PaidOK ==
  \A c \in Cheques :
    /\ c \notin Cheque => payments[c] = << >>
    /\ \A i, j \in Live(c) : i = j
    /\ c \in Cheque \ reverted =>
         /\ cheque[c].status = "CLEARED" <=> Live(c) # {}
         /\ \A i \in Live(c) : payments[c][i].unit = cheque[c].unit

(* Leases and work orders are on a unit.                                   *)
PlacedOK ==
  /\ \A l \in Leases : lease[l].status # "free" => lease[l].unit \in Units
  /\ \A o \in Orders : order[o].status # "free" => order[o].unit \in Units

IInv == TypeOK /\ PlacedOK /\ RequestsOK /\ PaidOK /\ RowsFit /\ ArchivedQuiet

-----------------------------------------------------------------------------
(* The lists of units to lock.                                             *)

LEMMA WithIs ==
  ASSUME NEW units \in Seq(Units), NEW u \in Units \cup {None}
  PROVE  With(units, u) \in Seq(Units) /\ Has(With(units, u), u) /\ \A v : Has(units, v) => Has(With(units, u), v)
<1>1. CASE u = None \/ \E i \in DOMAIN units : units[i] = u
  BY <1>1 DEF With, Has
<1>2. CASE ~(u = None \/ \E i \in DOMAIN units : units[i] = u)
  <2>1. With(units, u) = Append(units, u) /\ u \in Units
    BY <1>2 DEF With
  <2>2. /\ Append(units, u) \in Seq(Units) /\ Len(Append(units, u)) = Len(units) + 1
        /\ Append(units, u)[Len(units) + 1] = u
        /\ \A i \in 1 .. Len(units) : Append(units, u)[i] = units[i]
    BY <2>1
  <2>3. Has(Append(units, u), u)
    BY <2>2 DEF Has
  <2>4. ASSUME NEW v, Has(units, v) PROVE Has(Append(units, u), v)
    <3>1. CASE v = None
      BY <3>1 DEF Has
    <3>2. CASE v # None
      <4>1. PICK i \in 1 .. Len(units) : units[i] = v
        BY <2>4, <3>2 DEF Has
      <4>2. i \in DOMAIN Append(units, u) /\ Append(units, u)[i] = v
        BY <4>1, <2>2
      <4> QED BY <4>2 DEF Has
    <3> QED BY <3>1, <3>2
  <2> QED BY <2>1, <2>2, <2>3, <2>4
<1> QED BY <1>1, <1>2

LEMMA Listed ==
  /\ << >> \in Seq(Units)
  /\ \A u : Has(<<u>>, u)
  /\ \A u \in Units : <<u>> \in Seq(Units)
  /\ \A u \in Units \cup {None} : <<u>> \in Seq(Units \cup {None}) /\ Len(<<u>>) = 1
<1>1. \A u : Has(<<u>>, u)
  <2> SUFFICES ASSUME NEW u PROVE Has(<<u>>, u)
    OBVIOUS
  <2>1. 1 \in DOMAIN <<u>> /\ <<u>>[1] = u
    OBVIOUS
  <2> QED BY <2>1 DEF Has
<1> QED BY <1>1

LEMMA OneListed ==
  ASSUME NEW s \in Seq(Units \cup {None}), Len(s) = 1
  PROVE  Head(s) \in Units \cup {None} /\ \A v : Has(s, v) => v = None \/ v = Head(s)
<1>1. s # << >> /\ Head(s) = s[1] /\ DOMAIN s = 1 .. 1
  OBVIOUS
<1>2. s[1] \in Units \cup {None}
  BY <1>1
<1>3. \A i \in DOMAIN s : i = 1
  BY <1>1
<1> QED BY <1>1, <1>2, <1>3 DEF Has

LEMMA Wider == \A s \in Seq(Units) : s \in Seq(Units \cup {None})
  OBVIOUS

-----------------------------------------------------------------------------
(* The start of a request.                                                 *)

LEMMA SameRows ==
  ASSUME UNCHANGED <<unit, lease, cheque, lead, entry, reverted>>, NEW q \in Requests,
         Sound(req'[q], held'[q])
  PROVE  Sound(req[q], held[q])'
<1>1. Form(req[q])'
  BY DEF Sound
<1>2. Aimed(req[q])'
  BY DEF Sound, Aimed
<1>3. Copied(req[q])'
  BY DEF Sound, Copied, Cheque
<1>4. Covered(req[q], held[q])'
  BY DEF Sound, Covered, ToStatus, ToUnit
<1>5. Kept(held[q])'
  BY DEF Sound, Kept, Lease
<1> QED BY <1>1, <1>2, <1>3, <1>4, <1>5 DEF Sound

LEMMA Copies == ASSUME TypeOK PROVE \A c \in Cheque : cheque[c] \in Copy /\ c \in Cheques
BY DEF TypeOK, Cheque, Copy, ChequeRow, Absent

LEMMA EditedIs ==
  ASSUME NEW seen \in Copy, NEW to \in ChequeStatuses, NEW u \in Units \cup {None}, NEW dated \in BOOLEAN
  PROVE  /\ Edited(seen, to, u, dated) \in Copy
         /\ Edited(seen, to, u, dated).status = to /\ Edited(seen, to, u, dated).unit = u
         /\ Edited(seen, to, u, dated).lease = seen.lease
<1>1. seen.dated \in BOOLEAN /\ (seen.dated \/ dated \/ to = "DEPOSITED") \in BOOLEAN
  BY DEF Copy, ChequeRow
<1> DEFINE d == seen.dated \/ dated \/ to = "DEPOSITED"
<1>2. Edited(seen, to, u, dated) =
        [status |-> to, unit |-> u, lease |-> seen.lease, version |-> seen.version, dated |-> d]
  BY DEF Edited
<1>3. d \in BOOLEAN /\ (to = "DEPOSITED" => d) /\ to \in ChequeStatuses \cup Absent
  BY <1>1
<1> HIDE DEF d
<1> QED BY <1>2, <1>3 DEF Copy, ChequeRow

(* A request that has just begun.                                          *)
Launched(q) ==
  /\ req'[q] \in ReqRow /\ Sound(req'[q], held[q])
  /\ req'[q].op \in Creates => \A p \in Requests : New(req[p]) # New(req'[q])

LEMMA KeptSoFar == ASSUME IInv, NEW q \in Requests PROVE Kept(held[q])
BY DEF IInv, RequestsOK, Sound

LEMMA CreateChequeStarts ==
  ASSUME IInv, NEW q \in Requests, CreateCheque(q)
  PROVE  Launched(q)
<1>1. PICK c \in Fresh(Cheques, cheque), u \in Units \cup {None}, l \in Leases \cup {None} :
        Begin(q, "create cheque", c, "lease",
              [status |-> "PENDING", unit |-> u, lease |-> l, version |-> 1, dated |-> FALSE],
              [status |-> "PENDING", unit |-> u, lease |-> l, version |-> 1, dated |-> FALSE], << >>)
  BY DEF CreateCheque
<1> DEFINE row == [status |-> "PENDING", unit |-> u, lease |-> l, version |-> 1, dated |-> FALSE]
           r == [op |-> "create cheque", row |-> c, step |-> "lease", seen |-> row, want |-> row, units |-> << >>]
<1>2. row \in Copy /\ row.status = "PENDING"
  BY DEF Copy, ChequeRow, ChequeStatuses
<1> HIDE DEF row
<1>3. req'[q] = r
  BY <1>1 DEF Begin, IInv, RequestsOK, row
<1>4. c \in Cheques /\ cheque[c].status = "free" /\ \A p \in Requests : req[p].row # c /\ req[p].want # c
  BY DEF Fresh
<1>5. r \in ReqRow
  BY <1>2, <1>4, Listed, Wider DEF ReqRow, Ops, Edits, Steps
<1>6. Form(r)
  BY <1>2, <1>4, Listed DEF Form, Edits
<1>7. Aimed(r) /\ Copied(r)
  BY <1>4 DEF Aimed, Copied, OfCheque
<1>8. Covered(r, held[q])
  BY DEF Covered, Edits
<1>9. \A p \in Requests : New(req[p]) # New(r)
  BY <1>4 DEF New
<1> QED BY <1>3, <1>5, <1>6, <1>7, <1>8, <1>9, KeptSoFar DEF Launched, Sound

LEMMA NotMore == \A n \in Nat : n <= n
  OBVIOUS

LEMMA ChequeStarts ==
  ASSUME IInv, NEW q \in Requests, NEW op \in OfCheque, NEW c \in Cheque, NEW want \in Copy, NEW step,
         Begin(q, op, c, step, cheque[c], want, << >>),
         want.lease = cheque[c].lease, step = IF op = "ocr" THEN "image" ELSE "lease",
         op = "update cheque" =>
           /\ want.status # cheque[c].status => cheque[c].status \notin TerminalStatuses /\ want.status # "CLEARED"
           /\ cheque[c].status = "CLEARED" => want.unit = cheque[c].unit
  PROVE  Launched(q)
<1> DEFINE r == [op |-> op, row |-> c, step |-> step, seen |-> cheque[c], want |-> want, units |-> << >>]
<1>1. req'[q] = r
  BY DEF Begin, IInv, RequestsOK
<1>2. c \in Cheques /\ cheque[c] \in Copy /\ cheque[c].status # "free" /\ cheque[c] \in ChequeRow
  BY Copies DEF IInv, Cheque, Absent, Copy
<1>3. op \in Ops /\ step \in Steps /\ op \notin Creates
  BY DEF Ops, Steps, OfCheque, Creates
<1>4. r \in ReqRow
  BY <1>2, <1>3, Listed, Wider DEF ReqRow
<1>5. Form(r)
  BY <1>2, Listed DEF Form, Edits, OfCheque
<1>6. Aimed(r)
  BY <1>2 DEF Aimed, OfCheque
<1>7. Copied(r)
  <2>1. cheque[c].version \in Nat
    BY <1>2 DEF ChequeRow
  <2>2. cheque[c].version <= cheque[c].version
    BY <2>1, NotMore
  <2> QED BY <2>2 DEF Copied
<1>8. Covered(r, held[q])
  BY DEF Covered, Edits, OfCheque
<1>9. Sound(r, held[q]) /\ r.op \notin Creates
  BY <1>3, <1>5, <1>6, <1>7, <1>8, KeptSoFar DEF Sound
<1> HIDE DEF r
<1> QED BY <1>1, <1>4, <1>9 DEF Launched

LEMMA ChequeRequests ==
  ASSUME IInv, NEW q \in Requests,
         UpdateCheque(q) \/ BounceCheque(q) \/ ClearCheque(q) \/ UnclearCheque(q) \/ ProcessOcr(q)
  PROVE  Launched(q)
<1>1. CASE UpdateCheque(q)
  <2>1. PICK c \in Cheque, to \in ChequeStatuses \cap Worlds[world].edits, u \in Units \cup {None},
             dated \in BOOLEAN :
          /\ to # cheque[c].status => cheque[c].status \notin TerminalStatuses /\ to # "CLEARED"
          /\ cheque[c].status = "CLEARED" => u = cheque[c].unit
          /\ Begin(q, "update cheque", c, "lease", cheque[c], Edited(cheque[c], to, u, dated), << >>)
    BY <1>1, ZenonT(30) DEF UpdateCheque
  <2> DEFINE want == Edited(cheque[c], to, u, dated)
  <2>2. want \in Copy /\ want.status = to /\ want.unit = u /\ want.lease = cheque[c].lease
    BY EditedIs, Copies DEF IInv
  <2> HIDE DEF want
  <2>3. Begin(q, "update cheque", c, "lease", cheque[c], want, << >>) /\ "update cheque" \in OfCheque
    BY <2>1 DEF want, OfCheque
  <2> QED BY <2>1, <2>2, <2>3, ChequeStarts
<1>2. CASE BounceCheque(q)
  BY <1>2, ChequeStarts, Copies DEF BounceCheque, OfCheque, IInv
<1>3. CASE ClearCheque(q)
  BY <1>3, ChequeStarts, Copies DEF ClearCheque, OfCheque, IInv
<1>4. CASE UnclearCheque(q)
  BY <1>4, ChequeStarts, Copies DEF UnclearCheque, OfCheque, IInv
<1>5. CASE ProcessOcr(q)
  BY <1>5, ChequeStarts, Copies DEF ProcessOcr, OfCheque, IInv
<1> QED BY <1>1, <1>2, <1>3, <1>4, <1>5

LEMMA Placed ==
  ASSUME NEW r, NEW q \in Requests, IInv, req'[q] = r, r \in ReqRow, Form(r), Aimed(r), Covered(r, held[q]),
         r.op \notin OfCheque, r.op \in Creates => \A p \in Requests : req[p].row # New(r) /\ req[p].want # New(r)
  PROVE  Launched(q)
<1>1. Copied(r)
  BY DEF Copied
<1>2. r.op \in Creates => \A p \in Requests : New(req[p]) # New(r)
  <2> SUFFICES ASSUME r.op \in Creates, NEW p \in Requests PROVE New(req[p]) # New(r)
    OBVIOUS
  <2>1. New(req[p]) = req[p].row \/ New(req[p]) = req[p].want
    BY DEF New
  <2> QED BY <2>1
<1> QED BY <1>1, <1>2, KeptSoFar DEF Launched, Sound

LEMMA LeaseRequests ==
  ASSUME IInv, NEW q \in Requests, CreateLease(q) \/ UpdateLease(q) \/ RenewLease(q)
  PROVE  Launched(q)
<1>1. CASE CreateLease(q)
  <2>1. PICK l \in Fresh(Leases, lease), u \in Units : Begin(q, "create lease", l, "units", NewLease(u), None, <<u>>)
    BY <1>1 DEF CreateLease
  <2> DEFINE r == [op |-> "create lease", row |-> l, step |-> "units", seen |-> NewLease(u), want |-> None, units |-> <<u>>]
  <2>2. req'[q] = r
    BY <2>1 DEF Begin, IInv, RequestsOK
  <2>3. l \in Leases /\ lease[l].status = "free" /\ \A p \in Requests : req[p].row # l /\ req[p].want # l
    BY DEF Fresh
  <2>4. NewLease(u) \in NewLeases /\ NewLease(u).unit = u
    BY DEF NewLeases, NewLease
  <2>5. r \in ReqRow
    BY <2>3, <2>4, Listed, Wider DEF ReqRow, Ops, Creates, Steps
  <2>6. Form(r)
    BY <2>3, <2>4, Listed DEF Form, Edits
  <2>7. Aimed(r)
    BY <2>3 DEF Aimed, OfCheque
  <2>8. Covered(r, held[q])
    BY <2>4, Listed DEF Covered, Edits, Got
  <2>9. r.op \notin OfCheque /\ New(r) = l
    BY DEF OfCheque, New
  <2> HIDE DEF r
  <2> QED BY <2>2, <2>3, <2>5, <2>6, <2>7, <2>8, <2>9, Placed
<1>2. CASE UpdateLease(q)
  <2>1. PICK l \in Lease, to \in LeaseStatuses \cup {None}, u \in Units \cup {None} :
          Begin(q, "update lease", l, "row", None, [status |-> to, unit |-> u], << >>)
    BY <1>2 DEF UpdateLease
  <2> DEFINE r == [op |-> "update lease", row |-> l, step |-> "row", seen |-> None,
                   want |-> [status |-> to, unit |-> u], units |-> << >>]
  <2>2. req'[q] = r
    BY <2>1 DEF Begin, IInv, RequestsOK
  <2>3. l \in Leases /\ lease[l].status # "free" /\ [status |-> to, unit |-> u] \in LeaseWish
    BY DEF Lease, Absent, LeaseWish
  <2>5. r \in ReqRow
    BY <2>3, Listed, Wider DEF ReqRow, Ops, Steps
  <2>6. Form(r)
    BY <2>3, Listed DEF Form, Edits
  <2>7. Aimed(r)
    BY <2>3 DEF Aimed, OfCheque
  <2>8. Covered(r, held[q])
    BY DEF Covered, Edits
  <2>9. r.op \notin OfCheque /\ r.op \notin Creates
    BY DEF OfCheque, Creates
  <2> HIDE DEF r
  <2> QED BY <2>2, <2>5, <2>6, <2>7, <2>8, <2>9, Placed
<1>3. CASE RenewLease(q)
  <2>1. PICK l \in Lease, new \in Fresh(Leases, lease), u \in Units : Begin(q, "renew", l, "row", NewLease(u), new, <<u>>)
    BY <1>3 DEF RenewLease
  <2> DEFINE r == [op |-> "renew", row |-> l, step |-> "row", seen |-> NewLease(u), want |-> new, units |-> <<u>>]
  <2>2. req'[q] = r
    BY <2>1 DEF Begin, IInv, RequestsOK
  <2>3. /\ l \in Leases /\ lease[l].status # "free"
        /\ new \in Leases /\ lease[new].status = "free" /\ \A p \in Requests : req[p].row # new /\ req[p].want # new
    BY DEF Fresh, Lease, Absent
  <2>4. NewLease(u) \in NewLeases /\ NewLease(u).unit = u
    BY DEF NewLeases, NewLease
  <2>5. r \in ReqRow
    BY <2>3, <2>4, Listed, Wider DEF ReqRow, Ops, Creates, Steps
  <2>6. Form(r)
    BY <2>3, <2>4, Listed DEF Form, Edits
  <2>7. Aimed(r)
    BY <2>3 DEF Aimed, OfCheque
  <2>8. Covered(r, held[q])
    BY <2>4, Listed DEF Covered, Edits, Got
  <2>9. r.op \notin OfCheque /\ New(r) = new
    BY DEF OfCheque, New
  <2> HIDE DEF r
  <2> QED BY <2>2, <2>3, <2>5, <2>6, <2>7, <2>8, <2>9, Placed
<1> QED BY <1>1, <1>2, <1>3

LEMMA OrderRequests ==
  ASSUME IInv, NEW q \in Requests, CreateOrder(q) \/ UpdateOrder(q)
  PROVE  Launched(q)
<1>1. CASE CreateOrder(q)
  <2>1. PICK o \in Fresh(Orders, order), u \in Units :
          Begin(q, "create order", o, "units", [status |-> "open", unit |-> u], None, <<u>>)
    BY <1>1 DEF CreateOrder
  <2> DEFINE row == [status |-> "open", unit |-> u]
             r == [op |-> "create order", row |-> o, step |-> "units", seen |-> row, want |-> None, units |-> <<u>>]
  <2>2. req'[q] = r
    BY <2>1 DEF Begin, IInv, RequestsOK
  <2>3. o \in Orders /\ \A p \in Requests : req[p].row # o /\ req[p].want # o
    BY DEF Fresh
  <2>4. row \in Plain /\ row.unit = u /\ u # None
    BY RowAssumption DEF Plain, OpenOrClosed
  <2> HIDE DEF row
  <2>5. r \in ReqRow
    BY <2>3, <2>4, Listed, Wider DEF ReqRow, Ops, Creates, Steps
  <2>6. Form(r)
    BY <2>3, <2>4, Listed DEF Form, Edits
  <2>7. Aimed(r)
    BY <2>3 DEF Aimed, OfCheque
  <2>8. Covered(r, held[q])
    BY <2>4, Listed DEF Covered, Edits, Got
  <2>9. r.op \notin OfCheque /\ New(r) = o
    BY DEF OfCheque, New
  <2> HIDE DEF r
  <2> QED BY <2>2, <2>3, <2>5, <2>6, <2>7, <2>8, <2>9, Placed
<1>2. CASE UpdateOrder(q)
  <2>1. PICK o \in Order, to \in OpenOrClosed, u \in Units :
          Begin(q, "update order", o, "row", None, [status |-> to, unit |-> u], << >>)
    BY <1>2 DEF UpdateOrder
  <2> DEFINE row == [status |-> to, unit |-> u]
             r == [op |-> "update order", row |-> o, step |-> "row", seen |-> None, want |-> row, units |-> << >>]
  <2>2. req'[q] = r
    BY <2>1 DEF Begin, IInv, RequestsOK
  <2>3. o \in Orders
    BY DEF Order
  <2>4. row \in Plain /\ row.unit = u /\ u # None
    BY RowAssumption DEF Plain
  <2> HIDE DEF row
  <2>5. r \in ReqRow
    BY <2>3, <2>4, Listed, Wider DEF ReqRow, Ops, Steps
  <2>6. Form(r)
    BY <2>3, <2>4, Listed DEF Form, Edits
  <2>7. Aimed(r)
    BY <2>3 DEF Aimed, OfCheque
  <2>8. Covered(r, held[q])
    BY DEF Covered, Edits
  <2>9. r.op \notin OfCheque /\ r.op \notin Creates
    BY DEF OfCheque, Creates
  <2> HIDE DEF r
  <2> QED BY <2>2, <2>5, <2>6, <2>7, <2>8, <2>9, Placed
<1> QED BY <1>1, <1>2

LEMMA LeadSaves ==
  ASSUME IInv, NEW q \in Requests, NEW d \in Lead, NEW copy \in Plain, NEW asked \in Units \cup {None},
         copy.unit \in {lead[d].unit, asked, None}, BeginSave(q, d, copy, asked)
  PROVE  Launched(q)
<1> DEFINE r == [op |-> "save lead", row |-> d, step |-> "row", seen |-> lead[d], want |-> copy, units |-> <<asked>>]
<1>1. req'[q] = r
  BY DEF BeginSave, Begin, IInv, RequestsOK
<1>2. d \in Leads /\ lead[d].status # "free" /\ lead[d] \in Plain
  BY DEF Lead, IInv, TypeOK, PlainRow, Plain, Absent
<1>3. r \in ReqRow
  BY <1>2, Listed DEF ReqRow, Ops, Steps
<1>4. Form(r)
  BY <1>2, Listed DEF Form, Edits
<1>5. Aimed(r)
  BY <1>2 DEF Aimed, OfCheque
<1>6. Has(<<asked>>, asked) /\ Has(<<asked>>, None)
  BY Listed DEF Has
<1>7. Covered(r, held[q])
  BY <1>6 DEF Covered, Edits, Got
<1>8. r.op \notin OfCheque /\ r.op \notin Creates
  BY DEF OfCheque, Creates
<1> HIDE DEF r
<1> QED BY <1>1, <1>3, <1>4, <1>5, <1>7, <1>8, Placed

LEMMA LeadRequests ==
  ASSUME IInv, NEW q \in Requests, CreateLead(q) \/ UpdateLead(q) \/ AssignLead(q) \/ ConvertLead(q)
  PROVE  Launched(q)
<1>0. \A d \in Lead : lead[d] \in Plain
  BY DEF Lead, IInv, TypeOK, PlainRow, Plain, Absent
<1>1. CASE CreateLead(q)
  <2>1. PICK d \in Fresh(Leads, lead), u \in Units \cup {None}, status \in OpenOrClosed :
          Begin(q, "create lead", d, "units", [status |-> status, unit |-> u], None, With(<< >>, u))
    BY <1>1 DEF CreateLead
  <2> DEFINE row == [status |-> status, unit |-> u]
             list == With(<< >>, u)
             r == [op |-> "create lead", row |-> d, step |-> "units", seen |-> row, want |-> None, units |-> list]
  <2>2. req'[q] = r
    BY <2>1 DEF Begin, IInv, RequestsOK
  <2>3. d \in Leads /\ lead[d].status = "free" /\ \A p \in Requests : req[p].row # d /\ req[p].want # d
    BY DEF Fresh
  <2>4. row \in Plain /\ row.unit = u
    BY DEF Plain
  <2>5. list \in Seq(Units) /\ Has(list, u)
    BY Listed, WithIs
  <2> HIDE DEF row, list
  <2>6. r \in ReqRow
    BY <2>3, <2>4, <2>5, Wider DEF ReqRow, Ops, Creates, Steps
  <2>7. Form(r)
    BY <2>3, <2>4, <2>5 DEF Form, Edits
  <2>8. Aimed(r)
    BY <2>3 DEF Aimed, OfCheque
  <2>9. Covered(r, held[q])
    BY <2>4, <2>5 DEF Covered, Edits, Got
  <2>10. r.op \notin OfCheque /\ New(r) = d
    BY DEF OfCheque, New
  <2> HIDE DEF r
  <2> QED BY <2>2, <2>3, <2>6, <2>7, <2>8, <2>9, <2>10, Placed
<1>2. CASE UpdateLead(q)
  <2>1. PICK d \in Lead, to \in OpenOrClosed, asked \in Units \cup {None}, off \in BOOLEAN :
          LET seen == lead[d]
              at == IF off THEN None ELSE IF seen.unit = None THEN asked ELSE seen.unit
          IN BeginSave(q, d, [status |-> to, unit |-> at], asked)
    BY <1>2 DEF UpdateLead
  <2> DEFINE at == IF off THEN None ELSE IF lead[d].unit = None THEN asked ELSE lead[d].unit
             copy == [status |-> to, unit |-> at]
  <2>2. at \in {lead[d].unit, asked, None} /\ at \in Units \cup {None}
    BY <1>0 DEF Plain
  <2> HIDE DEF at
  <2>3. copy \in Plain /\ copy.unit = at
    BY <2>2 DEF Plain
  <2>4. BeginSave(q, d, copy, asked)
    BY <2>1 DEF at
  <2> HIDE DEF copy
  <2> QED BY <2>2, <2>3, <2>4, LeadSaves
<1>3. CASE AssignLead(q)
  <2>1. PICK d \in Lead : BeginSave(q, d, lead[d], None)
    BY <1>3 DEF AssignLead
  <2> QED BY <2>1, <1>0, LeadSaves
<1>4. CASE ConvertLead(q)
  <2>1. PICK d \in Lead : BeginSave(q, d, [lead[d] EXCEPT !.status = "closed"], None)
    BY <1>4 DEF ConvertLead
  <2>2. [lead[d] EXCEPT !.status = "closed"] \in Plain /\ [lead[d] EXCEPT !.status = "closed"].unit = lead[d].unit
    BY <1>0 DEF Plain, OpenOrClosed
  <2> QED BY <2>1, <2>2, LeadSaves
<1> QED BY <1>1, <1>2, <1>3, <1>4

LEMMA EntryRequests ==
  ASSUME IInv, NEW q \in Requests, CreateEntry(q) \/ UpdateEntry(q)
  PROVE  Launched(q)
<1>1. CASE CreateEntry(q)
  <2>1. PICK e \in Fresh(Entries, entry), u \in Units \cup {None}, status \in OpenOrClosed :
          Begin(q, "create entry", e, "units", [status |-> status, unit |-> u], None, With(<< >>, u))
    BY <1>1 DEF CreateEntry
  <2> DEFINE row == [status |-> status, unit |-> u]
             list == With(<< >>, u)
             r == [op |-> "create entry", row |-> e, step |-> "units", seen |-> row, want |-> None, units |-> list]
  <2>2. req'[q] = r
    BY <2>1 DEF Begin, IInv, RequestsOK
  <2>3. e \in Entries /\ entry[e].status = "free" /\ \A p \in Requests : req[p].row # e /\ req[p].want # e
    BY DEF Fresh
  <2>4. row \in Plain /\ row.unit = u
    BY DEF Plain
  <2>5. list \in Seq(Units) /\ Has(list, u)
    BY Listed, WithIs
  <2> HIDE DEF row, list
  <2>6. r \in ReqRow
    BY <2>3, <2>4, <2>5, Wider DEF ReqRow, Ops, Creates, Steps
  <2>7. Form(r)
    BY <2>3, <2>4, <2>5 DEF Form, Edits
  <2>8. Aimed(r)
    BY <2>3 DEF Aimed, OfCheque
  <2>9. Covered(r, held[q])
    BY <2>4, <2>5 DEF Covered, Edits, Got
  <2>10. r.op \notin OfCheque /\ New(r) = e
    BY DEF OfCheque, New
  <2> HIDE DEF r
  <2> QED BY <2>2, <2>3, <2>6, <2>7, <2>8, <2>9, <2>10, Placed
<1>2. CASE UpdateEntry(q)
  <2>1. PICK e \in Entry, to \in OpenOrClosed : Begin(q, "update entry", e, "row", None, to, << >>)
    BY <1>2 DEF UpdateEntry
  <2> DEFINE r == [op |-> "update entry", row |-> e, step |-> "row", seen |-> None, want |-> to, units |-> << >>]
  <2>2. req'[q] = r
    BY <2>1 DEF Begin, IInv, RequestsOK
  <2>3. e \in Entries /\ entry[e].status # "free"
    BY DEF Entry, Absent
  <2>5. r \in ReqRow
    BY <2>3, Listed, Wider DEF ReqRow, Ops, Steps
  <2>6. Form(r)
    BY <2>3, Listed DEF Form, Edits
  <2>7. Aimed(r)
    BY <2>3 DEF Aimed, OfCheque
  <2>8. Covered(r, held[q])
    BY DEF Covered, Edits
  <2>9. r.op \notin OfCheque /\ r.op \notin Creates
    BY DEF OfCheque, Creates
  <2> HIDE DEF r
  <2> QED BY <2>2, <2>5, <2>6, <2>7, <2>8, <2>9, Placed
<1> QED BY <1>1, <1>2

(* A start writes no row.                                                  *)
StartFrame ==
  /\ UNCHANGED <<unit, lease, cheque, payments, order, lead, entry, held, reverted>>
  /\ started' = started + 1 /\ started < Worlds[world].requests

LEMMA BeginFrame ==
  ASSUME NEW q \in Requests, NEW op, NEW row, NEW step, NEW seen, NEW want, NEW units,
         Begin(q, op, row, step, seen, want, units)
  PROVE  /\ StartFrame /\ \E r : req' = [req EXCEPT ![q] = r]
         /\ req[q].op = "none"
BY DEF Begin, StartFrame, Request, rows, Running

LEMMA StartIs ==
  ASSUME IInv, NEW q \in Requests, Start(q)
  PROVE  Launched(q) /\ StartFrame /\ (\E r : req' = [req EXCEPT ![q] = r]) /\ req[q].op = "none"
<1>1. CASE CreateCheque(q)
  BY <1>1, CreateChequeStarts, BeginFrame DEF CreateCheque
<1>2. CASE UpdateCheque(q)
  BY <1>2, ChequeRequests, BeginFrame DEF UpdateCheque
<1>3. CASE BounceCheque(q)
  BY <1>3, ChequeRequests, BeginFrame DEF BounceCheque
<1>4. CASE ClearCheque(q)
  BY <1>4, ChequeRequests, BeginFrame DEF ClearCheque
<1>5. CASE UnclearCheque(q)
  BY <1>5, ChequeRequests, BeginFrame DEF UnclearCheque
<1>6. CASE ProcessOcr(q)
  BY <1>6, ChequeRequests, BeginFrame DEF ProcessOcr
<1>7. CASE CreateLease(q)
  BY <1>7, LeaseRequests, BeginFrame DEF CreateLease
<1>8. CASE UpdateLease(q)
  BY <1>8, LeaseRequests, BeginFrame DEF UpdateLease
<1>9. CASE RenewLease(q)
  BY <1>9, LeaseRequests, BeginFrame DEF RenewLease
<1>10. CASE CreateOrder(q)
  BY <1>10, OrderRequests, BeginFrame DEF CreateOrder
<1>11. CASE UpdateOrder(q)
  BY <1>11, OrderRequests, BeginFrame DEF UpdateOrder
<1>12. CASE CreateLead(q)
  BY <1>12, LeadRequests, BeginFrame DEF CreateLead
<1>13. CASE UpdateLead(q)
  BY <1>13, LeadRequests, BeginFrame DEF UpdateLead, BeginSave
<1>14. CASE AssignLead(q)
  BY <1>14, LeadRequests, BeginFrame DEF AssignLead, BeginSave
<1>15. CASE ConvertLead(q)
  BY <1>15, LeadRequests, BeginFrame DEF ConvertLead, BeginSave
<1>16. CASE CreateEntry(q)
  BY <1>16, EntryRequests, BeginFrame DEF CreateEntry
<1>17. CASE UpdateEntry(q)
  BY <1>17, EntryRequests, BeginFrame DEF UpdateEntry
<1> QED BY <1>1, <1>2, <1>3, <1>4, <1>5, <1>6, <1>7, <1>8, <1>9, <1>10, <1>11, <1>12, <1>13, <1>14,
           <1>15, <1>16, <1>17 DEF Start

LEMMA StartKeeps ==
  ASSUME IInv, NEW q \in Requests, Start(q)
  PROVE  RequestsOK'
<1>1. /\ Launched(q) /\ StartFrame
      /\ UNCHANGED <<unit, lease, cheque, lead, entry, reverted, held>>
  BY StartIs DEF StartFrame
<1>2. PICK r : req' = [req EXCEPT ![q] = r]
  BY StartIs
<1>3. req \in [Requests -> ReqRow] /\ req'[q] = r /\ \A p \in Requests \ {q} : req'[p] = req[p]
  BY <1>2 DEF IInv, RequestsOK
<1>4. req' \in [Requests -> ReqRow]
  BY <1>1, <1>2, <1>3 DEF Launched
<1>5. \A p \in Requests : Sound(req'[p], held'[p])
  BY <1>1, <1>3 DEF Launched, IInv, RequestsOK
<1>6. \A p \in Requests : Sound(req[p], held[p])'
  BY <1>1, <1>5, SameRows
<1>7. ASSUME NEW p \in Requests, NEW t \in Requests, p # t PROVE Shared(p, t)' /\ Apart(p, t)'
  <2>1. Shared(p, t)'
    BY <1>1, <1>7 DEF IInv, RequestsOK, Shared
  <2>2. CASE p # q /\ t # q
    BY <1>3, <1>7, <2>1, <2>2 DEF IInv, RequestsOK, Apart, New
  <2>3. CASE p = q
    <3>1. req'[q].op \in Creates => New(req[t]) # New(req'[q])
      BY <1>1 DEF Launched
    <3>2. req'[t] = req[t]
      BY <1>3, <1>7, <2>3
    <3> QED BY <2>1, <2>3, <3>1, <3>2 DEF Apart
  <2>4. CASE t = q
    <3>1. req'[q].op \in Creates => New(req[p]) # New(req'[q])
      BY <1>1 DEF Launched
    <3>2. req'[p] = req[p]
      BY <1>3, <1>7, <2>4
    <3> QED BY <2>1, <2>4, <3>1, <3>2 DEF Apart
  <2> QED BY <2>2, <2>3, <2>4
<1> QED BY <1>4, <1>6, <1>7 DEF RequestsOK

-----------------------------------------------------------------------------
(* Taking locks.                                                           *)

LEMMA Nothing == Sound(NoRequest, {}) /\ Sound(NoRequest, {})'
<1>1. Form(NoRequest) /\ Copied(NoRequest) /\ Copied(NoRequest)'
  BY Listed DEF Form, NoRequest, Edits, OfCheque, Copied
<1>2. Aimed(NoRequest) /\ Aimed(NoRequest)'
  BY DEF Aimed, NoRequest, OfCheque
<1>3. Covered(NoRequest, {}) /\ Covered(NoRequest, {})'
  BY DEF Covered, NoRequest, Edits
<1>4. Kept({}) /\ Kept({})'
  BY DEF Kept
<1> QED BY <1>1, <1>2, <1>3, <1>4 DEF Sound

LEMMA NoRequestType == NoRequest \in ReqRow /\ NoRequest.op \notin Creates
BY Listed, Wider DEF NoRequest, ReqRow, Ops, Steps, Creates

(* The step of one request, seen from the others.                          *)
Alone(q) ==
  /\ req' \in [Requests -> ReqRow]
  /\ \A p \in Requests \ {q} : req'[p] = req[p] /\ held'[p] = held[p]
  /\ (req'[q] = NoRequest /\ held'[q] = {}) \/
     (/\ req'[q].op = req[q].op /\ req'[q].row = req[q].row /\ req'[q].want = req[q].want
      /\ \A p \in Requests \ {q} : Shared(p, q)' /\ Shared(q, p)')

LEMMA AlonePairs ==
  ASSUME IInv, NEW q \in Requests, Alone(q), NEW p \in Requests, NEW t \in Requests, p # t
  PROVE  Shared(p, t)' /\ Apart(p, t)'
<1>1. CASE req'[q] = NoRequest /\ held'[q] = {}
  BY <1>1, NoRequestType DEF Alone, IInv, RequestsOK, Shared, Apart, New
<1>2. CASE /\ req'[q].op = req[q].op /\ req'[q].row = req[q].row /\ req'[q].want = req[q].want
           /\ \A z \in Requests \ {q} : Shared(z, q)' /\ Shared(q, z)'
  <2>1. Apart(p, t)'
    BY <1>2 DEF Alone, IInv, RequestsOK, Apart, New
  <2>2. CASE p = q \/ t = q
    BY <1>2, <2>1, <2>2
  <2>3. CASE p # q /\ t # q
    BY <2>1, <2>3 DEF Alone, IInv, RequestsOK, Shared
  <2> QED BY <2>2, <2>3
<1> QED BY <1>1, <1>2 DEF Alone

Locks == [row : Units \cup Leases \cup Orders \cup Leads \cup Entries, mode : {"share", "write"}]

Fine(q) ==
  /\ Alone(q) /\ Sound(req'[q], held'[q]) /\ started' = started
  /\ held' \in [Requests -> SUBSET Locks]

LEMMA HeldType == ASSUME IInv PROVE held \in [Requests -> SUBSET Locks]
BY DEF IInv, TypeOK, Locks

LEMMA EndIs ==
  ASSUME IInv, NEW q \in Requests, End(q)
  PROVE  Fine(q) /\ Sound(req[q], held[q])'
<1>1. Alone(q) /\ req'[q] = NoRequest /\ held'[q] = {} /\ started' = started
  BY NoRequestType, HeldType DEF End, Alone, IInv, RequestsOK
<1>2. held' \in [Requests -> SUBSET Locks]
  BY HeldType DEF End
<1>3. Sound(req[q], held[q])'
  <2>1. Sound(NoRequest, {})'
    BY Nothing
  <2>2. NoRequest' = NoRequest
    BY DEF NoRequest
  <2> QED BY <1>1, <2>1, <2>2
<1> QED BY <1>1, <1>2, <1>3, Nothing DEF Fine

(* The request q goes on with what it carries.                             *)
Onward(q, step, units) ==
  [op |-> req[q].op, row |-> req[q].row, step |-> step, seen |-> req[q].seen, want |-> req[q].want,
   units |-> units]

LEMMA ReqIs ==
  ASSUME IInv, NEW q \in Requests
  PROVE  /\ req[q] \in ReqRow /\ Form(req[q]) /\ Aimed(req[q]) /\ Copied(req[q]) /\ Covered(req[q], held[q])
         /\ req[q] = Onward(q, req[q].step, req[q].units)
BY DEF IInv, RequestsOK, Sound, Onward, ReqRow

Stepped(q, step) == [req EXCEPT ![q].step = step]
Advanced(q, step, units) == [req EXCEPT ![q].step = step, ![q].units = units]

LEMMA Carried ==
  ASSUME IInv, NEW q \in Requests, NEW step, NEW units
  PROVE  /\ Stepped(q, step) = [req EXCEPT ![q] = Onward(q, step, req[q].units)]
         /\ Advanced(q, step, units) = [req EXCEPT ![q] = Onward(q, step, units)]
<1> DEFINE mid == Onward(q, step, req[q].units)
<1>1. req[q] = [op |-> req[q].op, row |-> req[q].row, step |-> req[q].step, seen |-> req[q].seen,
                want |-> req[q].want, units |-> req[q].units]
  BY ReqIs DEF Onward
<1>2. [req[q] EXCEPT !.step = step] = mid
  BY <1>1 DEF Onward
<1>3. [mid EXCEPT !.units = units] = Onward(q, step, units)
  BY DEF Onward
<1> HIDE DEF mid
<1>4. [req EXCEPT ![q].step = step] = [req EXCEPT ![q] = mid]
  BY <1>2
<1>5. req \in [Requests -> ReqRow] /\ [req EXCEPT ![q] = mid][q] = mid
  BY DEF IInv, RequestsOK
<1>6. [req EXCEPT ![q].step = step, ![q].units = units]
        = [[req EXCEPT ![q] = mid] EXCEPT ![q] = Onward(q, step, units)]
  BY <1>3, <1>4, <1>5
<1>7. [[req EXCEPT ![q] = mid] EXCEPT ![q] = Onward(q, step, units)] = [req EXCEPT ![q] = Onward(q, step, units)]
  BY <1>5
<1> QED BY <1>4, <1>6, <1>7 DEF mid, Stepped, Advanced

(* On to the units.                                                        *)
LEMMA OnwardForm ==
  ASSUME IInv, NEW q \in Requests, req[q].step \in {"lease", "row", "units"}, NEW units \in Seq(Units)
  PROVE  LET r == Onward(q, "units", units)
         IN r \in ReqRow /\ Form(r) /\ Aimed(r) /\ Copied(r)
<1>1. Onward(q, "units", units) \in ReqRow
  BY ReqIs, Wider DEF Onward, ReqRow, Steps
<1>2. Form(Onward(q, "units", units))
  BY ReqIs DEF Onward, Form, Edits
<1>3. Aimed(Onward(q, "units", units))
  BY ReqIs DEF Onward, Aimed
<1>4. Copied(Onward(q, "units", units))
  BY ReqIs DEF Onward, Copied
<1> QED BY <1>1, <1>2, <1>3, <1>4

LEMMA LockedIs ==
  ASSUME IInv, NEW q \in Requests, NEW row \in Units \cup Leases \cup Orders \cup Leads \cup Entries,
         NEW mode \in {"share", "write"}, NEW units \in Seq(Units),
         req[q].step \in {"lease", "row", "units"}, Locked(q, row, mode, "units", units)
  PROVE  /\ Alone(q) /\ req'[q] = Onward(q, "units", units) /\ started' = started
         /\ held'[q] = held[q] \cup {Lock(row, mode)} /\ held' \in [Requests -> SUBSET Locks]
<1>1. /\ req' = [req EXCEPT ![q] = Onward(q, "units", units)]
      /\ held' = [held EXCEPT ![q] = held[q] \cup {Lock(row, mode)}] /\ started' = started
  <2>1. /\ req' = Advanced(q, "units", units)
        /\ held' = [held EXCEPT ![q] = held[q] \cup {Lock(row, mode)}] /\ started' = started
    BY DEF Locked, Advanced
  <2> QED BY <2>1, Carried
<1>2. req \in [Requests -> ReqRow] /\ DOMAIN held = Requests
  BY DEF IInv, RequestsOK, TypeOK
<1>3. Onward(q, "units", units) \in ReqRow
  BY OnwardForm
<1>4. /\ req' \in [Requests -> ReqRow] /\ req'[q] = Onward(q, "units", units)
      /\ held'[q] = held[q] \cup {Lock(row, mode)}
      /\ \A p \in Requests \ {q} : req'[p] = req[p] /\ held'[p] = held[p]
  BY <1>1, <1>2, <1>3
<1>5. ASSUME NEW p \in Requests \ {q}, NEW h \in held'[p], NEW g \in held'[q], h.row = g.row
      PROVE  h.mode = "share" /\ g.mode = "share"
  <2>1. h \in held[p]
    BY <1>4, <1>5
  <2>2. CASE g \in held[q]
    BY <2>1, <2>2, <1>5 DEF IInv, RequestsOK, Shared
  <2>3. CASE g = Lock(row, mode)
    BY <2>1, <2>3, <1>5 DEF Locked, Free, Lock
  <2> QED BY <1>4, <2>2, <2>3
<1>6. \A p \in Requests \ {q} : Shared(p, q)' /\ Shared(q, p)'
  BY <1>5 DEF Shared
<1>7. held' \in [Requests -> SUBSET Locks]
  <2>1. Lock(row, mode) \in Locks
    BY DEF Lock, Locks
  <2> QED BY <1>1, <2>1, HeldType
<1> QED BY <1>1, <1>4, <1>6, <1>7 DEF Alone, Onward

LEMMA GotMore ==
  ASSUME NEW r, NEW s, NEW locks, NEW more, locks \subseteq more,
         \A v : Has(r.units, v) => Has(s.units, v) \/ Lock(v, "share") \in more
  PROVE  \A v : Got(r, locks, v) => Got(s, more, v)
BY DEF Got

(* The next unit of the list.                                              *)
LEMMA UnitLocked ==
  ASSUME IInv, NEW q \in Requests, req[q].step = "units", req[q].units # << >>,
         unit[Head(req[q].units)] = "open",
         Locked(q, Head(req[q].units), "share", "units", Tail(req[q].units))
  PROVE  Fine(q)
<1> DEFINE u == Head(req[q].units)
           list == Tail(req[q].units)
           r == Onward(q, "units", list)
           more == held[q] \cup {Lock(u, "share")}
<1>1. req[q].units \in Seq(Units)
  BY ReqIs DEF Form
<1>2. u \in Units /\ list \in Seq(Units)
  BY <1>1
<1>3. Alone(q) /\ req'[q] = r /\ held'[q] = more /\ started' = started /\ held' \in [Requests -> SUBSET Locks]
  BY <1>2, LockedIs
<1>4. \A v : Has(req[q].units, v) => Has(list, v) \/ Lock(v, "share") \in more
  <2> SUFFICES ASSUME NEW i \in DOMAIN req[q].units, req[q].units[i] # u
               PROVE  \E j \in DOMAIN list : list[j] = req[q].units[i]
    BY DEF Has
  <2>1. i \in 1 .. Len(req[q].units) /\ i # 1
    BY <1>1
  <2>2. i - 1 \in DOMAIN list /\ list[i - 1] = req[q].units[i]
    BY <1>1, <2>1
  <2> QED BY <2>2
<1>5. /\ r.op = req[q].op /\ r.seen = req[q].seen /\ r.want = req[q].want /\ r.row = req[q].row
      /\ r.step = "units" /\ r.units = list
  BY DEF Onward
<1>6. r \in ReqRow /\ Form(r) /\ Aimed(r) /\ Copied(r)
  BY <1>2, OnwardForm
<1> HIDE DEF r, list, more
<1>7. \A v : Got(req[q], held[q], v) => Got(r, more, v)
  BY <1>4, <1>5, GotMore DEF more
<1>8. \A row, mode : Lock(row, mode) \in held[q] => Lock(row, mode) \in more
  BY DEF more
<1>9. Covered(r, more)
  <2>1. Covered(req[q], held[q])
    BY ReqIs
  <2>2. ToUnit(r) = ToUnit(req[q])
    BY <1>5 DEF ToUnit
  <2> QED BY <2>1, <2>2, <1>5, <1>7, <1>8 DEF Covered
<1>10. Kept(more)
  <2>1. u \notin Leases /\ Lock(u, "share").row = u
    BY <1>2, RowAssumption DEF Lock
  <2> QED BY <2>1, KeptSoFar DEF Kept, more
<1> QED BY <1>3, <1>6, <1>9, <1>10 DEF Fine, Sound

LEMMA UnitFine ==
  ASSUME IInv, NEW q \in Requests, LockUnit(q)
  PROVE  Fine(q)
BY UnitLocked, EndIs DEF LockUnit

LEMMA PassedIs ==
  ASSUME IInv, NEW q \in Requests, NEW units \in Seq(Units), req[q].step \in {"lease", "row", "units"},
         req' = Advanced(q, "units", units), UNCHANGED <<held, started>>
  PROVE  /\ Alone(q) /\ req'[q] = Onward(q, "units", units) /\ started' = started
         /\ held'[q] = held[q] /\ held' \in [Requests -> SUBSET Locks]
<1>1. req' = [req EXCEPT ![q] = Onward(q, "units", units)]
  BY Carried
<1>2. req \in [Requests -> ReqRow] /\ Onward(q, "units", units) \in ReqRow
  BY OnwardForm DEF IInv, RequestsOK
<1>3. /\ req' \in [Requests -> ReqRow] /\ req'[q] = Onward(q, "units", units)
      /\ \A p \in Requests \ {q} : req'[p] = req[p]
  BY <1>1, <1>2
<1>4. \A p \in Requests \ {q} : Shared(p, q)' /\ Shared(q, p)'
  BY DEF IInv, RequestsOK, Shared
<1> QED BY <1>3, <1>4, HeldType DEF Alone, Onward

LEMMA StepOps ==
  ASSUME IInv, NEW q \in Requests
  PROVE  /\ req[q].step = "lease" => req[q].op \in Edits
         /\ req[q].step = "image" => req[q].op = "ocr"
         /\ req[q].step = "save" => req[q].op = "update lease"
BY ReqIs DEF ReqRow, Ops, Form, Edits, OfCheque, Creates

LEMMA LeaseFine ==
  ASSUME IInv, NEW q \in Requests, LockLease(q)
  PROVE  Fine(q)
<1> DEFINE seen == req[q].seen
           want == req[q].want
           l == seen.lease
           at == IF l = None THEN None ELSE lease[l].unit
           list == With(With(With(<< >>, seen.unit), at), want.unit)
           r == Onward(q, "units", list)
<1>1. req[q].step = "lease" /\ req[q].op \in Edits
  BY StepOps DEF LockLease
<1>2. seen \in Copy /\ want \in Copy /\ want.lease = l
  BY <1>1, ReqIs DEF Form
<1>3. /\ seen.unit \in Units \cup {None} /\ want.unit \in Units \cup {None}
      /\ l \in Leases \cup {None} /\ at \in Units \cup {None}
  <2>1. seen.unit \in Units \cup {None} /\ want.unit \in Units \cup {None} /\ l \in Leases \cup {None}
    BY <1>2 DEF Copy, ChequeRow
  <2>2. l # None => lease[l].unit \in Units \cup {None}
    BY <2>1 DEF IInv, TypeOK, LeaseRow
  <2> QED BY <2>1, <2>2
<1>4. /\ \/ l = None /\ req' = Advanced(q, "units", list) /\ UNCHANGED <<held, started>>
         \/ l # None /\ l \in Lease /\ ~lease[l].archived /\ Locked(q, l, "share", "units", list)
         \/ End(q)
  BY DEF LockLease, Advanced
<1> HIDE DEF seen, want, l, at
<1>5. list \in Seq(Units) /\ Has(list, seen.unit) /\ Has(list, at) /\ Has(list, want.unit)
  <2>1. With(<< >>, seen.unit) \in Seq(Units) /\ Has(With(<< >>, seen.unit), seen.unit)
    BY <1>3, Listed, WithIs
  <2>2. /\ With(With(<< >>, seen.unit), at) \in Seq(Units)
        /\ Has(With(With(<< >>, seen.unit), at), seen.unit) /\ Has(With(With(<< >>, seen.unit), at), at)
    BY <1>3, <2>1, WithIs
  <2> QED BY <1>3, <2>2, WithIs
<1> HIDE DEF list
<1>6. r \in ReqRow /\ Form(r) /\ Aimed(r) /\ Copied(r)
  BY <1>1, <1>5, OnwardForm
<1>7. /\ r.op = req[q].op /\ r.seen = seen /\ r.want = want /\ r.row = req[q].row
      /\ r.step = "units" /\ r.units = list
  BY DEF Onward, seen, want
<1> HIDE DEF r
<1>8. ASSUME NEW locks, l # None => Lock(l, "share") \in locks PROVE Covered(r, locks)
  <2>1. Got(r, locks, seen.unit) /\ Got(r, locks, want.unit) /\ (l # None => Got(r, locks, lease[l].unit))
    BY <1>5, <1>7 DEF Got, at
  <2>2. r.op \in Edits /\ r.seen.lease = l
    BY <1>1, <1>7 DEF l
  <2> QED BY <1>7, <1>8, <2>1, <2>2 DEF Covered, Edits
<1>9. CASE l = None /\ req' = Advanced(q, "units", list) /\ UNCHANGED <<held, started>>
  <2>1. /\ Alone(q) /\ req'[q] = r /\ started' = started /\ held'[q] = held[q]
        /\ held' \in [Requests -> SUBSET Locks]
    BY <1>1, <1>5, <1>9, PassedIs DEF r
  <2> QED BY <2>1, <1>6, <1>8, <1>9, KeptSoFar DEF Fine, Sound
<1>10. CASE l # None /\ l \in Lease /\ ~lease[l].archived /\ Locked(q, l, "share", "units", list)
  <2>0. l \in Leases
    BY <1>10 DEF Lease
  <2>1. /\ Alone(q) /\ req'[q] = r /\ started' = started /\ held'[q] = held[q] \cup {Lock(l, "share")}
        /\ held' \in [Requests -> SUBSET Locks]
    BY <1>1, <1>5, <1>10, <2>0, LockedIs DEF r
  <2>2. Covered(r, held'[q])
    BY <2>1, <1>8
  <2>3. Kept(held'[q])
    <3>1. l \notin Units /\ Lock(l, "share").row = l
      BY <2>0, RowAssumption DEF Lock
    <3> QED BY <1>10, <2>1, <3>1, KeptSoFar DEF Kept
  <2> QED BY <2>1, <2>2, <2>3, <1>6 DEF Fine, Sound
<1>11. CASE End(q)
  BY <1>11, EndIs
<1> QED BY <1>4, <1>9, <1>10, <1>11

LEMMA UpdateFine ==
  ASSUME IInv, NEW q \in Requests, LockForUpdate(q)
  PROVE  Fine(q)
<1> DEFINE l == req[q].row
           want == req[q].want
           moves == want.unit # None /\ want.unit # lease[l].unit
           to == IF moves THEN want.unit ELSE lease[l].unit
           r == Onward(q, "units", <<to>>)
<1>1. req[q].step = "row" /\ req[q].op = "update lease" /\ l \in Leases /\ want \in LeaseWish
  BY ReqIs DEF LockForUpdate, Form
<1>2. \/ l \in Lease /\ ~lease[l].archived /\ Locked(q, l, LeaseLock, "units", <<to>>)
      \/ End(q)
  BY DEF LockForUpdate
<1>3. CASE End(q)
  BY <1>3, EndIs
<1>4. CASE l \in Lease /\ ~lease[l].archived /\ Locked(q, l, LeaseLock, "units", <<to>>)
  <2>1. lease[l].unit \in Units
    BY <1>4 DEF Lease, Absent, IInv, PlacedOK
  <2>2. to \in Units /\ to = ToUnit(req[q])
    BY <1>1, <2>1 DEF LeaseWish, ToUnit
  <2> HIDE DEF to
  <2>3. <<to>> \in Seq(Units) /\ Has(<<to>>, to)
    BY <2>2, Listed
  <2>4. /\ Alone(q) /\ req'[q] = r /\ started' = started /\ held'[q] = held[q] \cup {Lock(l, "write")}
        /\ held' \in [Requests -> SUBSET Locks]
    BY <1>1, <1>4, <2>3, LockedIs DEF LeaseLock
  <2>5. r \in ReqRow /\ Form(r) /\ Aimed(r) /\ Copied(r)
    BY <1>1, <2>3, OnwardForm
  <2>6. r.op = "update lease" /\ r.want = req[q].want /\ r.row = l /\ r.step = "units" /\ r.units = <<to>>
    BY <1>1 DEF Onward
  <2> HIDE DEF r
  <2>7. Covered(r, held'[q])
    <3>1. ToUnit(r) = to
      BY <2>2, <2>6 DEF ToUnit
    <3>2. Got(r, held'[q], ToUnit(r)) /\ Lock(r.row, "write") \in held'[q]
      BY <2>3, <2>4, <2>6, <3>1 DEF Got
    <3> QED BY <2>6, <3>2 DEF Covered, Edits
  <2>8. Kept(held'[q])
    <3>1. l \notin Units /\ Lock(l, "write").row = l
      BY <1>1, RowAssumption DEF Lock
    <3> QED BY <1>4, <2>4, <3>1, KeptSoFar DEF Kept
  <2> QED BY <2>4, <2>5, <2>7, <2>8 DEF Fine, Sound
<1> QED BY <1>2, <1>3, <1>4

LEMMA RenewFine ==
  ASSUME IInv, NEW q \in Requests, LockForRenew(q)
  PROVE  Fine(q)
<1> DEFINE l == req[q].row
           r == Onward(q, "units", req[q].units)
<1>1. /\ req[q].step = "row" /\ req[q].op = "renew" /\ l \in Leases /\ req[q].units \in Seq(Units)
      /\ Got(req[q], held[q], req[q].seen.unit)
  BY ReqIs DEF LockForRenew, Form, Covered
<1>2. \/ /\ l \in Lease /\ ~lease[l].archived /\ lease[l].status \in {"ACTIVE", "EXPIRED"}
         /\ Locked(q, l, "write", "units", req[q].units)
      \/ End(q)
  BY DEF LockForRenew, LeaseLock
<1>3. CASE End(q)
  BY <1>3, EndIs
<1>4. CASE /\ l \in Lease /\ ~lease[l].archived /\ lease[l].status \in {"ACTIVE", "EXPIRED"}
           /\ Locked(q, l, "write", "units", req[q].units)
  <2>1. /\ Alone(q) /\ req'[q] = r /\ started' = started /\ held'[q] = held[q] \cup {Lock(l, "write")}
        /\ held' \in [Requests -> SUBSET Locks]
    BY <1>1, <1>4, LockedIs
  <2>2. r \in ReqRow /\ Form(r) /\ Aimed(r) /\ Copied(r)
    BY <1>1, OnwardForm
  <2>3. r.op = "renew" /\ r.seen = req[q].seen /\ r.row = l /\ r.step = "units" /\ r.units = req[q].units
    BY <1>1 DEF Onward
  <2> HIDE DEF r
  <2>4. Covered(r, held'[q])
    <3>1. Got(r, held'[q], r.seen.unit) /\ Lock(r.row, "write") \in held'[q]
      BY <1>1, <2>1, <2>3 DEF Got
    <3> QED BY <1>4, <2>3, <3>1 DEF Covered, Edits
  <2>5. Kept(held'[q])
    <3>1. l \notin Units /\ Lock(l, "write").row = l
      BY <1>1, RowAssumption DEF Lock
    <3> QED BY <1>4, <2>1, <3>1, KeptSoFar DEF Kept
  <2> QED BY <2>1, <2>2, <2>4, <2>5 DEF Fine, Sound
<1> QED BY <1>2, <1>3, <1>4

LEMMA OrderFine ==
  ASSUME IInv, NEW q \in Requests, LockOrder(q)
  PROVE  Fine(q)
<1> DEFINE o == req[q].row
           list == With(With(<< >>, order[o].unit), req[q].want.unit)
           r == Onward(q, "units", list)
<1>1. /\ req[q].step = "row" /\ req[q].op = "update order" /\ o \in Orders
      /\ req[q].want \in Plain /\ req[q].want.unit # None
  BY ReqIs DEF LockOrder, Form
<1>2. Locked(q, o, "write", "units", list) \/ End(q)
  BY DEF LockOrder
<1>3. CASE End(q)
  BY <1>3, EndIs
<1>4. CASE Locked(q, o, "write", "units", list)
  <2>1. order[o].unit \in Units \cup {None} /\ req[q].want.unit \in Units \cup {None}
    BY <1>1 DEF IInv, TypeOK, OrderRow, Plain
  <2>2. With(<< >>, order[o].unit) \in Seq(Units)
    BY <2>1, Listed, WithIs, ZenonT(30)
  <2>3. list \in Seq(Units) /\ Has(list, req[q].want.unit)
    BY <2>1, <2>2, WithIs
  <2> HIDE DEF list
  <2>4. /\ Alone(q) /\ req'[q] = r /\ started' = started /\ held'[q] = held[q] \cup {Lock(o, "write")}
        /\ held' \in [Requests -> SUBSET Locks]
    BY <1>1, <1>4, <2>3, LockedIs
  <2>5. r \in ReqRow /\ Form(r) /\ Aimed(r) /\ Copied(r)
    BY <1>1, <2>3, OnwardForm
  <2>6. r.op = "update order" /\ r.want = req[q].want /\ r.step = "units" /\ r.units = list
    BY <1>1 DEF Onward
  <2> HIDE DEF r
  <2>7. Covered(r, held'[q])
    BY <2>3, <2>6 DEF Covered, Edits, Got
  <2>8. Kept(held'[q])
    <3>1. o \notin Units /\ o \notin Leases /\ Lock(o, "write").row = o
      BY <1>1, RowAssumption DEF Lock
    <3> QED BY <2>4, <3>1, KeptSoFar DEF Kept
  <2> QED BY <2>4, <2>5, <2>7, <2>8 DEF Fine, Sound
<1> QED BY <1>2, <1>3, <1>4

LEMMA LeadFine ==
  ASSUME IInv, NEW q \in Requests, LockLead(q)
  PROVE  Fine(q)
<1> DEFINE d == req[q].row
           asked == Head(req[q].units)
           list == With(With(<< >>, lead[d].unit), asked)
           r == Onward(q, "units", list)
<1>1. /\ req[q].step = "row" /\ req[q].op = "save lead" /\ d \in Leads
      /\ req[q].units \in Seq(Units \cup {None}) /\ Len(req[q].units) = 1
      /\ req[q].want.unit = req[q].seen.unit \/ Got(req[q], held[q], req[q].want.unit)
  BY ReqIs DEF LockLead, Form, Covered, ReqRow
<1>2. Locked(q, d, "write", "units", list)
  BY DEF LockLead
<1>3. asked \in Units \cup {None} /\ \A v : Has(req[q].units, v) => v = None \/ v = asked
  BY <1>1, OneListed
<1>4. lead[d].unit \in Units \cup {None}
  BY <1>1 DEF IInv, TypeOK, PlainRow
<1> HIDE DEF asked
<1>5. With(<< >>, lead[d].unit) \in Seq(Units) /\ Has(With(<< >>, lead[d].unit), lead[d].unit)
  BY <1>4, Listed, WithIs
<1>6. list \in Seq(Units) /\ Has(list, lead[d].unit) /\ Has(list, asked) /\ Has(list, None)
  <2>1. /\ list \in Seq(Units) /\ Has(list, asked)
        /\ \A v : Has(With(<< >>, lead[d].unit), v) => Has(list, v)
    BY <1>3, <1>5, WithIs
  <2> QED BY <1>5, <2>1 DEF Has
<1> HIDE DEF list
<1>7. /\ Alone(q) /\ req'[q] = r /\ started' = started /\ held'[q] = held[q] \cup {Lock(d, "write")}
      /\ held' \in [Requests -> SUBSET Locks]
  BY <1>1, <1>2, <1>6, LockedIs
<1>8. r \in ReqRow /\ Form(r) /\ Aimed(r) /\ Copied(r)
  BY <1>1, <1>6, OnwardForm
<1>9. /\ r.op = "save lead" /\ r.want = req[q].want /\ r.seen = req[q].seen /\ r.row = d
      /\ r.step = "units" /\ r.units = list
  BY <1>1 DEF Onward
<1> HIDE DEF r
<1>10. Covered(r, held'[q])
  <2>1. \A v : Has(req[q].units, v) => Has(list, v)
    BY <1>3, <1>6
  <2>2. r.want.unit = r.seen.unit \/ Got(r, held'[q], r.want.unit)
    BY <1>1, <1>7, <1>9, <2>1 DEF Got
  <2>3. Lock(r.row, "write") \in held'[q] /\ Got(r, held'[q], lead[r.row].unit)
    BY <1>6, <1>7, <1>9 DEF Got
  <2> QED BY <1>9, <2>2, <2>3 DEF Covered, Edits
<1>11. Kept(held'[q])
  <2>1. d \notin Units /\ d \notin Leases /\ Lock(d, "write").row = d
    BY <1>1, RowAssumption DEF Lock
  <2> QED BY <1>7, <2>1, KeptSoFar DEF Kept
<1> QED BY <1>7, <1>8, <1>10, <1>11 DEF Fine, Sound

LEMMA EntryFine ==
  ASSUME IInv, NEW q \in Requests, LockEntry(q)
  PROVE  Fine(q)
<1> DEFINE e == req[q].row
           list == With(<< >>, entry[e].unit)
           r == Onward(q, "units", list)
<1>1. req[q].step = "row" /\ req[q].op = "update entry" /\ e \in Entries
  BY ReqIs DEF LockEntry, Form
<1>2. Locked(q, e, "write", "units", list)
  BY DEF LockEntry
<1>3. entry[e].unit \in Units \cup {None}
  BY <1>1 DEF IInv, TypeOK, PlainRow
<1>4. list \in Seq(Units) /\ Has(list, entry[e].unit)
  BY <1>3, Listed, WithIs
<1> HIDE DEF list
<1>5. /\ Alone(q) /\ req'[q] = r /\ started' = started /\ held'[q] = held[q] \cup {Lock(e, "write")}
      /\ held' \in [Requests -> SUBSET Locks]
  BY <1>1, <1>2, <1>4, LockedIs
<1>6. r \in ReqRow /\ Form(r) /\ Aimed(r) /\ Copied(r)
  BY <1>1, <1>4, OnwardForm
<1>7. r.op = "update entry" /\ r.row = e /\ r.step = "units" /\ r.units = list
  BY <1>1 DEF Onward
<1> HIDE DEF r
<1>8. Covered(r, held'[q])
  BY <1>4, <1>7 DEF Covered, Edits, Got
<1>9. Kept(held'[q])
  <2>1. e \notin Units /\ e \notin Leases /\ Lock(e, "write").row = e
    BY <1>1, RowAssumption DEF Lock
  <2> QED BY <1>5, <2>1, KeptSoFar DEF Kept
<1> QED BY <1>5, <1>6, <1>8, <1>9 DEF Fine, Sound

(* The lease as it will be, field by field.                                *)
LEMMA AfterIs ==
  ASSUME IInv, NEW q \in Requests, req[q].op = "update lease"
  PROVE  /\ After(q) = [status |-> ToStatus(req[q]), unit |-> ToUnit(req[q]),
                        archived |-> lease[req[q].row].archived]
         /\ After(q) \in LeaseRow
         /\ After(q).status = ToStatus(req[q]) /\ After(q).unit = ToUnit(req[q])
         /\ After(q).archived = lease[req[q].row].archived
<1> DEFINE st == ToStatus(req[q])
           un == ToUnit(req[q])
           ar == lease[req[q].row].archived
<1>1. req[q].row \in Leases /\ req[q].want \in LeaseWish
  BY ReqIs DEF Form
<1>2. lease[req[q].row] \in LeaseRow
  BY <1>1 DEF IInv, TypeOK
<1>3. After(q) = [status |-> st, unit |-> un, archived |-> ar]
  BY DEF After, ToStatus, ToUnit
<1>4. st \in LeaseStatuses \cup Absent /\ un \in Units \cup {None} /\ ar \in BOOLEAN
  BY <1>1, <1>2 DEF LeaseRow, LeaseWish, ToStatus, ToUnit
<1> HIDE DEF st, un, ar
<1>5. [status |-> st, unit |-> un, archived |-> ar] \in LeaseRow
  BY <1>4 DEF LeaseRow
<1>6. PICK row : row = [status |-> st, unit |-> un, archived |-> ar]
  OBVIOUS
<1>7. row.status = st /\ row.unit = un /\ row.archived = ar
  BY <1>6
<1>8. After(q) = row
  BY <1>3, <1>6
<1>9. row \in LeaseRow
  BY <1>5, <1>6
<1> QED BY <1>3, <1>7, <1>8, <1>9 DEF st, un, ar

LEMMA CheckFine ==
  ASSUME IInv, NEW q \in Requests, CheckUpdate(q)
  PROVE  Fine(q)
<1> DEFINE l == req[q].row
           r == Onward(q, "save", << >>)
<1>1. /\ req[q].step = "units" /\ req[q].op = "update lease" /\ req[q].units = << >> /\ l \in Leases
      /\ Lock(l, "write") \in held[q] /\ Got(req[q], held[q], ToUnit(req[q]))
  BY ReqIs DEF CheckUpdate, Ready, Form, Covered
<1>2. \/ /\ ToStatus(req[q]) # lease[l].status =>
              lease[l].status \notin {"TERMINATED", "RENEWED"} /\ ToStatus(req[q]) # "DRAFT"
         /\ req' = Stepped(q, "save") /\ UNCHANGED <<held, started>>
      \/ End(q)
  BY <1>1, AfterIs DEF CheckUpdate, Stepped
<1>3. CASE End(q)
  BY <1>3, EndIs
<1>4. CASE /\ ToStatus(req[q]) # lease[l].status =>
                lease[l].status \notin {"TERMINATED", "RENEWED"} /\ ToStatus(req[q]) # "DRAFT"
           /\ req' = Stepped(q, "save") /\ UNCHANGED <<held, started>>
  <2>1. req' = [req EXCEPT ![q] = r]
    BY <1>1, <1>4, Carried
  <2>2. /\ r.op = "update lease" /\ r.want = req[q].want /\ r.row = l /\ r.seen = req[q].seen
        /\ r.step = "save" /\ r.units = << >>
    BY <1>1 DEF Onward
  <2>3. r \in ReqRow
    BY <1>1, ReqIs, Listed, Wider DEF Onward, ReqRow, Steps
  <2>4. Form(r) /\ Aimed(r) /\ Copied(r)
    <3>1. Form(req[q]) /\ Aimed(req[q])
      BY ReqIs
    <3>2. Form(r)
      BY <1>1, <2>2, <3>1, Listed DEF Form, Edits
    <3>3. Aimed(r)
      BY <1>1, <2>2, <3>1 DEF Aimed, OfCheque
    <3> QED BY <2>2, <3>2, <3>3 DEF Copied, OfCheque
  <2> HIDE DEF r
  <2>5. req \in [Requests -> ReqRow]
    BY DEF IInv, RequestsOK
  <2>6. /\ req' \in [Requests -> ReqRow] /\ req'[q] = r
        /\ \A p \in Requests \ {q} : req'[p] = req[p] /\ held'[p] = held[p]
    BY <1>4, <2>1, <2>3, <2>5
  <2>7. \A p \in Requests \ {q} : Shared(p, q)' /\ Shared(q, p)'
    BY <1>4 DEF IInv, RequestsOK, Shared
  <2>8. Alone(q)
    BY <1>1, <2>2, <2>6, <2>7 DEF Alone
  <2>9. Covered(r, held'[q])
    <3>1. ToUnit(r) = ToUnit(req[q]) /\ ToStatus(r) = ToStatus(req[q])
      BY <2>2 DEF ToUnit, ToStatus
    <3>2. Got(r, held'[q], ToUnit(r))
      BY <1>1, <1>4, <2>2, <3>1 DEF Got
    <3> QED BY <1>1, <1>4, <2>2, <3>1, <3>2 DEF Covered, Edits
  <2>10. Kept(held'[q])
    BY <1>4, KeptSoFar
  <2> QED BY <1>4, <2>4, <2>6, <2>8, <2>9, <2>10, HeldType DEF Fine, Sound
<1> QED BY <1>2, <1>3, <1>4

-----------------------------------------------------------------------------
(* What a step may write while another request, p, runs: nothing p has     *)
(* locked, and no row p is about to create.                                *)
Spares(p, row, was, is) ==
  /\ is # "free"
  /\ was # "free" => \A h \in held[p] : h.row # row
  /\ was = "free" /\ req[p].op \in Creates => New(req[p]) # row

UnitTouch(p) == \A u \in Units : unit'[u] # unit[u] => \A h \in held[p] : h.row # u
LeaseTouch(p) == \A l \in Leases : lease'[l] # lease[l] => Spares(p, l, lease[l].status, lease'[l].status)
LeadTouch(p) == \A d \in Leads : lead'[d] # lead[d] => Spares(p, d, lead[d].status, lead'[d].status)
EntryTouch(p) ==
  \A e \in Entries : entry'[e] # entry[e] =>
    /\ entry'[e].status # "free" /\ (entry[e].status # "free" => entry'[e].unit = entry[e].unit)
    /\ entry[e].status = "free" /\ req[p].op \in Creates => New(req[p]) # e
ChequeTouch(p) ==
  /\ reverted \subseteq reverted'
  /\ \A c \in Cheques : cheque'[c] # cheque[c] =>
       /\ cheque'[c].status # "free" /\ (cheque[c].status # "free" => cheque'[c].lease = cheque[c].lease)
       /\ cheque[c].status = "free" /\ req[p].op \in Creates => New(req[p]) # c
       /\ cheque[c].status # "free" /\ cheque'[c].status # "gone" /\ c \notin reverted' =>
            c \in Cheque /\ cheque'[c].version = cheque[c].version + 1

Touch(p) == UnitTouch(p) /\ LeaseTouch(p) /\ ChequeTouch(p) /\ LeadTouch(p) /\ EntryTouch(p)

LEMMA Later == \A m, n, k \in Nat : m <= n /\ k = n + 1 => m <= k /\ m # k
  OBVIOUS

LEMMA OtherAimed ==
  ASSUME IInv, NEW p \in Requests, Touch(p), UNCHANGED req[p]
  PROVE  Aimed(req[p])'
<1> DEFINE r == req[p]
<1>1. Form(r) /\ Aimed(r) /\ r' = r
  BY ReqIs
<1>2. r.op = "create cheque" => cheque'[r.row].status = "free"
  BY <1>1 DEF Form, Aimed, Edits, Touch, ChequeTouch, Creates, New
<1>3. r.op \in OfCheque => cheque'[r.row].status # "free" /\ cheque'[r.row].lease = r.seen.lease
  <2>1. r.op \in OfCheque => r.row \in Cheques
    BY <1>1 DEF Form, Edits, OfCheque
  <2> QED BY <1>1, <2>1 DEF Aimed, Touch, ChequeTouch
<1>4. r.op = "create lease" => lease'[r.row].status = "free"
  BY <1>1 DEF Form, Aimed, Touch, LeaseTouch, Creates, New, Spares
<1>5. r.op = "renew" => lease'[r.want].status = "free" /\ lease'[r.row].status # "free"
  BY <1>1 DEF Form, Aimed, Touch, LeaseTouch, Creates, New, Spares
<1>6. r.op = "update lease" => lease'[r.row].status # "free"
  BY <1>1 DEF Form, Aimed, Touch, LeaseTouch, Spares
<1>7. r.op = "create lead" => lead'[r.row].status = "free"
  BY <1>1 DEF Form, Aimed, Touch, LeadTouch, Creates, New, Spares
<1>8. r.op = "save lead" => lead'[r.row].status # "free"
  BY <1>1 DEF Form, Aimed, Touch, LeadTouch, Spares
<1>9. r.op = "create entry" => entry'[r.row].status = "free"
  BY <1>1 DEF Form, Aimed, Touch, EntryTouch, Creates, New
<1>10. r.op = "update entry" => entry'[r.row].status # "free"
  BY <1>1 DEF Form, Aimed, Touch, EntryTouch
<1>11. r' = r
  BY <1>1
<1> HIDE DEF r
<1>12. Aimed(r)'
  BY <1>11, <1>2, <1>3, <1>4, <1>5, <1>6, <1>7, <1>8, <1>9, <1>10 DEF Aimed
<1> QED BY <1>12 DEF r

LEMMA OtherCopied ==
  ASSUME IInv, NEW p \in Requests, Touch(p), UNCHANGED req[p]
  PROVE  Copied(req[p])'
<1> DEFINE r == req[p]
<1> SUFFICES ASSUME r.op \in OfCheque, r.row \in (Cheque \ reverted)'
             PROVE  /\ r.seen.version <= cheque'[r.row].version
                    /\ r.seen.version = cheque'[r.row].version => r.seen = cheque'[r.row]
  BY DEF Copied
<1>1. /\ r.row \in Cheques /\ r.seen \in Copy /\ cheque[r.row].status # "free"
      /\ cheque'[r.row].status # "gone" /\ r.row \notin reverted'
  BY ReqIs DEF Form, Aimed, Edits, OfCheque, Cheque, Absent
<1>2. /\ r.row \in Cheque \ reverted =>
           /\ r.seen.version <= cheque[r.row].version
           /\ r.seen.version = cheque[r.row].version => r.seen = cheque[r.row]
      /\ reverted \subseteq reverted'
  BY ReqIs DEF Copied, Touch, ChequeTouch
<1>3. CASE cheque'[r.row] = cheque[r.row]
  BY <1>1, <1>2, <1>3 DEF Cheque, Absent
<1>4. CASE cheque'[r.row] # cheque[r.row]
  <2>1. r.row \in Cheque /\ cheque'[r.row].version = cheque[r.row].version + 1
    BY <1>1, <1>4 DEF Touch, ChequeTouch
  <2>2. r.seen.version \in Nat /\ cheque[r.row].version \in Nat
    BY <1>1 DEF Copy, ChequeRow, IInv, TypeOK
  <2>3. r.seen.version <= cheque[r.row].version /\ cheque'[r.row].version \in Nat
    BY <1>1, <1>2, <2>1, <2>2
  <2> QED BY <2>1, <2>2, <2>3, Later
<1> QED BY <1>3, <1>4

LEMMA OtherCovered ==
  ASSUME IInv, NEW p \in Requests, Touch(p), UNCHANGED <<req[p], held[p]>>
  PROVE  Covered(req[p], held[p])'
<1> DEFINE r == req[p]
           locks == held[p]
<1>1. Form(r) /\ Aimed(r) /\ Covered(r, locks) /\ r' = r /\ locks' = locks
  BY ReqIs
<1>2. \A l \in Leases : \A mode : Lock(l, mode) \in locks => lease'[l] = lease[l]
  BY KeptSoFar DEF Touch, LeaseTouch, Spares, Lock, Kept, Lease, Absent
<1>3. \A d \in Leads : \A mode : Lock(d, mode) \in locks /\ lead[d].status # "free" => lead'[d] = lead[d]
  BY DEF Touch, LeadTouch, Spares, Lock
<1>4. r.op = "update entry" => entry'[r.row].unit = entry[r.row].unit
  BY <1>1 DEF Form, Aimed, Touch, EntryTouch
<1>5. r.op \in Edits /\ r.step = "units" /\ r.seen.lease # None => lease'[r.seen.lease] = lease[r.seen.lease]
  <2>1. r.op \in Edits => r.seen.lease \in Leases \cup {None}
    BY <1>1 DEF Form, Copy, ChequeRow
  <2> QED BY <1>1, <1>2, <2>1 DEF Covered
<1>6. \/ r.op = "renew" /\ r.step = "units"
      \/ r.op = "update lease" /\ r.step # "row" => lease'[r.row] = lease[r.row]
  BY <1>1, <1>2 DEF Form, Covered
<1>7. r.op = "renew" /\ r.step = "units" => lease'[r.row] = lease[r.row]
  BY <1>1, <1>2 DEF Form, Covered
<1>8. r.op = "save lead" /\ r.step = "units" => lead'[r.row] = lead[r.row]
  BY <1>1, <1>3 DEF Form, Aimed, Covered
<1>9. r.op = "update lease" /\ r.step # "row" => UNCHANGED <<ToUnit(r), ToStatus(r)>>
  BY <1>1, <1>6 DEF ToUnit, ToStatus
<1> HIDE DEF r, locks
<1>10. \A u : Got(r, locks, u)' <=> Got(r', locks', u)
  BY DEF Got
<1> QED
  <2>1. /\ r.op \in Edits /\ r.step = "units" =>
             /\ Got(r, locks, r.seen.unit) /\ Got(r, locks, r.want.unit)
             /\ r.seen.lease # None =>
                  Lock(r.seen.lease, "share") \in locks /\ Got(r, locks, lease'[r.seen.lease].unit)
    BY <1>1, <1>5 DEF Covered
  <2>2. r.op \in {"create lease", "create order", "create lead", "create entry", "renew"} =>
          Got(r, locks, r.seen.unit)
    BY <1>1 DEF Covered
  <2>3. r.op = "renew" /\ r.step = "units" =>
          Lock(r.row, "write") \in locks /\ lease'[r.row].status \in {"ACTIVE", "EXPIRED"}
    BY <1>1, <1>7 DEF Covered
  <2>4. /\ r.op = "update lease" /\ r.step # "row" => Lock(r.row, "write") \in locks /\ Got(r, locks, ToUnit(r)')
        /\ r.op = "update lease" /\ r.step = "save" =>
             /\ r.units = << >>
             /\ ToStatus(r)' # lease'[r.row].status =>
                  lease'[r.row].status \notin {"TERMINATED", "RENEWED"} /\ ToStatus(r)' # "DRAFT"
    BY <1>1, <1>6, <1>9 DEF Covered
  <2>5. /\ r.op = "update order" /\ r.step = "units" => Got(r, locks, r.want.unit)
        /\ r.op = "save lead" => r.want.unit = r.seen.unit \/ Got(r, locks, r.want.unit)
        /\ r.op = "save lead" /\ r.step = "units" =>
             Lock(r.row, "write") \in locks /\ Got(r, locks, lead'[r.row].unit)
        /\ r.op = "update entry" /\ r.step = "units" => Got(r, locks, entry'[r.row].unit)
    BY <1>1, <1>4, <1>8 DEF Covered
  <2>6. r' = r /\ locks' = locks
    BY <1>1
  <2>7. Covered(r, locks)'
    BY <2>1, <2>2, <2>3, <2>4, <2>5, <2>6 DEF Covered
  <2> QED BY <2>7 DEF r, locks

LEMMA OtherSound ==
  ASSUME IInv, NEW p \in Requests, Touch(p), UNCHANGED <<req[p], held[p]>>
  PROVE  Sound(req[p], held[p])'
<1>1. Form(req[p])'
  BY ReqIs, ZenonT(30) DEF Form
<1>2. Kept(held[p])'
  <2> SUFFICES ASSUME NEW h \in held[p]
               PROVE  /\ h.row \in Units => unit'[h.row] = "open"
                      /\ h.row \in Leases => h.row \in Lease' /\ ~lease'[h.row].archived
    BY DEF Kept
  <2>1. /\ h.row \in Units => unit[h.row] = "open" /\ unit'[h.row] = unit[h.row]
        /\ h.row \in Leases => h.row \in Lease /\ ~lease[h.row].archived /\ lease'[h.row] = lease[h.row]
    BY KeptSoFar DEF Kept, Touch, UnitTouch, LeaseTouch, Spares, Lease, Absent
  <2> QED BY <2>1 DEF Lease
<1> QED BY <1>1, <1>2, OtherAimed, OtherCopied, OtherCovered DEF Sound

-----------------------------------------------------------------------------
(* What the writes of a row leave true, table by table.                    *)
RowTypes ==
  /\ unit \in [Units -> {"open", "archived", "gone"}]
  /\ lease \in [Leases -> LeaseRow]
  /\ cheque \in [Cheques -> ChequeRow]
  /\ payments \in [Cheques -> Seq([unit : Units \cup {None}, live : BOOLEAN])]
  /\ order \in [Orders -> OrderRow] /\ lead \in [Leads -> PlainRow] /\ entry \in [Entries -> PlainRow]
  /\ reverted \subseteq Cheques \cup Leads
  /\ \A c \in Cheques : cheque[c].status = "DEPOSITED" => cheque[c].dated

RowsOK == RowTypes /\ PlacedOK /\ PaidOK /\ OneActiveLease /\ NoOrphans /\ ArchivedQuiet

LEMMA RowsAre == ASSUME IInv PROVE RowsOK
BY DEF IInv, TypeOK, RowsFit, RowsOK, RowTypes

LEMMA NoRowWritten ==
  ASSUME RowsOK, UNCHANGED <<unit, lease, cheque, payments, order, lead, entry, reverted>>
  PROVE  RowsOK'
<1>1. RowTypes' /\ PlacedOK'
  BY DEF RowsOK, RowTypes, PlacedOK
<1>2. PaidOK'
  BY DEF RowsOK, PaidOK, Live, Cheque
<1>3. OneActiveLease'
  BY DEF RowsOK, OneActiveLease, OtherActive, Lease
<1>4. NoOrphans'
  BY DEF RowsOK, NoOrphans, Lease, Order, Lead, Entry, Cheque
<1>5. ArchivedQuiet'
  BY DEF RowsOK, ArchivedQuiet, Lease, Order, Lead, Entry, Cheque, ChequesOn
<1> QED BY <1>1, <1>2, <1>3, <1>4, <1>5 DEF RowsOK

LEMMA OrderWritten ==
  ASSUME RowsOK, NEW o \in Orders, NEW row \in OrderRow, row.unit \in Units,
         row.status \notin Absent => unit[row.unit] # "gone",
         row.status = "open" => unit[row.unit] # "archived",
         order' = [order EXCEPT ![o] = row], UNCHANGED <<unit, lease, cheque, payments, lead, entry, reverted>>
  PROVE  RowsOK'
<1>1. order' \in [Orders -> OrderRow] /\ order'[o] = row /\ \A z \in Orders \ {o} : order'[z] = order[z]
  BY DEF RowsOK, RowTypes
<1>2. RowTypes' /\ PlacedOK'
  BY <1>1 DEF RowsOK, RowTypes, PlacedOK
<1>3. PaidOK'
  BY DEF RowsOK, PaidOK, Live, Cheque
<1>4. OneActiveLease'
  BY DEF RowsOK, OneActiveLease, OtherActive, Lease
<1>5. \A z \in Order' : (z = o /\ row.status \notin Absent) \/ (z # o /\ z \in Order /\ order'[z] = order[z])
  BY <1>1 DEF Order
<1>6. NoOrphans'
  BY <1>1, <1>5 DEF RowsOK, NoOrphans, Lease, Lead, Entry, Cheque
<1>7. ArchivedQuiet'
  BY <1>1, <1>5 DEF RowsOK, ArchivedQuiet, Lease, Lead, Entry, Cheque, ChequesOn
<1> QED BY <1>2, <1>3, <1>4, <1>6, <1>7 DEF RowsOK

LEMMA LeadWritten ==
  ASSUME RowsOK, NEW d \in Leads, NEW row \in PlainRow,
         row.unit # None => unit[row.unit] # "gone",
         row.status = "open" /\ row.unit # None /\ d \notin reverted' => unit[row.unit] # "archived",
         reverted' \in {reverted, reverted \cup {d}},
         lead' = [lead EXCEPT ![d] = row], UNCHANGED <<unit, lease, cheque, payments, order, entry>>
  PROVE  RowsOK'
<1>1. lead' \in [Leads -> PlainRow] /\ lead'[d] = row /\ \A z \in Leads \ {d} : lead'[z] = lead[z]
  BY DEF RowsOK, RowTypes
<1>2. RowTypes' /\ PlacedOK'
  BY <1>1 DEF RowsOK, RowTypes, PlacedOK
<1>0. d \notin Cheques
  BY RowAssumption
<1>3. PaidOK'
  BY <1>0 DEF RowsOK, PaidOK, Live, Cheque
<1>4. OneActiveLease'
  BY DEF RowsOK, OneActiveLease, OtherActive, Lease
<1>5. \A z \in Lead' : z = d \/ (z # d /\ z \in Lead /\ lead'[z] = lead[z])
  BY <1>1 DEF Lead
<1>6. NoOrphans'
  <2>1. \A z \in Lead' : lead'[z].unit # None => unit[lead'[z].unit] # "gone"
    BY <1>1, <1>5 DEF RowsOK, NoOrphans
  <2> QED BY <2>1 DEF RowsOK, NoOrphans, Lease, Order, Entry, Cheque
<1>7. ArchivedQuiet'
  <2>1. ASSUME NEW u \in Units, unit[u] = "archived", NEW z \in Lead' \ reverted', lead'[z].unit = u
        PROVE  lead'[z].status # "open"
    <3>0. u # None
      BY RowAssumption
    <3> QED BY <1>1, <1>5, <2>1, <3>0 DEF RowsOK, ArchivedQuiet
  <2>2. ASSUME NEW u \in Units, unit[u] = "archived", NEW c \in ChequesOn(u, TRUE)' \ reverted'
        PROVE  cheque'[c].status \notin OpenCheque
    BY <2>2 DEF RowsOK, ArchivedQuiet, ChequesOn, Cheque
  <2> QED BY <2>1, <2>2 DEF RowsOK, ArchivedQuiet, Lease, Order, Entry
<1> QED BY <1>2, <1>3, <1>4, <1>6, <1>7 DEF RowsOK

LEMMA EntryWritten ==
  ASSUME RowsOK, NEW e \in Entries, NEW row \in PlainRow,
         row.unit # None => unit[row.unit] = "open",
         entry' = [entry EXCEPT ![e] = row], UNCHANGED <<unit, lease, cheque, payments, order, lead, reverted>>
  PROVE  RowsOK'
<1>1. entry' \in [Entries -> PlainRow] /\ entry'[e] = row /\ \A z \in Entries \ {e} : entry'[z] = entry[z]
  BY DEF RowsOK, RowTypes
<1>2. RowTypes' /\ PlacedOK'
  BY <1>1 DEF RowsOK, RowTypes, PlacedOK
<1>3. PaidOK'
  BY DEF RowsOK, PaidOK, Live, Cheque
<1>4. OneActiveLease'
  BY DEF RowsOK, OneActiveLease, OtherActive, Lease
<1>5. \A z \in Entry' : z = e \/ (z # e /\ z \in Entry /\ entry'[z] = entry[z])
  BY <1>1 DEF Entry
<1>6. NoOrphans'
  <2>1. \A z \in Entry' : entry'[z].unit # None => unit[entry'[z].unit] # "gone"
    BY <1>1, <1>5 DEF RowsOK, NoOrphans
  <2> QED BY <2>1 DEF RowsOK, NoOrphans, Lease, Order, Lead, Cheque
<1>7. ArchivedQuiet'
  <2>1. ASSUME NEW u \in Units, unit[u] = "archived", NEW z \in Entry', entry'[z].unit = u
        PROVE  entry'[z].status # "open"
    <3>0. u # None
      BY RowAssumption
    <3> QED BY <1>1, <1>5, <2>1, <3>0 DEF RowsOK, ArchivedQuiet
  <2>2. ASSUME NEW u \in Units, unit[u] = "archived", NEW c \in ChequesOn(u, TRUE)' \ reverted'
        PROVE  cheque'[c].status \notin OpenCheque
    BY <2>2 DEF RowsOK, ArchivedQuiet, ChequesOn, Cheque
  <2> QED BY <2>1, <2>2 DEF RowsOK, ArchivedQuiet, Lease, Order, Lead
<1> QED BY <1>2, <1>3, <1>4, <1>6, <1>7 DEF RowsOK

LeaseMayBe(l) ==
  /\ lease'[l].unit \in Units
  /\ lease'[l].status \notin Absent => unit[lease'[l].unit] # "gone"
  /\ lease'[l].status = "ACTIVE" =>
       /\ unit[lease'[l].unit] # "archived"
       /\ \A m \in Leases \ {l} : lease'[m].status = "ACTIVE" => lease'[m].unit # lease'[l].unit
  /\ lease[l].status \notin Absent => lease'[l].unit = lease[l].unit \/ unit[lease'[l].unit] # "archived"
  /\ lease'[l].status \in Absent => \A c \in Cheque : cheque[c].lease # l

LEMMA LeaseWritten ==
  ASSUME RowsOK, lease' \in [Leases -> LeaseRow], \A l \in Leases : lease'[l] # lease[l] => LeaseMayBe(l),
         UNCHANGED <<unit, cheque, payments, order, lead, entry, reverted>>
  PROVE  RowsOK'
<1>1. RowTypes'
  BY DEF RowsOK, RowTypes
<1>2. PlacedOK'
  BY DEF RowsOK, PlacedOK, LeaseMayBe
<1>3. PaidOK'
  BY DEF RowsOK, PaidOK, Live, Cheque
<1>4. OneActiveLease'
  <2> SUFFICES ASSUME NEW l \in Leases, NEW m \in Leases \ {l}, lease'[l].status = "ACTIVE",
                      lease'[m].status = "ACTIVE", lease'[m].unit = lease'[l].unit
               PROVE  FALSE
    BY DEF OneActiveLease, OtherActive, Lease
  <2>1. lease'[l] = lease[l] /\ lease'[m] = lease[m]
    BY DEF LeaseMayBe
  <2>2. l \in Lease /\ m \in Lease
    BY <2>1 DEF Lease, Absent
  <2> QED BY <2>1, <2>2 DEF RowsOK, OneActiveLease, OtherActive
<1>5. \A c \in Cheque : cheque[c].lease # None => cheque[c].lease \in Leases /\ cheque[c].lease \in Lease
  BY DEF RowsOK, NoOrphans, Lease
<1>6. NoOrphans'
  <2>1. \A l \in Lease' : unit[lease'[l].unit] # "gone"
    BY DEF RowsOK, NoOrphans, Lease, LeaseMayBe
  <2>2. \A c \in Cheque : cheque[c].lease # None => cheque[c].lease \in Lease'
    BY <1>5 DEF Lease, LeaseMayBe
  <2>3. \A c \in Cheque : cheque[c].unit # None => unit[cheque[c].unit] # "gone"
    BY DEF RowsOK, NoOrphans
  <2> QED BY <2>1, <2>2, <2>3 DEF RowsOK, NoOrphans, Order, Lead, Entry, Cheque
<1>7. ArchivedQuiet'
  <2>1. ASSUME NEW u \in Units, unit[u] = "archived", NEW l \in Lease', lease'[l].unit = u
        PROVE  lease'[l].status # "ACTIVE"
    BY <2>1 DEF RowsOK, ArchivedQuiet, Lease, LeaseMayBe
  <2>2. ASSUME NEW u \in Units, unit[u] = "archived", NEW c \in Cheque,
               cheque[c].unit = u \/ (cheque[c].lease # None /\ lease'[cheque[c].lease].unit = u)
        PROVE  c \in ChequesOn(u, TRUE)
    <3>1. CASE cheque[c].unit = u
      BY <3>1 DEF ChequesOn
    <3>2. CASE cheque[c].lease # None /\ lease'[cheque[c].lease].unit = u
      <4>1. lease[cheque[c].lease].unit = u
        BY <1>5, <2>2, <3>2 DEF LeaseMayBe, Lease
      <4> QED BY <3>2, <4>1 DEF ChequesOn
    <3> QED BY <2>2, <3>1, <3>2
  <2>3. ASSUME NEW u \in Units, unit[u] = "archived", NEW c \in ChequesOn(u, TRUE)' \ reverted
        PROVE  cheque[c].status \notin OpenCheque
    <3>1. c \in ChequesOn(u, TRUE)
      BY <2>2, <2>3 DEF ChequesOn, Cheque
    <3> QED BY <2>3, <3>1 DEF RowsOK, ArchivedQuiet
  <2> QED BY <2>1, <2>3 DEF RowsOK, ArchivedQuiet, Order, Lead, Entry
<1> QED BY <1>1, <1>2, <1>3, <1>4, <1>6, <1>7 DEF RowsOK

Payment == [unit : Units \cup {None}, live : BOOLEAN]
LiveOf(pays) == {i \in DOMAIN pays : pays[i].live}

ChequeMayBe(c, row, pays) ==
  /\ row.status = "DEPOSITED" => row.dated
  /\ row.status \notin Absent =>
       (row.unit # None => unit[row.unit] # "gone") /\ (row.lease # None => row.lease \in Lease)
  /\ row.status \in OpenCheque /\ c \notin reverted' =>
       /\ row.unit # None => unit[row.unit] # "archived"
       /\ row.lease # None => unit[lease[row.lease].unit] # "archived"
  /\ row.status \in Absent => pays = << >>
  /\ \A i, j \in LiveOf(pays) : i = j
  /\ row.status \notin Absent /\ c \notin reverted' =>
       /\ row.status = "CLEARED" <=> LiveOf(pays) # {}
       /\ \A i \in LiveOf(pays) : pays[i].unit = row.unit

LEMMA ChequeWritten ==
  ASSUME RowsOK, NEW c \in Cheques, NEW row \in ChequeRow, NEW pays \in Seq(Payment),
         cheque' = [cheque EXCEPT ![c] = row], payments' = [payments EXCEPT ![c] = pays],
         reverted' \in {reverted, reverted \cup {c}}, UNCHANGED <<unit, lease, order, lead, entry>>,
         ChequeMayBe(c, row, pays)
  PROVE  RowsOK'
<1>1. cheque' \in [Cheques -> ChequeRow] /\ cheque'[c] = row /\ \A z \in Cheques \ {c} : cheque'[z] = cheque[z]
  BY DEF RowsOK, RowTypes
<1>2. /\ payments' \in [Cheques -> Seq(Payment)] /\ payments'[c] = pays
      /\ \A z \in Cheques \ {c} : payments'[z] = payments[z]
  BY DEF RowsOK, RowTypes, Payment
<1>3. RowTypes'
  BY <1>1, <1>2 DEF RowsOK, RowTypes, Payment, ChequeMayBe
<1>4. PlacedOK' /\ OneActiveLease'
  BY DEF RowsOK, PlacedOK, OneActiveLease, OtherActive, Lease
<1>5. \A z \in Cheque' : (z = c /\ row.status \notin Absent) \/ (z # c /\ z \in Cheque /\ cheque'[z] = cheque[z])
  BY <1>1 DEF Cheque
<1>6. PaidOK'
  <2>1. ASSUME NEW z \in Cheques \ {c}
        PROVE  /\ cheque'[z] = cheque[z] /\ payments'[z] = payments[z] /\ Live(z)' = Live(z)
               /\ z \in Cheque' <=> z \in Cheque
               /\ z \notin reverted' <=> z \notin reverted
    BY <1>1, <1>2 DEF Live, Cheque
  <2>2. Live(c)' = LiveOf(pays) /\ payments'[c] = pays /\ (c \in Cheque' <=> row.status \notin Absent)
    BY <1>1, <1>2 DEF Live, LiveOf, Cheque
  <2>3. ASSUME NEW z \in Cheques
        PROVE  /\ z \notin Cheque' => payments'[z] = << >>
               /\ \A i, j \in Live(z)' : i = j
               /\ z \in Cheque' \ reverted' =>
                    /\ cheque'[z].status = "CLEARED" <=> Live(z)' # {}
                    /\ \A i \in Live(z)' : payments'[z][i].unit = cheque'[z].unit
    <3>1. CASE z = c
      BY <1>1, <2>2, <3>1 DEF ChequeMayBe
    <3>2. CASE z # c
      BY <2>1, <3>2 DEF RowsOK, PaidOK
    <3> QED BY <3>1, <3>2
  <2> QED BY <2>3 DEF PaidOK
<1>7. NoOrphans'
  <2>1. \A z \in Cheque' : /\ cheque'[z].unit # None => unit[cheque'[z].unit] # "gone"
                           /\ cheque'[z].lease # None => cheque'[z].lease \in Lease
    BY <1>1, <1>5 DEF RowsOK, NoOrphans, ChequeMayBe
  <2> QED BY <2>1 DEF RowsOK, NoOrphans, Lease, Order, Lead, Entry
<1>8. ArchivedQuiet'
  <2>1. ASSUME NEW u \in Units, unit[u] = "archived", NEW z \in ChequesOn(u, TRUE)' \ reverted'
        PROVE  cheque'[z].status \notin OpenCheque
    <3>0. u # None
      BY RowAssumption
    <3>1. z \in Cheque' /\ (cheque'[z].unit = u \/ (cheque'[z].lease # None /\ lease[cheque'[z].lease].unit = u))
      BY <2>1 DEF ChequesOn
    <3>2. CASE z = c
      BY <1>1, <2>1, <3>0, <3>1, <3>2 DEF ChequeMayBe
    <3>3. CASE z # c
      <4>1. z \in ChequesOn(u, TRUE) \ reverted
        BY <1>5, <2>1, <3>1, <3>3 DEF ChequesOn
      <4> QED BY <1>5, <2>1, <3>1, <3>3, <4>1 DEF RowsOK, ArchivedQuiet
    <3> QED BY <3>2, <3>3
  <2>2. ASSUME NEW d \in Lead \ reverted' PROVE d \in Lead \ reverted
    OBVIOUS
  <2> QED BY <2>1, <2>2 DEF RowsOK, ArchivedQuiet, Lease, Order, Lead, Entry
<1> QED BY <1>3, <1>4, <1>6, <1>7, <1>8 DEF RowsOK

LEMMA UnitWritten ==
  ASSUME RowsOK, NEW u \in Units, ArchiveUnit(u) \/ UnarchiveUnit(u) \/ RemoveUnit(u)
  PROVE  RowsOK'
<1>1. /\ UNCHANGED <<lease, cheque, payments, order, lead, entry, reverted>>
      /\ \E to \in {"open", "archived", "gone"} : unit' = [unit EXCEPT ![u] = to]
  BY DEF ArchiveUnit, UnarchiveUnit, RemoveUnit, ChangeUnit, Once
<1>2. unit' \in [Units -> {"open", "archived", "gone"}] /\ \A v \in Units \ {u} : unit'[v] = unit[v]
  BY <1>1 DEF RowsOK, RowTypes
<1>3. RowTypes' /\ PlacedOK'
  BY <1>1, <1>2 DEF RowsOK, RowTypes, PlacedOK
<1>4. PaidOK'
  BY <1>1 DEF RowsOK, PaidOK, Live, Cheque
<1>5. OneActiveLease'
  BY <1>1 DEF RowsOK, OneActiveLease, OtherActive, Lease
<1>6. unit'[u] = "archived" => ~ArchiveBlocked(u)
  BY DEF ArchiveUnit, UnarchiveUnit, RemoveUnit, ChangeUnit, RowsOK, RowTypes
<1>7. unit'[u] = "gone" => ~DeleteBlocked(u)
  BY DEF ArchiveUnit, UnarchiveUnit, RemoveUnit, ChangeUnit, RowsOK, RowTypes
<1>8. NoOrphans'
  <2>1. \A l \in Lease : unit'[lease[l].unit] # "gone"
    <3>1. \A l \in Lease : lease[l].unit \in Units /\ unit[lease[l].unit] # "gone"
      BY DEF RowsOK, PlacedOK, NoOrphans, Lease, Absent
    <3> QED BY <1>2, <1>7, <3>1 DEF DeleteBlocked
  <2>2. \A o \in Order : unit'[order[o].unit] # "gone"
    <3>1. \A o \in Order : order[o].unit \in Units /\ unit[order[o].unit] # "gone"
      BY DEF RowsOK, PlacedOK, NoOrphans, Order, Absent
    <3> QED BY <1>2, <1>7, <3>1 DEF DeleteBlocked
  <2>3. \A d \in Lead : lead[d].unit # None => unit'[lead[d].unit] # "gone"
    <3>1. \A d \in Lead : lead[d].unit # None => lead[d].unit \in Units /\ unit[lead[d].unit] # "gone"
      BY DEF RowsOK, RowTypes, PlainRow, NoOrphans, Lead
    <3> QED BY <1>2, <1>7, <3>1 DEF DeleteBlocked
  <2>4. \A e \in Entry : entry[e].unit # None => unit'[entry[e].unit] # "gone"
    <3>1. \A e \in Entry : entry[e].unit # None => entry[e].unit \in Units /\ unit[entry[e].unit] # "gone"
      BY DEF RowsOK, RowTypes, PlainRow, NoOrphans, Entry
    <3> QED BY <1>2, <1>7, <3>1 DEF DeleteBlocked
  <2>5. \A c \in Cheque : /\ cheque[c].unit # None => unit'[cheque[c].unit] # "gone"
                          /\ cheque[c].lease # None => cheque[c].lease \in Lease
    <3>1. \A c \in Cheque : /\ cheque[c].unit # None => cheque[c].unit \in Units /\ unit[cheque[c].unit] # "gone"
                            /\ cheque[c].lease # None => cheque[c].lease \in Lease
      BY DEF RowsOK, RowTypes, ChequeRow, NoOrphans, Cheque
    <3> QED BY <1>2, <1>7, <3>1 DEF DeleteBlocked
  <2> QED BY <1>1, <2>1, <2>2, <2>3, <2>4, <2>5 DEF NoOrphans, Lease, Order, Lead, Entry, Cheque
<1>9. ArchivedQuiet'
  <2>1. ASSUME NEW v \in Units, unit'[v] = "archived"
        PROVE  /\ \A l \in Lease : lease[l].unit = v => lease[l].status # "ACTIVE"
               /\ \A o \in Order : order[o].unit = v => order[o].status # "open"
               /\ \A d \in Lead \ reverted : lead[d].unit = v => lead[d].status # "open"
               /\ \A e \in Entry : entry[e].unit = v => entry[e].status # "open"
               /\ \A c \in ChequesOn(v, TRUE) \ reverted : cheque[c].status \notin OpenCheque
    <3>1. CASE v = u
      BY <1>6, <2>1, <3>1 DEF ArchiveBlocked
    <3>2. CASE v # u
      BY <1>2, <2>1, <3>2 DEF RowsOK, ArchivedQuiet
    <3> QED BY <3>1, <3>2
  <2>2. \A v : ChequesOn(v, TRUE)' = ChequesOn(v, TRUE)
    BY <1>1 DEF ChequesOn, Cheque
  <2> QED BY <1>1, <2>1, <2>2 DEF ArchivedQuiet, Lease, Order, Lead, Entry
<1> QED BY <1>3, <1>4, <1>5, <1>8, <1>9 DEF RowsOK

-----------------------------------------------------------------------------
(* The writes of a request that ends.                                      *)
Written(q) == RowsOK' /\ Fine(q) /\ Sound(req[q], held[q])' /\ \A p \in Requests \ {q} : Touch(p)

LEMMA GotOpen ==
  ASSUME IInv, NEW q \in Requests, req[q].units = << >>, NEW u \in Units, Got(req[q], held[q], u)
  PROVE  unit[u] = "open"
<1>1. u # None /\ ~Has(req[q].units, u)
  BY RowAssumption DEF Has
<1>2. Lock(u, "share") \in held[q]
  BY <1>1 DEF Got
<1> QED BY <1>2, KeptSoFar DEF Kept, Lock

LEMMA OwnRow ==
  ASSUME IInv, NEW q \in Requests, NEW p \in Requests \ {q}, NEW row,
         Lock(row, "write") \in held[q] \/ Free(q, row, "write")
  PROVE  \A h \in held[p] : h.row # row
<1>1. CASE Lock(row, "write") \in held[q]
  BY <1>1 DEF IInv, RequestsOK, Shared, Lock
<1>2. CASE Free(q, row, "write")
  BY <1>2 DEF Free
<1> QED BY <1>1, <1>2

LEMMA OwnNew ==
  ASSUME IInv, NEW q \in Requests, NEW p \in Requests \ {q}, req[q].op \in Creates
  PROVE  req[p].op \in Creates => New(req[p]) # New(req[q])
BY DEF IInv, RequestsOK, Apart

LEMMA OrderWrites ==
  ASSUME IInv, NEW q \in Requests, InsertOrder(q) \/ SaveOrder(q)
  PROVE  Written(q)
<1> DEFINE r == req[q]
<1>1. Form(r) /\ Covered(r, held[q]) /\ r.units = << >> /\ r.step = "units" /\ End(q)
  BY ReqIs DEF InsertOrder, SaveOrder, Ready
<1>2. UNCHANGED <<unit, lease, cheque, payments, lead, entry, reverted>>
  BY DEF InsertOrder, SaveOrder
<1>3. PICK row \in Plain : /\ order' = [order EXCEPT ![r.row] = row] /\ r.row \in Orders
                           /\ row.unit # None /\ Got(r, held[q], row.unit)
  <2>1. CASE InsertOrder(q)
    BY <1>1, <2>1 DEF InsertOrder, Ready, Form, Covered
  <2>2. CASE SaveOrder(q)
    BY <1>1, <2>2 DEF SaveOrder, Ready, Form, Covered
  <2> QED BY <2>1, <2>2
<1>4. row \in OrderRow /\ row.unit \in Units
  BY <1>3 DEF Plain, OrderRow
<1>5. unit[row.unit] = "open"
  BY <1>1, <1>3, <1>4, GotOpen
<1>6. RowsOK'
  BY <1>2, <1>3, <1>4, <1>5, OrderWritten, RowsAre
<1>7. \A p : Touch(p)
  BY <1>2 DEF Touch, UnitTouch, LeaseTouch, LeadTouch, EntryTouch, ChequeTouch
<1> QED BY <1>1, <1>6, <1>7, EndIs DEF Written

LEMMA LeadWrites ==
  ASSUME IInv, NEW q \in Requests, InsertLead(q) \/ SaveLead(q)
  PROVE  Written(q)
<1> DEFINE r == req[q]
<1>1. Form(r) /\ Aimed(r) /\ Covered(r, held[q]) /\ r.units = << >> /\ r.step = "units" /\ End(q)
  BY ReqIs DEF InsertLead, SaveLead, Ready
<1>2. UNCHANGED <<unit, lease, cheque, payments, order, entry>>
  BY DEF InsertLead, SaveLead
<1>3. CASE UNCHANGED <<lead, reverted>>
  <2>1. RowsOK'
    BY <1>2, <1>3, NoRowWritten, RowsAre
  <2>2. \A p : Touch(p)
    BY <1>2, <1>3 DEF Touch, UnitTouch, LeaseTouch, LeadTouch, EntryTouch, ChequeTouch
  <2> QED BY <1>1, <2>1, <2>2, EndIs DEF Written
<1>4. CASE ~UNCHANGED <<lead, reverted>>
  <2>1. PICK row \in Plain :
          /\ lead' = [lead EXCEPT ![r.row] = row] /\ r.row \in Leads
          /\ reverted' \in {reverted, reverted \cup {r.row}}
          /\ row.unit # None => unit[row.unit] # "gone"
          /\ row.unit # None /\ r.row \notin reverted' => Got(r, held[q], row.unit)
          /\ lead[r.row].status = "free" => r.op = "create lead"
          /\ lead[r.row].status # "free" => Lock(r.row, "write") \in held[q]
    <3>1. CASE InsertLead(q)
      <4>1. /\ r.op = "create lead" /\ r.seen \in Plain /\ r.row \in Leads
            /\ lead' = [lead EXCEPT ![r.row] = r.seen] /\ reverted' = reverted
            /\ Got(r, held[q], r.seen.unit) /\ lead[r.row].status = "free"
        BY <1>1, <3>1 DEF InsertLead, Ready, Form, Aimed, Covered
      <4>2. r.seen.unit # None => unit[r.seen.unit] = "open"
        <5>1. r.seen.unit \in Units \cup {None}
          BY <4>1 DEF Plain
        <5> QED BY <1>1, <4>1, <5>1, GotOpen
      <4> QED BY <4>1, <4>2
    <3>2. CASE SaveLead(q)
      <4>1. /\ r.op = "save lead" /\ r.want \in Plain /\ r.row \in Leads
            /\ Lock(r.row, "write") \in held[q] /\ Got(r, held[q], lead[r.row].unit)
            /\ r.want.unit = r.seen.unit \/ Got(r, held[q], r.want.unit)
            /\ lead[r.row].status # "free"
        BY <1>1, <3>2 DEF SaveLead, Ready, Form, Aimed, Covered
      <4>2. /\ lead' = [lead EXCEPT ![r.row] = r.want]
            /\ r.want.unit # None => unit[r.want.unit] # "gone"
            /\ IF r.want.unit = r.seen.unit /\ r.want.unit # lead[r.row].unit
               THEN reverted' = reverted \cup {r.row} ELSE reverted' = reverted
        BY <1>4, <3>2 DEF SaveLead
      <4> QED BY <4>1, <4>2
    <3> QED BY <3>1, <3>2
  <2>2. row \in PlainRow /\ row.unit \in Units \cup {None} /\ row.status # "free"
    BY DEF Plain, PlainRow, OpenOrClosed
  <2>3. row.unit # None /\ r.row \notin reverted' => unit[row.unit] = "open"
    BY <1>1, <2>1, <2>2, GotOpen
  <2>4. RowsOK'
    BY <1>2, <2>1, <2>2, <2>3, LeadWritten, RowsAre
  <2>5. ASSUME NEW p \in Requests \ {q} PROVE Touch(p)
    <3>1. lead'[r.row] = row /\ \A d \in Leads \ {r.row} : lead'[d] = lead[d]
      BY <2>1 DEF IInv, TypeOK
    <3>2. lead[r.row].status # "free" => \A h \in held[p] : h.row # r.row
      BY <2>1, OwnRow
    <3>3. lead[r.row].status = "free" /\ req[p].op \in Creates => New(req[p]) # r.row
      BY <2>1, OwnNew DEF Creates, New
    <3>4. LeadTouch(p)
      BY <2>2, <3>1, <3>2, <3>3 DEF LeadTouch, Spares
    <3> QED BY <1>2, <2>1, <3>4 DEF Touch, UnitTouch, LeaseTouch, EntryTouch, ChequeTouch
  <2> QED BY <1>1, <2>4, <2>5, EndIs DEF Written
<1> QED BY <1>3, <1>4

LEMMA EntryWrites ==
  ASSUME IInv, NEW q \in Requests, InsertEntry(q) \/ SaveEntry(q)
  PROVE  Written(q)
<1> DEFINE r == req[q]
<1>1. /\ Form(r) /\ Aimed(r) /\ Covered(r, held[q]) /\ r.units = << >> /\ r.step = "units" /\ End(q)
      /\ r.row \in Entries
  BY ReqIs DEF InsertEntry, SaveEntry, Ready, Form
<1>2. UNCHANGED <<unit, lease, cheque, payments, order, lead, reverted>>
  BY DEF InsertEntry, SaveEntry
<1>3. PICK row \in PlainRow :
        /\ entry' = [entry EXCEPT ![r.row] = row] /\ row.status # "free"
        /\ Got(r, held[q], row.unit)
        /\ entry[r.row].status = "free" => r.op = "create entry"
        /\ entry[r.row].status # "free" => row.unit = entry[r.row].unit
  <2>1. CASE InsertEntry(q)
    <3>1. r.seen \in PlainRow /\ r.seen.status # "free"
      BY <1>1, <2>1 DEF InsertEntry, Ready, Form, Plain, PlainRow, OpenOrClosed
    <3> QED BY <1>1, <2>1, <3>1 DEF InsertEntry, Ready, Form, Aimed, Covered
  <2>2. CASE SaveEntry(q)
    <3> DEFINE to == [entry[r.row] EXCEPT !.status = r.want]
    <3>1. /\ r.op = "update entry" /\ r.want \in OpenOrClosed
          /\ Got(r, held[q], entry[r.row].unit) /\ entry[r.row].status # "free"
      BY <1>1, <2>2 DEF SaveEntry, Ready, Form, Aimed, Covered
    <3>2. entry[r.row] \in PlainRow
      BY <1>1 DEF IInv, TypeOK
    <3>3. to \in PlainRow /\ to.status # "free" /\ to.unit = entry[r.row].unit
      BY <3>1, <3>2 DEF PlainRow, OpenOrClosed
    <3>4. entry' = [entry EXCEPT ![r.row] = to]
      BY <2>2 DEF SaveEntry
    <3> HIDE DEF to
    <3> QED BY <3>1, <3>3, <3>4
  <2> QED BY <2>1, <2>2
<1>4. row.unit # None => unit[row.unit] = "open"
  <2>1. row.unit \in Units \cup {None}
    BY DEF PlainRow
  <2> QED BY <1>1, <1>3, <2>1, GotOpen
<1>5. RowsOK'
  BY <1>1, <1>2, <1>3, <1>4, EntryWritten, RowsAre
<1>6. ASSUME NEW p \in Requests \ {q} PROVE Touch(p)
  <2>1. entry'[r.row] = row /\ \A e \in Entries \ {r.row} : entry'[e] = entry[e]
    BY <1>1, <1>3 DEF IInv, TypeOK
  <2>2. entry[r.row].status = "free" /\ req[p].op \in Creates => New(req[p]) # r.row
    BY <1>3, OwnNew DEF Creates, New
  <2>3. EntryTouch(p)
    BY <1>3, <2>1, <2>2 DEF EntryTouch
  <2> QED BY <1>2, <2>3 DEF Touch, UnitTouch, LeaseTouch, LeadTouch, ChequeTouch
<1> QED BY <1>1, <1>5, <1>6, EndIs DEF Written

LEMMA NewLeaseIs ==
  ASSUME NEW row \in NewLeases
  PROVE  row \in LeaseRow /\ row.unit \in Units /\ row.status = "DRAFT"
<1>1. PICK u \in Units : row = NewLease(u)
  BY DEF NewLeases
<1>2. PICK b \in BOOLEAN : b = FALSE
  OBVIOUS
<1>3. row = [status |-> "DRAFT", unit |-> u, archived |-> b]
  BY <1>1, <1>2 DEF NewLease
<1> QED BY <1>3 DEF LeaseRow, LeaseStatuses

LEMMA InsertLeaseWrites ==
  ASSUME IInv, NEW q \in Requests, InsertLease(q)
  PROVE  Written(q)
<1> DEFINE r == req[q]
           row == r.seen
<1>1. /\ Form(r) /\ Aimed(r) /\ Covered(r, held[q]) /\ r.units = << >> /\ r.op = "create lease" /\ End(q)
      /\ lease' = [lease EXCEPT ![r.row] = row]
      /\ UNCHANGED <<unit, cheque, payments, order, lead, entry, reverted>>
  BY ReqIs DEF InsertLease, Ready
<1>2. r.row \in Leases /\ row \in NewLeases /\ lease[r.row].status = "free" /\ Got(r, held[q], row.unit)
  BY <1>1 DEF Form, Aimed, Covered
<1>3. row \in LeaseRow /\ row.unit \in Units /\ row.status = "DRAFT"
  BY <1>2, NewLeaseIs
<1>4. unit[row.unit] = "open"
  BY <1>1, <1>2, <1>3, GotOpen
<1> HIDE DEF row
<1>5. lease' \in [Leases -> LeaseRow] /\ lease'[r.row] = row /\ \A l \in Leases \ {r.row} : lease'[l] = lease[l]
  BY <1>1, <1>2, <1>3 DEF IInv, TypeOK
<1>6. \A l \in Leases : lease'[l] # lease[l] => LeaseMayBe(l)
  BY <1>2, <1>3, <1>4, <1>5 DEF LeaseMayBe, Absent
<1>7. RowsOK'
  BY <1>1, <1>5, <1>6, LeaseWritten, RowsAre
<1>8. ASSUME NEW p \in Requests \ {q} PROVE Touch(p)
  <2>1. req[p].op \in Creates => New(req[p]) # r.row
    BY <1>1, OwnNew DEF Creates, New
  <2>2. LeaseTouch(p)
    BY <1>2, <1>3, <1>5, <2>1 DEF LeaseTouch, Spares
  <2> QED BY <1>1, <2>2 DEF Touch, UnitTouch, EntryTouch, LeadTouch, ChequeTouch
<1> QED BY <1>1, <1>7, <1>8, EndIs DEF Written

LEMMA SaveLeaseWrites ==
  ASSUME IInv, NEW q \in Requests, SaveLease(q)
  PROVE  Written(q)
<1> DEFINE l == req[q].row
           row == After(q)
<1>1. /\ l \in Leases /\ Lock(l, "write") \in held[q] /\ Got(req[q], held[q], ToUnit(req[q]))
      /\ req[q].units = << >> /\ lease[l].status # "free"
      /\ req[q].op = "update lease" /\ req[q].want \in LeaseWish
  BY ReqIs DEF SaveLease, Form, Aimed, Covered
<1>2. /\ row \in LeaseRow /\ row.unit = ToUnit(req[q]) /\ row.status = ToStatus(req[q])
      /\ row.archived = lease[l].archived
  BY <1>1, AfterIs
<1>3. l \in Lease
  BY <1>1, KeptSoFar DEF Kept, Lock
<1>4. row.unit \in Units
  BY <1>1, <1>2, <1>3 DEF ToUnit, LeaseWish, IInv, PlacedOK
<1>5. unit[row.unit] = "open"
  BY <1>1, <1>2, <1>4, GotOpen
<1>6. row.status \notin Absent
  BY <1>1, <1>2, <1>3 DEF ToStatus, LeaseWish, Lease, LeaseStatuses, Absent
<1>7. /\ lease' = IF ActiveLeaseIndex(l, row) THEN [lease EXCEPT ![l] = row] ELSE lease
      /\ End(q) /\ UNCHANGED <<unit, cheque, payments, order, lead, entry, reverted>>
  BY DEF SaveLease
<1> HIDE DEF row
<1>8. /\ lease' \in [Leases -> LeaseRow] /\ \A m \in Leases \ {l} : lease'[m] = lease[m]
      /\ lease'[l] # lease[l] => lease'[l] = row /\ ActiveLeaseIndex(l, row)
  BY <1>1, <1>2, <1>7 DEF IInv, TypeOK
<1>9. \A m \in Leases : lease'[m] # lease[m] => LeaseMayBe(m)
  <2> SUFFICES ASSUME lease'[l] # lease[l] PROVE LeaseMayBe(l)
    BY <1>8
  <2>1. row.status = "ACTIVE" => \A m \in Leases \ {l} : lease[m].status = "ACTIVE" => lease[m].unit # row.unit
    BY <1>8 DEF ActiveLeaseIndex, OtherActive, Lease, Absent
  <2> QED BY <1>4, <1>5, <1>6, <1>8, <2>1 DEF LeaseMayBe
<1>10. RowsOK'
  BY <1>7, <1>8, <1>9, LeaseWritten, RowsAre
<1>11. ASSUME NEW p \in Requests \ {q} PROVE Touch(p)
  <2>1. \A h \in held[p] : h.row # l
    BY <1>1, OwnRow
  <2>2. LeaseTouch(p)
    BY <1>1, <1>6, <1>8, <2>1 DEF LeaseTouch, Spares, Absent
  <2> QED BY <1>7, <2>2 DEF Touch, UnitTouch, EntryTouch, LeadTouch, ChequeTouch
<1> QED BY <1>7, <1>10, <1>11, EndIs DEF Written

LEMMA SaveRenewalWrites ==
  ASSUME IInv, NEW q \in Requests, SaveRenewal(q)
  PROVE  Written(q)
<1> DEFINE r == req[q]
           l == r.row
           new == r.want
           row == r.seen
<1>1. /\ Form(r) /\ Aimed(r) /\ Covered(r, held[q]) /\ r.units = << >> /\ r.op = "renew" /\ r.step = "units" /\ End(q)
      /\ lease' = [lease EXCEPT ![l].status = "RENEWED", ![new] = row]
      /\ UNCHANGED <<unit, cheque, payments, order, lead, entry, reverted>>
  BY ReqIs DEF SaveRenewal, Ready
<1>2. /\ l \in Leases /\ new \in Leases /\ row \in NewLeases /\ lease[new].status = "free"
      /\ Got(r, held[q], row.unit) /\ Lock(l, "write") \in held[q]
  BY <1>1 DEF Form, Aimed, Covered
<1>3. row \in LeaseRow /\ row.unit \in Units /\ row.status = "DRAFT"
  BY <1>2, NewLeaseIs
<1>4. unit[row.unit] = "open"
  BY <1>1, <1>2, <1>3, GotOpen
<1>5. l \in Lease /\ lease[l] \in LeaseRow /\ l # new
  BY <1>2, KeptSoFar DEF Kept, Lock, IInv, TypeOK, Lease, Absent
<1> DEFINE old == [lease[l] EXCEPT !.status = "RENEWED"]
<1>6. old \in LeaseRow /\ old.status = "RENEWED" /\ old.unit = lease[l].unit
  BY <1>5 DEF LeaseRow, LeaseStatuses
<1>7. lease' = [[lease EXCEPT ![l] = old] EXCEPT ![new] = row]
  BY <1>1
<1> HIDE DEF old, row, l, new
<1>8. /\ lease' \in [Leases -> LeaseRow] /\ lease'[l] = old /\ lease'[new] = row
      /\ \A m \in Leases \ {l, new} : lease'[m] = lease[m]
  BY <1>2, <1>3, <1>5, <1>6, <1>7 DEF IInv, TypeOK
<1>9. LeaseMayBe(l)
  <2>1. lease[l].unit \in Units /\ unit[lease[l].unit] # "gone"
    BY <1>5, RowsAre DEF RowsOK, PlacedOK, NoOrphans, Lease, Absent
  <2> QED BY <1>6, <1>8, <2>1 DEF LeaseMayBe, Absent
<1>10. LeaseMayBe(new)
  BY <1>2, <1>3, <1>4, <1>8 DEF LeaseMayBe, Absent
<1>11. RowsOK'
  <2>1. \A m \in Leases : lease'[m] # lease[m] => LeaseMayBe(m)
    BY <1>8, <1>9, <1>10
  <2> QED BY <1>1, <1>8, <2>1, LeaseWritten, RowsAre
<1>12. ASSUME NEW p \in Requests \ {q} PROVE Touch(p)
  <2>1. \A h \in held[p] : h.row # l
    BY <1>2, OwnRow
  <2>2. req[p].op \in Creates => New(req[p]) # new
    BY <1>1, OwnNew DEF Creates, New, new
  <2>3. Spares(p, l, lease[l].status, lease'[l].status)
    BY <1>5, <1>6, <1>8, <2>1 DEF Spares, Lease, Absent
  <2>4. Spares(p, new, lease[new].status, lease'[new].status)
    BY <1>2, <1>3, <1>8, <2>2 DEF Spares
  <2>5. LeaseTouch(p)
    BY <1>8, <2>3, <2>4 DEF LeaseTouch
  <2> QED BY <1>1, <2>5 DEF Touch, UnitTouch, EntryTouch, LeadTouch, ChequeTouch
<1> QED BY <1>1, <1>11, <1>12, EndIs DEF Written

LEMMA WritesNothing ==
  ASSUME IInv, NEW q \in Requests, End(q),
         UNCHANGED <<unit, lease, cheque, payments, order, lead, entry, reverted>>
  PROVE  Written(q)
<1>1. RowsOK'
  BY NoRowWritten, RowsAre
<1>2. \A p : Touch(p)
  BY DEF Touch, UnitTouch, LeaseTouch, LeadTouch, EntryTouch, ChequeTouch
<1> QED BY <1>1, <1>2, EndIs DEF Written

LEMMA ChequeWrites ==
  ASSUME IInv, NEW q \in Requests, End(q), NEW c \in Cheques, NEW row \in ChequeRow, NEW pays \in Seq(Payment),
         cheque' = [cheque EXCEPT ![c] = row], payments' = [payments EXCEPT ![c] = pays],
         reverted' \in {reverted, reverted \cup {c}}, UNCHANGED <<unit, lease, order, lead, entry>>,
         ChequeMayBe(c, row, pays), row.status # "free",
         cheque[c].status = "free" => req[q].op \in Creates /\ New(req[q]) = c,
         cheque[c].status # "free" =>
           /\ row.lease = cheque[c].lease
           /\ c \notin reverted' => c \in Cheque /\ row.version = cheque[c].version + 1
  PROVE  Written(q)
<1>1. RowsOK'
  BY ChequeWritten, RowsAre
<1>2. cheque'[c] = row /\ \A z \in Cheques \ {c} : cheque'[z] = cheque[z]
  BY DEF IInv, TypeOK
<1>3. ASSUME NEW p \in Requests \ {q} PROVE Touch(p)
  <2>1. cheque[c].status = "free" /\ req[p].op \in Creates => New(req[p]) # c
    BY OwnNew
  <2>2. ChequeTouch(p)
    BY <1>2, <2>1 DEF ChequeTouch
  <2> QED BY <2>2 DEF Touch, UnitTouch, LeaseTouch, LeadTouch, EntryTouch
<1> QED BY <1>1, <1>3, EndIs DEF Written

(* The unit and the lease of a cheque that is about to be written.         *)
OnOpen(row) ==
  /\ row.unit # None => unit[row.unit] = "open"
  /\ row.lease # None => row.lease \in Lease /\ ~lease[row.lease].archived /\ unit[lease[row.lease].unit] = "open"

LEMMA EditOpen ==
  ASSUME IInv, NEW q \in Requests, req[q].op \in Edits, req[q].step = "units", req[q].units = << >>
  PROVE  OnOpen(req[q].seen) /\ OnOpen(req[q].want)
<1> DEFINE r == req[q]
           l == r.seen.lease
<1>1. r.seen \in Copy /\ r.want \in Copy /\ r.want.lease = l
  BY ReqIs DEF Form
<1>2. /\ Got(r, held[q], r.seen.unit) /\ Got(r, held[q], r.want.unit)
      /\ l # None => Lock(l, "share") \in held[q] /\ Got(r, held[q], lease[l].unit)
  BY ReqIs DEF Covered
<1>3. r.seen.unit \in Units \cup {None} /\ r.want.unit \in Units \cup {None} /\ l \in Leases \cup {None}
  BY <1>1 DEF Copy, ChequeRow
<1>4. (r.seen.unit # None => unit[r.seen.unit] = "open") /\ (r.want.unit # None => unit[r.want.unit] = "open")
  BY <1>2, <1>3, GotOpen
<1>5. ASSUME l # None PROVE l \in Lease /\ ~lease[l].archived /\ unit[lease[l].unit] = "open"
  <2>1. l \in Leases /\ l \in Lease /\ ~lease[l].archived
    BY <1>2, <1>3, <1>5, KeptSoFar DEF Kept, Lock
  <2>2. lease[l].unit \in Units
    BY <2>1 DEF IInv, PlacedOK, Lease, Absent
  <2> QED BY <1>2, <1>5, <2>1, <2>2, GotOpen
<1> QED BY <1>1, <1>4, <1>5 DEF OnOpen

LEMMA InsertChequeWrites ==
  ASSUME IInv, NEW q \in Requests, InsertCheque(q)
  PROVE  Written(q)
<1> DEFINE c == req[q].row
           row == req[q].want
<1>1. /\ req[q].op = "create cheque" /\ req[q].step = "units" /\ req[q].units = << >> /\ End(q)
      /\ cheque' = [cheque EXCEPT ![c] = row]
      /\ UNCHANGED <<unit, lease, payments, order, lead, entry, reverted>>
  BY DEF InsertCheque, Ready
<1>2. c \in Cheques /\ row \in Copy /\ row.status = "PENDING" /\ cheque[c].status = "free"
  BY <1>1, ReqIs DEF Form, Edits, Aimed
<1>3. OnOpen(row)
  BY <1>1, EditOpen DEF Edits
<1>4. payments[c] = << >> /\ payments' = [payments EXCEPT ![c] = payments[c]] /\ payments[c] \in Seq(Payment)
  BY <1>1, <1>2 DEF IInv, PaidOK, Cheque, Absent, TypeOK, Payment
<1>5. row \in ChequeRow
  BY <1>2 DEF Copy
<1> HIDE DEF row, c
<1>6. ChequeMayBe(c, row, payments[c])
  <2>1. LiveOf(payments[c]) = {}
    BY <1>4 DEF LiveOf
  <2> QED BY <1>2, <1>3, <2>1 DEF ChequeMayBe, OnOpen, Absent
<1>7. req[q].op \in Creates /\ New(req[q]) = c
  BY <1>1 DEF Creates, New, c
<1> QED BY <1>1, <1>2, <1>4, <1>5, <1>6, <1>7, ChequeWrites

(* A cheque that keeps its payments.                                       *)
LEMMA SamePayments ==
  ASSUME IInv, NEW c \in Cheques, UNCHANGED payments
  PROVE  /\ payments[c] \in Seq(Payment) /\ payments' = [payments EXCEPT ![c] = payments[c]]
         /\ LiveOf(payments[c]) = Live(c) /\ \A i, j \in Live(c) : i = j
         /\ c \in Cheque \ reverted =>
              /\ cheque[c].status = "CLEARED" <=> Live(c) # {}
              /\ \A i \in Live(c) : payments[c][i].unit = cheque[c].unit
BY DEF IInv, TypeOK, Payment, LiveOf, Live, PaidOK

LEMMA SaveUpdateWrites ==
  ASSUME IInv, NEW q \in Requests, SaveUpdate(q)
  PROVE  Written(q)
<1> DEFINE c == req[q].row
           seen == req[q].seen
           want == req[q].want
           row == [want EXCEPT !.version = cheque[c].version + 1]
<1>1. /\ req[q].op = "update cheque" /\ req[q].step = "units" /\ req[q].units = << >> /\ End(q)
      /\ cheque' = IF Unchanged(c, seen, want) THEN [cheque EXCEPT ![c] = row] ELSE cheque
      /\ UNCHANGED <<unit, lease, payments, order, lead, entry, reverted>>
  BY DEF SaveUpdate, Ready
<1>2. CASE ~Unchanged(c, seen, want)
  BY <1>1, <1>2, WritesNothing
<1>3. CASE Unchanged(c, seen, want)
  <2>1. /\ c \in Cheques /\ seen \in Copy /\ want \in Copy /\ want.lease = seen.lease
        /\ want.status # seen.status => seen.status \notin TerminalStatuses /\ want.status # "CLEARED"
        /\ seen.status = "CLEARED" => want.unit = seen.unit
        /\ cheque[c].lease = seen.lease
    BY <1>1, ReqIs DEF Form, Edits, Aimed, OfCheque
  <2>2. c \in Cheque /\ cheque[c].version = seen.version
    BY <1>3 DEF Unchanged
  <2>3. c \notin reverted => seen = cheque[c]
    BY <1>1, <2>2, ReqIs DEF Copied, OfCheque
  <2>4. cheque[c].version \in Nat /\ cheque[c].version + 1 \in Nat
    BY <2>1 DEF IInv, TypeOK, ChequeRow
  <2>5. /\ row.status = want.status /\ row.unit = want.unit /\ row.lease = want.lease /\ row.dated = want.dated
        /\ row.version = cheque[c].version + 1 /\ row \in ChequeRow
    BY <2>1, <2>4 DEF Copy, ChequeRow
  <2>6. OnOpen(want)
    BY <1>1, EditOpen DEF Edits
  <2> HIDE DEF row
  <2>7. c \notin reverted /\ (row.status = "CLEARED" \/ cheque[c].status = "CLEARED") =>
          row.status = cheque[c].status /\ row.unit = cheque[c].unit
    BY <2>1, <2>3, <2>5 DEF TerminalStatuses
  <2>8. row.status \in ChequeStatuses /\ row.status \notin Absent /\ (row.status = "DEPOSITED" => row.dated)
    BY <2>1, <2>5 DEF Copy, ChequeStatuses, Absent
  <2>9. /\ cheque[c].status # "free" /\ cheque' = [cheque EXCEPT ![c] = row] /\ row.status # "free"
        /\ row.lease = cheque[c].lease
    BY <1>1, <1>3, <2>1, <2>2, <2>5, <2>8 DEF Cheque, Absent
  <2> HIDE DEF c, seen, want
  <2>10. /\ row.unit # None => unit[row.unit] = "open"
         /\ row.lease # None => row.lease \in Lease /\ unit[lease[row.lease].unit] = "open"
    BY <2>5, <2>6 DEF OnOpen
  <2>11. ChequeMayBe(c, row, payments[c])
    <3>0. LiveOf(payments[c]) = Live(c) /\ \A i, j \in Live(c) : i = j
      BY <1>1, <2>1, SamePayments
    <3>1. \A i, j \in LiveOf(payments[c]) : i = j
      BY <3>0
    <3>2. c \notin reverted' => /\ row.status = "CLEARED" <=> LiveOf(payments[c]) # {}
                              /\ \A i \in LiveOf(payments[c]) : payments[c][i].unit = row.unit
      <4>1. c \in Cheque \ reverted =>
              /\ cheque[c].status = "CLEARED" <=> Live(c) # {}
              /\ \A i \in Live(c) : payments[c][i].unit = cheque[c].unit
        BY <1>1, <2>1, SamePayments
      <4> QED BY <1>1, <2>2, <2>7, <3>0, <4>1
    <3> QED BY <2>8, <2>10, <3>1, <3>2 DEF ChequeMayBe
  <2>12. payments[c] \in Seq(Payment) /\ payments' = [payments EXCEPT ![c] = payments[c]]
    BY <1>1, <2>1, SamePayments
  <2> QED BY <1>1, <2>1, <2>2, <2>5, <2>9, <2>11, <2>12, ChequeWrites
<1> QED BY <1>2, <1>3

LEMMA SaveBounceWrites ==
  ASSUME IInv, NEW q \in Requests, SaveBounce(q)
  PROVE  Written(q)
<1> DEFINE c == req[q].row
           row == [cheque[c] EXCEPT !.status = "BOUNCED", !.version = cheque[c].version + 1]
<1>1. /\ c \in Cheques /\ End(q) /\ UNCHANGED <<unit, lease, payments, order, lead, entry, reverted>>
  BY ReqIs DEF SaveBounce, Ready, Form, Edits
<1>2. CASE ~(c \in Cheque /\ cheque[c].status \notin TerminalStatuses)
  BY <1>1, <1>2, WritesNothing DEF SaveBounce
<1>3. CASE c \in Cheque /\ cheque[c].status \notin TerminalStatuses
  <2>1. cheque[c] \in ChequeRow /\ cheque[c].version + 1 \in Nat
    BY <1>1 DEF IInv, TypeOK, ChequeRow
  <2>2. cheque' = [cheque EXCEPT ![c] = row]
    BY <1>3 DEF SaveBounce
  <2>3. /\ row \in ChequeRow /\ row.status = "BOUNCED" /\ row.unit = cheque[c].unit /\ row.lease = cheque[c].lease
        /\ row.version = cheque[c].version + 1
    BY <2>1 DEF ChequeRow, ChequeStatuses
  <2> HIDE DEF row
  <2>4. cheque[c].status \in OpenCheque /\ cheque[c].status # "CLEARED" /\ cheque[c].status # "free"
    BY <1>3, <2>1 DEF Cheque, ChequeRow, OpenCheque, TerminalStatuses, Absent
  <2>5. /\ row.unit # None => row.unit \in Units /\ unit[row.unit] # "gone"
        /\ row.lease # None => row.lease \in Lease /\ lease[row.lease].unit \in Units
    BY <1>3, <2>1, <2>3, RowsAre DEF RowsOK, PlacedOK, NoOrphans, ChequeRow, Lease, Absent
  <2>6. c \notin reverted =>
          /\ row.unit # None => unit[row.unit] # "archived"
          /\ row.lease # None => unit[lease[row.lease].unit] # "archived"
    BY <1>3, <2>3, <2>4, <2>5 DEF IInv, ArchivedQuiet, ChequesOn
  <2>7. ChequeMayBe(c, row, payments[c])
    <3>1. /\ \A i, j \in LiveOf(payments[c]) : i = j
          /\ c \notin reverted => LiveOf(payments[c]) = {}
      BY <1>1, <1>3, <2>4, SamePayments
    <3>2. row.status \notin Absent /\ row.status # "CLEARED" /\ reverted' = reverted
      BY <1>1, <2>3 DEF Absent
    <3>3. row.status # "DEPOSITED"
      BY <2>3
    <3> HIDE DEF c
    <3> QED BY <2>5, <2>6, <3>1, <3>2, <3>3 DEF ChequeMayBe
  <2> QED BY <1>1, <1>3, <2>2, <2>3, <2>4, <2>7, SamePayments, ChequeWrites
<1> QED BY <1>2, <1>3

LEMMA SaveOcrWrites ==
  ASSUME IInv, NEW q \in Requests, SaveOcr(q)
  PROVE  Written(q)
<1> DEFINE c == req[q].row
           seen == req[q].seen
           refers == (seen.unit # None => unit[seen.unit] # "gone") /\ (seen.lease # None => seen.lease \in Lease)
<1>1. End(q) /\ UNCHANGED <<unit, lease, payments, order, lead, entry>> /\ req[q].op = "ocr"
  BY StepOps DEF SaveOcr
<1>2. CASE ~(refers /\ seen # cheque[c])
  BY <1>1, <1>2, WritesNothing DEF SaveOcr
<1>3. CASE refers /\ seen # cheque[c]
  <2>1. cheque' = [cheque EXCEPT ![c] = seen] /\ reverted' = reverted \cup {c} /\ refers
    BY <1>3 DEF SaveOcr
  <2>2. c \in Cheques /\ seen \in Copy /\ cheque[c].status # "free" /\ cheque[c].lease = seen.lease
    BY <1>1, ReqIs DEF Form, Aimed, OfCheque, Edits
  <2>3. seen \in ChequeRow /\ seen.status \notin Absent /\ (seen.status = "DEPOSITED" => seen.dated)
    BY <2>2 DEF Copy, ChequeStatuses, Absent
  <2> HIDE DEF c, seen
  <2>4. ChequeMayBe(c, seen, payments[c])
    BY <1>1, <2>1, <2>2, <2>3, SamePayments DEF ChequeMayBe
  <2>5. seen.status # "free" /\ c \in reverted'
    BY <2>1, <2>3 DEF Absent
  <2>6. payments[c] \in Seq(Payment) /\ payments' = [payments EXCEPT ![c] = payments[c]]
    BY <1>1, <2>2, SamePayments
  <2> QED BY <1>1, <2>1, <2>2, <2>3, <2>4, <2>5, <2>6, ChequeWrites
<1> QED BY <1>2, <1>3

LEMMA SaveClearWrites ==
  ASSUME IInv, NEW q \in Requests, SaveClear(q)
  PROVE  Written(q)
<1> DEFINE c == req[q].row
           seen == req[q].seen
           paid == NotMoved(c, seen) /\ Clearable(cheque[c].status) /\ ActivePaymentIndex(c)
<1>1. /\ req[q].op = "clear" /\ req[q].step = "units" /\ req[q].units = << >> /\ End(q)
      /\ UNCHANGED <<unit, lease, order, lead, entry, reverted>>
  BY DEF SaveClear, Ready
<1>2. CASE ~paid
  BY <1>1, <1>2, WritesNothing DEF SaveClear
<1>3. CASE paid
  <2>1. PICK dated \in {cheque[c].dated, TRUE} :
          /\ cheque' = [cheque EXCEPT ![c].status = "CLEARED", ![c].dated = dated, ![c].version = @ + 1]
          /\ payments' = [payments EXCEPT ![c] = Append(payments[c], [unit |-> cheque[c].unit, live |-> TRUE])]
    BY <1>3 DEF SaveClear
  <2>2. c \in Cheques /\ OnOpen(seen) /\ c \in Cheque /\ cheque[c].unit = seen.unit /\ cheque[c].lease = seen.lease
    BY <1>1, <1>3, ReqIs, EditOpen DEF Form, Edits, NotMoved
  <2>3. cheque[c] \in ChequeRow /\ cheque[c].version + 1 \in Nat /\ dated \in BOOLEAN
    <3>1. cheque[c] \in ChequeRow
      BY <2>2 DEF IInv, TypeOK
    <3>2. cheque[c].version + 1 \in Nat /\ cheque[c].dated \in BOOLEAN
      BY <3>1 DEF ChequeRow
    <3>3. dated \in BOOLEAN
      BY <3>2, Zenon
    <3> QED BY <3>1, <3>2, <3>3
  <2> HIDE DEF c, seen
  <2> DEFINE row == [status |-> "CLEARED", unit |-> cheque[c].unit, lease |-> cheque[c].lease,
                     version |-> cheque[c].version + 1, dated |-> dated]
             paying == [unit |-> cheque[c].unit, live |-> TRUE]
             pays == Append(payments[c], paying)
  <2>4. cheque' = [cheque EXCEPT ![c] = row]
    <3> DEFINE one == [status |-> "CLEARED", unit |-> cheque[c].unit, lease |-> cheque[c].lease,
                       version |-> cheque[c].version, dated |-> cheque[c].dated]
               two == [status |-> "CLEARED", unit |-> cheque[c].unit, lease |-> cheque[c].lease,
                       version |-> cheque[c].version, dated |-> dated]
    <3>1. [cheque[c] EXCEPT !.status = "CLEARED"] = one
      BY <2>3 DEF ChequeRow
    <3>2. [one EXCEPT !.dated = dated] = two
      OBVIOUS
    <3>3. [two EXCEPT !.version = @ + 1] = row
      OBVIOUS
    <3> HIDE DEF one, two, row
    <3>4. cheque \in [Cheques -> ChequeRow]
      BY DEF IInv, TypeOK
    <3> QED BY <2>1, <2>2, <3>1, <3>2, <3>3, <3>4
  <2>5. row \in ChequeRow
    BY <2>3 DEF ChequeRow, ChequeStatuses
  <2>6. row.status = "CLEARED" /\ row.unit = cheque[c].unit /\ row.lease = cheque[c].lease /\ row.version = cheque[c].version + 1
    OBVIOUS
  <2> HIDE DEF row
  <2>7. /\ paying \in Payment /\ paying.unit = cheque[c].unit /\ payments[c] \in Seq(Payment)
        /\ \A i \in DOMAIN payments[c] : ~payments[c][i].live
    BY <1>3, <2>2, <2>3 DEF Payment, ChequeRow, IInv, TypeOK, ActivePaymentIndex, Live, c
  <2>8. paying.live
    OBVIOUS
  <2> HIDE DEF paying
  <2>9. /\ pays \in Seq(Payment) /\ pays[Len(payments[c]) + 1] = paying
        /\ \A i \in DOMAIN pays : i # Len(payments[c]) + 1 => i \in DOMAIN payments[c] /\ pays[i] = payments[c][i]
        /\ Len(payments[c]) + 1 \in DOMAIN pays
    BY <2>7
  <2>10. payments' = [payments EXCEPT ![c] = pays]
    BY <2>1 DEF paying
  <2> HIDE DEF pays
  <2>11. \A i : i \in LiveOf(pays) <=> i = Len(payments[c]) + 1
    BY <2>7, <2>8, <2>9 DEF LiveOf
  <2>12. cheque[c].status # "free"
    BY <2>2 DEF Cheque, Absent
  <2>13. ChequeMayBe(c, row, pays)
    <3>1. (\A i, j \in LiveOf(pays) : i = j) /\ LiveOf(pays) # {}
      BY <2>11
    <3>2. \A i \in LiveOf(pays) : pays[i].unit = row.unit
      BY <2>6, <2>7, <2>9, <2>11
    <3>3. OnOpen(row)
      BY <2>2, <2>6 DEF OnOpen
    <3> QED BY <2>6, <3>1, <3>2, <3>3 DEF ChequeMayBe, OnOpen, Absent
  <2> QED BY <1>1, <2>2, <2>4, <2>5, <2>6, <2>9, <2>10, <2>12, <2>13, ChequeWrites
<1> QED BY <1>2, <1>3

LEMMA SaveUnclearWrites ==
  ASSUME IInv, NEW q \in Requests, SaveUnclear(q)
  PROVE  Written(q)
<1> DEFINE c == req[q].row
           seen == req[q].seen
           paid == NotMoved(c, seen) /\ cheque[c].status = "CLEARED"
<1>1. /\ req[q].op = "unclear" /\ req[q].step = "units" /\ req[q].units = << >> /\ End(q)
      /\ UNCHANGED <<unit, lease, order, lead, entry, reverted>>
  BY DEF SaveUnclear, Ready
<1>2. CASE ~paid
  BY <1>1, <1>2, WritesNothing DEF SaveUnclear
<1>3. CASE paid
  <2> DEFINE st == IF cheque[c].dated THEN "DEPOSITED" ELSE "PENDING"
             pays == [i \in DOMAIN payments[c] |-> [payments[c][i] EXCEPT !.live = FALSE]]
             row == [cheque[c] EXCEPT !.status = st, !.version = cheque[c].version + 1]
  <2>1. cheque' = [cheque EXCEPT ![c] = row] /\ payments' = [payments EXCEPT ![c] = pays]
    BY <1>3 DEF SaveUnclear
  <2>2. c \in Cheques /\ OnOpen(seen) /\ c \in Cheque /\ cheque[c].unit = seen.unit /\ cheque[c].lease = seen.lease
    BY <1>1, <1>3, ReqIs, EditOpen DEF Form, Edits, NotMoved
  <2>3. cheque[c] \in ChequeRow /\ cheque[c].version + 1 \in Nat
    BY <2>2 DEF IInv, TypeOK, ChequeRow
  <2>4. st \in ChequeStatuses \ {"CLEARED"} /\ st \notin Absent /\ (st = "DEPOSITED" => cheque[c].dated)
    BY DEF ChequeStatuses, Absent
  <2> HIDE DEF c, seen, st
  <2>5. /\ row \in ChequeRow /\ row.status = st /\ row.unit = cheque[c].unit /\ row.lease = cheque[c].lease
        /\ row.version = cheque[c].version + 1 /\ row.dated = cheque[c].dated
    BY <2>3, <2>4 DEF ChequeRow, ChequeStatuses
  <2> HIDE DEF row
  <2>6. payments[c] \in Seq(Payment)
    BY <2>2 DEF IInv, TypeOK, Payment
  <2>7. \A i \in DOMAIN payments[c] :
          [payments[c][i] EXCEPT !.live = FALSE] \in Payment /\ ~[payments[c][i] EXCEPT !.live = FALSE].live
    <3> SUFFICES ASSUME NEW pay \in Payment
                 PROVE  [pay EXCEPT !.live = FALSE] \in Payment /\ ~[pay EXCEPT !.live = FALSE].live
      BY <2>6
    <3>1. PICK no \in BOOLEAN : ~no /\ no = FALSE
      OBVIOUS
    <3>2. [pay EXCEPT !.live = FALSE] = [pay EXCEPT !.live = no]
      BY <3>1
    <3>3. [pay EXCEPT !.live = no] \in Payment /\ [pay EXCEPT !.live = no].live = no
      BY DEF Payment
    <3> QED BY <3>1, <3>2, <3>3
  <2>8. pays \in Seq(Payment) /\ LiveOf(pays) = {}
    <3>1. pays \in Seq(Payment)
      <4>1. DOMAIN payments[c] = 1 .. Len(payments[c]) /\ Len(payments[c]) \in Nat
        BY <2>6
      <4>2. pays \in [1 .. Len(payments[c]) -> Payment]
        BY <2>7, <4>1
      <4> HIDE DEF pays
      <4> QED BY <4>1, <4>2
    <3>2. \A i \in DOMAIN pays : ~pays[i].live
      BY <2>7
    <3> QED BY <3>1, <3>2 DEF LiveOf
  <2> HIDE DEF pays
  <2>9. ChequeMayBe(c, row, pays)
    <3>1. OnOpen(row)
      BY <2>2, <2>5 DEF OnOpen
    <3>2. (\A i, j \in LiveOf(pays) : i = j) /\ row.status # "CLEARED" /\ row.status \notin Absent
      BY <2>4, <2>5, <2>8
    <3>3. row.status = "DEPOSITED" => row.dated
      BY <2>4, <2>5
    <3> QED BY <2>8, <3>1, <3>2, <3>3 DEF ChequeMayBe, OnOpen
  <2>10. cheque[c].status # "free" /\ row.status # "free"
    BY <2>2, <2>4, <2>5 DEF Cheque, Absent
  <2> QED BY <1>1, <2>1, <2>2, <2>5, <2>8, <2>9, <2>10, ChequeWrites
<1> QED BY <1>2, <1>3

(* Every step of a running request.                                        *)
LEMMA StepWrites ==
  ASSUME IInv, NEW q \in Requests, Step(q)
  PROVE  Written(q)
<1>1. CASE \/ LockLease(q) \/ LockUnit(q) \/ LockForUpdate(q) \/ LockForRenew(q) \/ LockOrder(q)
           \/ LockLead(q) \/ LockEntry(q) \/ CheckUpdate(q)
  <2>1. Fine(q)
    BY <1>1, LeaseFine, UnitFine, UpdateFine, RenewFine, OrderFine, LeadFine, EntryFine, CheckFine
  <2>2. UNCHANGED <<unit, lease, cheque, payments, order, lead, entry, reverted>>
    BY <1>1 DEF LockLease, LockUnit, LockForUpdate, LockForRenew, LockOrder, LockLead, LockEntry, CheckUpdate, rows
  <2>3. RowsOK'
    BY <2>2, NoRowWritten, RowsAre
  <2>4. \A p : Touch(p)
    BY <2>2 DEF Touch, UnitTouch, LeaseTouch, LeadTouch, EntryTouch, ChequeTouch
  <2>5. Sound(req[q], held[q])'
    BY <2>1, <2>2, SameRows DEF Fine
  <2> QED BY <2>1, <2>3, <2>4, <2>5 DEF Written
<1>2. CASE InsertCheque(q) \/ SaveUpdate(q) \/ SaveBounce(q) \/ SaveClear(q) \/ SaveUnclear(q) \/ SaveOcr(q)
  BY <1>2, InsertChequeWrites, SaveUpdateWrites, SaveBounceWrites, SaveClearWrites, SaveUnclearWrites, SaveOcrWrites
<1>3. CASE InsertLease(q) \/ SaveLease(q) \/ SaveRenewal(q)
  BY <1>3, InsertLeaseWrites, SaveLeaseWrites, SaveRenewalWrites
<1>4. CASE InsertOrder(q) \/ SaveOrder(q) \/ InsertLead(q) \/ SaveLead(q) \/ InsertEntry(q) \/ SaveEntry(q)
  BY <1>4, OrderWrites, LeadWrites, EntryWrites
<1> QED BY <1>1, <1>2, <1>3, <1>4 DEF Step

(* The requests that lock one row and write it at once.                    *)
Settled == RowsOK' /\ UNCHANGED <<req, held>> /\ \A p \in Requests : Touch(p)

LEMMA UnitSettles ==
  ASSUME IInv, NEW u \in Units, ArchiveUnit(u) \/ UnarchiveUnit(u) \/ RemoveUnit(u)
  PROVE  Settled
<1>1. /\ UNCHANGED <<req, held, lease, cheque, payments, order, lead, entry, reverted>>
      /\ Unlocked(u) /\ \E to : unit' = [unit EXCEPT ![u] = to]
  BY DEF ArchiveUnit, UnarchiveUnit, RemoveUnit, ChangeUnit, Once
<1>2. \A v \in Units \ {u} : unit'[v] = unit[v]
  BY <1>1 DEF IInv, TypeOK
<1>3. \A p \in Requests : UnitTouch(p)
  BY <1>1, <1>2 DEF UnitTouch, Unlocked
<1>4. \A p \in Requests : Touch(p)
  BY <1>1, <1>3 DEF Touch, LeaseTouch, LeadTouch, EntryTouch, ChequeTouch
<1> QED BY <1>1, <1>4, UnitWritten, RowsAre DEF Settled

LEMMA OrderSettles ==
  ASSUME IInv, NEW o \in Orders, RemoveOrder(o)
  PROVE  Settled
<1> DEFINE row == [order[o] EXCEPT !.status = "gone"]
<1>1. /\ UNCHANGED <<req, held, unit, lease, cheque, payments, lead, entry, reverted>>
      /\ order' = [order EXCEPT ![o] = row] /\ o \in Order
  BY DEF RemoveOrder, Once
<1>2. order[o] \in OrderRow /\ order[o].unit \in Units
  BY <1>1 DEF IInv, TypeOK, PlacedOK, Order, Absent
<1>3. row \in OrderRow /\ row.status = "gone" /\ row.unit = order[o].unit
  BY <1>2 DEF OrderRow, Absent
<1> HIDE DEF row
<1>4. RowsOK'
  BY <1>1, <1>2, <1>3, OrderWritten, RowsAre DEF Absent
<1>5. \A p : Touch(p)
  BY <1>1 DEF Touch, UnitTouch, LeaseTouch, LeadTouch, EntryTouch, ChequeTouch
<1> QED BY <1>1, <1>4, <1>5 DEF Settled

LEMMA ChequeSettles ==
  ASSUME IInv, NEW c \in Cheques, RemoveCheque(c)
  PROVE  Settled
<1> DEFINE row == [cheque[c] EXCEPT !.status = "gone"]
<1>1. /\ UNCHANGED <<req, held, unit, lease, payments, order, lead, entry, reverted>>
      /\ cheque' = [cheque EXCEPT ![c] = row] /\ c \in Cheque /\ payments[c] = << >>
  BY DEF RemoveCheque, Once
<1>2. cheque[c] \in ChequeRow
  BY DEF IInv, TypeOK
<1>3. row \in ChequeRow /\ row.status = "gone" /\ row.lease = cheque[c].lease
  BY <1>2 DEF ChequeRow, Absent
<1> HIDE DEF row
<1>4. ChequeMayBe(c, row, payments[c])
  <2>1. LiveOf(payments[c]) = {}
    BY <1>1 DEF LiveOf
  <2> QED BY <1>1, <1>3, <2>1 DEF ChequeMayBe, Absent, OpenCheque, ChequeStatuses
<1>5. RowsOK'
  BY <1>1, <1>3, <1>4, SamePayments, ChequeWritten, RowsAre
<1>6. cheque'[c] = row /\ \A z \in Cheques \ {c} : cheque'[z] = cheque[z]
  BY <1>1 DEF IInv, TypeOK
<1>7. \A p : Touch(p)
  BY <1>1, <1>3, <1>6 DEF Touch, UnitTouch, LeaseTouch, LeadTouch, EntryTouch, ChequeTouch, Cheque, Absent
<1> QED BY <1>1, <1>5, <1>7 DEF Settled

LEMMA LeaseSettles ==
  ASSUME IInv, NEW l \in Leases, Terminate(l) \/ RemoveLease(l) \/ ArchiveLease(l) \/ UnarchiveLease(l)
  PROVE  Settled
<1>1. /\ UNCHANGED <<req, held, unit, cheque, payments, order, lead, entry, reverted>>
      /\ l \in Lease /\ Unlocked(l)
  BY DEF Terminate, RemoveLease, ArchiveLease, UnarchiveLease, ChangeLease, Once
<1>2. lease[l] \in LeaseRow /\ lease[l].unit \in Units /\ unit[lease[l].unit] # "gone" /\ lease[l].status \notin Absent
  BY <1>1, RowsAre DEF RowsOK, RowTypes, PlacedOK, NoOrphans, Lease, Absent
<1>3. PICK row \in LeaseRow :
        /\ lease' = [lease EXCEPT ![l] = row] /\ row.unit = lease[l].unit /\ row.status # "free"
        /\ row.status = "ACTIVE" => lease[l].status = "ACTIVE"
        /\ row.status = "gone" => \A c \in Cheque : cheque[c].lease # l
  <2>1. CASE Terminate(l)
    <3>1. lease' = [lease EXCEPT ![l] = [lease[l] EXCEPT !.status = "TERMINATED"]]
      BY <2>1 DEF Terminate, ChangeLease
    <3>2. /\ [lease[l] EXCEPT !.status = "TERMINATED"] \in LeaseRow
          /\ [lease[l] EXCEPT !.status = "TERMINATED"].unit = lease[l].unit
          /\ [lease[l] EXCEPT !.status = "TERMINATED"].status = "TERMINATED"
      BY <1>2 DEF LeaseRow, LeaseStatuses
    <3> QED BY <3>1, <3>2
  <2>2. CASE RemoveLease(l)
    <3>1. /\ lease' = [lease EXCEPT ![l] = [lease[l] EXCEPT !.status = "gone"]]
          /\ \A c \in Cheque : cheque[c].lease # l
      BY <2>2 DEF RemoveLease, ChangeLease
    <3>2. /\ [lease[l] EXCEPT !.status = "gone"] \in LeaseRow
          /\ [lease[l] EXCEPT !.status = "gone"].unit = lease[l].unit
          /\ [lease[l] EXCEPT !.status = "gone"].status = "gone"
      BY <1>2 DEF LeaseRow, Absent
    <3> QED BY <3>1, <3>2
  <2>3. CASE ArchiveLease(l) \/ UnarchiveLease(l)
    <3>1. PICK ar \in BOOLEAN : lease' = [lease EXCEPT ![l] = [lease[l] EXCEPT !.archived = ar]]
      BY <2>3 DEF ArchiveLease, UnarchiveLease, ChangeLease
    <3>2. /\ [lease[l] EXCEPT !.archived = ar] \in LeaseRow
          /\ [lease[l] EXCEPT !.archived = ar].unit = lease[l].unit
          /\ [lease[l] EXCEPT !.archived = ar].status = lease[l].status
      BY <1>2 DEF LeaseRow
    <3> QED BY <1>2, <3>1, <3>2 DEF Absent
  <2> QED BY <2>1, <2>2, <2>3
<1>4. lease' \in [Leases -> LeaseRow] /\ lease'[l] = row /\ \A m \in Leases \ {l} : lease'[m] = lease[m]
  BY <1>3 DEF IInv, TypeOK
<1>5. LeaseMayBe(l)
  <2>1. row.status = "ACTIVE" => unit[row.unit] # "archived"
    BY <1>1, <1>2, <1>3 DEF IInv, ArchivedQuiet
  <2>2. row.status = "ACTIVE" => \A m \in Leases \ {l} : lease[m].status = "ACTIVE" => lease[m].unit # row.unit
    BY <1>1, <1>3 DEF IInv, RowsFit, OneActiveLease, OtherActive, Lease, Absent
  <2> QED BY <1>2, <1>3, <1>4, <2>1, <2>2 DEF LeaseMayBe, Absent
<1>6. RowsOK'
  BY <1>1, <1>4, <1>5, LeaseWritten, RowsAre
<1>7. ASSUME NEW p \in Requests PROVE LeaseTouch(p)
  BY <1>1, <1>2, <1>3, <1>4 DEF LeaseTouch, Spares, Unlocked, Absent
<1>8. \A p \in Requests : Touch(p)
  BY <1>1, <1>7 DEF Touch, UnitTouch, LeadTouch, EntryTouch, ChequeTouch
<1> QED BY <1>1, <1>6, <1>8 DEF Settled

-----------------------------------------------------------------------------
(* The invariant.                                                          *)
LEMMA CaseIs ==
  ASSUME world \in DOMAIN Worlds
  PROVE  LET w == Worlds[world]
         IN /\ w.requests \in Nat
            /\ w.unit = [u \in Units |-> "open"]
            /\ w.lease \in [Leases -> LeaseRow] /\ \A l \in Leases : w.lease[l].status # "gone"
            /\ w.cheque \in [Cheques -> ChequeRow]
            /\ \A c \in Cheques : /\ w.cheque[c].status \notin {"gone", "CLEARED"}
                                  /\ w.cheque[c].status = "DEPOSITED" => w.cheque[c].dated
            /\ w.payments = [c \in Cheques |-> <<>>]
            /\ w.order \in [Orders -> OrderRow] /\ \A o \in Orders : w.order[o].status # "gone"
            /\ w.lead \in [Leads -> PlainRow] /\ w.entry \in [Entries -> PlainRow]
            /\ Linked(w.lease, w.cheque, w.order)
<1>1. Worlds[world] \in Range(Worlds)
  BY DEF Range
<1> QED BY <1>1, WorldAssumption

LEMMA InitHolds == Init => IInv
<1> SUFFICES ASSUME Init PROVE IInv
  OBVIOUS
<1>1. /\ world \in DOMAIN Worlds
      /\ unit = [u \in Units |-> "open"]
      /\ lease \in [Leases -> LeaseRow] /\ \A l \in Leases : lease[l].status # "gone"
      /\ cheque \in [Cheques -> ChequeRow]
      /\ \A c \in Cheques : /\ cheque[c].status \notin {"gone", "CLEARED"}
                            /\ cheque[c].status = "DEPOSITED" => cheque[c].dated
      /\ payments = [c \in Cheques |-> <<>>]
      /\ order \in [Orders -> OrderRow] /\ \A o \in Orders : order[o].status # "gone"
      /\ lead \in [Leads -> PlainRow] /\ entry \in [Entries -> PlainRow]
      /\ Linked(lease, cheque, order)
  BY CaseIs DEF Init
<1>2. /\ req = [q \in Requests |-> NoRequest] /\ held = [q \in Requests |-> {}] /\ started = 0 /\ reverted = {}
      /\ Worlds[world].requests \in Nat
  BY CaseIs DEF Init
<1>3. TypeOK
  <2>1. payments \in [Cheques -> Seq([unit : Units \cup {None}, live : BOOLEAN])]
    BY <1>1
  <2>2. unit \in [Units -> {"open", "archived", "gone"}]
    BY <1>1
  <2>3. held \in [Requests -> SUBSET [row : Units \cup Leases \cup Orders \cup Leads \cup Entries,
                                       mode : {"share", "write"}]]
    BY <1>2
  <2>4. started \in 0 .. Worlds[world].requests /\ reverted \subseteq Cheques \cup Leads
    BY <1>2
  <2> QED BY <1>1, <2>1, <2>2, <2>3, <2>4 DEF TypeOK
<1>4. PlacedOK
  BY <1>1 DEF PlacedOK, Linked
<1>5. RequestsOK
  <2>1. req \in [Requests -> ReqRow] /\ \A q \in Requests : Sound(req[q], held[q])
    BY <1>2, NoRequestType, Nothing
  <2>2. \A p, q \in Requests : Shared(p, q) /\ Apart(p, q)
    BY <1>2, NoRequestType DEF Shared, Apart
  <2> QED BY <2>1, <2>2 DEF RequestsOK
<1>6. PaidOK
  <2>1. \A c \in Cheques : payments[c] = << >> /\ Live(c) = {}
    BY <1>1 DEF Live
  <2> QED BY <1>1, <2>1 DEF PaidOK
<1>7. OneActiveLease
  BY <1>1 DEF OneActiveLease, OtherActive, Lease, Linked
<1>8. NoOrphans
  <2>1. \A u \in Units : unit[u] # "gone"
    BY <1>1
  <2>2. \A l \in Lease : lease[l].unit \in Units
    BY <1>1 DEF Lease, Absent, Linked
  <2>3. \A o \in Order : order[o].unit \in Units
    BY <1>1 DEF Order, Absent, Linked
  <2>4. /\ \A d \in Lead : lead[d].unit \in Units \cup {None}
        /\ \A e \in Entry : entry[e].unit \in Units \cup {None}
    BY <1>1 DEF Lead, Entry, PlainRow
  <2>5. \A c \in Cheque : /\ cheque[c].unit \in Units \cup {None}
                          /\ cheque[c].lease # None => cheque[c].lease \in Lease
    <3> SUFFICES ASSUME NEW c \in Cheque
                 PROVE  /\ cheque[c].unit \in Units \cup {None}
                        /\ cheque[c].lease # None => cheque[c].lease \in Lease
      OBVIOUS
    <3>1. c \in Cheques /\ cheque[c] \in ChequeRow /\ cheque[c].status # "free"
      BY <1>1 DEF Cheque, Absent
    <3>2. cheque[c].unit \in Units \cup {None} /\ cheque[c].lease \in Leases \cup {None}
      BY <3>1 DEF ChequeRow
    <3>3. cheque[c].lease # None => lease[cheque[c].lease].status # "free"
      BY <1>1, <3>1 DEF Linked
    <3> QED BY <1>1, <3>2, <3>3 DEF Lease, Absent
  <2> QED BY <2>1, <2>2, <2>3, <2>4, <2>5 DEF NoOrphans
<1>9. ArchivedQuiet
  BY <1>1 DEF ArchivedQuiet
<1> QED BY <1>3, <1>4, <1>5, <1>6, <1>7, <1>8, <1>9 DEF IInv, RowsFit

LEMMA RowsGive ==
  ASSUME RowsOK', world' \in DOMAIN Worlds, started' \in 0 .. Worlds[world'].requests,
         held' \in [Requests -> SUBSET Locks], RequestsOK'
  PROVE  IInv'
BY DEF RowsOK, RowTypes, IInv, TypeOK, Locks, RowsFit

LEMMA WrittenKeeps ==
  ASSUME IInv, NEW q \in Requests, Written(q), UNCHANGED world
  PROVE  IInv'
<1>1. /\ RowsOK' /\ req' \in [Requests -> ReqRow] /\ Sound(req[q], held[q])' /\ started' = started
      /\ held' \in [Requests -> SUBSET Locks]
      /\ \A p \in Requests \ {q} : req'[p] = req[p] /\ held'[p] = held[p]
  BY DEF Written, Fine, Alone
<1>2. \A p \in Requests : Sound(req[p], held[p])'
  <2>1. ASSUME NEW p \in Requests \ {q} PROVE Sound(req[p], held[p])'
    BY <1>1, OtherSound DEF Written
  <2>2. Sound(req[q], held[q])'
    BY <1>1
  <2> QED BY <2>1, <2>2
<1>3. \A p, t \in Requests : p # t => Shared(p, t)' /\ Apart(p, t)'
  BY AlonePairs DEF Written, Fine
<1>4. RequestsOK'
  BY <1>1, <1>2, <1>3 DEF RequestsOK
<1>5. world' \in DOMAIN Worlds /\ started' \in 0 .. Worlds[world'].requests
  BY <1>1 DEF IInv, TypeOK
<1> QED BY <1>1, <1>4, <1>5, RowsGive

LEMMA RequestCounts ==
  ASSUME IInv, UNCHANGED world, started < Worlds[world].requests, started' = started + 1
  PROVE  world' \in DOMAIN Worlds /\ started' \in 0 .. Worlds[world'].requests
BY CaseIs DEF IInv, TypeOK

LEMMA SettledKeeps ==
  ASSUME IInv, Settled, UNCHANGED world, started < Worlds[world].requests, started' = started + 1
  PROVE  IInv'
<1>1. \A p \in Requests : Sound(req[p], held[p])'
  BY OtherSound DEF Settled
<1>2. \A p, t \in Requests : p # t => Shared(p, t)' /\ Apart(p, t)'
  BY DEF Settled, IInv, RequestsOK, Shared, Apart, New
<1>3. RequestsOK' /\ held' \in [Requests -> SUBSET Locks]
  BY <1>1, <1>2, HeldType DEF Settled, RequestsOK, IInv
<1> QED BY <1>3, RequestCounts, RowsGive DEF Settled

LEMMA StartedKeeps ==
  ASSUME IInv, NEW q \in Requests, Start(q), UNCHANGED world
  PROVE  IInv'
<1>1. RequestsOK' /\ StartFrame
  BY StartKeeps, StartIs
<1>2. RowsOK' /\ held' \in [Requests -> SUBSET Locks]
  BY <1>1, NoRowWritten, RowsAre, HeldType DEF StartFrame
<1> QED BY <1>1, <1>2, RequestCounts, RowsGive DEF StartFrame

LEMMA NextKeeps == IInv /\ [Next /\ UNCHANGED world]_vars => IInv'
<1> SUFFICES ASSUME IInv, [Next /\ UNCHANGED world]_vars PROVE IInv'
  OBVIOUS
<1>1. ASSUME NEW q \in Requests, Start(q), UNCHANGED world PROVE IInv'
  BY <1>1, StartedKeeps
<1>2. ASSUME NEW q \in Requests, Step(q), UNCHANGED world PROVE IInv'
  BY <1>2, StepWrites, WrittenKeeps
<1>3. ASSUME NEW c \in Cheques, RemoveCheque(c), UNCHANGED world PROVE IInv'
  BY <1>3, ChequeSettles, SettledKeeps DEF RemoveCheque, Once, Request
<1>4. ASSUME NEW l \in Leases, Terminate(l) \/ RemoveLease(l) \/ ArchiveLease(l) \/ UnarchiveLease(l), UNCHANGED world
      PROVE  IInv'
  <2>1. started < Worlds[world].requests /\ started' = started + 1
    BY <1>4 DEF Terminate, RemoveLease, ArchiveLease, UnarchiveLease, ChangeLease, Once, Request
  <2> QED BY <1>4, <2>1, LeaseSettles, SettledKeeps
<1>5. ASSUME NEW o \in Orders, RemoveOrder(o), UNCHANGED world PROVE IInv'
  BY <1>5, OrderSettles, SettledKeeps DEF RemoveOrder, Once, Request
<1>6. ASSUME NEW u \in Units, ArchiveUnit(u) \/ UnarchiveUnit(u) \/ RemoveUnit(u), UNCHANGED world PROVE IInv'
  <2>1. started < Worlds[world].requests /\ started' = started + 1
    BY <1>6 DEF ArchiveUnit, UnarchiveUnit, RemoveUnit, ChangeUnit, Once, Request
  <2> QED BY <1>6, <2>1, UnitSettles, SettledKeeps
<1>7. ASSUME UNCHANGED vars PROVE IInv'
  <2>1. /\ UNCHANGED <<unit, lease, cheque, payments, order, lead, entry, reverted>>
        /\ UNCHANGED <<req, held, world, started>>
    BY <1>7 DEF vars, rows
  <2>2. RowsOK'
    BY <2>1, NoRowWritten, RowsAre
  <2>3. \A p \in Requests : Sound(req[p], held[p])'
    BY <2>1, SameRows DEF IInv, RequestsOK
  <2>4. RequestsOK'
    BY <2>1, <2>3 DEF RequestsOK, IInv, Shared, Apart, New
  <2>5. world' \in DOMAIN Worlds /\ started' \in 0 .. Worlds[world'].requests /\ held' \in [Requests -> SUBSET Locks]
    BY <2>1, HeldType DEF IInv, TypeOK
  <2> QED BY <2>2, <2>4, <2>5, RowsGive
<1> QED BY <1>1, <1>2, <1>3, <1>4, <1>5, <1>6, <1>7 DEF Next

LEMMA AlwaysIInv == Spec => []IInv
<1> QED BY InitHolds, NextKeeps, PTL DEF Spec

-----------------------------------------------------------------------------
(* What a step does to a row that is final, or on an archived unit.        *)
FinalStep ==
  /\ \A c \in Cheques \ reverted' :
       cheque[c].status \in {"CANCELLED", "REPLACED"} => cheque'[c].status \in {cheque[c].status, "gone"}
  /\ \A l \in Leases :
       lease[l].status \in {"TERMINATED", "RENEWED"} => lease'[l].status = lease[l].status

LockedStep ==
  \A c \in Cheque \ reverted' :
    cheque'[c] \in {cheque[c], [cheque[c] EXCEPT !.status = "gone"]}
    \/ LET l == cheque[c].lease
       IN /\ cheque[c].unit # None => unit[cheque[c].unit] = "open"
          /\ l # None => ~lease[l].archived /\ unit[lease[l].unit] = "open"

(* One cheque, or one lease, in a step that is not its deletion.           *)
ChequeStays(c) ==
  \/ cheque'[c] = cheque[c]
  \/ cheque[c].status = "free"
  \/ c \in reverted'
  \/ /\ OnOpen(cheque[c])
     /\ cheque[c].status \in {"CANCELLED", "REPLACED"} => cheque'[c].status = cheque[c].status

LeaseStays(l) == lease[l].status \in {"TERMINATED", "RENEWED"} => lease'[l].status = lease[l].status

LEMMA ChequeChange ==
  ASSUME IInv, NEW q \in Requests,
         InsertCheque(q) \/ SaveUpdate(q) \/ SaveBounce(q) \/ SaveClear(q) \/ SaveUnclear(q) \/ SaveOcr(q)
  PROVE  \A c \in Cheques : ChequeStays(c)
<1> DEFINE c == req[q].row
           seen == req[q].seen
           want == req[q].want
<1>1. cheque \in [Cheques -> ChequeRow]
  BY DEF IInv, TypeOK
<1>2. ASSUME \E row : cheque' = [cheque EXCEPT ![c] = row], c \in Cheques => ChequeStays(c)
      PROVE  \A z \in Cheques : ChequeStays(z)
  BY <1>1, <1>2 DEF ChequeStays
<1>3. ASSUME cheque' = cheque PROVE \A z \in Cheques : ChequeStays(z)
  BY <1>3 DEF ChequeStays
<1>4. CASE InsertCheque(q)
  <2>1. cheque' = [cheque EXCEPT ![c] = want] /\ cheque[c].status = "free"
    BY <1>4, ReqIs DEF InsertCheque, Ready, Aimed
  <2> QED BY <1>2, <2>1 DEF ChequeStays
<1>5. CASE SaveUpdate(q)
  <2>1. /\ req[q].op = "update cheque" /\ req[q].step = "units" /\ req[q].units = << >> /\ reverted' = reverted
        /\ cheque' = IF Unchanged(c, seen, want)
                     THEN [cheque EXCEPT ![c] = [want EXCEPT !.version = cheque[c].version + 1]] ELSE cheque
    BY <1>5 DEF SaveUpdate, Ready
  <2>2. CASE ~Unchanged(c, seen, want)
    BY <1>3, <2>1, <2>2
  <2>3. CASE Unchanged(c, seen, want)
    <3>1. OnOpen(seen)
      BY <2>1, EditOpen DEF Edits
    <3>2. c \in Cheques /\ want \in Copy
      BY <2>1, ReqIs DEF Form, Edits
    <3>3. c \notin reverted => seen = cheque[c]
      BY <2>1, <2>3, ReqIs DEF Unchanged, Copied, OfCheque
    <3>4. cheque'[c].status = want.status
      BY <1>1, <2>1, <2>3, <3>2 DEF Copy, ChequeRow
    <3>5. want.status # seen.status => seen.status \notin TerminalStatuses
      BY <2>1, ReqIs DEF Form
    <3>6. ChequeStays(c)
      BY <2>1, <3>1, <3>3, <3>4, <3>5 DEF ChequeStays, TerminalStatuses
    <3> QED BY <1>2, <2>1, <2>3, <3>6
  <2> QED BY <2>2, <2>3
<1>6. CASE SaveBounce(q)
  <2>1. /\ req[q].op = "bounce" /\ req[q].step = "units" /\ req[q].units = << >> /\ reverted' = reverted
        /\ cheque' = IF c \in Cheque /\ cheque[c].status \notin TerminalStatuses
                     THEN [cheque EXCEPT ![c].status = "BOUNCED", ![c].version = @ + 1] ELSE cheque
    BY <1>6 DEF SaveBounce, Ready
  <2>2. CASE ~(c \in Cheque /\ cheque[c].status \notin TerminalStatuses)
    BY <1>3, <2>1, <2>2
  <2>3. CASE c \in Cheque /\ cheque[c].status \notin TerminalStatuses
    <3>1. OnOpen(seen) /\ cheque[c].lease = seen.lease
      BY <2>1, EditOpen, ReqIs DEF Edits, Aimed, OfCheque
    <3>2. cheque[c] \in ChequeRow /\ cheque[c].status \in OpenCheque
      BY <1>1, <2>3 DEF Cheque, ChequeRow, OpenCheque, Absent
    <3>3. cheque[c].unit # None => cheque[c].unit \in Units /\ unit[cheque[c].unit] # "gone"
      BY <2>3, <3>2, RowsAre DEF RowsOK, NoOrphans, ChequeRow
    <3>4. cheque[c].unit # None /\ c \notin reverted => unit[cheque[c].unit] = "open"
      BY <2>3, <3>2, <3>3 DEF IInv, TypeOK, ArchivedQuiet, ChequesOn
    <3>5. ChequeStays(c)
      BY <2>1, <2>3, <3>1, <3>4 DEF ChequeStays, OnOpen, TerminalStatuses
    <3>6. \E row : cheque' = [cheque EXCEPT ![c] = row]
      BY <2>1, <2>3
    <3> QED BY <1>2, <3>5, <3>6
  <2> QED BY <2>2, <2>3
<1>7. CASE SaveClear(q) \/ SaveUnclear(q)
  <2>1. req[q].op \in Edits /\ req[q].step = "units" /\ req[q].units = << >>
    BY <1>7 DEF SaveClear, SaveUnclear, Ready, Edits
  <2>2. CASE UNCHANGED cheque
    BY <1>3, <2>2
  <2>3. CASE ~UNCHANGED cheque
    <3>1. /\ NotMoved(c, seen) /\ cheque[c].status \in {"PENDING", "DEPOSITED", "CLEARED"}
          /\ \E row : cheque' = [cheque EXCEPT ![c] = row]
      BY <1>7, <2>3 DEF SaveClear, SaveUnclear, Clearable
    <3>2. OnOpen(seen)
      BY <2>1, EditOpen
    <3>3. ChequeStays(c)
      BY <3>1, <3>2 DEF ChequeStays, OnOpen, NotMoved
    <3> QED BY <1>2, <3>1, <3>3
  <2> QED BY <2>2, <2>3
<1>8. CASE SaveOcr(q)
  <2>1. UNCHANGED cheque \/ (c \in reverted' /\ \E row : cheque' = [cheque EXCEPT ![c] = row])
    BY <1>8 DEF SaveOcr
  <2> QED BY <1>2, <1>3, <2>1 DEF ChequeStays
<1> QED BY <1>4, <1>5, <1>6, <1>7, <1>8

LEMMA LeaseChange ==
  ASSUME IInv, NEW q \in Requests, InsertLease(q) \/ SaveLease(q) \/ SaveRenewal(q)
  PROVE  \A l \in Leases : LeaseStays(l)
<1>1. lease \in [Leases -> LeaseRow]
  BY DEF IInv, TypeOK
<1>2. CASE InsertLease(q)
  <2>1. lease' = [lease EXCEPT ![req[q].row] = req[q].seen] /\ lease[req[q].row].status = "free"
    BY <1>2, ReqIs DEF InsertLease, Ready, Aimed
  <2> QED BY <1>1, <2>1 DEF LeaseStays
<1>3. CASE SaveLease(q)
  <2> DEFINE l == req[q].row
             row == After(q)
  <2>1. /\ row.status = ToStatus(req[q]) /\ l \in Leases
        /\ ToStatus(req[q]) # lease[l].status => lease[l].status \notin {"TERMINATED", "RENEWED"}
    BY <1>3, ReqIs, AfterIs DEF SaveLease, Form, Covered
  <2>2. lease' = lease \/ lease' = [lease EXCEPT ![l] = row]
    BY <1>3 DEF SaveLease
  <2> HIDE DEF row
  <2> QED BY <1>1, <2>1, <2>2 DEF LeaseStays
<1>4. CASE SaveRenewal(q)
  <2> DEFINE l == req[q].row
             new == req[q].want
             old == [lease[l] EXCEPT !.status = "RENEWED"]
  <2>1. /\ lease' = [lease EXCEPT ![l].status = "RENEWED", ![new] = req[q].seen]
        /\ l \in Leases /\ new \in Leases /\ lease[l].status \in {"ACTIVE", "EXPIRED"} /\ lease[new].status = "free"
    BY <1>4, ReqIs DEF SaveRenewal, Ready, Form, Aimed, Covered
  <2>2. lease' = [[lease EXCEPT ![l] = old] EXCEPT ![new] = req[q].seen]
    BY <2>1
  <2> HIDE DEF old
  <2>3. \A m \in Leases \ {l, new} : lease'[m] = lease[m]
    BY <1>1, <2>1, <2>2
  <2> QED BY <2>1, <2>3 DEF LeaseStays
<1> QED BY <1>2, <1>3, <1>4

LEMMA Closes ==
  ASSUME \A c \in Cheques : ChequeStays(c), \A l \in Leases : LeaseStays(l)
  PROVE  FinalStep /\ LockedStep
<1>1. FinalStep
  BY DEF FinalStep, ChequeStays, LeaseStays
<1>2. LockedStep
  <2> SUFFICES ASSUME NEW c \in Cheque \ reverted', cheque'[c] # cheque[c] PROVE OnOpen(cheque[c])
    BY DEF LockedStep, OnOpen
  <2> QED BY DEF ChequeStays, Cheque, Absent
<1> QED BY <1>1, <1>2

LEMMA NextCloses == IInv /\ [Next /\ UNCHANGED world]_vars => FinalStep /\ LockedStep
<1> SUFFICES ASSUME IInv, [Next /\ UNCHANGED world]_vars PROVE FinalStep /\ LockedStep
  OBVIOUS
<1>1. CASE UNCHANGED <<cheque, lease>>
  BY <1>1, Closes DEF ChequeStays, LeaseStays
<1>2. ASSUME NEW q \in Requests, Start(q) PROVE UNCHANGED <<cheque, lease>>
  BY <1>2, StartIs DEF StartFrame
<1>3. ASSUME NEW q \in Requests, Step(q) PROVE FinalStep /\ LockedStep
  <2>1. CASE InsertCheque(q) \/ SaveUpdate(q) \/ SaveBounce(q) \/ SaveClear(q) \/ SaveUnclear(q) \/ SaveOcr(q)
    <3>1. lease' = lease
      BY <2>1 DEF InsertCheque, SaveUpdate, SaveBounce, SaveClear, SaveUnclear, SaveOcr
    <3> QED BY <2>1, <3>1, ChequeChange, Closes DEF LeaseStays
  <2>2. CASE InsertLease(q) \/ SaveLease(q) \/ SaveRenewal(q)
    <3>1. cheque' = cheque
      BY <2>2 DEF InsertLease, SaveLease, SaveRenewal
    <3> QED BY <2>2, <3>1, LeaseChange, Closes DEF ChequeStays
  <2>3. CASE \/ LockLease(q) \/ LockUnit(q) \/ LockForUpdate(q) \/ LockForRenew(q) \/ LockOrder(q)
             \/ LockLead(q) \/ LockEntry(q) \/ CheckUpdate(q)
    BY <1>1, <2>3 DEF LockLease, LockUnit, LockForUpdate, LockForRenew, LockOrder, LockLead, LockEntry,
                      CheckUpdate, rows
  <2>4. CASE InsertOrder(q) \/ SaveOrder(q) \/ InsertLead(q) \/ SaveLead(q) \/ InsertEntry(q) \/ SaveEntry(q)
    BY <1>1, <2>4 DEF InsertOrder, SaveOrder, InsertLead, SaveLead, InsertEntry, SaveEntry
  <2> QED BY <1>3, <2>1, <2>2, <2>3, <2>4 DEF Step
<1>4. ASSUME NEW c \in Cheques, RemoveCheque(c) PROVE FinalStep /\ LockedStep
  <2> DEFINE row == [cheque[c] EXCEPT !.status = "gone"]
  <2>1. lease' = lease /\ cheque' = [cheque EXCEPT ![c] = row] /\ cheque \in [Cheques -> ChequeRow]
    BY <1>4 DEF RemoveCheque, IInv, TypeOK
  <2>2. row.status = "gone"
    BY <2>1 DEF ChequeRow
  <2> HIDE DEF row
  <2>3. cheque'[c] = row /\ \A z \in Cheques \ {c} : cheque'[z] = cheque[z]
    BY <2>1
  <2>4. FinalStep
    BY <2>1, <2>2, <2>3 DEF FinalStep
  <2>5. LockedStep
    BY <2>3 DEF LockedStep, Cheque, row
  <2> QED BY <2>4, <2>5
<1>5. ASSUME NEW l \in Leases, Terminate(l) \/ RemoveLease(l) \/ ArchiveLease(l) \/ UnarchiveLease(l)
      PROVE  FinalStep /\ LockedStep
  <2>1. /\ cheque' = cheque /\ lease[l] \in LeaseRow /\ lease \in [Leases -> LeaseRow]
        /\ \E row : lease' = [lease EXCEPT ![l] = row]
    BY <1>5 DEF Terminate, RemoveLease, ArchiveLease, UnarchiveLease, ChangeLease, IInv, TypeOK
  <2>2. CASE Terminate(l) \/ RemoveLease(l)
    <3>1. lease[l].status \in {"ACTIVE", "DRAFT"}
      BY <2>2 DEF Terminate, RemoveLease
    <3>2. \A m \in Leases : LeaseStays(m)
      BY <2>1, <3>1 DEF LeaseStays
    <3> QED BY <2>1, <3>2, Closes DEF ChequeStays
  <2>3. CASE ArchiveLease(l) \/ UnarchiveLease(l)
    <3>1. PICK ar \in BOOLEAN : lease' = [lease EXCEPT ![l] = [lease[l] EXCEPT !.archived = ar]]
      BY <2>3 DEF ArchiveLease, UnarchiveLease, ChangeLease
    <3>2. [lease[l] EXCEPT !.archived = ar].status = lease[l].status
      BY <2>1 DEF LeaseRow
    <3>3. \A m \in Leases : LeaseStays(m)
      BY <2>1, <3>1, <3>2 DEF LeaseStays
    <3> QED BY <2>1, <3>3, Closes DEF ChequeStays
  <2> QED BY <1>5, <2>2, <2>3
<1>6. ASSUME NEW o \in Orders, RemoveOrder(o) PROVE UNCHANGED <<cheque, lease>>
  BY <1>6 DEF RemoveOrder
<1>7. ASSUME NEW u \in Units, ArchiveUnit(u) \/ UnarchiveUnit(u) \/ RemoveUnit(u) PROVE UNCHANGED <<cheque, lease>>
  BY <1>7 DEF ArchiveUnit, UnarchiveUnit, RemoveUnit, ChangeUnit
<1>8. CASE UNCHANGED vars
  BY <1>1, <1>8 DEF vars, rows
<1> QED BY <1>1, <1>2, <1>3, <1>4, <1>5, <1>6, <1>7, <1>8 DEF Next

-----------------------------------------------------------------------------
(* The theorems.                                                           *)

(* However the requests interleave, a unit that is archived stays quiet:   *)
(* the FOR SHARE lock of everything that opens a lease, an order, a lead,  *)
(* an entry or a cheque, and unitArchiveBlockers under the unit's lock,    *)
(* leave no gap, but for the two writes of an old copy named in reverted.  *)
THEOREM UnitsStayQuiet == Spec => []ArchivedQuiet
<1>1. IInv => ArchivedQuiet
  BY DEF IInv
<1> QED BY <1>1, AlwaysIInv, PTL

(* One active lease for a unit, and no row of a deleted unit or lease.     *)
THEOREM RowsAlwaysFit == Spec => []RowsFit
<1>1. IInv => RowsFit
  BY DEF IInv
<1> QED BY <1>1, AlwaysIInv, PTL

LEMMA AtMostOne ==
  ASSUME NEW S, \A i, j \in S : i = j
  PROVE  Cardinality(S) = IF S = {} THEN 0 ELSE 1
<1>1. CASE S = {}
  BY <1>1, FS_EmptySet
<1>2. CASE S # {}
  <2>1. PICK i : i \in S
    BY <1>2
  <2>2. S = {i}
    BY <2>1
  <2> QED BY <1>2, <2>2, FS_Singleton
<1> QED BY <1>1, <1>2

(* A cleared cheque has one standing payment, for its unit, and another    *)
(* has none, unless processOcr overwrote it; and no cheque ever has two,   *)
(* whatever runs beside clear(), unclear(), bounce() and remove().         *)
THEOREM PaymentsAlwaysHold == Spec => []PaymentsHold
<1>1. IInv => PaymentsHold
  <2> SUFFICES ASSUME IInv PROVE PaymentsHold
    OBVIOUS
  <2>1. \A c \in Cheques : Cardinality(Live(c)) = IF Live(c) = {} THEN 0 ELSE 1
    BY AtMostOne DEF IInv, PaidOK
  <2>2. PaidOnce
    BY <2>1 DEF PaidOnce
  <2>3. \A c \in Cheque \ reverted :
          c \in Cheques /\ (cheque[c].status = "CLEARED" <=> Live(c) # {})
          /\ \A i \in Live(c) : payments[c][i].unit = cheque[c].unit
    BY DEF IInv, PaidOK, Cheque
  <2>4. PaymentMatches
    BY <2>1, <2>3 DEF PaymentMatches
  <2> QED BY <2>2, <2>4 DEF PaymentsHold, IInv
<1> QED BY <1>1, AlwaysIInv, PTL

(* Final cheques and ended leases stay so, and a cheque of an archived     *)
(* unit or lease is not edited: no copy that a request read before its     *)
(* transaction does that, but the one that processOcr saves.               *)
THEOREM ClosedAlwaysStays == Spec => ClosedStays
<1>1. IInv /\ [Next /\ UNCHANGED world]_vars => [FinalStep]_vars /\ [LockedStep]_vars
  BY NextCloses
<1>2. Spec => [][FinalStep]_vars /\ [][LockedStep]_vars
  BY <1>1, AlwaysIInv, PTL DEF Spec
<1> QED BY <1>2 DEF ClosedStays, FinalStays, ArchivedLocked, FinalStep, LockedStep

=============================================================================
