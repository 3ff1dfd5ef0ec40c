----------------------------- MODULE SeatsProofs -----------------------------
(***************************************************************************)
(* Proofs about Seats for every team, number of requests and records, and  *)
(* for every limit on what happens outside the lock.                       *)
(***************************************************************************)
EXTENDS Seats, TLAPS, FiniteSetTheorems

(* A request between its checks and its commit holds the company lock.     *)
Under(r) == op[r].pc \in {"bill", "save", "undo"}

LockOK == \A q, r \in Reqs : Under(q) /\ Under(r) => q = r

(* What a request that holds the lock checked is still so, because nobody  *)
(* else changes the users it holds.                                        *)
WhoOK(r) ==
  LET o == op[r] IN
  /\ o.kind # "none"
  /\ Grows(o.kind) => \E u \in Users : o.who = {u} /\ u \notin Active
  /\ Removes(o.kind) => \E v \in Active : o.to = {v} /\ v \notin o.who
  /\ o.kind \in {"deactivate", "delete"} => \E u \in Users : o.who = {u}
  /\ o.kind = "deactivate" => o.who \subseteq Active
  /\ o.kind = "reconcile" => o.pc = "bill"

(* The subscription it read ends only with the plans billed by seat; a     *)
(* request that goes to the provider, or back to it, has seats to pay for. *)
ReadOK(r) ==
  LET o == op[r] IN
  /\ o.sub <= sub
  /\ o.sub = sub => (Billed(o.plan) <=> Billed(plan)) /\ (o.kind = "reconcile" => settling)
  /\ o.pc \in {"bill", "undo"} => Billed(o.plan) /\ (o.kind = "delete" => o.who \subseteq Active)

RequestsOK == \A r \in Reqs : Under(r) => WhoOK(r) /\ ReadOK(r)

(* The plan at the provider and that of the row are both billed by seat or *)
(* the same; a switch or a checkout is to a plan billed by seat, a checkout *)
(* with the seats of the team it is for.                                   *)
SubOK ==
  /\ Billed(plan) <=> Billed(sold)
  /\ swap # NoSwap => Billed(swap.plan) /\ swap.sub <= sub /\ (swap.sub = sub => Billed(plan))
  /\ checkout # NoCheckout => /\ Billed(checkout.plan)
                              /\ checkout.seats = Needed(checkout.plan, checkout.team)

(* A team that no edit and no plan change upset has somebody active.       *)
NotEmpty == loose = {} \/ ~drifted => Active # {}

Capped(o) == (o.plan = "free" /\ Grows(o.kind)) \/ (o.plan = "comp" /\ o.kind = "add")

(* Room for one more, from the check under the lock to the commit.         *)
RoomOK ==
  loose = {} => \A r \in Reqs : Under(r) /\ Capped(op[r]) => Cardinality(Active) < Cap[op[r].plan]

Due == Needed(sold, Cardinality(Active))

(* What is due once the request has been carried out.                      *)
DueAfter(p, kind, due) ==
  CASE Grows(kind)     -> due + 1
    [] kind = "trim"   -> Floor(p)
    [] OTHER           -> Larger(due - 1, Floor(p))

Paying(r) == BilledBy(r) /\ Alive(r)

(* The provider bills the team, or the team as the request that holds the  *)
(* lock will leave it, and that request knows what to go back to.          *)
Steady == Billed(plan) /\ ~drifted /\ ~settling

BillOK ==
  Steady =>
    /\ (\A r \in Reqs : ~Paying(r)) => billed = Due
    /\ \A r \in Reqs : Paying(r) => op[r].live = Due /\ billed = DueAfter(sold, op[r].kind, Due)
    /\ \A r \in Reqs : Running(r, "bill") /\ Alive(r) =>
          op[r].live = billed /\ op[r].target = DueAfter(sold, op[r].kind, billed)

(* The alignment asks for what the team costs, unless the team or the plan *)
(* is another since it counted.                                            *)
AlignOK ==
  ~stale => \A r \in Reqs : Running(r, "bill") /\ op[r].kind = "reconcile" /\ Alive(r) => op[r].target = Due

TeamInv == TypeOK /\ LockOK /\ RequestsOK /\ SubOK /\ NotEmpty /\ OwnersActive
IInv == TeamInv /\ RoomOK /\ AlignOK /\ BillOK

USE SeatAssumption

-----------------------------------------------------------------------------
(* Types.                                                                  *)

LEMMA Numbers ==
  /\ \A m, n \in Int : Larger(m, n) \in {m, n} /\ Larger(m, n) >= m /\ Larger(m, n) >= n
  /\ \A p : Floor(p) \in {0, 1}
  /\ \A p : \A n \in Nat : Needed(p, n) \in Nat
BY DEF Larger, Floor, Needed

LEMMA ActiveSize ==
  /\ IsFiniteSet(Active) /\ Active \subseteq Users
  /\ Cardinality(Active) \in Nat
  /\ \A S \in SUBSET Active : IsFiniteSet(S) /\ Cardinality(S) \in Nat /\ Cardinality(S) <= Cardinality(Active)
<1>1. IsFiniteSet(Users) /\ Active \subseteq Users
  BY DEF Active
<1>2. IsFiniteSet(Active)
  BY <1>1, FS_Subset
<1> QED BY <1>1, <1>2, FS_Subset, FS_CardinalityType

LEMMA TargetType ==
  ASSUME TypeOK, NEW kind
  PROVE  Target(kind) \in Nat
<1>1. billed \in Nat /\ billed + 1 \in Nat /\ billed - 1 \in Int /\ Floor(plan) \in {0, 1}
  BY Numbers DEF TypeOK
<1>2. Larger(billed - 1, Floor(plan)) \in Nat
  BY <1>1 DEF Larger
<1>3. Needed(plan, Cardinality(Active)) \in Nat
  BY ActiveSize, Numbers DEF Needed
<1> QED BY <1>1, <1>2, <1>3 DEF Target

LEMMA IdleType == Idle \in Operation
BY DEF Idle, Operation, Plans

LEMMA OpTypes ==
  ASSUME TypeOK, NEW r \in Reqs
  PROVE  /\ Finish(r) => op' \in [Reqs -> Operation]
         /\ \A pc \in {"idle", "bill", "save", "undo", "left"} : Goto(r, pc) => op' \in [Reqs -> Operation]
<1>1. op[r] \in Operation
  BY DEF TypeOK
<1>2. \A pc \in {"idle", "bill", "save", "undo", "left"} : [op[r] EXCEPT !.pc = pc] \in Operation
  BY <1>1 DEF Operation
<1> QED BY <1>1, <1>2, IdleType DEF Finish, Goto, TypeOK

LEMMA SpendType ==
  ASSUME TypeOK
  PROVE  /\ Fault \/ NoFault => left' \in [Counted -> Nat]
         /\ \A what \in Counted : Spend(what) => left' \in [Counted -> Nat]
<1>1. "faults" \in Counted
  BY DEF Counted
<1> QED BY <1>1 DEF TypeOK, Fault, NoFault, Spend

LEMMA BeginType ==
  ASSUME TypeOK, NEW r \in Reqs, NEW kind \in {"add", "reactivate", "deactivate", "delete", "trim", "reconcile"},
         NEW who \in SUBSET Users, NEW to \in SUBSET Users, Begin(r, kind, who, to)
  PROVE  TypeOK'
<1>1. Target(kind) \in Nat
  BY TargetType
<1>2. op' \in [Reqs -> Operation]
  BY <1>1 DEF Begin, TypeOK, Operation
<1> QED BY <1>2 DEF Begin, TypeOK, team, billing, chat, work

LEMMA TypeStep ==
  ASSUME TypeOK, RequestsOK, [Next]_vars
  PROVE  TypeOK'
<1>1. ASSUME NEW r \in Reqs, Request(r) \/ BeginReconcile(r)
      PROVE  TypeOK'
  <2>1. PICK kind \in {"add", "reactivate", "deactivate", "delete", "trim", "reconcile"},
             who \in SUBSET Users, to \in SUBSET Users : Begin(r, kind, who, to)
    BY <1>1, ActiveSize DEF Request, Add, Reactivate, Deactivate, Delete, Trim, BeginReconcile
  <2> QED BY <2>1, BeginType
<1>2. ASSUME NEW r \in Reqs, CallProvider(r) \/ AlignProvider(r) \/ SaveFails(r) \/ Undo(r) \/ Crash(r)
      PROVE  TypeOK'
  <2>1. op' \in [Reqs -> Operation]
    BY <1>2, OpTypes DEF CallProvider, AlignProvider, SaveFails, Undo, Crash
  <2>2. left' \in [Counted -> Nat]
    BY <1>2, SpendType DEF CallProvider, AlignProvider, SaveFails, Undo, Crash
  <2>3. op[r].target \in Nat /\ op[r].live \in Nat
    BY DEF TypeOK, Operation
  <2>4. billed' \in Nat /\ settling' \in BOOLEAN /\ drifted' \in BOOLEAN
    BY <1>2, <2>3 DEF CallProvider, AlignProvider, SaveFails, Undo, Crash, TypeOK, billing, Restored, BilledBy
  <2>5. UNCHANGED <<team, plan, sub, sold, checkout, swap, editable, chat, work, stale>>
    BY <1>2 DEF CallProvider, AlignProvider, SaveFails, Undo, Crash, billing
  <2> QED BY <2>1, <2>2, <2>4, <2>5 DEF TypeOK, team, chat, work
<1>3. ASSUME NEW r \in Reqs, Save(r)
      PROVE  TypeOK'
  <2>1. After(op[r].kind) \in {"active", "inactive", "deleted"}
    BY DEF After
  <2>2. user' \in [Users -> {"none", "active", "inactive", "deleted"}]
    BY <1>3, <2>1 DEF Save, TypeOK
  <2>3. op' \in [Reqs -> Operation]
    <3>1. [Idle EXCEPT !.who = op[r].who, !.pc = "left"] \in Operation
      BY DEF TypeOK, Operation, Idle, Plans
    <3> QED BY <1>3, <3>1, OpTypes DEF Save, TypeOK
  <2>4. Under(r) /\ WhoOK(r)
    BY <1>3 DEF Save, Running, Under, RequestsOK
  <2>5. owner' \in [Records -> Users] /\ strayed' \subseteq Records
    <3>1. CASE Removes(op[r].kind)
      <4>1. (CHOOSE v \in op[r].to : TRUE) \in Users
        BY <2>4, <3>1, ActiveSize DEF WhoOK
      <4>2. Reassigned(op[r].who, op[r].to) \in [Records -> Users]
        BY <4>1 DEF Reassigned, TypeOK
      <4> QED BY <1>3, <3>1, <4>2 DEF Save, TypeOK
    <3>2. CASE ~Removes(op[r].kind)
      BY <1>3, <3>2 DEF Save, TypeOK
    <3> QED BY <3>1, <3>2
  <2>6. drifted' \in BOOLEAN /\ loose' \subseteq Users
    BY <1>3 DEF Save, TypeOK, Alive
  <2> QED BY <1>3, <2>2, <2>3, <2>5, <2>6 DEF Save, TypeOK, billing, chat, work
<1>4. ASSUME NEW r \in Reqs, NEW u \in Users, DisconnectRemoved(r, u)
      PROVE  TypeOK'
  <2>1. [op[r] EXCEPT !.who = @ \ {u}] \in Operation
    BY DEF TypeOK, Operation
  <2>2. op' \in [Reqs -> Operation]
    BY <1>4, <2>1, OpTypes DEF DisconnectRemoved, TypeOK
  <2>3. left' \in [Counted -> Nat]
    BY <1>4, SpendType DEF DisconnectRemoved
  <2> QED BY <1>4, <2>2, <2>3 DEF DisconnectRemoved, TypeOK, team, billing, work
<1>5. ASSUME NEW u \in Users, ReadForEdit(u) \/ SaveEdit(u)
      PROVE  TypeOK'
  <2>1. "edits" \in Counted
    BY DEF Counted
  <2>2. left' \in [Counted -> Nat]
    BY <1>5, <2>1, SpendType DEF ReadForEdit, SaveEdit, TypeOK
  <2>3. CASE ReadForEdit(u)
    BY <2>2, <2>3 DEF ReadForEdit, TypeOK, team, billing, chat
  <2>4. CASE SaveEdit(u)
    <3>1. stale' \in BOOLEAN /\ drifted' \in BOOLEAN
      BY <2>4 DEF SaveEdit, TypeOK, Aligning
    <3> QED BY <2>2, <2>4, <3>1 DEF SaveEdit, TypeOK, billing, chat
  <2> QED BY <1>5, <2>3, <2>4
<1>6. ASSUME NEW k \in Records, NEW u \in Users, CheckAgent(k, u)
      PROVE  TypeOK'
  <2>1. "assigns" \in Counted
    BY DEF Counted
  <2>2. left' \in [Counted -> Nat]
    BY <1>6, <2>1, SpendType DEF CheckAgent
  <2> QED BY <1>6, <2>2 DEF CheckAgent, TypeOK, team, billing, chat
<1>7. ASSUME NEW k \in Records, SaveAssignment(k)
      PROVE  TypeOK'
  <2>1. assigning[k] \subseteq Users
    BY DEF TypeOK
  <2> QED BY <1>7, <2>1 DEF SaveAssignment, TypeOK, billing, chat
<1>8. ASSUME \/ StartCheckout \/ AdminStartCheckout \/ Activate \/ End
             \/ (\E p \in {"pro", "enterprise"} : ReadForSwap(p)) \/ Swap \/ PlanChanged
      PROVE  TypeOK'
  <2>1. {"checkouts", "subs", "swaps"} \subseteq Counted
    BY DEF Counted
  <2>2. left' \in [Counted -> Nat]
    BY <1>8, <2>1, SpendType DEF StartCheckout, AdminStartCheckout, Open, Activate, End, ReadForSwap, Swap, PlanChanged,
                                 TypeOK
  <2>3. Larger(Cardinality(Active), 1) \in Nat /\ Cardinality(Active) \in Nat /\ Cardinality(Users) \in Nat
    BY ActiveSize, FS_CardinalityType DEF Larger
  <2>4. {"pro", "enterprise", "free"} \subseteq Plans
    BY DEF Plans
  <2>5. CASE StartCheckout \/ AdminStartCheckout
    <3>1. checkout' \in [plan : Plans, seats : Nat, team : Nat]
      BY <2>3, <2>4, <2>5 DEF StartCheckout, AdminStartCheckout, Open
    <3> QED BY <2>2, <2>5, <3>1 DEF StartCheckout, AdminStartCheckout, Open, TypeOK, team, chat, work
  <2>6. CASE Activate
    <3>1. /\ billed' \in Nat /\ plan' \in Plans /\ sold' \in Plans /\ sub' \in Nat
          /\ settling' \in BOOLEAN /\ drifted' \in BOOLEAN
      BY <2>3, <2>6 DEF Activate, TypeOK
    <3>2. checkout' \in [plan : Plans, seats : Nat, team : Nat]
      BY <2>4, <2>6 DEF Activate, NoCheckout
    <3> QED BY <2>2, <2>6, <3>1, <3>2 DEF Activate, TypeOK, team, chat, work
  <2>7. CASE End
    <3>1. /\ plan' = "free" /\ sold' = "free" /\ sub' = sub + 1 /\ billed' = 0 /\ settling' = FALSE
          /\ UNCHANGED <<team, checkout, swap, editable, op, chat, work, drifted, stale>>
      BY <2>7 DEF End
    <3>2. plan' \in Plans /\ sold' \in Plans
      BY <2>4, <3>1
    <3>3. sub' \in Nat /\ billed' \in Nat
      BY <3>1 DEF TypeOK
    <3>4. settling' \in BOOLEAN
      BY <3>1
    <3> QED BY <2>2, <3>1, <3>2, <3>3, <3>4 DEF TypeOK, team, chat, work
  <2>8. CASE \E p \in {"pro", "enterprise"} : ReadForSwap(p)
    <3>1. swap' \in [plan : Plans, sub : Nat, live : Nat]
      BY <2>4, <2>8 DEF ReadForSwap, TypeOK
    <3> QED BY <2>2, <2>8, <3>1 DEF ReadForSwap, TypeOK, team, chat, work
  <2>9. CASE Swap
    <3>1. /\ swap' \in [plan : Plans, sub : Nat, live : Nat]
          /\ UNCHANGED <<team, plan, sub, checkout, editable, settling, op, chat, work>>
      BY <2>4, <2>9 DEF Swap, NoSwap
    <3>2. swap.live \in Nat /\ swap.plan \in Plans
      BY DEF TypeOK
    <3>3. Shifted(swap.plan, swap.live) \in Nat
      BY <3>2 DEF Shifted, Larger
    <3>4. billed' \in Nat /\ sold' \in Plans /\ stale' \in BOOLEAN /\ drifted' \in BOOLEAN
      BY <2>9, <3>2, <3>3 DEF Swap, TypeOK, Aligning
    <3> QED BY <2>2, <3>1, <3>4 DEF TypeOK, team, chat, work
  <2>10. CASE PlanChanged
    BY <2>2, <2>10 DEF PlanChanged, TypeOK, team, chat, work
  <2> QED BY <1>8, <2>5, <2>6, <2>7, <2>8, <2>9, <2>10
<1>9. ASSUME NEW u \in Users, Connect(u) \/ StoreConnection(u) \/ CronDisconnect(u)
      PROVE  TypeOK'
  <2>1. "joins" \in Counted
    BY DEF Counted
  <2>2. left' \in [Counted -> Nat]
    BY <1>9, <2>1, SpendType DEF Connect, StoreConnection, CronDisconnect, TypeOK
  <2> QED BY <1>9, <2>2 DEF Connect, StoreConnection, CronDisconnect, TypeOK, team, billing, work
<1>10. ASSUME FindStranded
       PROVE  TypeOK'
  BY <1>10 DEF FindStranded, TypeOK, team, billing, work
<1>11. ASSUME UNCHANGED vars
       PROVE  TypeOK'
  BY <1>11 DEF vars, TypeOK, team, billing, chat, work
<1> QED BY <1>1, <1>2, <1>3, <1>4, <1>5, <1>6, <1>7, <1>8, <1>9, <1>10, <1>11 DEF Next, Step

-----------------------------------------------------------------------------
(* Requests: one at a time, and what each checked stays so.                *)

Kinds == {"add", "reactivate", "deactivate", "delete", "trim", "reconcile"}

(* What the checks of the six operations establish.                        *)
Checked(kind, who, to) ==
  /\ who \subseteq Users /\ to \subseteq Users
  /\ Grows(kind) => \E u \in Users : who = {u} /\ u \notin Active
  /\ Removes(kind) => \E v \in Active : to = {v} /\ v \notin who
  /\ kind \in {"deactivate", "delete"} => \E u \in Users : who = {u}
  /\ kind = "deactivate" => who \subseteq Active
  /\ kind = "reconcile" => settling /\ Billed(plan)
  /\ (plan = "free" /\ Grows(kind)) \/ (plan = "comp" /\ kind = "add") => UnderCap

LEMMA RequestIsChecked ==
  ASSUME TypeOK, NEW r \in Reqs, Request(r) \/ BeginReconcile(r)
  PROVE  \E kind \in Kinds, who, to \in SUBSET Users : Begin(r, kind, who, to) /\ Checked(kind, who, to)
<1> USE DEF Kinds, Checked, Grows, Removes
<1>1. ASSUME NEW u \in Users, Add(r, u) PROVE Begin(r, "add", {u}, {}) /\ Checked("add", {u}, {})
  BY <1>1 DEF Add, Active, Billed
<1>2. ASSUME NEW u \in Users, Reactivate(r, u) PROVE Begin(r, "reactivate", {u}, {}) /\ Checked("reactivate", {u}, {})
  BY <1>2 DEF Reactivate, Active
<1>3. ASSUME NEW u \in Users, NEW v \in Users, Deactivate(r, u, v)
      PROVE  Begin(r, "deactivate", {u}, {v}) /\ Checked("deactivate", {u}, {v})
  BY <1>3 DEF Deactivate
<1>4. ASSUME NEW u \in Users, NEW v \in Users, Delete(r, u, v)
      PROVE  Begin(r, "delete", {u}, {v}) /\ Checked("delete", {u}, {v})
  BY <1>4 DEF Delete
<1>5. ASSUME NEW k \in Users, Trim(r, k)
      PROVE  Begin(r, "trim", Active \ {k}, {k}) /\ Checked("trim", Active \ {k}, {k})
  BY <1>5, ActiveSize DEF Trim
<1>6. ASSUME BeginReconcile(r) PROVE Begin(r, "reconcile", {}, {}) /\ Checked("reconcile", {}, {})
  BY <1>6 DEF BeginReconcile
<1>7. {} \in SUBSET Users /\ \A u \in Users : {u} \in SUBSET Users
  OBVIOUS
<1>8. \A k : Active \ {k} \in SUBSET Users
  BY ActiveSize
<1> HIDE DEF Checked, Grows, Removes
<1> DEFINE Goal == \E kind \in Kinds, who, to \in SUBSET Users : Begin(r, kind, who, to) /\ Checked(kind, who, to)
<1>9. ASSUME NEW kind \in Kinds, NEW who \in SUBSET Users, NEW to \in SUBSET Users,
             Begin(r, kind, who, to) /\ Checked(kind, who, to)
      PROVE  Goal
  BY <1>9
<1> HIDE DEF Goal
<1>10. ASSUME NEW u \in Users, Add(r, u) \/ Reactivate(r, u) PROVE Goal
  <2>1. PICK kind \in {"add", "reactivate"} : Begin(r, kind, {u}, {}) /\ Checked(kind, {u}, {})
    BY <1>1, <1>2, <1>10
  <2>2. kind \in Kinds
    BY <2>1
  <2> QED BY <1>7, <1>9, <2>1, <2>2
<1>11. ASSUME NEW u \in Users, NEW v \in Users, Deactivate(r, u, v) \/ Delete(r, u, v) PROVE Goal
  BY <1>3, <1>4, <1>7, <1>9, <1>11
<1>12. ASSUME NEW k \in Users, Trim(r, k) PROVE Goal
  BY <1>5, <1>7, <1>8, <1>9, <1>12
<1>13. BeginReconcile(r) => Goal
  BY <1>6, <1>9
<1>14. Goal
  BY <1>10, <1>11, <1>12, <1>13 DEF Request
<1> QED BY <1>14 DEF Goal

LEMMA BeginKeepsRequests ==
  ASSUME TypeOK, LockOK, RequestsOK, NEW r \in Reqs, NEW kind \in Kinds, NEW who, NEW to,
         Begin(r, kind, who, to), Checked(kind, who, to)
  PROVE  LockOK' /\ RequestsOK'
<1>1. \A q \in Reqs : ~Under(q)
  BY DEF Begin, LockFree, Under
<1>2. \A q \in Reqs : q # r => op'[q] = op[q]
  BY DEF Begin, TypeOK
<1>3. /\ op'[r].kind = kind /\ op'[r].who = who /\ op'[r].to = to /\ op'[r].plan = plan
      /\ op'[r].sub = sub /\ op'[r].pc \in {"bill", "save"}
      /\ op'[r].pc = "bill" => Billed(plan) /\ (kind = "delete" => who \subseteq Active)
      /\ kind = "reconcile" => op'[r].pc = "bill"
  BY DEF Begin, TypeOK, Checked
<1>4. UNCHANGED <<user, plan, sub, settling>>
  BY DEF Begin, team, billing
<1>5. LockOK'
  BY <1>1, <1>2 DEF LockOK, Under
<1>6. Active' = Active /\ sub \in Nat
  BY <1>4 DEF Active, TypeOK
<1>7. WhoOK(r)'
  BY <1>3, <1>6 DEF WhoOK, Checked, Kinds
<1>8. ReadOK(r)'
  BY <1>3, <1>4, <1>6 DEF ReadOK, Checked
<1>9. RequestsOK'
  BY <1>1, <1>2, <1>7, <1>8 DEF RequestsOK, Under
<1> QED BY <1>5, <1>9

(* A request that ends, or goes on under the lock.                         *)
LEMMA MoveKeepsRequests ==
  ASSUME TypeOK, LockOK, RequestsOK, NEW r \in Reqs, UNCHANGED <<user, plan, sub>>,
         \/ Finish(r) /\ (UNCHANGED settling \/ Under(r))
         \/ \E pc \in {"save", "undo"} : /\ Goto(r, pc) /\ Under(r) /\ op[r].kind # "reconcile"
                                         /\ UNCHANGED settling /\ (pc = "undo" => BilledBy(r))
  PROVE  LockOK' /\ RequestsOK'
<1>1. \A q \in Reqs : q # r => op'[q] = op[q]
  BY DEF Finish, Goto, TypeOK
<1>2. Active' = Active
  BY DEF Active
<1>3. CASE Finish(r) /\ (UNCHANGED settling \/ Under(r))
  <2>1. op'[r] = Idle
    BY <1>3 DEF Finish, TypeOK
  <2>2. ~Under(r)'
    BY <2>1 DEF Under, Idle
  <2>3. LockOK'
    BY <1>1, <2>2 DEF LockOK, Under
  <2>4. \A q \in Reqs : Under(q)' => q # r /\ Under(q) /\ UNCHANGED settling
    BY <1>1, <1>3, <2>2 DEF LockOK, Under
  <2>5. \A q \in Reqs : Under(q)' => WhoOK(q)' /\ ReadOK(q)'
    <3>1. SUFFICES ASSUME NEW q \in Reqs, Under(q)' PROVE WhoOK(q)' /\ ReadOK(q)'
      OBVIOUS
    <3>2. WhoOK(q) /\ ReadOK(q) /\ op'[q] = op[q] /\ UNCHANGED settling
      BY <1>1, <2>4, <3>1 DEF RequestsOK
    <3> QED BY <1>2, <3>2 DEF WhoOK, ReadOK
  <2> QED BY <2>3, <2>5 DEF RequestsOK
<1>4. ASSUME NEW pc \in {"save", "undo"}, Goto(r, pc), Under(r), op[r].kind # "reconcile", UNCHANGED settling,
             pc = "undo" => BilledBy(r)
      PROVE  LockOK' /\ RequestsOK'
  <2>1. op'[r] = [op[r] EXCEPT !.pc = pc]
    BY <1>4 DEF Goto, TypeOK
  <2>2. /\ op'[r].pc = pc
        /\ op'[r].kind = op[r].kind /\ op'[r].who = op[r].who /\ op'[r].to = op[r].to
        /\ op'[r].plan = op[r].plan /\ op'[r].sub = op[r].sub
    BY <2>1 DEF TypeOK, Operation
  <2>3. LockOK'
    BY <1>1, <1>4 DEF LockOK, Under
  <2>4. WhoOK(r)'
    BY <1>2, <1>4, <2>2 DEF RequestsOK, WhoOK
  <2>6. pc = "undo" => Billed(op[r].plan) /\ (op[r].kind = "delete" => op[r].who \subseteq Active)
    BY <1>4 DEF BilledBy, Active, TypeOK, Operation
  <2>7. ReadOK(r)'
    BY <1>2, <1>4, <2>2, <2>6 DEF RequestsOK, ReadOK
  <2>5. \A q \in Reqs : q # r => ~Under(q)'
    BY <1>1, <1>4 DEF LockOK, Under
  <2> QED BY <2>3, <2>4, <2>5, <2>7 DEF RequestsOK
<1> QED BY <1>3, <1>4

(* A request that has saved, or is past its commit, is under the lock no more. *)
LEMMA LeaveKeepsRequests ==
  ASSUME TypeOK, LockOK, RequestsOK, NEW r \in Reqs, UNCHANGED <<plan, sub, settling>>,
         \A q \in Reqs : q # r => op'[q] = op[q], op'[r].pc \in {"idle", "left"},
         UNCHANGED user \/ Under(r)
  PROVE  LockOK' /\ RequestsOK'
<1>1. ~Under(r)'
  BY DEF Under
<1>2. LockOK'
  BY <1>1 DEF LockOK, Under
<1>3. \A q \in Reqs : Under(q)' => q # r /\ Under(q) /\ UNCHANGED user
  BY <1>1 DEF LockOK, Under
<1>4. \A q \in Reqs : Under(q)' => WhoOK(q)' /\ ReadOK(q)'
  <2>1. SUFFICES ASSUME NEW q \in Reqs, Under(q)' PROVE WhoOK(q)' /\ ReadOK(q)'
    OBVIOUS
  <2>2. WhoOK(q) /\ ReadOK(q) /\ op'[q] = op[q] /\ UNCHANGED user /\ Active' = Active
    BY <1>3, <2>1 DEF RequestsOK, Active
  <2> QED BY <2>2 DEF WhoOK, ReadOK
<1> QED BY <1>2, <1>4 DEF RequestsOK

LEMMA SaveLeaves ==
  ASSUME TypeOK, NEW r \in Reqs, Save(r)
  PROVE  /\ Under(r) /\ \A q \in Reqs : q # r => op'[q] = op[q]
         /\ op'[r].pc \in {"idle", "left"}
<1>1. CASE Removes(op[r].kind)
  <2>1. op' = [op EXCEPT ![r] = [Idle EXCEPT !.who = op[r].who, !.pc = "left"]] /\ op[r].pc = "save"
    BY <1>1 DEF Save, Running
  <2>2. op'[r].pc = "left"
    BY <2>1 DEF Idle, TypeOK
  <2> QED BY <2>1, <2>2 DEF Under, TypeOK
<1>2. CASE ~Removes(op[r].kind)
  BY <1>2 DEF Save, Running, Under, Finish, Idle, TypeOK
<1> QED BY <1>1, <1>2

LEMMA DisconnectLeaves ==
  ASSUME TypeOK, NEW r \in Reqs, NEW u \in Users, DisconnectRemoved(r, u)
  PROVE  (\A q \in Reqs : q # r => op'[q] = op[q]) /\ op'[r].pc \in {"idle", "left"}
<1>1. op[r].pc = "left" /\ op[r] \in Operation
  BY DEF DisconnectRemoved, Running, TypeOK
<1> QED BY <1>1 DEF DisconnectRemoved, Finish, Idle, TypeOK, Operation

(* An edit changes no user that a request under the lock holds.            *)
LEMMA EditKeepsRequests ==
  ASSUME TypeOK, LockOK, RequestsOK, NEW u \in Users, SaveEdit(u)
  PROVE  LockOK' /\ RequestsOK'
<1>1. UNCHANGED <<op, plan, sub, settling>>
  BY DEF SaveEdit, billing
<1>2. LockOK'
  BY <1>1 DEF LockOK, Under
<1>3. \A q \in Reqs : Under(q) => WhoOK(q)' /\ ReadOK(q)'
  <2>1. SUFFICES ASSUME NEW q \in Reqs, Under(q) PROVE WhoOK(q)' /\ ReadOK(q)'
    OBVIOUS
  <2>2. u \notin op[q].who /\ u \notin op[q].to
    BY <2>1 DEF SaveEdit, Held, Under
  <2>3. \A v \in Users : v # u => (v \in Active <=> v \in Active')
    BY DEF SaveEdit, Active, TypeOK
  <2>4. Active \subseteq Users
    BY ActiveSize
  <2>5. WhoOK(q) /\ ReadOK(q) /\ op[q].who \subseteq Users
    BY <2>1 DEF RequestsOK, TypeOK, Operation
  <2>6. WhoOK(q)'
    BY <1>1, <2>2, <2>3, <2>4, <2>5 DEF WhoOK
  <2>7. ReadOK(q)'
    BY <1>1, <2>2, <2>3, <2>5 DEF ReadOK
  <2> QED BY <2>6, <2>7
<1> QED BY <1>1, <1>2, <1>3 DEF RequestsOK, Under

(* The plan of the row becomes the one at the provider, billed by seat too. *)
LEMMA SwitchKeepsRequests ==
  ASSUME TypeOK, LockOK, RequestsOK, SubOK, PlanChanged
  PROVE  LockOK' /\ RequestsOK'
<1>1. UNCHANGED <<op, user, sub, settling>> /\ plan' = sold
  BY DEF PlanChanged, team
<1>2. Active' = Active /\ (Billed(plan') <=> Billed(plan))
  BY <1>1 DEF Active, SubOK
<1>3. LockOK'
  BY <1>1 DEF LockOK, Under
<1>4. \A q \in Reqs : Under(q) => WhoOK(q)' /\ ReadOK(q)'
  <2>1. SUFFICES ASSUME NEW q \in Reqs, Under(q) PROVE WhoOK(q)' /\ ReadOK(q)'
    OBVIOUS
  <2>2. WhoOK(q) /\ ReadOK(q)
    BY <2>1 DEF RequestsOK
  <2> QED BY <1>1, <1>2, <2>2 DEF WhoOK, ReadOK
<1> QED BY <1>1, <1>3, <1>4 DEF RequestsOK, Under

(* A plan that starts or ends has another subscription than any request    *)
(* under way has read.                                                     *)
LEMMA PlanKeepsRequests ==
  ASSUME TypeOK, LockOK, RequestsOK, Activate \/ End
  PROVE  LockOK' /\ RequestsOK'
<1>1. UNCHANGED <<op, user>> /\ sub' = sub + 1 /\ sub \in Nat
  BY DEF Activate, End, team, TypeOK
<1>2. Active' = Active
  BY <1>1 DEF Active
<1>3. LockOK'
  BY <1>1 DEF LockOK, Under
<1>4. \A q \in Reqs : Under(q) => WhoOK(q)' /\ ReadOK(q)'
  <2>1. SUFFICES ASSUME NEW q \in Reqs, Under(q) PROVE WhoOK(q)' /\ ReadOK(q)'
    OBVIOUS
  <2>2. WhoOK(q) /\ ReadOK(q) /\ op[q].sub \in Nat
    BY <2>1 DEF RequestsOK, TypeOK, Operation
  <2> QED BY <1>1, <1>2, <2>2 DEF WhoOK, ReadOK
<1> QED BY <1>1, <1>3, <1>4 DEF RequestsOK, Under

LEMMA RequestsStep ==
  ASSUME TypeOK, LockOK, RequestsOK, SubOK, [Next]_vars
  PROVE  LockOK' /\ RequestsOK'
<1>1. ASSUME NEW r \in Reqs, Request(r) \/ BeginReconcile(r)
      PROVE  LockOK' /\ RequestsOK'
  BY <1>1, RequestIsChecked, BeginKeepsRequests
<1>2. ASSUME NEW r \in Reqs, CallProvider(r) \/ AlignProvider(r) \/ SaveFails(r) \/ Undo(r) \/ Crash(r)
      PROVE  LockOK' /\ RequestsOK'
  <2>1. UNCHANGED <<user, plan, sub>>
    BY <1>2 DEF CallProvider, AlignProvider, SaveFails, Undo, Crash, team, billing
  <2>2. CallProvider(r) \/ AlignProvider(r) \/ SaveFails(r) \/ Undo(r) => Under(r)
    BY DEF CallProvider, AlignProvider, SaveFails, Undo, Running, Under
  <2>3. Running(r, "save") => op[r].kind # "reconcile"
    BY DEF RequestsOK, WhoOK, Running, Under
  <2>4. \/ Finish(r) /\ (UNCHANGED settling \/ Under(r))
        \/ \E pc \in {"save", "undo"} : /\ Goto(r, pc) /\ Under(r) /\ op[r].kind # "reconcile"
                                        /\ UNCHANGED settling /\ (pc = "undo" => BilledBy(r))
    BY <1>2, <2>2, <2>3 DEF CallProvider, AlignProvider, SaveFails, Undo, Crash, billing
  <2> QED BY <2>1, <2>4, MoveKeepsRequests
<1>3. ASSUME NEW r \in Reqs, Save(r)
      PROVE  LockOK' /\ RequestsOK'
  <2>1. UNCHANGED <<plan, sub, settling>>
    BY <1>3 DEF Save, billing
  <2> QED BY <1>3, <2>1, SaveLeaves, LeaveKeepsRequests
<1>4. ASSUME NEW r \in Reqs, NEW u \in Users, DisconnectRemoved(r, u)
      PROVE  LockOK' /\ RequestsOK'
  <2>1. UNCHANGED <<plan, sub, settling, user>>
    BY <1>4 DEF DisconnectRemoved, billing, team
  <2> QED BY <1>4, <2>1, DisconnectLeaves, LeaveKeepsRequests
<1>5. ASSUME UNCHANGED <<op, user, plan, sub, settling>>
      PROVE  LockOK' /\ RequestsOK'
  <2>1. Active' = Active
    BY <1>5 DEF Active
  <2>2. \A q \in Reqs : Under(q)' <=> Under(q)
    BY <1>5 DEF Under
  <2>3. \A q \in Reqs : WhoOK(q) /\ ReadOK(q) => WhoOK(q)' /\ ReadOK(q)'
    BY <1>5, <2>1 DEF WhoOK, ReadOK
  <2> QED BY <2>2, <2>3 DEF LockOK, RequestsOK
<1>6. ASSUME \/ \E u \in Users : ReadForEdit(u) \/ Connect(u) \/ StoreConnection(u) \/ CronDisconnect(u)
             \/ \E k \in Records : (\E u \in Users : CheckAgent(k, u)) \/ SaveAssignment(k)
             \/ StartCheckout \/ AdminStartCheckout \/ FindStranded
             \/ (\E p \in {"pro", "enterprise"} : ReadForSwap(p)) \/ UNCHANGED vars
      PROVE  UNCHANGED <<op, user, plan, sub, settling>>
  BY <1>6 DEF ReadForEdit, Connect, StoreConnection, CronDisconnect, CheckAgent, SaveAssignment,
              StartCheckout, AdminStartCheckout, Open, ReadForSwap, FindStranded, vars, team, billing
<1>7. Swap => UNCHANGED <<op, user, plan, sub, settling>>
  BY DEF Swap, team
<1> QED BY <1>1, <1>2, <1>3, <1>4, <1>5, <1>6, <1>7, EditKeepsRequests, SwitchKeepsRequests, PlanKeepsRequests
        DEF Next, Step

-----------------------------------------------------------------------------
(* The team: somebody is active, and answers for every record.             *)

(* What a commit does to the team.                                         *)
LEMMA SaveTeam ==
  ASSUME TypeOK, RequestsOK, NEW r \in Reqs, Save(r)
  PROVE  /\ WhoOK(r) /\ ReadOK(r) /\ Under(r) /\ op[r].who \in SUBSET Users
         /\ op[r].kind \in {"add", "reactivate", "deactivate", "delete", "trim"}
         /\ Active' = IF Grows(op[r].kind) THEN Active \cup op[r].who ELSE Active \ op[r].who
         /\ Active' # {}
<1>1. WhoOK(r) /\ ReadOK(r) /\ Under(r) /\ op[r].who \in SUBSET Users
  BY DEF Save, Running, Under, RequestsOK, TypeOK, Operation
<1>2. op[r].kind \in {"add", "reactivate", "deactivate", "delete", "trim"}
  BY <1>1 DEF WhoOK, Save, Running, TypeOK, Operation
<1>3. user' = [u \in Users |-> IF u \in op[r].who THEN After(op[r].kind) ELSE user[u]]
  BY DEF Save
<1>4. CASE Grows(op[r].kind)
  <2>1. After(op[r].kind) = "active"
    BY <1>4 DEF After
  <2>2. Active' = Active \cup op[r].who
    BY <1>1, <1>3, <2>1 DEF Active
  <2>3. op[r].who # {}
    BY <1>1, <1>4 DEF WhoOK
  <2> QED BY <1>1, <1>2, <1>4, <2>2, <2>3
<1>5. CASE ~Grows(op[r].kind)
  <2>1. After(op[r].kind) # "active" /\ Removes(op[r].kind)
    BY <1>2, <1>5 DEF After, Grows, Removes
  <2>2. Active' = Active \ op[r].who
    BY <1>1, <1>3, <2>1 DEF Active
  <2>3. PICK v \in Active : v \notin op[r].who
    BY <1>1, <2>1 DEF WhoOK
  <2> QED BY <1>1, <1>2, <1>5, <2>2, <2>3
<1> QED BY <1>4, <1>5

(* An edit that changes a user makes it loose and the seats drift.         *)
LEMMA EditTeam ==
  ASSUME TypeOK, NEW u \in Users, SaveEdit(u)
  PROVE  \/ UNCHANGED <<user, loose, drifted>>
         \/ /\ u \in loose' /\ loose \subseteq loose' /\ drifted' = TRUE
            /\ \A v \in Users : v # u => (v \in Active <=> v \in Active')
<1>1. CASE user[u] = editing[u]
  <2>1. user' = user
    BY <1>1 DEF SaveEdit, TypeOK
  <2> QED BY <1>1, <2>1 DEF SaveEdit
<1>2. CASE user[u] # editing[u]
  BY <1>2 DEF SaveEdit, Active, TypeOK
<1> QED BY <1>1, <1>2

(* Every other step leaves the users alone, and says the seats match only  *)
(* where somebody is active.                                               *)
LEMMA OtherTeam ==
  ASSUME TypeOK, [Next]_vars, \A r \in Reqs : ~Save(r), \A u \in Users : ~SaveEdit(u)
  PROVE  UNCHANGED <<user, loose>> /\ (drifted' = drifted \/ drifted' = TRUE \/ (drifted' = FALSE => Active # {}))
<1>1. ASSUME NEW r \in Reqs, Request(r) \/ BeginReconcile(r)
      PROVE  UNCHANGED <<user, loose>> /\ (drifted' = drifted \/ drifted' = TRUE)
  <2>1. UNCHANGED <<user, loose>> /\ drifted' = (drifted \/ plan # sold) /\ drifted \in BOOLEAN
    BY <1>1 DEF Request, Add, Reactivate, Deactivate, Delete, Trim, BeginReconcile, Begin, team, TypeOK
  <2> QED BY <2>1
<1>2. ASSUME NEW r \in Reqs, CallProvider(r) \/ SaveFails(r) \/ Undo(r)
      PROVE  UNCHANGED <<user, loose>> /\ (drifted' = drifted \/ drifted' = TRUE)
  BY <1>2 DEF CallProvider, SaveFails, Undo, team
<1>3. ASSUME NEW r \in Reqs, Crash(r)
      PROVE  UNCHANGED <<user, loose>> /\ (drifted' = drifted \/ drifted' = TRUE)
  <2>1. drifted' = (drifted \/ BilledBy(r)) /\ drifted \in BOOLEAN
    BY <1>3 DEF Crash, TypeOK
  <2>2. UNCHANGED <<user, loose>>
    BY <1>3 DEF Crash, team
  <2> QED BY <2>1, <2>2
<1>4. ASSUME NEW r \in Reqs, AlignProvider(r)
      PROVE  UNCHANGED <<user, loose>> /\ (drifted' = drifted \/ (drifted' = FALSE => Active # {}))
  BY <1>4 DEF AlignProvider, team
<1>5. ASSUME NEW r \in Reqs, \E u \in Users : DisconnectRemoved(r, u)
      PROVE  UNCHANGED <<user, loose, drifted>>
  BY <1>5 DEF DisconnectRemoved, team
<1>6. ASSUME Activate
      PROVE  UNCHANGED <<user, loose>> /\ (drifted' = FALSE => Active # {})
  BY <1>6 DEF Activate, team
<1>7. ASSUME \/ \E u \in Users : ReadForEdit(u) \/ Connect(u) \/ StoreConnection(u) \/ CronDisconnect(u)
             \/ \E k \in Records : (\E u \in Users : CheckAgent(k, u)) \/ SaveAssignment(k)
             \/ StartCheckout \/ AdminStartCheckout \/ FindStranded \/ End
             \/ (\E p \in {"pro", "enterprise"} : ReadForSwap(p)) \/ PlanChanged \/ UNCHANGED vars
      PROVE  UNCHANGED <<user, loose, drifted>>
  BY <1>7 DEF ReadForEdit, Connect, StoreConnection, CronDisconnect, CheckAgent, SaveAssignment,
              StartCheckout, AdminStartCheckout, Open, ReadForSwap, PlanChanged, FindStranded, End, vars, team
<1>8. ASSUME Swap
      PROVE  UNCHANGED <<user, loose>> /\ (drifted' = drifted \/ drifted' = TRUE)
  <2>1. UNCHANGED <<user, loose>>
    BY <1>8 DEF Swap, team
  <2>2. UNCHANGED drifted \/ drifted' = (drifted \/ billed # swap.live \/ ~LockFree \/ sold = swap.plan)
    BY <1>8 DEF Swap
  <2>3. drifted \in BOOLEAN
    BY DEF TypeOK
  <2> QED BY <2>1, <2>2, <2>3
<1> QED BY <1>1, <1>2, <1>3, <1>4, <1>5, <1>6, <1>7, <1>8 DEF Next, Step

LEMMA NotEmptyStep ==
  ASSUME TypeOK, RequestsOK, NotEmpty, [Next]_vars
  PROVE  NotEmpty'
<1>1. ASSUME NEW r \in Reqs, Save(r) PROVE NotEmpty'
  BY <1>1, SaveTeam DEF NotEmpty
<1>2. ASSUME NEW u \in Users, SaveEdit(u) PROVE NotEmpty'
  BY <1>2, EditTeam DEF NotEmpty, Active
<1>3. ASSUME \A r \in Reqs : ~Save(r), \A u \in Users : ~SaveEdit(u) PROVE NotEmpty'
  <2>1. Active' = Active
    BY <1>3, OtherTeam DEF Active
  <2>2. drifted' \in BOOLEAN
    BY TypeStep DEF TypeOK
  <2>3. loose' = loose /\ (drifted' = drifted \/ drifted' = TRUE \/ (drifted' = FALSE => Active # {}))
    BY <1>3, OtherTeam
  <2> QED BY <2>1, <2>2, <2>3, Zenon DEF NotEmpty
<1> QED BY <1>1, <1>2, <1>3

LEMMA OwnersStep ==
  ASSUME TypeOK, RequestsOK, OwnersActive, [Next]_vars
  PROVE  OwnersActive'
<1>1. ASSUME NEW r \in Reqs, Save(r) PROVE OwnersActive'
  <2>1. SUFFICES ASSUME NEW k \in Records PROVE owner'[k] \in Active' \/ k \in strayed' \/ owner'[k] \in loose'
    BY DEF OwnersActive
  <2>2. owner[k] \in Active \/ k \in strayed \/ owner[k] \in loose
    BY DEF OwnersActive
  <2>3. loose' = loose \ op[r].who
    BY <1>1 DEF Save
  <2>4. CASE Grows(op[r].kind)
    <3>1. owner' = owner /\ strayed' = strayed
      BY <1>1, <2>4 DEF Save, Grows, Removes
    <3>2. Active' = Active \cup op[r].who
      BY <1>1, <2>4, SaveTeam
    <3> QED BY <2>2, <2>3, <3>1, <3>2
  <2>5. CASE ~Grows(op[r].kind)
    <3>1. Active' = Active \ op[r].who /\ Removes(op[r].kind) /\ WhoOK(r)
      BY <1>1, <2>5, SaveTeam DEF Grows, Removes
    <3>2. owner' = Reassigned(op[r].who, op[r].to) /\ strayed' = {j \in strayed : owner[j] \notin op[r].who}
      BY <1>1, <3>1 DEF Save
    <3>3. CASE owner[k] \in op[r].who
      <4>1. PICK v \in Active : op[r].to = {v} /\ v \notin op[r].who
        BY <3>1 DEF WhoOK
      <4>2. owner'[k] = CHOOSE w \in op[r].to : TRUE
        BY <3>2, <3>3 DEF Reassigned
      <4>3. owner'[k] = v
        BY <4>1, <4>2
      <4> QED BY <3>1, <4>1, <4>3
    <3>4. CASE owner[k] \notin op[r].who
      <4>1. owner'[k] = owner[k]
        BY <3>2, <3>4 DEF Reassigned
      <4> QED BY <2>2, <2>3, <3>1, <3>2, <3>4, <4>1
    <3> QED BY <3>3, <3>4
  <2> QED BY <2>4, <2>5
<1>2. ASSUME NEW u \in Users, SaveEdit(u) PROVE OwnersActive'
  <2>1. UNCHANGED <<owner, strayed>>
    BY <1>2 DEF SaveEdit
  <2>2. \A k \in Records : owner[k] \in Users
    BY DEF TypeOK
  <2>3. CASE UNCHANGED <<user, loose>>
    BY <2>1, <2>3 DEF OwnersActive, Active
  <2>4. CASE u \in loose' /\ loose \subseteq loose' /\ \A v \in Users : v # u => (v \in Active <=> v \in Active')
    BY <2>1, <2>2, <2>4 DEF OwnersActive
  <2> QED BY <1>2, <2>3, <2>4, EditTeam
<1>3. ASSUME \A r \in Reqs : ~Save(r), \A u \in Users : ~SaveEdit(u) PROVE OwnersActive'
  <2>1. Active' = Active /\ loose' = loose
    BY <1>3, OtherTeam DEF Active
  <2>2. ASSUME NEW k \in Records, SaveAssignment(k) PROVE OwnersActive'
    <3>1. PICK u \in assigning[k] : /\ owner' = [owner EXCEPT ![k] = u]
                                    /\ strayed' = IF u \in Active THEN strayed \ {k} ELSE strayed \cup {k}
      BY <2>2 DEF SaveAssignment
    <3>2. owner'[k] = u /\ \A j \in Records : j # k => owner'[j] = owner[j]
      BY <3>1 DEF TypeOK
    <3> QED BY <2>1, <3>1, <3>2 DEF OwnersActive
  <2>3. ASSUME \A k \in Records : ~SaveAssignment(k) PROVE OwnersActive'
    <3>1. UNCHANGED <<owner, strayed>>
      BY <1>3, <2>3 DEF Next, Step, Request, Add, Reactivate, Deactivate, Delete, Trim, BeginReconcile, Begin,
         CallProvider, AlignProvider, SaveFails, Undo, Crash, DisconnectRemoved, ReadForEdit, CheckAgent,
         StartCheckout, AdminStartCheckout, Open, Activate, End, ReadForSwap, Swap, PlanChanged, Connect,
         StoreConnection, CronDisconnect, FindStranded, vars, team
    <3> QED BY <2>1, <3>1 DEF OwnersActive
  <2> QED BY <2>2, <2>3
<1> QED BY <1>1, <1>2, <1>3

-----------------------------------------------------------------------------
(* The subscription: its plan at the provider, its checkout, its switches. *)

LEMMA SubStep ==
  ASSUME TypeOK, SubOK, [Next]_vars
  PROVE  SubOK'
<1>1. ASSUME UNCHANGED <<plan, sub, sold, checkout, swap>> PROVE SubOK'
  BY <1>1 DEF SubOK
<1>2. ASSUME NEW r \in Reqs, Request(r) \/ BeginReconcile(r) PROVE SubOK'
  BY <1>1, <1>2 DEF Request, Add, Reactivate, Deactivate, Delete, Trim, BeginReconcile, Begin, billing
<1>3. ASSUME NEW r \in Reqs, Step(r) PROVE SubOK'
  BY <1>1, <1>3 DEF Step, CallProvider, AlignProvider, Save, SaveFails, Undo, Crash, DisconnectRemoved, billing
<1>4. ASSUME \/ \E u \in Users : ReadForEdit(u) \/ SaveEdit(u) \/ Connect(u) \/ StoreConnection(u) \/ CronDisconnect(u)
             \/ \E k \in Records : (\E u \in Users : CheckAgent(k, u)) \/ SaveAssignment(k)
             \/ FindStranded \/ UNCHANGED vars
      PROVE  SubOK'
  BY <1>1, <1>4 DEF ReadForEdit, SaveEdit, Connect, StoreConnection, CronDisconnect, CheckAgent, SaveAssignment,
                    FindStranded, vars, billing
<1>5. ASSUME StartCheckout \/ AdminStartCheckout PROVE SubOK'
  <2>1. UNCHANGED <<plan, sub, sold, swap>>
    BY <1>5 DEF StartCheckout, AdminStartCheckout, Open
  <2>2. Cardinality(Active) \in Nat
    BY ActiveSize
  <2>3. Billed(checkout'.plan) /\ checkout'.seats = Needed(checkout'.plan, checkout'.team)
    <3>1. CASE StartCheckout
      BY <2>2, <3>1 DEF StartCheckout, Open, Billed, Needed, Larger, Floor
    <3>2. CASE AdminStartCheckout
      <4>1. PICK n \in 1..Cardinality(Users) :
              \/ checkout' = [plan |-> "pro", seats |-> n, team |-> n]
              \/ checkout' = [plan |-> "enterprise", seats |-> n - 1, team |-> n]
        BY <3>2 DEF AdminStartCheckout, Open
      <4>2. n \in Nat /\ n >= 1
        BY <4>1, FS_CardinalityType
      <4> QED BY <4>1, <4>2 DEF Billed, Needed, Larger, Floor
    <3> QED BY <1>5, <3>1, <3>2
  <2> QED BY <2>1, <2>3 DEF SubOK
<1>6. ASSUME Activate \/ End PROVE SubOK'
  <2>1. /\ sub' = sub + 1 /\ sub \in Nat /\ plan' = sold' /\ swap' = swap
        /\ checkout' = NoCheckout \/ checkout' = checkout
    BY <1>6 DEF Activate, End, TypeOK
  <2>2. swap' # NoSwap => swap'.sub <= sub' /\ swap'.sub # sub' /\ Billed(swap'.plan)
    <3>1. swap.sub \in Nat
      BY DEF TypeOK
    <3> QED BY <2>1, <3>1 DEF SubOK
  <2> QED BY <2>1, <2>2 DEF SubOK
<1>7. ASSUME NEW p \in {"pro", "enterprise"}, ReadForSwap(p) PROVE SubOK'
  <2>1. swap' = [plan |-> p, sub |-> sub, live |-> billed] /\ Billed(plan) /\ UNCHANGED <<plan, sub, sold, checkout>>
    BY <1>7 DEF ReadForSwap
  <2> QED BY <2>1 DEF SubOK, Billed, TypeOK
<1>8. ASSUME Swap PROVE SubOK'
  <2>1. swap' = NoSwap /\ UNCHANGED <<plan, sub, checkout>> /\ (sold' = sold \/ (swap.sub = sub /\ sold' = swap.plan))
    BY <1>8 DEF Swap
  <2> QED BY <1>8, <2>1 DEF SubOK, Swap
<1>9. ASSUME PlanChanged PROVE SubOK'
  <2>1. plan' = sold /\ UNCHANGED <<sub, sold, checkout, swap>>
    BY <1>9 DEF PlanChanged
  <2> QED BY <2>1 DEF SubOK
<1> QED BY <1>1, <1>2, <1>3, <1>4, <1>5, <1>6, <1>7, <1>8, <1>9 DEF Next

-----------------------------------------------------------------------------
(* The cap: room for one more until the commit.                            *)

(* Any other step than the start of a request and a commit leaves what the *)
(* requests under the lock have read.                                      *)
LEMMA StaysUnder ==
  ASSUME TypeOK, [Next]_vars, \A r \in Reqs : ~Save(r) /\ ~Request(r) /\ ~BeginReconcile(r), NEW q \in Reqs, Under(q)'
  PROVE  Under(q) /\ op'[q].kind = op[q].kind /\ op'[q].plan = op[q].plan
<1>1. op[q] \in Operation
  BY DEF TypeOK
<1>2. ASSUME NEW r \in Reqs, Finish(r)
      PROVE  op'[q] = op[q]
  BY <1>2 DEF Finish, TypeOK, Idle, Under
<1>3. ASSUME NEW r \in Reqs, NEW pc \in {"save", "undo"}, Goto(r, pc), Under(r)
      PROVE  Under(q) /\ op'[q].kind = op[q].kind /\ op'[q].plan = op[q].plan
  BY <1>1, <1>3 DEF Goto, TypeOK, Operation, Under
<1>4. ASSUME NEW r \in Reqs, CallProvider(r) \/ AlignProvider(r) \/ SaveFails(r) \/ Undo(r) \/ Crash(r)
      PROVE  Finish(r) \/ \E pc \in {"save", "undo"} : Goto(r, pc) /\ Under(r)
  BY <1>4 DEF CallProvider, AlignProvider, SaveFails, Undo, Crash, Running, Under
<1>5. ASSUME NEW r \in Reqs, NEW u \in Users, DisconnectRemoved(r, u)
      PROVE  op'[q] = op[q]
  BY <1>5, DisconnectLeaves DEF Under
<1>6. ASSUME \/ \E u \in Users : ReadForEdit(u) \/ SaveEdit(u) \/ Connect(u) \/ StoreConnection(u) \/ CronDisconnect(u)
             \/ \E k \in Records : (\E u \in Users : CheckAgent(k, u)) \/ SaveAssignment(k)
             \/ StartCheckout \/ AdminStartCheckout \/ Activate \/ End \/ FindStranded
             \/ (\E p \in {"pro", "enterprise"} : ReadForSwap(p)) \/ Swap \/ PlanChanged \/ UNCHANGED vars
      PROVE  op' = op
  BY <1>6 DEF ReadForEdit, SaveEdit, Connect, StoreConnection, CronDisconnect, CheckAgent, SaveAssignment,
              StartCheckout, AdminStartCheckout, Open, Activate, End, ReadForSwap, Swap, PlanChanged,
              FindStranded, vars
<1>7. op'[q] = op[q] => Under(q)
  BY DEF Under
<1> QED BY <1>2, <1>3, <1>4, <1>5, <1>6, <1>7 DEF Next, Step

LEMMA RoomStep ==
  ASSUME TypeOK, LockOK, RequestsOK, RoomOK, [Next]_vars
  PROVE  RoomOK'
<1>1. ASSUME NEW r \in Reqs, Request(r) \/ BeginReconcile(r)
      PROVE  RoomOK'
  <2>1. PICK kind \in Kinds, who \in SUBSET Users, to \in SUBSET Users :
          Begin(r, kind, who, to) /\ Checked(kind, who, to)
    BY <1>1, RequestIsChecked
  <2>2. op'[r].kind = kind /\ op'[r].plan = plan /\ Active' = Active
    BY <2>1 DEF Begin, TypeOK, team, Active
  <2>3. \A q \in Reqs : Under(q)' => q = r
    BY <2>1 DEF Begin, LockFree, Under, TypeOK
  <2>4. Capped(op'[r]) => Cardinality(Active) < Cap[plan]
    BY <2>1, <2>2 DEF Capped, Checked, UnderCap
  <2> QED BY <2>2, <2>3, <2>4 DEF RoomOK
<1>2. ASSUME NEW r \in Reqs, Save(r)
      PROVE  RoomOK'
  BY <1>2, SaveLeaves DEF RoomOK, LockOK, Under
<1>3. ASSUME \A r \in Reqs : ~Save(r) /\ ~Request(r) /\ ~BeginReconcile(r)
      PROVE  RoomOK'
  <2>1. loose' = {} => Active' = Active /\ loose = {}
    <3>1. CASE \E u \in Users : SaveEdit(u)
      BY <3>1, EditTeam DEF Active
    <3>2. CASE ~ \E u \in Users : SaveEdit(u)
      BY <1>3, <3>2, OtherTeam DEF Active
    <3> QED BY <3>1, <3>2
  <2>2. \A q \in Reqs : Under(q)' => Under(q) /\ op'[q].plan = op[q].plan /\ (Capped(op'[q]) <=> Capped(op[q]))
    BY <1>3, StaysUnder DEF Capped
  <2> QED BY <2>1, <2>2 DEF RoomOK
<1> QED BY <1>1, <1>2, <1>3

-----------------------------------------------------------------------------
(* The bill.                                                               *)

LEMMA DueChanges ==
  ASSUME NEW p, NEW n \in Nat, n > 0
  PROVE  /\ Needed(p, n + 1) = Needed(p, n) + 1
         /\ Needed(p, 1) = Floor(p)
         /\ n > 1 => Needed(p, n - 1) = Larger(Needed(p, n) - 1, Floor(p))
BY DEF Needed, Floor, Larger

LEMMA Alone ==
  ASSUME LockOK, NEW r \in Reqs, Under(r), NEW q \in Reqs, q # r
  PROVE  ~Under(q) /\ ~Paying(q) /\ ~Running(q, "bill")
BY DEF LockOK, Under, Paying, BilledBy, Running

(* Requests that are not paying may end.                                   *)
LEMMA BillStays ==
  ASSUME BillOK, UNCHANGED <<user, sub, sold, billed>>, Steady' => Steady,
         \A q \in Reqs : op'[q] = op[q] \/ (~Paying(q) /\ op'[q].pc \in {"idle", "left"})
  PROVE  BillOK'
<1> SUFFICES ASSUME Steady' PROVE BillOK'
  BY DEF BillOK
<1>1. Due' = Due
  BY DEF Due, Active
<1>2. \A q \in Reqs : op'[q] = op[q] => (Paying(q)' <=> Paying(q)) /\ (Running(q, "bill")' <=> Running(q, "bill"))
                                         /\ (Alive(q)' <=> Alive(q))
  BY DEF Paying, BilledBy, Running, Alive
<1>3. \A q \in Reqs : op'[q].pc \in {"idle", "left"} => ~Paying(q)' /\ ~Running(q, "bill")'
  BY DEF Paying, BilledBy, Running
<1>4. (\A q \in Reqs : ~Paying(q)') => billed' = Due'
  BY <1>1, <1>2 DEF BillOK
<1>5. \A q \in Reqs : Paying(q)' => op'[q].live = Due' /\ billed' = DueAfter(sold', op'[q].kind, Due')
  <2>1. SUFFICES ASSUME NEW q \in Reqs, Paying(q)' PROVE op'[q].live = Due' /\ billed' = DueAfter(sold', op'[q].kind, Due')
    OBVIOUS
  <2>2. op'[q] = op[q] /\ Paying(q)
    BY <1>2, <1>3, <2>1
  <2>3. op[q].live = Due /\ billed = DueAfter(sold, op[q].kind, Due)
    BY <2>2 DEF BillOK
  <2> QED BY <1>1, <2>2, <2>3
<1>6. \A q \in Reqs : Running(q, "bill")' /\ Alive(q)' =>
          op'[q].live = billed' /\ op'[q].target = DueAfter(sold', op'[q].kind, billed')
  <2>1. SUFFICES ASSUME NEW q \in Reqs, Running(q, "bill")', Alive(q)'
        PROVE  op'[q].live = billed' /\ op'[q].target = DueAfter(sold', op'[q].kind, billed')
    OBVIOUS
  <2>2. op'[q] = op[q] /\ Running(q, "bill") /\ Alive(q)
    BY <1>2, <1>3, <2>1
  <2>3. op[q].live = billed /\ op[q].target = DueAfter(sold, op[q].kind, billed)
    BY <2>2 DEF BillOK
  <2> QED BY <2>2, <2>3
<1> QED BY <1>4, <1>5, <1>6 DEF BillOK

(* A request starts from a bill that is right, and asks for its own change. *)
LEMMA BeginBill ==
  ASSUME TypeOK, BillOK, NEW r \in Reqs, NEW kind \in Kinds, NEW who \in SUBSET Users, NEW to \in SUBSET Users,
         Begin(r, kind, who, to), Checked(kind, who, to)
  PROVE  BillOK'
<1> SUFFICES ASSUME Steady' PROVE BillOK'
  BY DEF BillOK
<1>1. UNCHANGED <<user, plan, sub, sold, billed, settling>> /\ drifted' = (drifted \/ plan # sold)
  BY DEF Begin, team, billing
<1>2. Steady /\ Due' = Due /\ plan = sold
  BY <1>1 DEF Steady, Due, Active
<1>3. \A q \in Reqs : ~Under(q) /\ ~Paying(q)
  BY DEF Begin, LockFree, Under, Paying, BilledBy
<1>4. billed = Due
  BY <1>2, <1>3 DEF BillOK
<1>5. \A q \in Reqs : q # r => ~Paying(q)' /\ ~Running(q, "bill")'
  BY <1>3 DEF Begin, TypeOK, Under, Paying, BilledBy, Running
<1>6. /\ op'[r].kind = kind /\ op'[r].who = who /\ op'[r].plan = plan /\ op'[r].live = billed
      /\ op'[r].target = Target(kind)
      /\ op'[r].pc = IF Billed(plan) /\ (kind = "delete" => who \subseteq Active) THEN "bill" ELSE "save"
  BY DEF Begin, TypeOK
<1>7. ~Paying(r)'
  BY <1>1, <1>6 DEF Paying, BilledBy, Active
<1>8. kind # "reconcile" => Target(kind) = DueAfter(sold, kind, billed)
  BY <1>2 DEF Target, DueAfter
<1>9. kind # "reconcile"
  BY <1>2 DEF Checked, Steady
<1> QED BY <1>1, <1>2, <1>4, <1>5, <1>6, <1>7, <1>8, <1>9 DEF BillOK

LEMMA CallBill ==
  ASSUME TypeOK, LockOK, RequestsOK, BillOK, NEW r \in Reqs, CallProvider(r)
  PROVE  BillOK'
<1>1. UNCHANGED <<user, plan, sub, sold, settling>>
  BY DEF CallProvider, team
<1>2. Running(r, "bill") /\ Under(r) /\ ~Paying(r) /\ op[r].kind # "reconcile" /\ ReadOK(r)
  BY DEF CallProvider, Running, Under, Paying, BilledBy, RequestsOK
<1>3. \A q \in Reqs : q # r => ~Under(q) /\ ~Paying(q) /\ ~Running(q, "bill")
  BY <1>2, Alone
<1>4. CASE Alive(r) /\ billed' = op[r].target /\ Goto(r, "save") /\ UNCHANGED drifted
  <2> SUFFICES ASSUME Steady' PROVE BillOK'
    BY DEF BillOK
  <2>1. Steady /\ Due' = Due
    BY <1>1, <1>4 DEF Steady, Due, Active
  <2>2. billed = Due
    BY <1>2, <1>3, <2>1 DEF BillOK
  <2>3. op[r].live = billed /\ op[r].target = DueAfter(sold, op[r].kind, billed)
    BY <1>2, <1>4, <2>1 DEF BillOK
  <2>4. op'[r] = [op[r] EXCEPT !.pc = "save"] /\ \A q \in Reqs : q # r => op'[q] = op[q]
    BY <1>4 DEF Goto, TypeOK
  <2>5. /\ op'[r].pc = "save" /\ op'[r].kind = op[r].kind /\ op'[r].who = op[r].who /\ op'[r].plan = op[r].plan
        /\ op'[r].sub = op[r].sub /\ op'[r].live = op[r].live
    BY <2>4 DEF TypeOK, Operation
  <2>6. Billed(op[r].plan) /\ (op[r].kind = "delete" => \A u \in op[r].who : user[u] = "active")
    BY <1>2 DEF ReadOK, Running, Active
  <2>7. Paying(r)' /\ ~Running(r, "bill")'
    BY <1>1, <1>4, <2>5, <2>6 DEF Paying, BilledBy, Alive, Running
  <2>8. \A q \in Reqs : q # r => ~Paying(q)' /\ ~Running(q, "bill")'
    BY <1>3, <2>4 DEF Paying, BilledBy, Running, Under
  <2> QED BY <1>1, <1>4, <2>1, <2>2, <2>3, <2>5, <2>7, <2>8 DEF BillOK
<1>5. CASE Finish(r) /\ UNCHANGED <<billed, drifted>>
  <2>1. \A q \in Reqs : op'[q] = op[q] \/ (~Paying(q) /\ op'[q].pc \in {"idle", "left"})
    BY <1>2, <1>5 DEF Finish, TypeOK, Idle
  <2>2. Steady' => Steady
    BY <1>1, <1>5 DEF Steady
  <2> QED BY <1>1, <1>5, <2>1, <2>2, BillStays
<1>6. CASE drifted' = TRUE
  BY <1>6 DEF BillOK, Steady
<1> QED BY <1>4, <1>5, <1>6 DEF CallProvider

LEMMA AlignBill ==
  ASSUME TypeOK, LockOK, RequestsOK, AlignOK, BillOK, NEW r \in Reqs, AlignProvider(r)
  PROVE  BillOK'
<1>1. UNCHANGED <<user, plan, sub, sold>> /\ Finish(r)
  BY DEF AlignProvider, team
<1>2. Running(r, "bill") /\ Under(r) /\ ~Paying(r) /\ op[r].kind = "reconcile" /\ ReadOK(r)
  BY DEF AlignProvider, Running, Under, Paying, BilledBy, RequestsOK
<1>3. \A q \in Reqs : q # r => ~Under(q)
  BY <1>2, Alone
<1>4. CASE Alive(r) /\ billed' = op[r].target /\ drifted' = (stale \/ Active = {})
  <2> SUFFICES ASSUME Steady' PROVE BillOK'
    BY DEF BillOK
  <2>1. billed' = Due
    <3>1. ~stale
      BY <1>4 DEF Steady
    <3> QED BY <1>2, <1>4, <3>1 DEF AlignOK
  <2>2. billed' = Due'
    BY <1>1, <2>1 DEF Due, Active
  <2>3. \A q \in Reqs : ~Under(q)'
    BY <1>1, <1>3 DEF Finish, TypeOK, Idle, Under
  <2>4. \A q \in Reqs : ~Paying(q)' /\ ~Running(q, "bill")'
    BY <2>3 DEF Under, Paying, BilledBy, Running
  <2> QED BY <2>2, <2>4 DEF BillOK
<1>5. CASE UNCHANGED <<billed, settling, drifted>>
  <2>1. \A q \in Reqs : op'[q] = op[q] \/ (~Paying(q) /\ op'[q].pc \in {"idle", "left"})
    BY <1>1, <1>2 DEF Finish, TypeOK, Idle
  <2>2. Steady' => Steady
    BY <1>1, <1>5 DEF Steady
  <2> QED BY <1>1, <1>5, <2>1, <2>2, BillStays
<1>6. CASE Alive(r) /\ UNCHANGED settling
  <2>1. settling'
    BY <1>2, <1>6 DEF ReadOK, Alive
  <2> QED BY <2>1 DEF BillOK, Steady
<1> QED BY <1>4, <1>5, <1>6 DEF AlignProvider

(* The bill was changed before the commit, by as much as the commit changes *)
(* the team.                                                                *)
LEMMA SaveBill ==
  ASSUME TypeOK, LockOK, RequestsOK, NotEmpty, BillOK, NEW r \in Reqs, Save(r)
  PROVE  BillOK'
<1> SUFFICES ASSUME Steady' PROVE BillOK'
  BY DEF BillOK
<1>1. UNCHANGED <<plan, sub, sold, billed, settling>> /\ drifted' = (drifted \/ ~Alive(r))
  BY DEF Save, billing
<1>2. Steady /\ Alive(r)
  BY <1>1 DEF Steady
<1>3. WhoOK(r) /\ ReadOK(r) /\ Under(r) /\ op[r].kind \in {"add", "reactivate", "deactivate", "delete", "trim"}
  BY SaveTeam
<1>4. Billed(op[r].plan)
  BY <1>2, <1>3 DEF ReadOK, Alive, Steady
<1>5. \A q \in Reqs : q # r => ~Under(q) /\ ~Paying(q) /\ op'[q] = op[q]
  BY <1>3, Alone, SaveLeaves
<1>6. \A q \in Reqs : ~Under(q)'
  BY <1>5, SaveLeaves DEF Under
<1>7. \A q \in Reqs : ~Paying(q)' /\ ~Running(q, "bill")'
  BY <1>6 DEF Under, Paying, BilledBy, Running
<1> DEFINE n == Cardinality(Active)
<1>8. Active # {} /\ IsFiniteSet(Active) /\ n \in Nat /\ n > 0
  <2>1. Active # {}
    BY <1>2 DEF NotEmpty, Steady
  <2> QED BY <2>1, ActiveSize, FS_EmptySet
<1>9. CASE Paying(r)
  <2>1. billed = DueAfter(sold, op[r].kind, Due)
    BY <1>2, <1>9 DEF BillOK
  <2>2. CASE Grows(op[r].kind)
    <3>1. PICK u \in Users : op[r].who = {u} /\ u \notin Active
      BY <1>3, <2>2 DEF WhoOK
    <3>2. Active' = Active \cup {u}
      BY <2>2, <3>1, SaveTeam
    <3>3. Cardinality(Active') = n + 1
      BY <1>8, <3>1, <3>2, FS_AddElement
    <3>4. DueAfter(sold, op[r].kind, Due) = Due + 1
      BY <2>2 DEF DueAfter, Grows
    <3>5. Needed(sold, n + 1) = Needed(sold, n) + 1
      BY <1>8, DueChanges
    <3> QED BY <1>1, <1>7, <2>1, <3>3, <3>4, <3>5 DEF Due, BillOK
  <2>3. CASE op[r].kind = "trim"
    <3>1. Active' = Active \ op[r].who /\ Active' # {}
      BY <2>3, SaveTeam DEF Grows
    <3>2. ~(Cardinality(Active \ op[r].who) > 1)
      BY <2>3 DEF Save, Crowded
    <3>3. IsFiniteSet(Active') /\ Cardinality(Active') \in Nat
      BY <3>1, ActiveSize
    <3>4. Cardinality(Active') = 1
      BY <3>1, <3>2, <3>3, FS_EmptySet
    <3>5. DueAfter(sold, op[r].kind, Due) = Floor(sold)
      BY <2>3 DEF DueAfter, Grows
    <3>6. Needed(sold, 1) = Floor(sold)
      BY <1>8, DueChanges
    <3> QED BY <1>1, <1>7, <2>1, <3>4, <3>5, <3>6 DEF Due, BillOK
  <2>4. CASE op[r].kind \in {"deactivate", "delete"}
    <3>1. PICK u \in Users : op[r].who = {u}
      BY <1>3, <2>4 DEF WhoOK
    <3>2. u \in Active
      <4>1. CASE op[r].kind = "deactivate"
        BY <1>3, <3>1, <4>1 DEF WhoOK
      <4>2. CASE op[r].kind = "delete"
        BY <1>9, <3>1, <4>2 DEF Paying, BilledBy, Active
      <4> QED BY <2>4, <4>1, <4>2
    <3>3. Active' = Active \ {u} /\ Active' # {}
      BY <2>4, <3>1, SaveTeam DEF Grows
    <3>4. Cardinality(Active') = n - 1 /\ IsFiniteSet(Active')
      BY <1>8, <3>2, <3>3, FS_RemoveElement
    <3>5. n > 1
      BY <1>8, <3>3, <3>4, FS_EmptySet
    <3>6. Needed(sold, n - 1) = Larger(Needed(sold, n) - 1, Floor(sold))
      BY <1>8, <3>5, DueChanges
    <3>7. DueAfter(sold, op[r].kind, Due) = Larger(Due - 1, Floor(sold))
      BY <2>4 DEF DueAfter, Grows
    <3> QED BY <1>1, <1>7, <2>1, <3>4, <3>6, <3>7 DEF Due, BillOK
  <2> QED BY <1>3, <2>2, <2>3, <2>4 DEF Grows
<1>10. CASE ~Paying(r)
  <2>1. op[r].kind = "delete" /\ ~ \A u \in op[r].who : user[u] = "active"
    BY <1>2, <1>4, <1>10 DEF Paying, BilledBy, Save, Running
  <2>2. PICK u \in Users : op[r].who = {u}
    BY <1>3, <2>1 DEF WhoOK
  <2>3. u \notin Active
    BY <2>1, <2>2 DEF Active
  <2>4. Active' = Active \ {u}
    BY <2>1, <2>2, SaveTeam DEF Grows
  <2>5. Active' = Active
    BY <2>3, <2>4
  <2>6. billed = Due
    BY <1>2, <1>5, <1>10 DEF BillOK
  <2> QED BY <1>1, <1>7, <2>5, <2>6 DEF Due, BillOK
<1> QED BY <1>9, <1>10

LEMMA UndoBill ==
  ASSUME TypeOK, LockOK, RequestsOK, BillOK, NEW r \in Reqs, Undo(r)
  PROVE  BillOK'
<1> SUFFICES ASSUME Steady' PROVE BillOK'
  BY DEF BillOK
<1>1. UNCHANGED <<user, plan, sub, sold, settling>> /\ Finish(r)
  BY DEF Undo, team
<1>2. op[r].pc = "undo" /\ Under(r) /\ ReadOK(r)
  BY DEF Undo, Running, Under, RequestsOK
<1>3. billed' = Restored(r) /\ UNCHANGED drifted
  BY DEF Undo, Steady
<1>4. Steady /\ Due' = Due
  BY <1>1, <1>3 DEF Steady, Due, Active
<1>5. \A q \in Reqs : q # r => ~Under(q) /\ ~Paying(q)
  BY <1>2, Alone
<1>6. \A q \in Reqs : ~Under(q)'
  BY <1>1, <1>5 DEF Finish, TypeOK, Idle, Under
<1>7. \A q \in Reqs : ~Paying(q)' /\ ~Running(q, "bill")'
  BY <1>6 DEF Under, Paying, BilledBy, Running
<1>8. CASE Alive(r)
  <2>1. Paying(r)
    BY <1>2, <1>8 DEF ReadOK, Paying, BilledBy, Active
  <2>2. op[r].live = Due
    BY <1>4, <2>1 DEF BillOK
  <2> QED BY <1>3, <1>4, <1>7, <1>8, <2>2 DEF BillOK, Restored
<1>9. CASE ~Alive(r)
  <2>1. billed = Due
    BY <1>4, <1>5, <1>9 DEF BillOK, Paying
  <2> QED BY <1>3, <1>4, <1>7, <1>9, <2>1 DEF BillOK, Restored
<1> QED BY <1>8, <1>9

LEMMA SaveFailsBill ==
  ASSUME TypeOK, LockOK, RequestsOK, BillOK, NEW r \in Reqs, SaveFails(r)
  PROVE  BillOK'
<1>1. UNCHANGED <<user, plan, sub, sold, billed, settling, drifted>>
  BY DEF SaveFails, team, billing
<1>2. Running(r, "save") /\ Under(r)
  BY DEF SaveFails, Running, Under
<1>3. CASE BilledBy(r) /\ Goto(r, "undo")
  <2> SUFFICES ASSUME Steady' PROVE BillOK'
    BY DEF BillOK
  <2>1. Steady /\ Due' = Due
    BY <1>1 DEF Steady, Due, Active
  <2>2. op'[r] = [op[r] EXCEPT !.pc = "undo"] /\ \A q \in Reqs : q # r => op'[q] = op[q]
    BY <1>3 DEF Goto, TypeOK
  <2>3. /\ op'[r].pc = "undo" /\ op'[r].kind = op[r].kind /\ op'[r].who = op[r].who /\ op'[r].plan = op[r].plan
        /\ op'[r].sub = op[r].sub /\ op'[r].live = op[r].live
    BY <2>2 DEF TypeOK, Operation
  <2>4. Paying(r)' <=> Paying(r)
    BY <1>1, <1>2, <2>3 DEF Paying, BilledBy, Alive, Running
  <2>5. \A q \in Reqs : q # r => ~Under(q) /\ ~Paying(q) /\ op'[q] = op[q]
    BY <1>2, <2>2, Alone
  <2>6. \A q \in Reqs : q # r => ~Paying(q)'
    BY <2>5 DEF Under, Paying, BilledBy
  <2>7. \A q \in Reqs : ~Running(q, "bill")'
    BY <2>3, <2>5 DEF Under, Running
  <2>8. Paying(r) => op[r].live = Due /\ billed = DueAfter(sold, op[r].kind, Due)
    BY <2>1 DEF BillOK
  <2>9. ~Paying(r) => billed = Due
    BY <2>1, <2>5 DEF BillOK
  <2> QED BY <1>1, <2>1, <2>3, <2>4, <2>6, <2>7, <2>8, <2>9 DEF BillOK
<1>4. CASE ~BilledBy(r) /\ Finish(r)
  <2>1. \A q \in Reqs : op'[q] = op[q] \/ (~Paying(q) /\ op'[q].pc \in {"idle", "left"})
    BY <1>4 DEF Finish, TypeOK, Idle, Paying
  <2>2. Steady' => Steady
    BY <1>1 DEF Steady
  <2> QED BY <1>1, <2>1, <2>2, BillStays
<1> QED BY <1>3, <1>4 DEF SaveFails

(* A crash of a request that had moved the bill lets it drift.             *)
LEMMA CrashBill ==
  ASSUME TypeOK, BillOK, NEW r \in Reqs, Crash(r)
  PROVE  BillOK'
<1> SUFFICES ASSUME Steady' PROVE BillOK'
  BY DEF BillOK
<1>1. UNCHANGED <<user, plan, sub, sold, billed, settling>> /\ Finish(r) /\ drifted' = (drifted \/ BilledBy(r))
  BY DEF Crash, team, billing
<1>2. Steady /\ ~Paying(r)
  BY <1>1 DEF Steady, Paying
<1>3. \A q \in Reqs : op'[q] = op[q] \/ (~Paying(q) /\ op'[q].pc \in {"idle", "left"})
  BY <1>1, <1>2 DEF Finish, TypeOK, Idle
<1> QED BY <1>1, <1>2, <1>3, BillStays

LEMMA DisconnectBill ==
  ASSUME TypeOK, BillOK, NEW r \in Reqs, NEW u \in Users, DisconnectRemoved(r, u)
  PROVE  BillOK'
<1>1. UNCHANGED <<user, plan, sub, sold, billed, settling, drifted>> /\ op[r].pc = "left"
  BY DEF DisconnectRemoved, team, billing, Running
<1>2. \A q \in Reqs : op'[q] = op[q] \/ (~Paying(q) /\ op'[q].pc \in {"idle", "left"})
  BY <1>1, DisconnectLeaves DEF Paying, BilledBy
<1>3. Steady' => Steady
  BY <1>1 DEF Steady
<1> QED BY <1>1, <1>2, <1>3, BillStays

(* A plan that starts with the seats of the team it was sold for, which is *)
(* still the team, or seats that the buyer could edit and nobody aligned.  *)
LEMMA PlanBill ==
  ASSUME TypeOK, RequestsOK, SubOK, Activate \/ End
  PROVE  BillOK'
<1> SUFFICES ASSUME Steady' PROVE BillOK'
  BY DEF BillOK
<1>1. ~End
  BY DEF End, Steady, Billed
<1>2. /\ UNCHANGED <<user, op>> /\ sold' = checkout.plan /\ sub' = sub + 1
      /\ ~editable /\ billed' = checkout.seats /\ checkout.team = Cardinality(Active)
  <2>1. /\ UNCHANGED <<team, op>> /\ sold' = checkout.plan /\ sub' = sub + 1 /\ settling' = editable
        /\ billed' \in {checkout.seats} \cup IF editable THEN 1..Cardinality(Users) ELSE {}
        /\ drifted' = (Active = {} \/ (~editable /\ checkout.team # Cardinality(Active)))
    BY <1>1 DEF Activate
  <2>2. ~editable
    BY <2>1 DEF Steady
  <2>3. checkout.team = Cardinality(Active)
    BY <2>1, <2>2 DEF Steady
  <2> QED BY <2>1, <2>2, <2>3 DEF team
<1>3. checkout.seats = Needed(checkout.plan, checkout.team)
  BY <1>1 DEF Activate, SubOK
<1>4. billed' = Due'
  BY <1>2, <1>3 DEF Due, Active
<1>5. \A q \in Reqs : Under(q) => ~Alive(q)'
  <2>1. SUFFICES ASSUME NEW q \in Reqs, Under(q) PROVE op[q].sub # sub + 1
    BY <1>2 DEF Alive
  <2>2. op[q].sub <= sub /\ op[q].sub \in Nat /\ sub \in Nat
    BY <2>1 DEF RequestsOK, ReadOK, TypeOK, Operation
  <2> QED BY <2>2
<1>6. \A q \in Reqs : Paying(q)' \/ Running(q, "bill")' => Under(q)
  BY <1>2 DEF Paying, BilledBy, Running, Under
<1> QED BY <1>4, <1>5, <1>6 DEF BillOK, Paying

(* A switch moves one seat between the base and the line: what a team is   *)
(* due on the other plan.                                                  *)
LEMMA ShiftedDue ==
  ASSUME NEW p, NEW q, Billed(p), Billed(q), p # q, NEW n \in Nat, n > 0
  PROVE  Shifted(q, Needed(p, n)) = Needed(q, n)
BY DEF Shifted, Needed, Billed, Floor, Larger

LEMMA SwapBill ==
  ASSUME TypeOK, SubOK, NotEmpty, BillOK, Swap
  PROVE  BillOK'
<1> SUFFICES ASSUME Steady' PROVE BillOK'
  BY DEF BillOK
<1>1. UNCHANGED <<user, op, plan, sub, settling>>
  BY DEF Swap, team
<1>2. CASE UNCHANGED <<billed, sold, drifted>>
  <2>1. Steady' => Steady
    BY <1>1, <1>2 DEF Steady
  <2> QED BY <1>1, <1>2, <2>1, BillStays
<1>3. CASE /\ swap.sub = sub /\ billed' = Shifted(swap.plan, swap.live) /\ sold' = swap.plan
           /\ drifted' = (drifted \/ billed # swap.live \/ ~LockFree \/ sold = swap.plan)
  <2>1. Steady /\ billed = swap.live /\ LockFree /\ sold # swap.plan
    BY <1>1, <1>3 DEF Steady
  <2>2. \A q \in Reqs : ~Paying(q) /\ ~Running(q, "bill")
    BY <2>1 DEF LockFree, Paying, BilledBy, Running
  <2>3. billed = Needed(sold, Cardinality(Active))
    BY <2>1, <2>2 DEF BillOK, Due
  <2>4. Billed(sold) /\ Billed(swap.plan)
    BY <2>1 DEF SubOK, Steady, Swap
  <2>5. Cardinality(Active) \in Nat /\ Cardinality(Active) > 0
    <3>1. Active # {}
      BY <2>1 DEF NotEmpty, Steady
    <3> QED BY <3>1, ActiveSize, FS_EmptySet
  <2>6. Shifted(swap.plan, Needed(sold, Cardinality(Active))) = Needed(swap.plan, Cardinality(Active))
    BY <2>1, <2>4, <2>5, ShiftedDue
  <2>7. billed' = Due'
    <3>1. Active' = Active
      BY <1>1 DEF Active
    <3>2. Due' = Needed(swap.plan, Cardinality(Active))
      BY <1>3, <3>1 DEF Due
    <3>3. billed' = Shifted(swap.plan, billed)
      BY <1>3, <2>1
    <3> QED BY <2>3, <2>6, <3>2, <3>3
  <2>8. \A q \in Reqs : ~Paying(q)' /\ ~Running(q, "bill")'
    BY <1>1, <2>1 DEF LockFree, Paying, BilledBy, Running
  <2> QED BY <2>7, <2>8 DEF BillOK
<1> QED BY <1>2, <1>3 DEF Swap

(* Nothing changes what an alignment under way has read; what would change *)
(* the team or its plan at the provider makes it stale.                    *)
LEMMA AlignStays ==
  ASSUME TypeOK, AlignOK, UNCHANGED <<user, sub, sold, stale>>,
         \A q \in Reqs : op'[q] = op[q] \/ ~Running(q, "bill")'
  PROVE  AlignOK'
<1>1. Due' = Due
  BY DEF Due, Active
<1>2. \A q \in Reqs : op'[q] = op[q] => (Running(q, "bill")' <=> Running(q, "bill")) /\ (Alive(q)' <=> Alive(q))
  BY DEF Running, Alive
<1> QED BY <1>1, <1>2 DEF AlignOK

LEMMA AlignStep ==
  ASSUME TypeOK, LockOK, RequestsOK, AlignOK, [Next]_vars
  PROVE  AlignOK'
<1>1. ASSUME NEW r \in Reqs, Request(r) \/ BeginReconcile(r)
      PROVE  AlignOK'
  <2>1. PICK kind \in Kinds, who \in SUBSET Users, to \in SUBSET Users :
          Begin(r, kind, who, to) /\ Checked(kind, who, to)
    BY <1>1, RequestIsChecked
  <2>2. \A q \in Reqs : q # r => ~Running(q, "bill")'
    BY <2>1 DEF Begin, LockFree, TypeOK, Running
  <2>3. op'[r].kind = kind /\ op'[r].target = Target(kind) /\ UNCHANGED <<user, plan, sold>>
    BY <2>1 DEF Begin, TypeOK, team, billing
  <2>4. ~stale' /\ kind = "reconcile" => Target(kind) = Needed(sold, Cardinality(Active))
    BY <2>1 DEF Begin, Target, Grows
  <2>5. Due' = Due
    BY <2>3 DEF Due, Active
  <2> QED BY <2>2, <2>3, <2>4, <2>5 DEF AlignOK, Due
<1>2. ASSUME NEW r \in Reqs, CallProvider(r) \/ AlignProvider(r) \/ SaveFails(r) \/ Undo(r) \/ Crash(r)
      PROVE  AlignOK'
  <2>1. UNCHANGED <<user, sub, sold, stale>>
    BY <1>2 DEF CallProvider, AlignProvider, SaveFails, Undo, Crash, team, billing
  <2>2. Finish(r) \/ \E pc \in {"save", "undo"} : Goto(r, pc)
    BY <1>2 DEF CallProvider, AlignProvider, SaveFails, Undo, Crash
  <2>3. \A q \in Reqs : op'[q] = op[q] \/ ~Running(q, "bill")'
    BY <2>2 DEF Finish, Goto, TypeOK, Operation, Idle, Running
  <2> QED BY <2>1, <2>3, AlignStays
<1>3. ASSUME NEW r \in Reqs, Save(r)
      PROVE  AlignOK'
  <2>1. \A q \in Reqs : ~Running(q, "bill")'
    BY <1>3, SaveLeaves DEF LockOK, Under, Running
  <2> QED BY <2>1 DEF AlignOK
<1>4. ASSUME NEW r \in Reqs, NEW u \in Users, DisconnectRemoved(r, u)
      PROVE  AlignOK'
  <2>1. UNCHANGED <<user, sub, sold, stale>>
    BY <1>4 DEF DisconnectRemoved, team, billing
  <2>2. \A q \in Reqs : op'[q] = op[q] \/ ~Running(q, "bill")'
    BY <1>4, DisconnectLeaves DEF Running
  <2> QED BY <2>1, <2>2, AlignStays
<1>5. ASSUME NEW u \in Users, SaveEdit(u)
      PROVE  AlignOK'
  <2>1. UNCHANGED <<op, sub, sold>>
    BY <1>5 DEF SaveEdit, billing
  <2>2. CASE user[u] = editing[u]
    <3>1. UNCHANGED <<user, stale>>
      BY <1>5, <2>2 DEF SaveEdit, TypeOK
    <3> QED BY <2>1, <3>1, AlignStays
  <2>3. CASE user[u] # editing[u]
    <3>1. stale' = Aligning
      BY <1>5, <2>3 DEF SaveEdit
    <3> QED BY <2>1, <3>1 DEF AlignOK, Aligning, Running
  <2> QED BY <2>2, <2>3
<1>6. ASSUME Swap
      PROVE  AlignOK'
  <2>1. UNCHANGED <<op, user, sub>>
    BY <1>6 DEF Swap, team
  <2>2. CASE UNCHANGED <<sold, stale>>
    BY <2>1, <2>2, AlignStays
  <2>3. CASE stale' = Aligning
    BY <2>1, <2>3 DEF AlignOK, Aligning, Running
  <2> QED BY <1>6, <2>2, <2>3 DEF Swap
<1>7. ASSUME Activate \/ End
      PROVE  AlignOK'
  <2>1. UNCHANGED op /\ sub' = sub + 1 /\ sub \in Nat
    BY <1>7 DEF Activate, End, TypeOK
  <2>2. \A q \in Reqs : Running(q, "bill")' => ~Alive(q)'
    <3>1. SUFFICES ASSUME NEW q \in Reqs, Running(q, "bill")' PROVE op[q].sub # sub + 1
      BY <2>1 DEF Alive
    <3>2. op[q].sub <= sub /\ op[q].sub \in Nat
      BY <2>1, <3>1 DEF RequestsOK, ReadOK, Under, Running, TypeOK, Operation
    <3> QED BY <2>1, <3>2
  <2> QED BY <2>2 DEF AlignOK
<1>8. ASSUME \/ \E u \in Users : ReadForEdit(u) \/ Connect(u) \/ StoreConnection(u) \/ CronDisconnect(u)
             \/ \E k \in Records : (\E u \in Users : CheckAgent(k, u)) \/ SaveAssignment(k)
             \/ StartCheckout \/ AdminStartCheckout \/ FindStranded
             \/ (\E p \in {"pro", "enterprise"} : ReadForSwap(p)) \/ PlanChanged \/ UNCHANGED vars
      PROVE  AlignOK'
  <2>1. UNCHANGED <<op, user, sub, sold, stale>>
    BY <1>8 DEF ReadForEdit, Connect, StoreConnection, CronDisconnect, CheckAgent, SaveAssignment,
                StartCheckout, AdminStartCheckout, Open, ReadForSwap, PlanChanged, FindStranded, vars, team, billing
  <2> QED BY <2>1, AlignStays
<1> QED BY <1>1, <1>2, <1>3, <1>4, <1>5, <1>6, <1>7, <1>8 DEF Next, Step

LEMMA BillStep ==
  ASSUME TypeOK, LockOK, RequestsOK, SubOK, NotEmpty, AlignOK, BillOK, [Next]_vars
  PROVE  BillOK'
<1>1. ASSUME NEW r \in Reqs, Request(r) \/ BeginReconcile(r)
      PROVE  BillOK'
  BY <1>1, RequestIsChecked, BeginBill
<1>2. ASSUME NEW u \in Users, SaveEdit(u)
      PROVE  BillOK'
  <2>1. UNCHANGED <<plan, sub, sold, billed, settling, op>>
    BY <1>2 DEF SaveEdit, billing
  <2>2. CASE UNCHANGED <<user, drifted>>
    <3>1. Steady' => Steady
      BY <2>1, <2>2 DEF Steady
    <3> QED BY <2>1, <2>2, <3>1, BillStays
  <2>3. CASE drifted' = TRUE
    BY <2>3 DEF BillOK, Steady
  <2> QED BY <1>2, <2>2, <2>3, EditTeam
<1>3. ASSUME \/ \E u \in Users : ReadForEdit(u) \/ Connect(u) \/ StoreConnection(u) \/ CronDisconnect(u)
             \/ \E k \in Records : (\E u \in Users : CheckAgent(k, u)) \/ SaveAssignment(k)
             \/ StartCheckout \/ AdminStartCheckout \/ FindStranded
             \/ (\E p \in {"pro", "enterprise"} : ReadForSwap(p)) \/ UNCHANGED vars
      PROVE  BillOK'
  <2>1. UNCHANGED <<op, user, plan, sub, sold, billed, settling, drifted>>
    BY <1>3 DEF ReadForEdit, Connect, StoreConnection, CronDisconnect, CheckAgent, SaveAssignment,
                StartCheckout, AdminStartCheckout, Open, ReadForSwap, FindStranded, vars, team, billing
  <2>2. Steady' => Steady
    BY <2>1 DEF Steady
  <2> QED BY <2>1, <2>2, BillStays
<1>4. ASSUME PlanChanged
      PROVE  BillOK'
  <2>1. UNCHANGED <<op, user, sub, sold, billed, settling, drifted>> /\ plan' = sold
    BY <1>4 DEF PlanChanged, team
  <2>2. Steady' => Steady
    BY <2>1 DEF Steady, SubOK
  <2> QED BY <2>1, <2>2, BillStays
<1> QED BY <1>1, <1>2, <1>3, <1>4, CallBill, AlignBill, SaveBill, SaveFailsBill, UndoBill, CrashBill,
           DisconnectBill, PlanBill, SwapBill DEF Next, Step

-----------------------------------------------------------------------------
(* The theorems.                                                           *)

LEMMA InitInv == Init => IInv
<1> SUFFICES ASSUME Init PROVE IInv
  OBVIOUS
<1>1. PICK c \in Cases :
        /\ user = [u \in Users |-> IF u \in c.team THEN "active" ELSE IF u \in c.former THEN "inactive" ELSE "none"]
        /\ owner \in [Records -> c.owners]
        /\ plan = c.plan /\ left = c.limits /\ editable = c.editable
        /\ billed = (IF Billed(plan) THEN Needed(plan, Cardinality(c.team)) ELSE 0)
  BY DEF Init
<1>2. /\ c.team # {} /\ c.team \subseteq Users /\ c.owners \subseteq c.team
      /\ c.plan \in Plans /\ c.editable \in BOOLEAN /\ c.limits \in [Counted -> Nat]
  OBVIOUS
<1>3. Active = c.team
  BY <1>1, <1>2 DEF Active
<1>4. \A r \in Reqs : op[r] = Idle /\ ~Under(r) /\ ~Running(r, "bill") /\ ~Paying(r)
  BY DEF Init, Idle, Under, Running, Paying, BilledBy
<1>5. user \in [Users -> {"none", "active", "inactive", "deleted"}] /\ owner \in [Records -> Users]
  BY <1>1, <1>2
<1>6. billed \in Nat
  <2>1. Needed(plan, Cardinality(Active)) \in Nat
    BY ActiveSize, Numbers
  <2> QED BY <1>1, <1>3, <2>1
<1>7. TypeOK
  <2>1. checkout \in [plan : Plans, seats : Nat, team : Nat] /\ swap \in [plan : Plans, sub : Nat, live : Nat]
    BY DEF Init, NoCheckout, NoSwap, Plans
  <2> QED BY <1>1, <1>2, <1>5, <1>6, <2>1, IdleType DEF Init, TypeOK
<1>8. LockOK /\ RequestsOK /\ RoomOK /\ AlignOK /\ SubOK
  BY <1>4 DEF LockOK, RequestsOK, RoomOK, AlignOK, SubOK, Init
<1>9. NotEmpty
  BY <1>2, <1>3 DEF NotEmpty
<1>10. OwnersActive
  BY <1>1, <1>3 DEF OwnersActive
<1>11. BillOK
  BY <1>1, <1>3, <1>4 DEF BillOK, Steady, Due, Init
<1> QED BY <1>7, <1>8, <1>9, <1>10, <1>11 DEF IInv, TeamInv

LEMMA InvStep == IInv /\ [Next]_vars => IInv'
BY TypeStep, RequestsStep, SubStep, NotEmptyStep, OwnersStep, RoomStep, AlignStep, BillStep DEF IInv, TeamInv

LEMMA Invariant == Spec => []IInv
BY InitInv, InvStep, PTL DEF Spec

(* Every variable keeps its type, whatever interleaving of requests under   *)
(* the lock, edits, assignments, webhooks and cron runs (users.service).    *)
THEOREM TypeCorrect == Spec => []TypeOK
<1>1. IInv => TypeOK
  BY DEF IInv, TeamInv
<1> QED BY <1>1, Invariant, PTL

(* No interleaving of removals leaves the company without an active user,   *)
(* or a record with an owner who has left it (loadRemovalContext,           *)
(* trimToOneActiveUser, reassignOwnedRecords).                              *)
THEOREM TeamStands == Spec => []TeamHolds
<1>1. IInv => TeamHolds
  BY DEF IInv, TeamInv, TeamHolds, NotEmpty, SomeoneActive
<1> QED BY <1>1, Invariant, PTL

(* Between requests the seats billed are the seats of the active team       *)
(* (updateSeatQuantity before each commit, compensate after a failed one,   *)
(* reconcileSeats after an activation, the shift of a switch of plan), but  *)
(* for the causes of drift that SeatsMatch names.                           *)
THEOREM BillMatches == Spec => []SeatsMatch
<1>1. IInv => SeatsMatch
  <2> SUFFICES ASSUME IInv, Steady, LockFree PROVE billed = Due
    BY DEF SeatsMatch, Steady, Due
  <2>1. \A r \in Reqs : ~Paying(r)
    BY DEF LockFree, Paying, BilledBy
  <2> QED BY <2>1 DEF IInv, BillOK
<1> QED BY <1>1, Invariant, PTL

(* A commit that was checked against the cap of a plan not billed by seat   *)
(* leaves the team within that cap (enforceUserLimit).                      *)
THEOREM CapKept == Spec => CapHolds
<1>1. ASSUME IInv, [Next]_vars, NEW r \in Reqs, Save(r), loose = {}, Capped(op[r])
      PROVE  Cardinality(Active') <= Cap[op[r].plan]
  <2>1. WhoOK(r) /\ Under(r) /\ Grows(op[r].kind)
    BY <1>1, SaveTeam DEF IInv, TeamInv, Capped, Grows
  <2>2. Active' = Active \cup op[r].who
    BY <1>1, <2>1, SaveTeam DEF IInv, TeamInv
  <2>3. PICK u \in Users : op[r].who = {u} /\ u \notin Active
    BY <2>1 DEF WhoOK
  <2>4. Cardinality(Active') = Cardinality(Active) + 1 /\ Cardinality(Active) \in Nat
    BY <2>2, <2>3, ActiveSize, FS_AddElement
  <2>5. Cardinality(Active) < Cap[op[r].plan]
    BY <1>1, <2>1 DEF IInv, RoomOK
  <2>6. Cap[op[r].plan] \in Nat
    BY <1>1 DEF Capped
  <2> QED BY <2>4, <2>5, <2>6
<1>2. IInv /\ [Next]_vars =>
        [\A r \in Reqs :
           Save(r) /\ loose = {} /\ (\/ op[r].plan = "free" /\ Grows(op[r].kind)
                                     \/ op[r].plan = "comp" /\ op[r].kind = "add")
             => Cardinality(Active') <= Cap[op[r].plan]]_vars
  BY <1>1 DEF Capped
<1> QED BY <1>2, Invariant, PTL DEF Spec, CapHolds
=============================================================================
