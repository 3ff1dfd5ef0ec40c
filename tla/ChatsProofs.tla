----------------------------- MODULE ChatsProofs -----------------------------
(***************************************************************************)
(* Proofs about Chats for every set of messages and envelopes, and every   *)
(* number of failures, crashes, redeliveries and reads.                    *)
(***************************************************************************)
EXTENDS Chats, TLAPS, FiniteSetTheorems

(* A change in hand, or parked, is one that an envelope has brought.       *)
Sent(m, c) ==
  c = NoChange \/ \E e \in events : /\ e.kind \in {"edit", "revoke"} /\ e.msg = m
                                    /\ c = [kind |-> e.kind, at |-> e.at, mine |-> e.mine]

(* What a job carries at each of its steps.                                *)
JobOK(j) ==
  /\ Sent(j.event.msg, j.change)
  /\ j.at \in {"apply", "preview", "look", "read", "park", "recheck", "clear"} => j.change # NoChange
  /\ j.fetched => j.at \in {"apply", "preview", "clear", "hand"}
  /\ j.fetched \/ j.at \in {"fetch", "hand"} => rows[j.event.msg].stored
  /\ j.event.kind = "message" => j.at \in {"store", "fetch", "hand"} \/ j.fetched
  /\ j.event.kind \in {"edit", "revoke"} =>
       j.at \notin {"store", "status", "hand"} /\ (~j.fetched => j.change = ChangeOf(j.event))
  /\ j.event.kind = "status" => j.at = "status"

JobsOK == (\A j \in jobs : JobOK(j)) /\ \A m \in Messages : Sent(m, parked[m])

(* markChatRead holds the count of what is stored while it has the lock.   *)
ReaderOK ==
  reader.msg # Nobody =>
    /\ reader.count = Cardinality(After(reader.msg))
    /\ chat.marker # Nobody => Later(reader.msg, chat.marker)

LateOK == \A m \in late : ~Mine[m] /\ AtOrBelowMarker(m)

Counted == UnreadMatches /\ ReaderOK /\ LateOK

(* A change that covers another, and a row that shows it.                  *)
Covers(c, d) == c.kind = "revoke" \/ (c.kind = "edit" /\ d.kind = "edit" /\ c.at >= d.at)
Shown(m, c) == rows[m].deleted \/ (c.kind = "edit" /\ rows[m].edited >= c.at)

(* What the properties leave out.                                          *)
Excused(m) == m \in lost \union cut \/ \E d \in dropped : d.msg = m

IsChange(j) == j.event.kind \in {"edit", "revoke"}
Own(j, c) == IsChange(j) /\ Covers(ChangeOf(j.event), c)

(* A change's own job, before it is applied or parked.                     *)
Bears(j, m, c) ==
  j.event.msg = m /\ Own(j, c) /\ ~j.fetched /\ j.at \in {"apply", "look", "read", "park"}

(* A job that will apply the change c, parked for m and stored by now.     *)
WillApply(j, m, c) ==
  /\ j.event.msg = m /\ (IsMessage(j) \/ Own(j, c))
  /\ \/ j.at = "fetch" \/ (j.at = "apply" /\ j.fetched /\ j.change = c)
     \/ IsMessage(j) /\ j.at = "store" /\ j.made > 0
     \/ IsChange(j) /\ (j.at = "recheck" \/ (j.at = "apply" /\ ~j.fetched))

(* A change that has been tried shows, and one about to be parked does not *)
(* yield to the one it replaces.                                           *)
TriedOK ==
  \A j \in jobs :
    /\ j.at \in {"preview", "clear"} /\ OneSided(j.event.msg) => Shown(j.event.msg, j.change)
    /\ j.at = "park" => ~Yields(j.change, j.seen)

(* A parked change whose message is stored has a job that will apply it.   *)
ParkedOK ==
  \A m \in Messages : OneSided(m) /\ parked[m] # NoChange =>
    \/ Shown(m, parked[m]) \/ Excused(m) \/ ~rows[m].stored
    \/ \E j \in jobs : WillApply(j, m, parked[m])

(* No change is forgotten: it shows, is on its way, or is covered by what  *)
(* is parked.                                                              *)
ChangesOK ==
  \A e \in events : e.kind \in {"edit", "revoke"} /\ OneSided(e.msg) =>
    \/ Shown(e.msg, ChangeOf(e)) \/ Excused(e.msg)
    \/ (\E j \in jobs : Bears(j, e.msg, ChangeOf(e)))
    \/ Covers(parked[e.msg], ChangeOf(e))

StatusesOK ==
  \A e \in events : e.kind = "status" =>
    e \in missed \union dropped \/ (\E j \in jobs : j.event = e) \/ rows[e.msg].status >= e.at

Settling == TriedOK /\ ParkedOK /\ ChangesOK /\ StatusesOK

IInv == TypeOK /\ JobsOK /\ Counted /\ Settling

USE ChatsAssumption DEF Nobody

-----------------------------------------------------------------------------
(* Types.                                                                  *)

LEMMA EventShape ==
  ASSUME NEW e \in Events
  PROVE  /\ e.msg \in Messages /\ e.kind \in {"message", "edit", "revoke", "status"} /\ e.at \in Nat /\ e.mine \in BOOLEAN
         /\ e.kind \in {"edit", "revoke"} => ChangeOf(e) \in Changes /\ FirstStep(e) = "apply"
         /\ e.kind \notin {"edit", "revoke"} => ChangeOf(e) = NoChange
         /\ e.kind = "message" => FirstStep(e) = "store"
         /\ e.kind = "status" => FirstStep(e) = "status" /\ e.at \in 1..Failed
         /\ ChangeOf(e) \in AnyChange /\ FirstStep(e) \in Steps
BY DEF Events, ChangeOf, FirstStep, Changes, AnyChange, Steps, Failed

LEMMA EventTypes ==
  ASSUME TypeOK, NEW e \in events
  PROVE  /\ e.msg \in Messages /\ e.kind \in {"message", "edit", "revoke", "status"} /\ e.at \in Nat /\ e.mine \in BOOLEAN
         /\ e.kind \in {"edit", "revoke"} => ChangeOf(e) \in Changes /\ FirstStep(e) = "apply"
         /\ e.kind \notin {"edit", "revoke"} => ChangeOf(e) = NoChange
         /\ e.kind = "message" => FirstStep(e) = "store"
         /\ e.kind = "status" => FirstStep(e) = "status" /\ e.at \in 1..Failed
         /\ ChangeOf(e) \in AnyChange /\ FirstStep(e) \in Steps
<1>1. e \in Events
  BY DEF TypeOK
<1> QED BY <1>1, EventShape

LEMMA NoChangeApart == NoChange \notin Changes /\ NoChange.kind = "none"
BY DEF NoChange, Changes

LEMMA NewJobType ==
  ASSUME TypeOK, NEW e \in events, NEW copy \in 0..1, NEW made \in 0..(Attempts - 1)
  PROVE  /\ NewJob(e, copy, made) \in Job
         /\ NewJob(e, copy, made).event = e /\ NewJob(e, copy, made).at = FirstStep(e)
         /\ NewJob(e, copy, made).change = ChangeOf(e) /\ NewJob(e, copy, made).fetched = FALSE
<1>1. ChangeOf(e) \in AnyChange /\ FirstStep(e) \in Steps
  BY EventTypes
<1>2. NoChange \in AnyChange
  BY DEF AnyChange
<1> QED BY <1>1, <1>2 DEF NewJob, Job

(* A job that goes on keeps what it carries.                               *)
Moved(j, step) == [j EXCEPT !.at = step, !.seen = NoChange]

LEMMA MovedType ==
  ASSUME NEW j \in Job, NEW step \in Steps
  PROVE  /\ Moved(j, step) \in Job
         /\ Moved(j, step).event = j.event /\ Moved(j, step).at = step /\ Moved(j, step).made = j.made
         /\ Moved(j, step).change = j.change /\ Moved(j, step).fetched = j.fetched
<1>1. NoChange \in AnyChange
  BY DEF AnyChange
<1> QED BY <1>1 DEF Moved, Job

LEMMA GotoMoves ==
  ASSUME NEW j, NEW step, Goto(j, step)
  PROVE  IF step = "done" THEN jobs' = jobs \ {j} ELSE jobs' = (jobs \ {j}) \union {Moved(j, step)}
BY DEF Goto, Finish, Replace, Moved

NewRow == [NoRow EXCEPT !.stored = TRUE]

LEMMA NewRowType ==
  NewRow \in Row /\ NewRow.stored /\ NewRow.edited = 0 /\ NewRow.status = 0 /\ ~NewRow.deleted
<1>1. 0 \in 0..Failed
  BY DEF Failed
<1>2. NoRow \in Row /\ NoRow.edited = 0 /\ NoRow.status = 0 /\ NoRow.deleted = FALSE
  BY <1>1 DEF NoRow, Row
<1>3. \A r \in Row : LET n == [r EXCEPT !.stored = TRUE]
                    IN  n \in Row /\ n.stored /\ n.edited = r.edited /\ n.status = r.status /\ n.deleted = r.deleted
  BY DEF Row
<1> QED BY <1>2, <1>3 DEF NewRow

(* Rows are stored once and for all, and their marks only move forward.    *)
LEMMA RowsGrow ==
  ASSUME TypeOK, JobsOK, [Next]_vars
  PROVE  /\ events' = events /\ rows' \in [Messages -> Row]
         /\ \A m \in Messages :
              /\ rows[m].stored => rows'[m].stored
              /\ rows'[m].stored \/ rows'[m] = NoRow
              /\ rows[m].deleted => rows'[m].deleted /\ rows'[m].edited = rows[m].edited
              /\ rows'[m].edited >= rows[m].edited /\ rows'[m].status >= rows[m].status
              /\ rows'[m].edited > rows[m].edited =>
                   \E e \in events : e.kind = "edit" /\ e.msg = m /\ e.mine = Mine[m] /\ e.at = rows'[m].edited
              /\ rows'[m].deleted /\ ~rows[m].deleted =>
                   \E e \in events : e.kind = "revoke" /\ e.msg = m /\ e.mine = Mine[m]
<1> DEFINE Grown(m) ==
      /\ rows[m].stored => rows'[m].stored
      /\ rows'[m].stored \/ rows'[m] = NoRow
      /\ rows[m].deleted => rows'[m].deleted /\ rows'[m].edited = rows[m].edited
      /\ rows'[m].edited >= rows[m].edited /\ rows'[m].status >= rows[m].status
      /\ rows'[m].edited > rows[m].edited =>
           \E e \in events : e.kind = "edit" /\ e.msg = m /\ e.mine = Mine[m] /\ e.at = rows'[m].edited
      /\ rows'[m].deleted /\ ~rows[m].deleted =>
           \E e \in events : e.kind = "revoke" /\ e.msg = m /\ e.mine = Mine[m]
<1>1. events' = events
  BY DEF Next, Step, Fail, Crash, Redeliver, LockAndCount, Expire, MoveMarker, Store, Apply, Preview, ApplyStatus,
         Look, ReadParked, Park, Recheck, Fetch, Clear, Hand, vars
<1>2. \A m \in Messages : rows[m] \in Row /\ (rows[m].stored \/ rows[m] = NoRow)
  BY DEF TypeOK
<1>10. \A m \in Messages : rows[m].edited \in Nat /\ rows[m].status \in Nat
  BY <1>2 DEF Row, Failed
<1>3. \A m \in Messages : rows'[m] = rows[m] => Grown(m)
  <2>2. \A m \in Messages : rows[m].edited >= rows[m].edited /\ rows[m].status >= rows[m].status
                             /\ ~(rows[m].edited > rows[m].edited)
    BY <1>10
  <2> QED BY <1>2, <2>2
<1>4. ASSUME NEW j \in jobs, Store(j)
      PROVE  rows' \in [Messages -> Row] /\ \A m \in Messages : Grown(m)
  <2>1. j.event.msg \in Messages
    BY EventTypes DEF TypeOK, Job
  <2>2. NewRow \in Row /\ NewRow.stored /\ NewRow.edited = 0 /\ NewRow.status = 0 /\ ~NewRow.deleted
    BY NewRowType
  <2>3. CASE rows' = rows
    BY <1>3, <2>3 DEF TypeOK
  <2>4. CASE ~rows[j.event.msg].stored /\ rows' = [rows EXCEPT ![j.event.msg] = NewRow]
    <3>1. rows' \in [Messages -> Row]
      BY <2>2, <2>4 DEF TypeOK
    <3>2. rows[j.event.msg] = NoRow
      BY <1>2, <2>1, <2>4
    <3>3. rows'[j.event.msg] = NewRow
      BY <2>1, <2>4 DEF TypeOK
    <3>4. Grown(j.event.msg)
      BY <2>2, <3>2, <3>3 DEF NoRow
    <3>5. \A m \in Messages : m # j.event.msg => rows'[m] = rows[m]
      BY <2>4 DEF TypeOK
    <3> HIDE DEF Grown
    <3> QED BY <1>3, <3>1, <3>4, <3>5
  <2> QED BY <1>4, <2>3, <2>4 DEF Store, NewRow
<1>5. ASSUME NEW j \in jobs, Apply(j)
      PROVE  rows' \in [Messages -> Row] /\ \A m \in Messages : Grown(m)
  <2> DEFINE mm == j.event.msg
             c == j.change
  <2>1. mm \in Messages /\ c \in AnyChange
    BY EventTypes DEF TypeOK, Job
  <2>2. CASE rows' = rows
    BY <1>3, <2>2 DEF TypeOK
  <2>3. CASE Lands(mm, c) /\ rows' = [rows EXCEPT ![mm] = IF c.kind = "edit" THEN [@ EXCEPT !.edited = c.at]
                                                                            ELSE [@ EXCEPT !.deleted = TRUE]]
    <3>1. rows[mm].stored /\ ~rows[mm].deleted /\ Mine[mm] = c.mine /\ (c.kind = "edit" => rows[mm].edited < c.at)
      BY <2>3 DEF Lands
    <3>2. c # NoChange /\ c.kind \in {"edit", "revoke"} /\ c.at \in Nat
      BY <1>5, <2>1 DEF Apply, TypeOK, AnyChange, Changes
    <3>3. PICK e \in events : e.kind \in {"edit", "revoke"} /\ e.msg = mm /\ c = [kind |-> e.kind, at |-> e.at, mine |-> e.mine]
      BY <3>2 DEF JobsOK, JobOK, Sent
    <3>4. \A m \in Messages : m # mm => rows'[m] = rows[m]
      BY <2>3 DEF TypeOK
    <3>5. CASE c.kind = "edit"
      <4>1. rows'[mm] = [rows[mm] EXCEPT !.edited = c.at]
        BY <2>1, <2>3, <3>5 DEF TypeOK
      <4>2. rows'[mm] \in Row /\ rows'[mm].edited = c.at /\ rows'[mm].stored = rows[mm].stored
              /\ rows'[mm].deleted = rows[mm].deleted /\ rows'[mm].status = rows[mm].status
        BY <1>2, <2>1, <3>2, <4>1 DEF Row, Failed
      <4>3. Grown(mm)
        <5>1. rows[mm].edited \in Nat /\ rows[mm].status \in Nat
          BY <1>10, <2>1
        <5>2. rows'[mm].edited >= rows[mm].edited /\ rows'[mm].status >= rows[mm].status
          BY <3>1, <3>2, <3>5, <4>2, <5>1
        <5>3. e.kind = "edit" /\ e.msg = mm /\ e.mine = Mine[mm] /\ e.at = rows'[mm].edited
          BY <3>1, <3>3, <3>5, <4>2
        <5> QED BY <3>1, <4>2, <5>2, <5>3
      <4>4. rows' \in [Messages -> Row]
        BY <2>3, <3>5, <4>1, <4>2 DEF TypeOK
      <4> HIDE DEF Grown
      <4> QED BY <1>3, <3>4, <4>3, <4>4
    <3>6. CASE c.kind # "edit"
      <4>1. rows'[mm] = [rows[mm] EXCEPT !.deleted = TRUE]
        BY <2>1, <2>3, <3>6 DEF TypeOK
      <4>2. rows'[mm] \in Row /\ rows'[mm].edited = rows[mm].edited /\ rows'[mm].stored = rows[mm].stored
              /\ rows'[mm].status = rows[mm].status
        BY <1>2, <2>1, <4>1 DEF Row, Failed
      <4>3. Grown(mm)
        BY <1>2, <2>1, <3>1, <3>2, <3>3, <3>6, <4>2 DEF Row, Failed
      <4>4. rows' \in [Messages -> Row]
        BY <2>3, <3>6, <4>1, <4>2 DEF TypeOK
      <4> HIDE DEF Grown
      <4> QED BY <1>3, <3>4, <4>3, <4>4
    <3> QED BY <3>5, <3>6
  <2> QED BY <1>5, <2>2, <2>3 DEF Apply
<1>6. ASSUME NEW j \in jobs, ApplyStatus(j)
      PROVE  rows' \in [Messages -> Row] /\ \A m \in Messages : Grown(m)
  <2> DEFINE mm == j.event.msg
             s == j.event.at
  <2>1. mm \in Messages /\ j.event \in events
    BY EventTypes DEF TypeOK, Job
  <2>2. CASE rows' = rows
    BY <1>3, <2>2 DEF TypeOK
  <2>3. CASE Climbs(mm, s) /\ rows' = [rows EXCEPT ![mm].status = s]
    <3>1. j.event.kind = "status"
      BY <1>6, <2>1, EventTypes DEF ApplyStatus, JobsOK, JobOK
    <3>2. s \in 1..Failed
      BY <2>1, <3>1, EventTypes
    <3>3. rows'[mm] = [rows[mm] EXCEPT !.status = s] /\ rows[mm] \in Row
      BY <1>2, <2>1, <2>3 DEF TypeOK
    <3>4. rows'[mm] \in Row /\ rows'[mm].edited = rows[mm].edited /\ rows'[mm].stored = rows[mm].stored
            /\ rows'[mm].deleted = rows[mm].deleted /\ rows'[mm].status = s
      BY <3>2, <3>3 DEF Row, Failed
    <3>5. Grown(mm)
      BY <2>3, <3>2, <3>3, <3>4 DEF Climbs, Row, Failed
    <3>6. \A m \in Messages : m # mm => rows'[m] = rows[m]
      BY <2>3 DEF TypeOK
    <3>7. rows' \in [Messages -> Row]
      BY <2>3, <3>3, <3>4 DEF TypeOK
    <3> HIDE DEF Grown
    <3> QED BY <1>3, <3>5, <3>6, <3>7
  <2> QED BY <1>6, <2>2, <2>3 DEF ApplyStatus
<1>7. rows' = rows => rows' \in [Messages -> Row] /\ \A m \in Messages : Grown(m)
  BY <1>3 DEF TypeOK
<1>8. \/ \E j \in jobs : Store(j) \/ Apply(j) \/ ApplyStatus(j)
      \/ rows' = rows
  BY DEF Next, Step, Fail, Crash, Redeliver, LockAndCount, Expire, MoveMarker, Preview,
         Look, ReadParked, Park, Recheck, Fetch, Clear, Hand, store, vars
<1> HIDE DEF Grown
<1>9. rows' \in [Messages -> Row] /\ \A m \in Messages : Grown(m)
  BY <1>4, <1>5, <1>6, <1>7, <1>8
<1> QED BY <1>1, <1>9 DEF Grown

-----------------------------------------------------------------------------
(* Jobs.                                                                   *)

LEMMA JobTypes ==
  ASSUME TypeOK, JobsOK, NEW j \in jobs
  PROVE  /\ j \in Job /\ JobOK(j) /\ j.event \in events /\ j.event.msg \in Messages
         /\ j.event.kind \in {"message", "edit", "revoke", "status"}
         /\ j.change \in AnyChange /\ j.copy \in 0..1 /\ j.made \in 0..(Attempts - 1) /\ j.at \in Steps
         /\ j.fetched \in BOOLEAN
<1>1. j \in Job /\ JobOK(j)
  BY DEF TypeOK, JobsOK
<1>2. j.event \in events
  BY <1>1 DEF Job
<1> QED BY <1>1, <1>2, EventTypes DEF Job

LEMMA SentStays ==
  ASSUME events' = events
  PROVE  \A m, c : Sent(m, c) => Sent(m, c)'
BY DEF Sent

LEMMA NewJobOK ==
  ASSUME TypeOK, events' = events, NEW e \in events, NEW copy \in 0..1, NEW made \in 0..(Attempts - 1)
  PROVE  NewJob(e, copy, made) \in Job' /\ JobOK(NewJob(e, copy, made))'
<1> PICK n : n = NewJob(e, copy, made)
  OBVIOUS
<1>0. /\ NewJob(e, copy, made) \in Job
      /\ NewJob(e, copy, made).event = e /\ NewJob(e, copy, made).at = FirstStep(e)
      /\ NewJob(e, copy, made).change = ChangeOf(e) /\ NewJob(e, copy, made).fetched = FALSE
  BY NewJobType, ZenonT(30)
<1>1. n \in Job /\ n.event = e /\ n.at = FirstStep(e) /\ n.change = ChangeOf(e) /\ n.fetched = FALSE
  BY <1>0
<1>2. Sent(e.msg, ChangeOf(e))
  <2>1. CASE e.kind \in {"edit", "revoke"}
    BY <2>1 DEF Sent, ChangeOf
  <2>2. CASE e.kind \notin {"edit", "revoke"}
    BY <2>2, EventTypes DEF Sent
  <2> QED BY <2>1, <2>2
<1>3. ChangeOf(e) \in Changes => ChangeOf(e) # NoChange
  BY NoChangeApart
<1>4. JobOK(n)'
  BY <1>1, <1>2, <1>3, EventTypes, SentStays DEF JobOK
<1>5. Job' = Job
  BY DEF Job
<1>6. NewJob(e, copy, made)' = n
  BY DEF NewJob, FirstStep, ChangeOf
<1> QED BY <1>1, <1>4, <1>5, <1>6

(* One job goes on to its next step, and the others stay as they were.     *)
LEMMA JobMoves ==
  ASSUME TypeOK, JobsOK, NEW j \in jobs, Step(j), [Next]_vars
  PROVE  \E next \in Job' : JobOK(next)' /\ jobs' \in {jobs \ {j}, (jobs \ {j}) \union {next}}
<1>1. j \in Job /\ JobOK(j) /\ j.event.kind \in {"message", "edit", "revoke", "status"} /\ j.event.msg \in Messages
  BY JobTypes
<1>2. events' = events /\ (rows[j.event.msg].stored => rows'[j.event.msg].stored)
  BY <1>1, RowsGrow
<1>3. Job' = Job /\ \A m, c : Sent(m, c) => Sent(m, c)'
  BY <1>2, SentStays DEF Job
<1> DEFINE Allowed(step) ==
      /\ step \in Steps
      /\ step \in {"apply", "preview", "look", "read", "park", "recheck", "clear"} => j.change # NoChange
      /\ j.fetched => step \in {"apply", "preview", "clear", "hand"}
      /\ j.fetched \/ step \in {"fetch", "hand"} => rows'[j.event.msg].stored
      /\ j.event.kind = "message" => step \in {"store", "fetch", "hand"} \/ j.fetched
      /\ j.event.kind \in {"edit", "revoke"} => step \notin {"store", "status", "hand"}
      /\ j.event.kind # "status"
<1>4. ASSUME NEW step, Goto(j, step), step = "done" \/ Allowed(step)
      PROVE  \E next \in Job' : JobOK(next)' /\ jobs' \in {jobs \ {j}, (jobs \ {j}) \union {next}}
  <2>1. CASE step = "done"
    <3>1. jobs' = jobs \ {j}
      BY <1>4, <2>1, GotoMoves
    <3>2. JobOK(j)'
      BY <1>1, <1>2, <1>3 DEF JobOK
    <3> QED BY <1>1, <1>3, <3>1, <3>2
  <2>2. CASE step # "done"
    <3>1. Allowed(step)
      BY <1>4, <2>2
    <3>2. /\ Moved(j, step) \in Job /\ Moved(j, step).event = j.event /\ Moved(j, step).at = step
          /\ Moved(j, step).change = j.change /\ Moved(j, step).fetched = j.fetched
      BY <1>1, <3>1, MovedType
    <3>3. JobOK(Moved(j, step))'
      BY <1>1, <1>3, <3>1, <3>2 DEF JobOK
    <3>4. jobs' = (jobs \ {j}) \union {Moved(j, step)}
      BY <1>4, <2>2, GotoMoves
    <3> QED BY <1>3, <3>2, <3>3, <3>4
  <2> QED BY <2>1, <2>2
<1>5. ASSUME Store(j) PROVE \E step : Goto(j, step) /\ (step = "done" \/ Allowed(step))
  <2>1. j.at = "store" /\ Goto(j, IF GoesOn(j, ~rows[j.event.msg].stored) THEN "fetch" ELSE "done")
    BY <1>5 DEF Store
  <2>2. rows'[j.event.msg].stored
    <3>1. CASE rows[j.event.msg].stored
      BY <1>2, <3>1
    <3>2. CASE ~rows[j.event.msg].stored
      <4>1. rows' = [rows EXCEPT ![j.event.msg] = NewRow]
        BY <1>5, <3>2 DEF Store, NewRow
      <4> QED BY <1>1, <4>1, NewRowType DEF TypeOK
    <3> QED BY <3>1, <3>2
  <2>3. Allowed("fetch")
    BY <1>1, <2>1, <2>2 DEF JobOK, Steps
  <2> HIDE DEF Allowed
  <2> QED BY <2>1, <2>3
<1>6. ASSUME Apply(j) PROVE \E step : Goto(j, step) /\ (step = "done" \/ Allowed(step))
  <2>1. j.at = "apply" /\ \E step \in {"preview", IF j.fetched THEN "clear" ELSE "look"} : Goto(j, step)
    BY <1>6 DEF Apply
  <2>2. Allowed("preview") /\ Allowed(IF j.fetched THEN "clear" ELSE "look")
    BY <1>1, <1>2, <2>1 DEF JobOK, Steps
  <2> HIDE DEF Allowed
  <2> QED BY <2>1, <2>2
<1>7. ASSUME Preview(j) PROVE \E step : Goto(j, step) /\ (step = "done" \/ Allowed(step))
  <2>1. j.at = "preview" /\ Goto(j, IF j.fetched THEN "clear" ELSE "done")
    BY <1>7 DEF Preview
  <2>2. j.fetched => Allowed("clear")
    BY <1>1, <1>2, <2>1 DEF JobOK, Steps
  <2> HIDE DEF Allowed
  <2> QED BY <2>1, <2>2
<1>8. ASSUME ApplyStatus(j) \/ Hand(j) PROVE Goto(j, "done")
  BY <1>8 DEF ApplyStatus, Hand
<1>9. ASSUME Look(j) PROVE \E step : Goto(j, step) /\ (step = "done" \/ Allowed(step))
  <2>1. j.at = "look" /\ \E step \in {"done", "read"} : Goto(j, step)
    BY <1>9 DEF Look
  <2>2. Allowed("read")
    BY <1>1, <1>2, <2>1 DEF JobOK, Steps
  <2> HIDE DEF Allowed
  <2> QED BY <2>1, <2>2
<1>10. ASSUME ReadParked(j) PROVE \E next \in Job' : JobOK(next)' /\ jobs' \in {jobs \ {j}, (jobs \ {j}) \union {next}}
  <2>1. CASE Goto(j, "done")
    BY <1>4, <2>1
  <2>3. PICK n : n = [j EXCEPT !.at = "park", !.seen = parked[j.event.msg]]
    OBVIOUS
  <2>2. CASE Replace(j, n)
    <3>1. parked[j.event.msg] \in AnyChange /\ "park" \in Steps
      BY <1>1 DEF TypeOK, Steps
    <3>2. n \in Job /\ n.event = j.event /\ n.at = "park" /\ n.change = j.change /\ n.fetched = j.fetched
      BY <1>1, <2>3, <3>1 DEF Job
    <3>3. j.at = "read"
      BY <1>10 DEF ReadParked
    <3>4. JobOK(n)'
      BY <1>1, <1>3, <3>2, <3>3 DEF JobOK
    <3>5. jobs' = (jobs \ {j}) \union {n}
      BY <2>2 DEF Replace
    <3> QED BY <1>3, <3>2, <3>4, <3>5
  <2> QED BY <1>10, <2>1, <2>2, <2>3 DEF ReadParked
<1>11. ASSUME Park(j) PROVE Goto(j, "recheck") /\ Allowed("recheck")
  BY <1>1, <1>2, <1>11 DEF Park, JobOK, Steps
<1>12. ASSUME Recheck(j) PROVE \E step : Goto(j, step) /\ (step = "done" \/ Allowed(step))
  <2>1. j.at = "recheck" /\ Goto(j, IF rows[j.event.msg].stored THEN "fetch" ELSE "done")
    BY <1>12 DEF Recheck
  <2>2. rows[j.event.msg].stored => Allowed("fetch")
    BY <1>1, <1>2, <2>1 DEF JobOK, Steps
  <2> HIDE DEF Allowed
  <2> QED BY <2>1, <2>2
<1>13. ASSUME Fetch(j) PROVE \E next \in Job' : JobOK(next)' /\ jobs' \in {jobs \ {j}, (jobs \ {j}) \union {next}}
  <2>0. PICK current : current = parked[j.event.msg]
    OBVIOUS
  <2>1. j.at = "fetch"
    BY <1>13 DEF Fetch
  <2>2. CASE Goto(j, Onward(j))
    <3>1. IsMessage(j) => Allowed("hand")
      BY <1>1, <1>2, <2>1 DEF JobOK, Steps, IsMessage
    <3> HIDE DEF Allowed
    <3> QED BY <1>4, <2>2, <3>1 DEF Onward
  <2>4. PICK n : n = [j EXCEPT !.at = "apply", !.change = current, !.fetched = TRUE]
    OBVIOUS
  <2>3. CASE current # NoChange /\ Replace(j, n)
    <3>1. current \in AnyChange /\ Sent(j.event.msg, current) /\ "apply" \in Steps
      BY <1>1, <2>0 DEF TypeOK, Steps, JobsOK
    <3>2. n \in Job /\ n.event = j.event /\ n.at = "apply" /\ n.change = current /\ n.fetched = TRUE
      BY <1>1, <2>4, <3>1 DEF Job
    <3>3. JobOK(n)'
      BY <1>1, <1>2, <1>3, <2>1, <2>3, <3>1, <3>2 DEF JobOK
    <3>4. jobs' = (jobs \ {j}) \union {n}
      BY <2>3 DEF Replace
    <3> QED BY <1>3, <3>2, <3>3, <3>4
  <2> QED BY <1>13, <2>0, <2>2, <2>3, <2>4 DEF Fetch
<1>14. ASSUME Clear(j) PROVE \E step : Goto(j, step) /\ (step = "done" \/ Allowed(step))
  <2>1. j.at = "clear" /\ Goto(j, Onward(j))
    BY <1>14 DEF Clear
  <2>2. IsMessage(j) => Allowed("hand")
    BY <1>1, <1>2, <2>1 DEF JobOK, Steps, IsMessage
  <2> HIDE DEF Allowed
  <2> QED BY <2>1, <2>2 DEF Onward
<1> HIDE DEF Allowed
<1> QED BY <1>4, <1>5, <1>6, <1>7, <1>8, <1>9, <1>10, <1>11, <1>12, <1>13, <1>14 DEF Step

(* What becomes of the jobs in any step.                                   *)
LEMMA JobsMove ==
  ASSUME TypeOK, JobsOK, [Next]_vars
  PROVE  \/ jobs' = jobs
         \/ \E next \in Job' : /\ JobOK(next)'
                               /\ \/ jobs' = jobs \union {next}
                                  \/ \E j \in jobs : jobs' \in {jobs \ {j}, (jobs \ {j}) \union {next}}
<1>1. events' = events
  BY RowsGrow
<1>2. ASSUME NEW j \in jobs, Fail(j) \/ Crash(j)
      PROVE  \E next \in Job' : JobOK(next)' /\ jobs' \in {jobs \ {j}, (jobs \ {j}) \union {next}}
  <2>1. j.event \in events /\ j.copy \in 0..1 /\ j.made \in 0..(Attempts - 1)
    BY JobTypes
  <2>2. CASE jobs' = jobs \ {j}
    <3>1. NewJob(j.event, j.copy, j.made) \in Job' /\ JobOK(NewJob(j.event, j.copy, j.made))'
      BY <1>1, <2>1, NewJobOK
    <3> QED BY <2>2, <3>1
  <2>3. CASE j.made + 1 < Attempts /\ jobs' = (jobs \ {j}) \union {NewJob(j.event, j.copy, j.made + 1)}
    <3>1. j.made + 1 \in 0..(Attempts - 1)
      BY <2>1, <2>3 DEF Attempts
    <3>2. NewJob(j.event, j.copy, j.made + 1) \in Job' /\ JobOK(NewJob(j.event, j.copy, j.made + 1))'
      BY <1>1, <2>1, <3>1, NewJobOK
    <3> QED BY <2>3, <3>2
  <2>4. CASE jobs' = (jobs \ {j}) \union {NewJob(j.event, j.copy, j.made)}
    <3>1. NewJob(j.event, j.copy, j.made) \in Job' /\ JobOK(NewJob(j.event, j.copy, j.made))'
      BY <1>1, <2>1, NewJobOK
    <3> QED BY <2>4, <3>1
  <2> QED BY <1>2, <2>2, <2>3, <2>4 DEF Fail, Crash, Finish, Replace
<1>3. ASSUME NEW e \in events, Redeliver(e)
      PROVE  \E next \in Job' : JobOK(next)' /\ jobs' = jobs \union {next}
  <2>1. 1 \in 0..1 /\ 0 \in 0..(Attempts - 1)
    BY DEF Attempts
  <2>2. NewJob(e, 1, 0) \in Job' /\ JobOK(NewJob(e, 1, 0))'
    BY <1>1, <2>1, NewJobOK
  <2> QED BY <1>3, <2>2 DEF Redeliver
<1>4. ASSUME MoveMarker \/ (\E m \in Messages : LockAndCount(m) \/ Expire(m)) \/ UNCHANGED vars
      PROVE  jobs' = jobs
  BY <1>4 DEF MoveMarker, LockAndCount, Expire, vars
<1>5. ASSUME NEW j \in jobs, Step(j)
      PROVE  \E next \in Job' : JobOK(next)' /\ jobs' \in {jobs \ {j}, (jobs \ {j}) \union {next}}
  BY <1>5, JobMoves
<1> QED BY <1>2, <1>3, <1>4, <1>5 DEF Next

LEMMA JobsStep ==
  ASSUME TypeOK, JobsOK, [Next]_vars
  PROVE  jobs' \subseteq Job' /\ JobsOK'
<1>1. events' = events /\ \A m \in Messages : rows[m].stored => rows'[m].stored
  BY RowsGrow
<1>2. \A m, c : Sent(m, c) => Sent(m, c)'
  BY <1>1, SentStays
<1>3. \A j \in jobs : j \in Job' /\ JobOK(j)'
  <2>1. SUFFICES ASSUME NEW j \in jobs PROVE j \in Job' /\ JobOK(j)'
    OBVIOUS
  <2>2. j \in Job /\ JobOK(j) /\ j.event.msg \in Messages
    BY JobTypes
  <2> QED BY <1>1, <1>2, <2>2 DEF JobOK, Job
<1>4. \A j \in jobs' : j \in Job' /\ JobOK(j)'
  BY <1>3, JobsMove
<1>5. \A m \in Messages : Sent(m, parked'[m])
  <2>1. \A m : Sent(m, NoChange)
    BY DEF Sent
  <2>2. CASE parked' = parked
    BY <2>2 DEF JobsOK
  <2>3. CASE \E m \in Messages : parked' = [parked EXCEPT ![m] = NoChange]
    <3>1. \A m \in Messages : parked'[m] \in {parked[m], NoChange}
      BY <2>3 DEF TypeOK
    <3> QED BY <2>1, <3>1 DEF JobsOK
  <2>4. CASE \E j \in jobs : Park(j)
    <3>1. PICK j \in jobs : parked' = [parked EXCEPT ![j.event.msg] = j.change]
      BY <2>4 DEF Park
    <3>2. Sent(j.event.msg, j.change)
      BY <3>1, JobTypes DEF JobOK
    <3> QED BY <3>1, <3>2 DEF JobsOK, TypeOK
  <2>5. ASSUME NEW j \in jobs, Clear(j) PROVE \E m \in Messages : parked' = [parked EXCEPT ![m] = NoChange]
    BY <2>5, JobTypes DEF Clear
  <2> QED BY <2>2, <2>3, <2>4, <2>5 DEF Next, Step, Fail, Crash, Redeliver, LockAndCount, Expire, MoveMarker,
         Preview, Store, Apply, ApplyStatus, Look, ReadParked, Recheck, Fetch, Hand, store, vars
<1> QED BY <1>2, <1>4, <1>5 DEF JobsOK

-----------------------------------------------------------------------------
(* The chat row and its count.                                             *)

LEMMA AfterSize ==
  ASSUME TypeOK
  PROVE  /\ IsFiniteSet(Stored) /\ IsFiniteSet(late) /\ Cardinality(late) \in Nat
         /\ \A n : IsFiniteSet(After(n)) /\ Cardinality(After(n)) \in Nat
<1>1. IsFiniteSet(Stored)
  BY FS_Subset DEF Stored
<1>2. \A n : After(n) \subseteq Stored
  BY DEF After
<1>3. late \subseteq Stored
  BY DEF TypeOK
<1> QED BY <1>1, <1>2, <1>3, FS_Subset, FS_CardinalityType

(* Only addMessage stores a row.                                           *)
LEMMA StoredStays ==
  ASSUME TypeOK, [Next]_vars, \A j \in jobs : ~Store(j)
  PROVE  Stored' = Stored
<1>1. \A m \in Messages : rows[m] \in Row
  BY DEF TypeOK
<1>2. ASSUME NEW j \in jobs, Apply(j) \/ ApplyStatus(j)
      PROVE  \A m \in Messages : rows'[m].stored = rows[m].stored
  <2>1. j.event.msg \in Messages
    BY EventTypes DEF TypeOK, Job
  <2>2. CASE rows' = rows
    BY <2>2
  <2>3. ASSUME NEW r, r.stored = rows[j.event.msg].stored, rows' = [rows EXCEPT ![j.event.msg] = r]
        PROVE  \A m \in Messages : rows'[m].stored = rows[m].stored
    BY <2>1, <2>3 DEF TypeOK
  <2>4. \A at : [rows[j.event.msg] EXCEPT !.edited = at].stored = rows[j.event.msg].stored
               /\ [rows[j.event.msg] EXCEPT !.status = at].stored = rows[j.event.msg].stored
               /\ [rows[j.event.msg] EXCEPT !.deleted = TRUE].stored = rows[j.event.msg].stored
    BY <1>1, <2>1 DEF Row
  <2>5. CASE Apply(j)
    <3>1. \/ rows' = rows
          \/ rows' = [rows EXCEPT ![j.event.msg] = [rows[j.event.msg] EXCEPT !.edited = j.change.at]]
          \/ rows' = [rows EXCEPT ![j.event.msg] = [rows[j.event.msg] EXCEPT !.deleted = TRUE]]
      BY <2>1, <2>5 DEF Apply, TypeOK
    <3> QED BY <2>2, <2>3, <2>4, <3>1
  <2>6. CASE ApplyStatus(j)
    <3>1. \/ rows' = rows
          \/ rows' = [rows EXCEPT ![j.event.msg] = [rows[j.event.msg] EXCEPT !.status = j.event.at]]
      BY <2>1, <2>6 DEF ApplyStatus, TypeOK
    <3> QED BY <2>2, <2>3, <2>4, <3>1
  <2> QED BY <1>2, <2>5, <2>6
<1>3. (\E j \in jobs : Apply(j) \/ ApplyStatus(j)) \/ rows' = rows
  BY DEF Next, Step, Fail, Crash, Redeliver, LockAndCount, Expire, MoveMarker, Preview,
         Look, ReadParked, Park, Recheck, Fetch, Clear, Hand, store, vars
<1>4. \A m \in Messages : rows'[m].stored = rows[m].stored
  BY <1>2, <1>3
<1> QED BY <1>4 DEF Stored

(* What addMessage does to the store and to the chat.                      *)
LEMMA StoreEffect ==
  ASSUME TypeOK, JobsOK, NEW j \in jobs, Store(j)
  PROVE  /\ j.event.msg \in Messages
         /\ Stored' = Stored \union {j.event.msg}
         /\ reader' = reader /\ reader.msg = Nobody
         /\ chat'.marker = chat.marker
         /\ chat' \in [last : Nat, shown : Nat, text : Int, unread : Nat, marker : Stored \union {Nobody}]
         /\ IF j.event.msg \in Stored \/ Mine[j.event.msg]
            THEN chat'.unread = chat.unread /\ late' = late
            ELSE /\ chat'.unread = chat.unread + 1
                 /\ late' = IF AtOrBelowMarker(j.event.msg) THEN late \union {j.event.msg} ELSE late
<1> DEFINE m == j.event.msg
           inserted == ~rows[m].stored
<1>1. m \in Messages /\ (m \in Stored <=> ~inserted)
  BY JobTypes DEF Stored
<1>2. reader' = reader /\ reader.msg = Nobody /\ chat' = Upserted(m, inserted)
      /\ late' = (IF inserted /\ ~Mine[m] /\ AtOrBelowMarker(m) THEN late \union {m} ELSE late)
      /\ rows' = (IF inserted THEN [rows EXCEPT ![m] = NewRow] ELSE rows)
  BY DEF Store, ChatFree, NewRow
<1>3. Stored' = Stored \union {m}
  <2>1. CASE inserted
    <3>1. rows'[m].stored /\ \A k \in Messages : k # m => rows'[k] = rows[k]
      BY <1>1, <1>2, <2>1, NewRowType DEF TypeOK
    <3> QED BY <1>1, <3>1 DEF Stored
  <2>2. CASE ~inserted
    BY <1>1, <1>2, <2>2 DEF Stored
  <2> QED BY <2>1, <2>2
<1>4. chat \in [last : Nat, shown : Nat, text : Int, unread : Nat, marker : Stored \union {Nobody}]
      /\ m \in Nat /\ Ts[m] \in Nat /\ NewUnread(m, inserted) \in {0, 1}
  BY <1>1 DEF TypeOK, NewUnread
<1>5. /\ chat'.marker = chat.marker /\ chat'.unread = chat.unread + NewUnread(m, inserted)
      /\ chat' \in [last : Nat, shown : Nat, text : Int, unread : Nat, marker : Stored \union {Nobody}]
  <2> HIDE DEF inserted, m
  <2>1. chat.unread + NewUnread(m, inserted) \in Nat
    BY <1>4
  <2>3. PICK a \in Nat, c \in Nat, d \in Nat, b \in Int :
          d = chat.unread + NewUnread(m, inserted)
          /\ chat' = [chat EXCEPT !.shown = a, !.text = b, !.last = c, !.unread = d]
    <3>1. /\ (IF Ts[m] >= chat.last THEN m ELSE chat.shown) \in Nat
          /\ (IF Ts[m] >= chat.last THEN 0 ELSE chat.text) \in Int
          /\ (IF Ts[m] >= chat.last THEN Ts[m] ELSE chat.last) \in Nat
      BY <1>4
    <3> QED BY <1>2, <2>1, <3>1 DEF Upserted
  <2>4. chat'.marker = chat.marker /\ chat'.unread = d
    BY <1>4, <2>3
  <2>5. chat' \in [last : Nat, shown : Nat, text : Int, unread : Nat, marker : Stored \union {Nobody}]
    BY <1>4, <2>3
  <2> QED BY <2>3, <2>4, <2>5
<1>6. CASE m \in Stored \/ Mine[m]
  <2>1. NewUnread(m, inserted) = 0
    BY <1>1, <1>6 DEF NewUnread
  <2>2. chat'.unread = chat.unread
    BY <1>4, <1>5, <2>1
  <2> QED BY <1>1, <1>2, <1>3, <1>5, <1>6, <2>2
<1>7. CASE ~(m \in Stored \/ Mine[m])
  <2>1. NewUnread(m, inserted) = 1
    BY <1>1, <1>7 DEF NewUnread
  <2> QED BY <1>1, <1>2, <1>3, <1>5, <1>7, <2>1
<1> QED BY <1>6, <1>7

(* Every other step but markChatRead's leaves the count alone.             *)
LEMMA CountStays ==
  ASSUME TypeOK, [Next]_vars, \A j \in jobs : ~Store(j), ~MoveMarker, \A m \in Messages : ~LockAndCount(m)
  PROVE  /\ UNCHANGED <<reader, late>> /\ chat'.marker = chat.marker /\ chat'.unread = chat.unread
         /\ chat' \in [last : Nat, shown : Nat, text : Int, unread : Nat, marker : Stored \union {Nobody}]
<1>1. UNCHANGED <<reader, late>>
  BY DEF Next, Step, Fail, Crash, Redeliver, Expire, Preview, Apply, ApplyStatus,
         Look, ReadParked, Park, Recheck, Fetch, Clear, Hand, ghosts, vars
<1>2. chat \in [last : Nat, shown : Nat, text : Int, unread : Nat, marker : Stored \union {Nobody}]
  BY DEF TypeOK
<1>3. ASSUME NEW j \in jobs, Preview(j)
      PROVE  /\ chat'.marker = chat.marker /\ chat'.unread = chat.unread
             /\ chat' \in [last : Nat, shown : Nat, text : Int, unread : Nat, marker : Stored \union {Nobody}]
  <2>1. j \in Job
    BY DEF TypeOK
  <2>2. j.event.msg \in Nat /\ j.change \in AnyChange
    BY <2>1, EventTypes DEF Job
  <2>3. (IF j.change.kind = "edit" THEN j.change.at ELSE Stub) \in Int
    BY <2>2 DEF AnyChange, Changes, NoChange, Stub
  <2>4. \/ chat' = chat
        \/ chat' = [chat EXCEPT !.shown = j.event.msg, !.text = IF j.change.kind = "edit" THEN j.change.at ELSE Stub]
    BY <1>3 DEF Preview
  <2> QED BY <1>2, <2>2, <2>3, <2>4
<1>4. (\E j \in jobs : Preview(j)) \/ chat' = chat
  BY DEF Next, Step, Fail, Crash, Redeliver, Expire, Apply, ApplyStatus,
         Look, ReadParked, Park, Recheck, Fetch, Clear, Hand, store, vars
<1> QED BY <1>1, <1>2, <1>3, <1>4

LEMMA CountStep ==
  ASSUME TypeOK, JobsOK, Counted, [Next]_vars
  PROVE  Counted'
<1> USE DEF Counted
<1>1. \A n : After(n) \subseteq Stored /\ (\A k \in After(n) : ~Mine[k] /\ (n = Nobody \/ Later(k, n)))
  BY DEF After
<1>2. ASSUME NEW j \in jobs, Store(j)
      PROVE  Counted'
  <2> DEFINE m == j.event.msg
             n == chat.marker
  <2>1. /\ m \in Messages /\ Stored' = Stored \union {m} /\ reader' = reader /\ reader.msg = Nobody
        /\ chat'.marker = n
    BY <1>2, StoreEffect
  <2>2. chat.unread = Cardinality(After(n)) + Cardinality(late) /\ late \subseteq Stored
    BY DEF UnreadMatches, TypeOK
  <2>3. ReaderOK'
    BY <2>1 DEF ReaderOK
  <2>4. CASE m \in Stored \/ Mine[m]
    <3>1. chat'.unread = chat.unread /\ late' = late
      BY <1>2, <2>4, StoreEffect
    <3>2. After(n)' = After(n)
      BY <2>1, <2>4 DEF After
    <3>3. UnreadMatches'
      BY <2>1, <2>2, <3>1, <3>2 DEF UnreadMatches, After
    <3>4. LateOK'
      BY <2>1, <3>1 DEF LateOK, AtOrBelowMarker
    <3> QED BY <2>3, <3>3, <3>4
  <2>5. CASE m \notin Stored /\ ~Mine[m] /\ AtOrBelowMarker(m)
    <3>1. chat'.unread = chat.unread + 1 /\ late' = late \union {m}
      BY <1>2, <2>5, StoreEffect
    <3>2. After(n)' = After(n)
      BY <2>1, <2>5 DEF After, AtOrBelowMarker
    <3>3. Cardinality(late') = Cardinality(late) + 1
      BY <2>2, <2>5, <3>1, AfterSize, FS_AddElement
    <3>6. chat'.unread = Cardinality(After(n)) + Cardinality(late')
      BY <2>2, <3>1, <3>3, AfterSize DEF TypeOK
    <3>4. UnreadMatches'
      BY <2>1, <3>2, <3>6 DEF UnreadMatches, After
    <3>5. LateOK'
      BY <2>1, <2>5, <3>1 DEF LateOK, AtOrBelowMarker
    <3> QED BY <2>3, <3>4, <3>5
  <2>6. CASE m \notin Stored /\ ~Mine[m] /\ ~AtOrBelowMarker(m)
    <3>1. chat'.unread = chat.unread + 1 /\ late' = late
      BY <1>2, <2>6, StoreEffect
    <3>2. After(n)' = After(n) \union {m} /\ m \notin After(n)
      BY <2>1, <2>6 DEF After, AtOrBelowMarker
    <3>3. Cardinality(After(n)') = Cardinality(After(n)) + 1
      BY <3>2, AfterSize, FS_AddElement
    <3>6. chat'.unread = Cardinality(After(n)') + Cardinality(late')
      BY <2>2, <3>1, <3>3, AfterSize DEF TypeOK
    <3>4. UnreadMatches'
      BY <2>1, <3>6 DEF UnreadMatches, After
    <3>5. LateOK'
      BY <2>1, <3>1 DEF LateOK, AtOrBelowMarker
    <3> QED BY <2>3, <3>4, <3>5
  <2> QED BY <2>4, <2>5, <2>6
<1>3. ASSUME MoveMarker
      PROVE  Counted'
  <2>1. Stored' = Stored /\ reader.msg # Nobody
    BY <1>3 DEF MoveMarker, Stored
  <2>2. chat' = [chat EXCEPT !.marker = reader.msg, !.unread = reader.count] /\ late' = {}
        /\ reader' = [msg |-> Nobody, count |-> 0]
    BY <1>3 DEF MoveMarker
  <2>3. chat'.marker = reader.msg /\ chat'.unread = reader.count /\ reader'.msg = Nobody
    BY <2>2 DEF TypeOK
  <2>4. reader.count = Cardinality(After(reader.msg)) /\ \A k : After(k)' = After(k)
    BY <2>1 DEF ReaderOK, After
  <2>5. Cardinality(late') = 0
    BY <2>2, FS_EmptySet
  <2>8. chat'.unread = Cardinality(After(reader.msg)) + Cardinality(late')
    BY <2>1, <2>3, <2>4, <2>5, AfterSize
  <2>6. UnreadMatches'
    BY <2>1, <2>3, <2>4, <2>8 DEF UnreadMatches, After
  <2>7. ReaderOK' /\ LateOK'
    BY <2>2, <2>3 DEF ReaderOK, LateOK
  <2> QED BY <2>6, <2>7
<1>4. ASSUME NEW m \in Messages, LockAndCount(m)
      PROVE  Counted'
  <2>1. Stored' = Stored /\ UNCHANGED <<chat, late>>
    BY <1>4 DEF LockAndCount, store, ghosts, Stored
  <2>2. \A k : After(k)' = After(k)
    BY <2>1 DEF After
  <2>3. UnreadMatches' /\ LateOK'
    BY <2>1 DEF UnreadMatches, LateOK, After, AtOrBelowMarker
  <2>4. ReaderOK'
    <3>1. CASE reader' = reader
      BY <2>1, <2>2, <3>1 DEF ReaderOK, After
    <3>2. CASE ~AtOrBelowMarker(m) /\ reader' = [msg |-> m, count |-> Cardinality(After(m))]
      BY <2>1, <2>2, <3>2 DEF ReaderOK, AtOrBelowMarker, After
    <3> QED BY <1>4, <3>1, <3>2 DEF LockAndCount
  <2> QED BY <2>3, <2>4
<1>5. ASSUME \A j \in jobs : ~Store(j), ~MoveMarker, \A m \in Messages : ~LockAndCount(m)
      PROVE  Counted'
  <2>1. Stored' = Stored
    BY <1>5, StoredStays
  <2>2. \A k : After(k)' = After(k)
    BY <2>1 DEF After
  <2>3. UNCHANGED <<reader, late>> /\ chat'.marker = chat.marker /\ chat'.unread = chat.unread
    BY <1>5, CountStays
  <2>4. UnreadMatches'
    BY <2>1, <2>3 DEF UnreadMatches, After
  <2>5. ReaderOK'
    BY <2>1, <2>3 DEF ReaderOK, After
  <2>6. LateOK'
    BY <2>3 DEF LateOK, AtOrBelowMarker
  <2> QED BY <2>4, <2>5, <2>6
<1> QED BY <1>2, <1>3, <1>4, <1>5

LEMMA TypeStep ==
  ASSUME TypeOK, JobsOK, Counted, [Next]_vars
  PROVE  TypeOK'
<1>1. events' = events /\ rows' \in [Messages -> Row] /\ \A m \in Messages : rows'[m].stored \/ rows'[m] = NoRow
  BY RowsGrow
<1>2. Stored \subseteq Stored'
  BY RowsGrow DEF Stored
<1>3. jobs' \subseteq Job' /\ \A j \in jobs' : j.at \in {"apply", "preview", "look", "park"} => j.change # NoChange
  BY JobsStep DEF JobsOK, JobOK
<1>4. left' \in [Troubles -> Nat]
  <2>1. \A what \in Troubles : left[what] > 0 => [left EXCEPT ![what] = @ - 1] \in [Troubles -> Nat]
    BY DEF TypeOK
  <2>2. {"again", "faults", "crashes", "reads", "expiries"} \subseteq Troubles
    BY DEF Troubles
  <2>3. \/ left' = left
        \/ \E what \in {"again", "faults", "crashes", "reads", "expiries"} :
             left[what] > 0 /\ left' = [left EXCEPT ![what] = @ - 1]
    BY DEF Next, Step, Fail, Crash, Redeliver, LockAndCount, Expire, MoveMarker, Store, Apply, Preview, ApplyStatus,
           Look, ReadParked, Park, Recheck, Fetch, Clear, Hand, vars
  <2> QED BY <2>1, <2>2, <2>3 DEF TypeOK
<1>5. parked' \in [Messages -> AnyChange]
  <2>1. NoChange \in AnyChange /\ \A j \in jobs : j.change \in AnyChange
    BY JobTypes DEF AnyChange
  <2>2. parked' = parked \/ \E m, c : c \in AnyChange /\ parked' = [parked EXCEPT ![m] = c]
    BY <2>1 DEF Next, Step, Fail, Crash, Redeliver, LockAndCount, Expire, MoveMarker, Store, Apply, Preview, ApplyStatus,
           Look, ReadParked, Park, Recheck, Fetch, Clear, Hand, store, vars
  <2> QED BY <2>2 DEF TypeOK
<1>6. /\ chat' \in [last : Nat, shown : Nat, text : Int, unread : Nat, marker : Stored' \union {Nobody}]
      /\ reader' \in [msg : Stored' \union {Nobody}, count : Nat]
      /\ late' \subseteq Stored'
  <2>1. /\ chat \in [last : Nat, shown : Nat, text : Int, unread : Nat, marker : Stored \union {Nobody}]
        /\ reader \in [msg : Stored \union {Nobody}, count : Nat] /\ late \subseteq Stored
    BY DEF TypeOK
  <2>2. ASSUME NEW j \in jobs, Store(j) PROVE <1>6!:
    <3>1. reader' = reader /\ late' \subseteq late \union {j.event.msg} /\ Stored' = Stored \union {j.event.msg}
      BY <2>2, StoreEffect
    <3>2. chat' \in [last : Nat, shown : Nat, text : Int, unread : Nat, marker : Stored \union {Nobody}]
      BY <2>2, StoreEffect
    <3>3. chat' \in [last : Nat, shown : Nat, text : Int, unread : Nat, marker : Stored' \union {Nobody}]
      BY <1>2, <3>2
    <3> QED BY <1>2, <2>1, <3>1, <3>3
  <2>3. ASSUME MoveMarker PROVE <1>6!:
    <3>1. chat' = [chat EXCEPT !.marker = reader.msg, !.unread = reader.count] /\ late' = {}
          /\ reader' = [msg |-> Nobody, count |-> 0]
      BY <2>3 DEF MoveMarker
    <3>2. chat' \in [last : Nat, shown : Nat, text : Int, unread : Nat, marker : Stored' \union {Nobody}]
      BY <1>2, <2>1, <3>1
    <3> QED BY <3>1, <3>2
  <2>4. ASSUME NEW m \in Messages, LockAndCount(m) PROVE <1>6!:
    <3>1. chat' = chat /\ late' = late /\ m \in Stored /\ Cardinality(After(m)) \in Nat
      BY <2>4, AfterSize DEF LockAndCount, store, ghosts
    <3>2. reader' \in {reader, [msg |-> m, count |-> Cardinality(After(m))]}
      BY <2>4 DEF LockAndCount
    <3>3. reader' \in [msg : Stored' \union {Nobody}, count : Nat]
      <4>1. CASE reader' = reader
        BY <1>2, <2>1, <4>1
      <4>2. CASE reader' = [msg |-> m, count |-> Cardinality(After(m))]
        BY <1>2, <3>1, <4>2
      <4> QED BY <3>2, <4>1, <4>2
    <3>4. chat' \in [last : Nat, shown : Nat, text : Int, unread : Nat, marker : Stored' \union {Nobody}]
      BY <1>2, <2>1, <3>1
    <3> QED BY <1>2, <2>1, <3>1, <3>3, <3>4
  <2>5. ASSUME \A j \in jobs : ~Store(j), ~MoveMarker, \A m \in Messages : ~LockAndCount(m) PROVE <1>6!:
    <3>1. Stored' = Stored
      BY <2>5, StoredStays
    <3> QED BY <2>1, <2>5, <3>1, CountStays
  <2> QED BY <2>2, <2>3, <2>4, <2>5
<1>7. handed' \subseteq Stored'
  <2>1. ASSUME NEW j \in jobs, Hand(j) PROVE handed' \subseteq handed \union {j.event.msg} /\ j.event.msg \in Stored
    BY <2>1, JobTypes DEF Hand, JobOK, Stored
  <2>2. (\E j \in jobs : Hand(j)) \/ handed' = handed
    BY DEF Next, Step, Fail, Crash, Redeliver, LockAndCount, Expire, MoveMarker, Store, Apply, Preview, ApplyStatus,
           Look, ReadParked, Park, Recheck, Fetch, Clear, store, vars
  <2> QED BY <1>2, <2>1, <2>2 DEF TypeOK
<1>8. dropped' \subseteq events
  <2>1. \A j \in jobs : j.event \in events
    BY JobTypes
  <2>2. dropped' = dropped \/ \E j \in jobs : dropped' = dropped \union {j.event}
    BY DEF Next, Step, Fail, Crash, Redeliver, LockAndCount, Expire, MoveMarker, Store, Apply, Preview, ApplyStatus,
           Look, ReadParked, Park, Recheck, Fetch, Clear, Hand, ghosts, vars
  <2> QED BY <2>1, <2>2 DEF TypeOK
<1> QED BY <1>1, <1>3, <1>4, <1>5, <1>6, <1>7, <1>8 DEF TypeOK

-----------------------------------------------------------------------------
(* Changes that cover one another.                                         *)

LEMMA CoversItself ==
  ASSUME NEW c \in Changes
  PROVE  Covers(c, c)
BY DEF Changes, Covers

LEMMA CoversOn ==
  ASSUME NEW b \in AnyChange, NEW c \in AnyChange, NEW d \in Changes, Covers(b, c), Covers(c, d)
  PROVE  Covers(b, d)
BY DEF Changes, AnyChange, NoChange, Covers

LEMMA CoveredShows ==
  ASSUME TypeOK, NEW m \in Messages, NEW c \in AnyChange, NEW d \in Changes, Covers(c, d), Shown(m, c)
  PROVE  Shown(m, d)
<1>1. rows[m].edited \in Nat
  BY DEF TypeOK, Row
<1> QED BY <1>1 DEF Changes, AnyChange, NoChange, Covers, Shown

(* The same of the rows a step leaves.                                     *)
LEMMA CoveredShowsNext ==
  ASSUME TypeOK, JobsOK, [Next]_vars, NEW m \in Messages, NEW c \in AnyChange, NEW d \in Changes, Covers(c, d), Shown(m, c)'
  PROVE  Shown(m, d)'
<1>1. rows'[m].edited \in Nat
  BY RowsGrow DEF Row
<1> QED BY <1>1 DEF Changes, AnyChange, NoChange, Covers, Shown

(* What is out of the way stays so.                                        *)
LEMMA ShownStays ==
  ASSUME TypeOK, JobsOK, [Next]_vars
  PROVE  /\ events' = events
         /\ \A m : OneSided(m)' <=> OneSided(m)
         /\ \A m \in Messages, c \in AnyChange : Shown(m, c) => Shown(m, c)'
<1>1. events' = events /\ rows' \in [Messages -> Row]
      /\ \A m \in Messages : (rows[m].deleted => rows'[m].deleted) /\ rows'[m].edited >= rows[m].edited
  BY RowsGrow
<1>2. \A m \in Messages : rows[m].edited \in Nat /\ rows'[m].edited \in Nat
  BY <1>1 DEF TypeOK, Row
<1>3. \A c \in AnyChange : c.at \in Nat
  BY DEF AnyChange, Changes, NoChange
<1>4. \A m : OneSided(m)' <=> OneSided(m)
  BY <1>1 DEF OneSided
<1>5. ASSUME NEW m \in Messages, NEW c \in AnyChange, Shown(m, c)
      PROVE  Shown(m, c)'
  <2>1. CASE rows[m].deleted
    BY <1>1, <2>1 DEF Shown
  <2>2. CASE c.kind = "edit" /\ rows[m].edited >= c.at
    <3>1. rows'[m].edited >= c.at
      BY <1>1, <1>2, <1>3, <2>2
    <3> QED BY <2>2, <3>1 DEF Shown
  <2> QED BY <1>5, <2>1, <2>2 DEF Shown
<1> QED BY <1>1, <1>4, <1>5

LEMMA ExcusedStays ==
  ASSUME TypeOK, JobsOK, [Next]_vars
  PROVE  /\ lost \subseteq lost' /\ cut \subseteq cut' /\ dropped \subseteq dropped' /\ missed \subseteq missed'
         /\ \A m : Excused(m) => Excused(m)'
<1>1. lost \subseteq lost'
  BY DEF Next, Step, Fail, Crash, Redeliver, LockAndCount, Expire, MoveMarker, Store, Apply, Preview, ApplyStatus,
         Look, ReadParked, Park, Recheck, Fetch, Clear, Hand, ghosts, vars
<1>2. cut \subseteq cut' /\ dropped \subseteq dropped'
  BY DEF Next, Step, Fail, Crash, Redeliver, LockAndCount, Expire, MoveMarker, Store, Apply, Preview, ApplyStatus,
         Look, ReadParked, Park, Recheck, Fetch, Clear, Hand, ghosts, vars
<1>3. missed \subseteq missed'
  BY DEF Next, Step, Fail, Crash, Redeliver, LockAndCount, Expire, MoveMarker, Store, Apply, Preview, ApplyStatus,
         Look, ReadParked, Park, Recheck, Fetch, Clear, Hand, ghosts, vars
<1> QED BY <1>1, <1>2, <1>3 DEF Excused

(* Once its message is stored, a change that is tried shows.               *)
LEMMA Tried ==
  ASSUME TypeOK, JobsOK, NEW j \in jobs, Apply(j), OneSided(j.event.msg), rows[j.event.msg].stored
  PROVE  Shown(j.event.msg, j.change)'
<1> DEFINE m == j.event.msg
           c == j.change
<1>1. m \in Messages /\ c \in AnyChange /\ c # NoChange /\ Sent(m, c)
  BY JobTypes DEF JobOK, Apply
<1>2. c.kind \in {"edit", "revoke"} /\ c.at \in Nat /\ rows[m].edited \in Nat
  BY <1>1 DEF AnyChange, Changes, TypeOK, Row
<1>3. PICK e \in events : e.kind \in {"edit", "revoke"} /\ e.msg = m /\ c = [kind |-> e.kind, at |-> e.at, mine |-> e.mine]
  BY <1>1 DEF Sent
<1>4. c.mine = Mine[m]
  BY <1>3 DEF OneSided
<1>5. CASE Lands(m, c)
  <2>1. rows' = [rows EXCEPT ![m] = IF c.kind = "edit" THEN [@ EXCEPT !.edited = c.at] ELSE [@ EXCEPT !.deleted = TRUE]]
    BY <1>5 DEF Apply
  <2>2. CASE c.kind = "edit"
    <3>1. rows'[m] = [rows[m] EXCEPT !.edited = c.at]
      BY <1>1, <2>1, <2>2 DEF TypeOK
    <3>2. rows'[m].edited = c.at
      BY <1>1, <3>1 DEF TypeOK, Row
    <3>3. rows'[m].edited >= c.at
      BY <1>2, <3>2
    <3> QED BY <2>2, <3>3 DEF Shown
  <2>3. CASE c.kind # "edit"
    <3>1. rows'[m] = [rows[m] EXCEPT !.deleted = TRUE]
      BY <1>1, <2>1, <2>3 DEF TypeOK
    <3>2. rows'[m].deleted
      BY <1>1, <3>1 DEF TypeOK, Row
    <3> QED BY <3>2 DEF Shown
  <2> QED BY <2>2, <2>3
<1>6. CASE ~Lands(m, c)
  <2>1. rows' = rows
    BY <1>6 DEF Apply
  <2>2. rows[m].deleted \/ (c.kind = "edit" /\ ~(rows[m].edited < c.at))
    BY <1>4, <1>6 DEF Lands
  <2>3. ~(rows[m].edited < c.at) => rows[m].edited >= c.at
    BY <1>2
  <2> QED BY <2>1, <2>2, <2>3 DEF Shown
<1> QED BY <1>5, <1>6

-----------------------------------------------------------------------------
(* What becomes of a job.                                                  *)

LEMMA OthersStay ==
  ASSUME TypeOK, JobsOK, [Next]_vars, NEW j \in jobs, j \notin jobs'
  PROVE  Step(j) \/ Fail(j) \/ Crash(j)
<1>1. ASSUME NEW k \in jobs, Step(k)
      PROVE  jobs \ {k} \subseteq jobs'
  BY <1>1, JobMoves
<1>2. ASSUME NEW k \in jobs, Fail(k) \/ Crash(k)
      PROVE  jobs \ {k} \subseteq jobs'
  BY <1>2 DEF Fail, Crash, Replace, Finish
<1>3. (\E k \in jobs : Step(k) \/ Fail(k) \/ Crash(k)) \/ jobs \subseteq jobs'
  BY DEF Next, Redeliver, LockAndCount, Expire, MoveMarker, vars
<1> QED BY <1>1, <1>2, <1>3

LEMMA GoesTo ==
  ASSUME TypeOK, JobsOK, NEW j \in jobs, NEW step \in Steps, Goto(j, step)
  PROVE  \E n \in jobs' : n.event = j.event /\ n.at = step /\ n.change = j.change /\ n.fetched = j.fetched
<1>1. step # "done" /\ j \in Job
  BY JobTypes DEF Steps
<1>2. Moved(j, step) \in jobs'
  BY <1>1, GotoMoves
<1> QED BY <1>1, <1>2, MovedType

LEMMA NewJobIs ==
  ASSUME TypeOK, JobsOK, NEW j \in jobs, NEW made \in 0..(Attempts - 1), NEW n, n = NewJob(j.event, j.copy, made)
  PROVE  n.event = j.event /\ n.at = FirstStep(j.event) /\ n.change = ChangeOf(j.event) /\ ~n.fetched /\ n.made = made
<1>1. n.made = made
  BY DEF NewJob
<1>2. n.event = j.event
  BY DEF NewJob
<1>3. n.at = FirstStep(j.event)
  BY DEF NewJob
<1>4. n.change = ChangeOf(j.event)
  BY DEF NewJob
<1>5. n.fetched = FALSE
  BY DEF NewJob
<1> QED BY <1>1, <1>2, <1>3, <1>4, <1>5

(* A job that runs again starts over, and a message's own job no longer    *)
(* looks like a redelivery, or its message is excused.                     *)
LEMMA RunsAgain ==
  ASSUME TypeOK, JobsOK, NEW j \in jobs, Fail(j) \/ Crash(j)
  PROVE  \/ j.event \in dropped' /\ Excused(j.event.msg)'
         \/ \E n \in jobs' : /\ n.event = j.event /\ n.at = FirstStep(j.event)
                             /\ n.change = ChangeOf(j.event) /\ ~n.fetched
                             /\ IsMessage(j) => n.made > 0 \/ Excused(j.event.msg)'
<1>1. j.event \in events /\ j.copy \in 0..1 /\ j.made \in 0..(Attempts - 1)
  BY JobTypes
<1>2. CASE Fail(j)
  <2>1. CASE j.made + 1 < Attempts
    <3>0. PICK n : n = NewJob(j.event, j.copy, j.made + 1)
      OBVIOUS
    <3>1. j.made + 1 \in 0..(Attempts - 1) /\ j.made + 1 > 0
      BY <1>1, <2>1 DEF Attempts
    <3>2. n \in jobs'
      BY <1>2, <2>1, <3>0 DEF Fail, Replace
    <3>3. n.event = j.event /\ n.at = FirstStep(j.event) /\ n.change = ChangeOf(j.event) /\ ~n.fetched
      BY <3>0, <3>1, NewJobIs
    <3>4. n.made = j.made + 1
      BY <3>0, <3>1, NewJobIs
    <3> QED BY <3>1, <3>2, <3>3, <3>4
  <2>2. CASE ~(j.made + 1 < Attempts)
    BY <1>2, <2>2 DEF Fail, Excused
  <2> QED BY <2>1, <2>2
<1>3. CASE Crash(j)
  <2>0. PICK n : n = NewJob(j.event, j.copy, j.made)
    OBVIOUS
  <2>1. n \in jobs'
    BY <1>3, <2>0 DEF Crash, Replace
  <2>2. n.event = j.event /\ n.at = FirstStep(j.event) /\ n.change = ChangeOf(j.event) /\ ~n.fetched
    BY <1>1, <2>0, NewJobIs
  <2>3. IsMessage(j) => Excused(j.event.msg)'
    BY <1>3 DEF Crash, Excused
  <2> QED BY <2>1, <2>2, <2>3
<1> QED BY <1>2, <1>3

(* Where a job that is about to clear, to refresh the preview or to park   *)
(* has come from.                                                          *)
FromTry(k, j) ==
  /\ k.event = j.event /\ k.change = j.change
  /\ \/ k.at \in {"preview", "clear"} /\ Apply(j) /\ rows[j.event.msg].stored
     \/ k.at = "clear" /\ j.at = "preview"
     \/ k.at = "park" /\ ~Yields(k.change, k.seen)

LEMMA Newcomers ==
  ASSUME TypeOK, JobsOK, [Next]_vars, NEW k \in jobs', k \notin jobs, k.at \in {"preview", "clear", "park"}
  PROVE  \E j \in jobs : FromTry(k, j)
<1>1. \A e \in events : FirstStep(e) \notin {"preview", "clear", "park"}
  BY EventTypes
<1>2. \A e, copy, made : NewJob(e, copy, made).at = FirstStep(e)
  BY DEF NewJob
<1>3. ASSUME NEW j \in jobs, Fail(j) \/ Crash(j) PROVE FALSE
  <2>1. \E made : k = NewJob(j.event, j.copy, made)
    BY <1>3 DEF Fail, Crash, Replace, Finish
  <2> QED BY <1>1, <1>2, <2>1, JobTypes
<1>4. ASSUME NEW e \in events, Redeliver(e) PROVE FALSE
  BY <1>1, <1>2, <1>4 DEF Redeliver
<1>5. jobs' # jobs
  OBVIOUS
<1>6. PICK j \in jobs : Step(j)
  BY <1>3, <1>4, <1>5 DEF Next, LockAndCount, Expire, MoveMarker, vars
<1>7. j \in Job /\ JobOK(j) /\ j.event.msg \in Messages
  BY JobTypes
<1>8. ASSUME NEW step \in Steps \union {"done"}, Goto(j, step)
      PROVE  step = k.at /\ k.event = j.event /\ k.change = j.change
  <2>1. step # "done" /\ k = Moved(j, step)
    BY <1>8, GotoMoves
  <2> QED BY <1>7, <1>8, <2>1, MovedType
<1>9. "done" \in Steps \union {"done"} /\ {"fetch", "hand", "look", "read", "recheck", "clear", "preview"} \subseteq Steps
  BY DEF Steps
<1>10. Onward(j) \in {"hand", "done"}
  BY DEF Onward
<1>11. CASE Store(j)
  BY <1>8, <1>9, <1>11 DEF Store
<1>12. CASE Apply(j)
  <2>1. CASE Lands(j.event.msg, j.change)
    <3>1. Goto(j, "preview") /\ rows[j.event.msg].stored
      BY <1>12, <2>1 DEF Apply, Lands
    <3> QED BY <1>8, <1>9, <1>12, <3>1 DEF FromTry
  <2>2. CASE ~Lands(j.event.msg, j.change)
    <3>1. Goto(j, IF j.fetched THEN "clear" ELSE "look")
      BY <1>12, <2>2 DEF Apply
    <3>2. j.fetched
      BY <1>8, <1>9, <3>1
    <3>3. rows[j.event.msg].stored
      BY <1>7, <3>2 DEF JobOK
    <3> QED BY <1>8, <1>9, <1>12, <3>1, <3>2, <3>3 DEF FromTry
  <2> QED BY <2>1, <2>2
<1>13. CASE Preview(j)
  BY <1>8, <1>9, <1>13 DEF Preview, FromTry
<1>14. CASE ApplyStatus(j) \/ Hand(j)
  BY <1>8, <1>9, <1>14 DEF ApplyStatus, Hand
<1>15. CASE Look(j)
  BY <1>8, <1>9, <1>15 DEF Look
<1>16. CASE ReadParked(j)
  <2>0. PICK n : n = [j EXCEPT !.at = "park", !.seen = parked[j.event.msg]]
    OBVIOUS
  <2>1. ~Yields(j.change, parked[j.event.msg]) /\ Replace(j, n)
    BY <1>8, <1>9, <1>16, <2>0 DEF ReadParked
  <2>2. k = n
    BY <2>1 DEF Replace
  <2>3. k.event = j.event /\ k.change = j.change /\ k.at = "park" /\ k.seen = parked[j.event.msg]
    BY <1>7, <2>0, <2>2 DEF Job
  <2> QED BY <2>1, <2>3 DEF FromTry
<1>17. CASE Park(j)
  BY <1>8, <1>9, <1>17 DEF Park
<1>18. CASE Recheck(j)
  BY <1>8, <1>9, <1>18 DEF Recheck
<1>19. CASE Fetch(j)
  <2>0. PICK n : n = [j EXCEPT !.at = "apply", !.change = parked[j.event.msg], !.fetched = TRUE]
    OBVIOUS
  <2>1. CASE Goto(j, Onward(j))
    BY <1>8, <1>9, <1>10, <2>1
  <2>2. CASE Replace(j, n)
    <3>1. k = n
      BY <2>2 DEF Replace
    <3>2. k.at = "apply"
      BY <1>7, <2>0, <3>1 DEF Job
    <3> QED BY <3>2
  <2> QED BY <1>19, <2>0, <2>1, <2>2 DEF Fetch
<1>20. CASE Clear(j)
  BY <1>8, <1>9, <1>10, <1>20 DEF Clear
<1> QED BY <1>6, <1>11, <1>12, <1>13, <1>14, <1>15, <1>16, <1>17, <1>18, <1>19, <1>20 DEF Step

LEMMA TriedStep ==
  ASSUME TypeOK, JobsOK, TriedOK, [Next]_vars
  PROVE  TriedOK'
<1> SUFFICES ASSUME NEW k \in jobs'
             PROVE  /\ k.at \in {"preview", "clear"} /\ OneSided(k.event.msg)' => Shown(k.event.msg, k.change)'
                    /\ k.at = "park" => ~Yields(k.change, k.seen)
  BY DEF TriedOK
<1>1. CASE k \in jobs
  BY <1>1, JobTypes, ShownStays DEF TriedOK
<1>2. CASE k \notin jobs /\ k.at \in {"preview", "clear", "park"}
  <2>1. PICK j \in jobs : FromTry(k, j)
    BY <1>2, Newcomers
  <2>2. /\ k.event = j.event /\ k.change = j.change
        /\ \/ k.at \in {"preview", "clear"} /\ Apply(j) /\ rows[j.event.msg].stored
           \/ k.at = "clear" /\ j.at = "preview"
           \/ k.at = "park" /\ ~Yields(k.change, k.seen)
    BY <2>1 DEF FromTry
  <2>3. OneSided(j.event.msg)' => OneSided(j.event.msg)
    BY ShownStays
  <2>4. ASSUME Apply(j), rows[j.event.msg].stored, OneSided(j.event.msg)
        PROVE  Shown(j.event.msg, j.change)'
    BY <2>4, Tried
  <2>5. ASSUME j.at = "preview", OneSided(j.event.msg)
        PROVE  Shown(j.event.msg, j.change)'
    BY <2>5, JobTypes, ShownStays DEF TriedOK
  <2> QED BY <2>2, <2>3, <2>4, <2>5
<1> QED BY <1>1, <1>2

-----------------------------------------------------------------------------
(* What is parked.                                                         *)

(* A job that would apply the parked change goes on to where it still      *)
(* will, unless the change shows, or the message is excused or not stored. *)
LEMMA WillApplyStep ==
  ASSUME TypeOK, JobsOK, [Next]_vars, NEW m \in Messages, OneSided(m), NEW c \in Changes, c = parked[m],
         NEW j \in jobs, j \notin jobs', WillApply(j, m, c)
  PROVE  Shown(m, c)' \/ Excused(m)' \/ ~rows'[m].stored \/ \E n \in jobs' : WillApply(n, m, c)
<1>1. /\ j.event.msg = m /\ (IsMessage(j) \/ Own(j, c))
      /\ \/ j.at = "fetch" \/ (j.at = "apply" /\ j.fetched /\ j.change = c)
         \/ IsMessage(j) /\ j.at = "store" /\ j.made > 0
         \/ IsChange(j) /\ (j.at = "recheck" \/ (j.at = "apply" /\ ~j.fetched))
  BY DEF WillApply
<1>2. /\ j \in Job /\ JobOK(j) /\ j.event \in events /\ j.at \in Steps /\ (Own(j, c) => IsChange(j))
      /\ c # NoChange /\ c \in AnyChange
  BY JobTypes, NoChangeApart DEF Own, AnyChange
<1>3. "fetch" \in Steps
  BY DEF Steps
<1>4. CASE Fail(j) \/ Crash(j)
  <2>1. SUFFICES ASSUME ~Excused(m)' PROVE \E n \in jobs' : WillApply(n, m, c)
    OBVIOUS
  <2>2. PICK n \in jobs' : /\ n.event = j.event /\ n.at = FirstStep(j.event) /\ ~n.fetched
                           /\ IsMessage(j) => n.made > 0
    BY <1>1, <1>4, <2>1, RunsAgain
  <2>3. IsMessage(n) <=> IsMessage(j)
    BY <2>2 DEF IsMessage
  <2>4. (IsChange(n) <=> IsChange(j)) /\ (Own(n, c) <=> Own(j, c))
    BY <2>2 DEF IsChange, Own
  <2>5. CASE IsMessage(j)
    <3>1. n.at = "store"
      BY <1>2, <2>2, <2>5, EventTypes DEF IsMessage
    <3> QED BY <1>1, <2>2, <2>3, <2>5, <3>1 DEF WillApply
  <2>6. CASE Own(j, c)
    <3>1. n.at = "apply"
      BY <1>2, <2>2, <2>6, EventTypes DEF IsChange
    <3> QED BY <1>1, <1>2, <2>2, <2>4, <2>6, <3>1 DEF WillApply
  <2> QED BY <1>1, <2>5, <2>6
<1>5. ASSUME Goto(j, "fetch")
      PROVE  \E n \in jobs' : WillApply(n, m, c)
  <2>1. PICK n \in jobs' : n.event = j.event /\ n.at = "fetch"
    BY <1>3, <1>5, GoesTo
  <2>2. IsMessage(n) \/ Own(n, c)
    BY <1>1, <2>1 DEF IsMessage, Own, IsChange
  <2> QED BY <1>1, <2>1, <2>2 DEF WillApply
<1>6. CASE Step(j) /\ j.at = "fetch"
  <2>1. Fetch(j)
    BY <1>6 DEF Step, Store, Apply, Preview, ApplyStatus, Look, ReadParked, Park, Recheck, Clear, Hand
  <2>2. PICK n : n = [j EXCEPT !.at = "apply", !.change = c, !.fetched = TRUE]
    OBVIOUS
  <2>3. n \in jobs'
    BY <1>1, <1>2, <2>1, <2>2 DEF Fetch, Replace
  <2>4. n.event = j.event /\ n.at = "apply" /\ n.change = c /\ n.fetched
    BY <1>2, <2>2 DEF Job
  <2>5. IsMessage(n) \/ Own(n, c)
    BY <1>1, <2>4 DEF IsMessage, Own, IsChange
  <2> QED BY <1>1, <2>3, <2>4, <2>5 DEF WillApply
<1>7. CASE Step(j) /\ j.at = "apply" /\ j.fetched /\ j.change = c
  <2>1. Apply(j)
    BY <1>7 DEF Step, Store, Preview, ApplyStatus, Look, ReadParked, Park, Recheck, Fetch, Clear, Hand
  <2>2. rows[m].stored
    BY <1>1, <1>2, <1>7 DEF JobOK
  <2> QED BY <1>1, <1>7, <2>1, <2>2, Tried
<1>8. CASE Step(j) /\ IsMessage(j) /\ j.at = "store" /\ j.made > 0
  <2>1. Store(j)
    BY <1>8 DEF Step, Apply, Preview, ApplyStatus, Look, ReadParked, Park, Recheck, Fetch, Clear, Hand
  <2>2. Goto(j, "fetch")
    BY <1>8, <2>1 DEF Store, GoesOn
  <2> QED BY <1>5, <2>2
<1>9. CASE Step(j) /\ IsChange(j) /\ j.at = "recheck"
  <2>1. Recheck(j)
    BY <1>9 DEF Step, Store, Apply, Preview, ApplyStatus, Look, ReadParked, Park, Fetch, Clear, Hand
  <2>2. rows' = rows
    BY <2>1 DEF Recheck, store
  <2>3. rows[m].stored => Goto(j, "fetch")
    BY <1>1, <2>1 DEF Recheck
  <2> QED BY <1>5, <2>2, <2>3
<1>10. CASE Step(j) /\ IsChange(j) /\ j.at = "apply" /\ ~j.fetched
  <2>1. Apply(j)
    BY <1>10 DEF Step, Store, Preview, ApplyStatus, Look, ReadParked, Park, Recheck, Fetch, Clear, Hand
  <2>2. j.change = ChangeOf(j.event) /\ j.change \in AnyChange /\ Covers(ChangeOf(j.event), c)
    BY <1>1, <1>2, <1>10, EventTypes DEF JobOK, IsChange, IsMessage, Own
  <2>3. CASE rows[m].stored
    <3>1. Shown(m, j.change)'
      BY <1>1, <2>1, <2>3, Tried
    <3> QED BY <2>2, <3>1, CoveredShowsNext
  <2>4. CASE ~rows[m].stored
    BY <1>1, <2>1, <2>4 DEF Apply, Lands
  <2> QED BY <2>3, <2>4
<1> QED BY <1>1, <1>4, <1>6, <1>7, <1>8, <1>9, <1>10, OthersStay

(* How the parked change of a message becomes another one.                 *)
LEMMA ParkedMoves ==
  ASSUME TypeOK, JobsOK, [Next]_vars, NEW m \in Messages, parked'[m] # parked[m]
  PROVE  \/ \E j \in jobs : Park(j) /\ j.event.msg = m /\ parked'[m] = j.change
         \/ \E j \in jobs : Clear(j) /\ j.event.msg = m /\ parked'[m] = NoChange
         \/ Expire(m) /\ parked'[m] = NoChange
<1>1. parked \in [Messages -> AnyChange]
  BY DEF TypeOK
<1>2. ASSUME NEW j \in jobs, Park(j) PROVE j.event.msg = m /\ parked'[m] = j.change
  BY <1>1, <1>2 DEF Park
<1>3. ASSUME NEW j \in jobs, Clear(j) PROVE j.event.msg = m /\ parked'[m] = NoChange
  BY <1>1, <1>3 DEF Clear
<1>4. ASSUME NEW k \in Messages, Expire(k) PROVE k = m /\ parked'[m] = NoChange
  BY <1>1, <1>4 DEF Expire
<1>5. (\E j \in jobs : Park(j) \/ Clear(j)) \/ \E k \in Messages : Expire(k)
  BY DEF Next, Step, Fail, Crash, Redeliver, LockAndCount, MoveMarker, Store, Apply, Preview, ApplyStatus,
         Look, ReadParked, Recheck, Fetch, Hand, store, vars
<1> QED BY <1>2, <1>3, <1>4, <1>5

LEMMA ParkedStep ==
  ASSUME TypeOK, JobsOK, ParkedOK, [Next]_vars
  PROVE  ParkedOK'
<1> SUFFICES ASSUME NEW m \in Messages, OneSided(m)', NEW c, c = parked'[m], c # NoChange,
                    ~Shown(m, c)', ~Excused(m)', rows'[m].stored
             PROVE  \E n \in jobs' : WillApply(n, m, c)
  BY DEF ParkedOK, Shown, WillApply
<1>1. OneSided(m)
  BY ShownStays
<1>2. CASE parked'[m] # parked[m]
  <2>1. PICK j \in jobs : Park(j) /\ j.event.msg = m /\ parked'[m] = j.change
    BY <1>2, ParkedMoves
  <2>2. JobOK(j) /\ j.at = "park" /\ j.event \in events /\ j.event.kind \in {"message", "edit", "revoke", "status"}
    BY <2>1, JobTypes DEF Park
  <2>3. ~j.fetched /\ IsChange(j) /\ j.change = ChangeOf(j.event)
    BY <2>2 DEF JobOK, IsChange
  <2>4. Own(j, j.change)
    BY <2>2, <2>3, EventTypes, CoversItself DEF Own, IsChange
  <2>5. "recheck" \in Steps /\ Goto(j, "recheck")
    BY <2>1 DEF Steps, Park
  <2>6. PICK n \in jobs' : n.event = j.event /\ n.at = "recheck"
    BY <2>5, GoesTo
  <2>7. IsChange(n) /\ Own(n, j.change)
    BY <2>3, <2>4, <2>6 DEF IsChange, Own
  <2> QED BY <2>1, <2>6, <2>7 DEF WillApply
<1>3. CASE parked'[m] = parked[m]
  <2>1. c = parked[m] /\ c \in Changes
    BY <1>3 DEF TypeOK, AnyChange
  <2>2. c \in AnyChange
    BY <2>1 DEF AnyChange
  <2>3. ~Shown(m, c) /\ ~Excused(m)
    BY <2>2, ShownStays, ExcusedStays
  <2>4. CASE rows[m].stored
    <3>1. PICK j \in jobs : WillApply(j, m, c)
      BY <1>1, <2>1, <2>3, <2>4 DEF ParkedOK
    <3>2. CASE j \notin jobs'
      BY <1>1, <1>3, <2>1, <3>1, <3>2, WillApplyStep
    <3> QED BY <3>1, <3>2
  <2>5. CASE ~rows[m].stored
    <3>1. m \in Stored' /\ m \notin Stored
      BY <2>5 DEF Stored
    <3>2. PICK j \in jobs : Store(j)
      BY <3>1, StoredStays
    <3>3. j.event.msg = m
      BY <3>1, <3>2, StoreEffect
    <3>4. Goto(j, "fetch") /\ j.at = "store"
      BY <2>5, <3>2, <3>3 DEF Store, GoesOn
    <3>5. IsMessage(j)
      BY <3>4, JobTypes DEF JobOK, IsMessage
    <3>6. PICK n \in jobs' : n.event = j.event /\ n.at = "fetch"
      BY <3>4, GoesTo DEF Steps
    <3>7. IsMessage(n)
      BY <3>5, <3>6 DEF IsMessage
    <3> QED BY <1>3, <3>3, <3>6, <3>7 DEF WillApply
  <2> QED BY <2>4, <2>5
<1> QED BY <1>2, <1>3

-----------------------------------------------------------------------------
(* No change is forgotten.                                                 *)

LEMMA YieldsCovers ==
  ASSUME NEW c \in AnyChange, NEW current \in AnyChange
  PROVE  Yields(c, current) <=> Covers(current, c)
BY DEF Yields, Covers

(* A change's own job goes on to where it still bears it, unless the       *)
(* change shows, the message is excused, or what is parked covers it.      *)
LEMMA BearsStep ==
  ASSUME TypeOK, JobsOK, [Next]_vars, NEW m \in Messages, OneSided(m), NEW c \in Changes,
         NEW j \in jobs, j \notin jobs', Bears(j, m, c)
  PROVE  Shown(m, c)' \/ Excused(m)' \/ Covers(parked'[m], c) \/ \E n \in jobs' : Bears(n, m, c)
<1>1. /\ j.event.msg = m /\ Own(j, c) /\ IsChange(j) /\ ~j.fetched /\ j.at \in {"apply", "look", "read", "park"}
      /\ j \in Job /\ JobOK(j) /\ j.event \in events
  BY JobTypes DEF Bears, Own
<1>2. PICK d \in Changes : d = ChangeOf(j.event) /\ d = j.change /\ Covers(d, c) /\ d \in AnyChange
  BY <1>1, EventTypes DEF JobOK, IsChange, IsMessage, Own
<1>3. ASSUME NEW n \in jobs', n.event = j.event, ~n.fetched, n.at \in {"apply", "look", "read", "park"}
      PROVE  \E k \in jobs' : Bears(k, m, c)
  BY <1>1, <1>3 DEF Bears, Own, IsChange
<1>4. {"look", "read"} \subseteq Steps
  BY DEF Steps
<1>5. CASE Fail(j) \/ Crash(j)
  <2>1. CASE Excused(m)'
    BY <2>1
  <2>2. CASE ~Excused(m)'
    <3>1. PICK n \in jobs' : n.event = j.event /\ n.at = FirstStep(j.event) /\ ~n.fetched
      BY <1>1, <1>5, <2>2, RunsAgain
    <3>2. n.at = "apply"
      BY <1>1, <3>1, EventTypes DEF IsChange
    <3> QED BY <1>3, <3>1, <3>2
  <2> QED BY <2>1, <2>2
<1>6. CASE Step(j) /\ j.at = "apply"
  <2>1. Apply(j)
    BY <1>6 DEF Step, Store, Preview, ApplyStatus, Look, ReadParked, Park, Recheck, Fetch, Clear, Hand
  <2>2. CASE Lands(m, d)
    <3>1. Shown(m, d)'
      BY <1>1, <1>2, <2>1, <2>2, Tried DEF Lands
    <3> QED BY <1>2, <3>1, CoveredShowsNext
  <2>3. CASE ~Lands(m, d)
    <3>1. Goto(j, "look")
      BY <1>1, <1>2, <2>1, <2>3 DEF Apply
    <3>2. PICK n \in jobs' : n.event = j.event /\ n.at = "look" /\ n.fetched = j.fetched
      BY <1>4, <3>1, GoesTo
    <3> QED BY <1>1, <1>3, <3>2
  <2> QED BY <2>2, <2>3
<1>7. CASE Step(j) /\ j.at = "look"
  <2>1. Look(j)
    BY <1>7 DEF Step, Store, Apply, Preview, ApplyStatus, ReadParked, Park, Recheck, Fetch, Clear, Hand
  <2>2. CASE Lands(m, d)
    BY <1>1, <1>2, <2>1, <2>2 DEF Look, Excused
  <2>3. CASE ~Lands(m, d) /\ rows[m].stored
    <3>1. d.mine = Mine[m]
      <4>1. d # NoChange /\ Sent(m, d)
        BY <1>1, <1>2, NoChangeApart DEF JobOK
      <4>2. PICK e \in events : e.kind \in {"edit", "revoke"} /\ e.msg = m /\ d = [kind |-> e.kind, at |-> e.at, mine |-> e.mine]
        BY <4>1 DEF Sent
      <4> QED BY <4>2 DEF OneSided
    <3>2. rows[m].deleted \/ (d.kind = "edit" /\ ~(rows[m].edited < d.at))
      BY <2>3, <3>1 DEF Lands
    <3>3. ~(rows[m].edited < d.at) => rows[m].edited >= d.at
      <4>1. rows[m].edited \in Nat /\ d.at \in Nat
        BY DEF Changes, TypeOK, Row
      <4> QED BY <4>1
    <3>4. Shown(m, d)
      BY <3>2, <3>3 DEF Shown
    <3> QED BY <1>2, <3>4, CoveredShowsNext, ShownStays
  <2>4. CASE ~rows[m].stored
    <3>1. PICK n \in jobs' : n.event = j.event /\ n.at = "read" /\ n.fetched = j.fetched
      BY <1>1, <1>4, <2>1, <2>4, GoesTo DEF Look
    <3> QED BY <1>1, <1>3, <3>1
  <2> QED BY <2>2, <2>3, <2>4
<1>8. CASE Step(j) /\ j.at = "read"
  <2>1. ReadParked(j)
    BY <1>8 DEF Step, Store, Apply, Preview, ApplyStatus, Look, Park, Recheck, Fetch, Clear, Hand
  <2>2. CASE Yields(d, parked[m])
    <3>1. parked[m] \in AnyChange /\ parked' = parked
      BY <2>1 DEF TypeOK, ReadParked, store
    <3>2. Covers(parked[m], d)
      BY <1>2, <2>2, <3>1, YieldsCovers
    <3>3. Covers(parked[m], c)
      BY <1>2, <3>1, <3>2, CoversOn
    <3> QED BY <3>1, <3>3
  <2>3. CASE ~Yields(d, parked[m])
    <3>1. PICK n : n = [j EXCEPT !.at = "park", !.seen = parked[m]]
      OBVIOUS
    <3>2. n \in jobs'
      BY <1>1, <1>2, <2>1, <2>3, <3>1 DEF ReadParked, Replace
    <3>3. n.event = j.event /\ n.at = "park" /\ n.fetched = j.fetched
      BY <1>1, <3>1 DEF Job
    <3> QED BY <1>1, <1>3, <3>2, <3>3
  <2> QED BY <2>2, <2>3
<1>9. CASE Step(j) /\ j.at = "park"
  <2>1. Park(j)
    BY <1>9 DEF Step, Store, Apply, Preview, ApplyStatus, Look, ReadParked, Recheck, Fetch, Clear, Hand
  <2>2. parked'[m] = d
    BY <1>1, <1>2, <2>1 DEF Park, TypeOK
  <2> QED BY <1>2, <2>2
<1> QED BY <1>1, <1>5, <1>6, <1>7, <1>8, <1>9, OthersStay

(* What is parked is only replaced by what covers it, unless it shows or   *)
(* the message is excused.                                                 *)
LEMMA CoverStep ==
  ASSUME TypeOK, JobsOK, TriedOK, [Next]_vars, NEW m \in Messages, OneSided(m), NEW c \in Changes,
         Covers(parked[m], c)
  PROVE  Shown(m, c)' \/ Excused(m)' \/ Covers(parked'[m], c)
<1>1. parked[m] \in AnyChange /\ c \in AnyChange
  BY DEF TypeOK, AnyChange
<1>2. parked[m] # NoChange
  BY DEF Covers, NoChange
<1>3. ASSUME NEW j \in jobs, Clear(j), j.event.msg = m
      PROVE  Shown(m, c)' \/ Excused(m)'
  <2>1. CASE parked[m] = j.change
    <3>1. Shown(m, parked[m])
      BY <1>3, <2>1 DEF TriedOK, Clear
    <3>2. Shown(m, c)
      BY <1>1, <3>1, CoveredShows
    <3> QED BY <1>1, <3>2, ShownStays
  <2>2. CASE parked[m] # j.change
    BY <1>2, <1>3, <2>2 DEF Clear, Excused
  <2> QED BY <2>1, <2>2
<1>4. ASSUME NEW j \in jobs, Park(j), j.event.msg = m, parked'[m] = j.change
      PROVE  Excused(m)' \/ Covers(parked'[m], c)
  <2>1. CASE parked[m] = j.seen
    <3>1. ~Yields(j.change, parked[m]) /\ j.change \in AnyChange /\ j.change # NoChange
      BY <1>4, <2>1, JobTypes DEF TriedOK, Park, JobOK
    <3>2. ~Covers(parked[m], j.change) /\ j.change \in Changes
      BY <1>1, <3>1, YieldsCovers DEF AnyChange
    <3>3. Covers(j.change, c)
      BY <1>1, <3>2 DEF Covers, Changes, AnyChange, NoChange
    <3> QED BY <1>4, <3>3
  <2>2. CASE parked[m] # j.seen
    BY <1>4, <2>2 DEF Park, Excused
  <2> QED BY <2>1, <2>2
<1>5. ASSUME Expire(m)
      PROVE  Excused(m)'
  BY <1>5 DEF Expire, Excused
<1> QED BY <1>3, <1>4, <1>5, ParkedMoves

LEMMA ChangesStep ==
  ASSUME TypeOK, JobsOK, TriedOK, ChangesOK, [Next]_vars
  PROVE  ChangesOK'
<1> SUFFICES ASSUME NEW e \in events', e.kind \in {"edit", "revoke"}, OneSided(e.msg)',
                    NEW m, m = e.msg, NEW c, c = ChangeOf(e)
             PROVE  \/ Shown(m, c)' \/ Excused(m)' \/ Covers(parked'[m], c)
                    \/ \E j \in jobs' : Bears(j, m, c)
  BY DEF ChangesOK, Shown, Covers, Bears
<1>1. events' = events /\ OneSided(m)
  BY ShownStays
<1>2. m \in Messages /\ c \in Changes /\ c \in AnyChange
  BY <1>1, EventTypes
<1>3. Shown(m, c) \/ Excused(m) \/ (\E j \in jobs : Bears(j, m, c)) \/ Covers(parked[m], c)
  BY <1>1 DEF ChangesOK
<1>4. CASE Shown(m, c) \/ Excused(m)
  BY <1>2, <1>4, ShownStays, ExcusedStays
<1>5. ASSUME NEW j \in jobs, Bears(j, m, c), j \notin jobs'
      PROVE  Shown(m, c)' \/ Excused(m)' \/ Covers(parked'[m], c) \/ \E n \in jobs' : Bears(n, m, c)
  BY <1>1, <1>2, <1>5, BearsStep
<1>6. CASE Covers(parked[m], c)
  BY <1>1, <1>2, <1>6, CoverStep
<1> QED BY <1>3, <1>4, <1>5, <1>6

(* No status is forgotten.                                                 *)
LEMMA StatusesStep ==
  ASSUME TypeOK, JobsOK, StatusesOK, [Next]_vars
  PROVE  StatusesOK'
<1> SUFFICES ASSUME NEW e \in events', e.kind = "status"
             PROVE  e \in missed' \union dropped' \/ (\E j \in jobs' : j.event = e) \/ rows'[e.msg].status >= e.at
  BY DEF StatusesOK
<1>1. e \in events /\ e.msg \in Messages /\ e.at \in Nat
  BY ShownStays, EventTypes
<1>2. rows'[e.msg].status >= rows[e.msg].status /\ rows'[e.msg] \in Row /\ rows[e.msg] \in Row
  <2>1. rows' \in [Messages -> Row] /\ rows'[e.msg].status >= rows[e.msg].status
    BY <1>1, RowsGrow
  <2> QED BY <1>1, <2>1 DEF TypeOK
<1>3. rows[e.msg].status >= e.at => rows'[e.msg].status >= e.at
  <2>1. rows'[e.msg].status \in Nat /\ rows[e.msg].status \in Nat
    BY <1>2 DEF Row, Failed
  <2> QED BY <1>1, <1>2, <2>1
<1>4. ASSUME NEW j \in jobs, j.event = e, j \notin jobs'
      PROVE  e \in missed' \union dropped' \/ (\E n \in jobs' : n.event = e) \/ rows'[e.msg].status >= e.at
  <2>1. CASE Fail(j) \/ Crash(j)
    BY <1>4, <2>1, RunsAgain
  <2>2. CASE Step(j)
    <3>1. j.at = "status"
      BY <1>4, JobTypes DEF JobOK
    <3>2. ApplyStatus(j)
      BY <2>2, <3>1 DEF Step, Store, Apply, Preview, Look, ReadParked, Park, Recheck, Fetch, Clear, Hand
    <3>3. CASE ~rows[e.msg].stored
      BY <1>4, <3>2, <3>3 DEF ApplyStatus
    <3>4. CASE Climbs(e.msg, e.at)
      <4>1. rows' = [rows EXCEPT ![e.msg].status = e.at]
        BY <1>4, <3>2, <3>4 DEF ApplyStatus
      <4>2. rows'[e.msg].status = e.at
        BY <1>1, <1>2, <4>1 DEF TypeOK, Row
      <4> QED BY <1>1, <4>2
    <3>5. CASE rows[e.msg].stored /\ ~Climbs(e.msg, e.at)
      <4>1. ~(rows[e.msg].status < e.at)
        BY <3>5 DEF Climbs
      <4>2. rows[e.msg].status \in Nat
        BY <1>2 DEF Row, Failed
      <4>3. rows[e.msg].status >= e.at
        BY <1>1, <4>1, <4>2
      <4> QED BY <1>3, <4>3
    <3> QED BY <3>3, <3>4, <3>5
  <2> QED BY <1>4, <2>1, <2>2, OthersStay
<1> QED BY <1>1, <1>3, <1>4, ExcusedStays DEF StatusesOK

-----------------------------------------------------------------------------
(* The invariant and the theorems.                                         *)

LEMMA InitOK ==
  ASSUME Init
  PROVE  IInv
<1>1. PICK c \in Cases : events = c.events /\ left = c.limits /\ jobs = {NewJob(e, 0, 0) : e \in c.events}
  BY DEF Init
<1>2. /\ events \subseteq Events /\ IsFiniteSet(events) /\ left \in [Troubles -> Nat]
      /\ jobs = {NewJob(e, 0, 0) : e \in events}
  BY <1>1
<1>3. NoRow \in Row /\ NoChange \in AnyChange /\ NoRow.stored = FALSE
  BY DEF NoRow, Row, Failed, AnyChange
<1>4. /\ rows = [m \in Messages |-> NoRow] /\ parked = [m \in Messages |-> NoChange]
      /\ chat = [last |-> 0, shown |-> Nobody, text |-> 0, unread |-> 0, marker |-> Nobody]
      /\ reader = [msg |-> Nobody, count |-> 0]
      /\ handed = {} /\ dropped = {} /\ cut = {} /\ late = {} /\ missed = {} /\ lost = {}
  BY DEF Init
<1>5. Stored = {}
  BY <1>3, <1>4 DEF Stored
<1>6. \A e \in events : e \in Events
  BY <1>2
<1>7. ASSUME NEW j \in jobs
      PROVE  \E e \in events : /\ j.event = e /\ j.at = FirstStep(e) /\ j.change = ChangeOf(e) /\ ~j.fetched
                              /\ j.made = 0 /\ j \in Job
  <2>1. PICK e \in events : j = NewJob(e, 0, 0)
    BY <1>2
  <2>2. ChangeOf(e) \in AnyChange /\ FirstStep(e) \in Steps /\ 0 \in 0..(Attempts - 1)
    BY <1>6, EventShape DEF Attempts
  <2>3. j \in Job
    BY <1>3, <2>1, <2>2 DEF NewJob, Job
  <2>4. j.event = e /\ j.made = 0
    BY <2>1 DEF NewJob
  <2>5. j.at = FirstStep(e)
    BY <2>1 DEF NewJob
  <2>6. j.change = ChangeOf(e)
    BY <2>1 DEF NewJob
  <2>7. j.fetched = FALSE
    BY <2>1 DEF NewJob
  <2> QED BY <2>3, <2>4, <2>5, <2>6, <2>7
<1>8. TypeOK
  <2>1. /\ rows \in [Messages -> Row] /\ \A m \in Messages : rows[m] = NoRow
        /\ parked \in [Messages -> AnyChange]
    BY <1>3, <1>4
  <2>2. /\ chat \in [last : Nat, shown : Nat, text : Int, unread : Nat, marker : Stored \union {Nobody}]
        /\ reader \in [msg : Stored \union {Nobody}, count : Nat]
    BY <1>4, <1>5
  <2>3. \A j \in jobs : j \in Job /\ (j.at \in {"apply", "preview", "look", "park"} => j.change # NoChange)
    <3>1. SUFFICES ASSUME NEW j \in jobs
                   PROVE  j \in Job /\ (j.at \in {"apply", "preview", "look", "park"} => j.change # NoChange)
      OBVIOUS
    <3>2. PICK e \in events : j.at = FirstStep(e) /\ j.change = ChangeOf(e) /\ j \in Job
      BY <1>7
    <3>3. e \in Events
      BY <1>6
    <3>4. e.kind \in {"edit", "revoke"} => ChangeOf(e) # NoChange
      BY <3>3, EventShape, NoChangeApart
    <3>5. e.kind \notin {"edit", "revoke"} => FirstStep(e) \in {"store", "status"}
      BY <3>3, EventShape
    <3> QED BY <3>2, <3>4, <3>5
  <2> QED BY <1>2, <1>4, <2>1, <2>2, <2>3 DEF TypeOK
<1>9. JobsOK
  <2>1. \A m \in Messages : Sent(m, parked[m])
    BY <1>4 DEF Sent
  <2>2. ASSUME NEW j \in jobs PROVE JobOK(j)
    <3>1. PICK e \in events : j.event = e /\ j.at = FirstStep(e) /\ j.change = ChangeOf(e) /\ ~j.fetched
      BY <1>7
    <3>2. CASE e.kind \in {"edit", "revoke"}
      <4>1. Sent(e.msg, ChangeOf(e)) /\ ChangeOf(e) # NoChange /\ FirstStep(e) = "apply"
        BY <1>8, <3>2, EventTypes, NoChangeApart DEF Sent, ChangeOf
      <4> QED BY <3>1, <3>2, <4>1 DEF JobOK
    <3>3. CASE e.kind = "message"
      <4>1. Sent(e.msg, ChangeOf(e)) /\ FirstStep(e) = "store"
        BY <1>8, <3>3, EventTypes DEF Sent
      <4> QED BY <3>1, <3>3, <4>1 DEF JobOK
    <3>4. CASE e.kind = "status"
      <4>1. Sent(e.msg, ChangeOf(e)) /\ FirstStep(e) = "status"
        BY <1>8, <3>4, EventTypes DEF Sent
      <4> QED BY <3>1, <3>4, <4>1 DEF JobOK
    <3> QED BY <1>8, <3>2, <3>3, <3>4, EventTypes
  <2> QED BY <2>1, <2>2 DEF JobsOK
<1>10. Counted
  <2>1. \A n : After(n) = {}
    BY <1>5 DEF After
  <2>2. chat.unread = 0 /\ chat.marker = Nobody /\ reader.msg = Nobody
    BY <1>4
  <2>3. Cardinality({}) = 0
    BY FS_EmptySet
  <2>4. chat.unread = Cardinality(After(chat.marker)) + Cardinality(late)
    BY <1>4, <2>1, <2>2, <2>3
  <2> QED BY <1>4, <2>2, <2>4 DEF Counted, UnreadMatches, ReaderOK, LateOK
<1>11. \A j \in jobs : j.at \in {"apply", "store", "status"}
  <2>1. \A e \in events : FirstStep(e) \in {"apply", "store", "status"}
    BY <1>8, EventTypes
  <2> QED BY <1>7, <2>1
<1>12. TriedOK /\ ParkedOK
  <2>1. \A m \in Messages : parked[m] = NoChange
    BY <1>4
  <2> QED BY <1>11, <2>1 DEF TriedOK, ParkedOK
<1>13. \A e \in events : \E j \in jobs : j.event = e /\ j.at = FirstStep(e) /\ ~j.fetched
  <2>1. SUFFICES ASSUME NEW e \in events PROVE \E j \in jobs : j.event = e /\ j.at = FirstStep(e) /\ ~j.fetched
    OBVIOUS
  <2>2. NewJob(e, 0, 0) \in jobs
    BY <1>2
  <2>3. NewJob(e, 0, 0).event = e
    BY DEF NewJob
  <2> QED BY <1>7, <2>2, <2>3
<1>14. ChangesOK
  <2>1. ASSUME NEW e \in events, e.kind \in {"edit", "revoke"}
        PROVE  \E j \in jobs : Bears(j, e.msg, ChangeOf(e))
    <3>1. PICK j \in jobs : j.event = e /\ j.at = FirstStep(e) /\ ~j.fetched
      BY <1>13
    <3>2. FirstStep(e) = "apply" /\ Covers(ChangeOf(e), ChangeOf(e))
      BY <1>8, <2>1, EventTypes, CoversItself
    <3> QED BY <2>1, <3>1, <3>2 DEF Bears, Own, IsChange
  <2> QED BY <2>1 DEF ChangesOK
<1>15. StatusesOK
  BY <1>13 DEF StatusesOK
<1> QED BY <1>8, <1>9, <1>10, <1>12, <1>14, <1>15 DEF IInv, Settling

LEMMA StepOK ==
  ASSUME IInv, [Next]_vars
  PROVE  IInv'
<1> USE DEF IInv, Settling
<1>1. TypeOK'
  BY TypeStep
<1>2. JobsOK'
  BY JobsStep
<1>3. Counted'
  BY CountStep
<1>4. TriedOK'
  BY TriedStep
<1>5. ParkedOK'
  BY ParkedStep
<1>6. ChangesOK'
  BY ChangesStep
<1>7. StatusesOK'
  BY StatusesStep
<1> QED BY <1>1, <1>2, <1>3, <1>4, <1>5, <1>6, <1>7

LEMMA Inductive == Spec => []IInv
<1>1. Init => IInv
  BY InitOK
<1>2. IInv /\ [Next]_vars => IInv'
  BY StepOK
<1> QED BY <1>1, <1>2, PTL DEF Spec

(* The state keeps its shape, and a job that applies, shows or parks a     *)
(* change has one in hand (the envelope's, or what it read in Redis).      *)
THEOREM TypeCorrect == Spec => []TypeOK
<1>1. IInv => TypeOK
  BY DEF IInv
<1> QED BY <1>1, Inductive, PTL

(* addMessage and markChatRead: the unread count is the number of customer *)
(* messages after the read marker, and of those stored below it since it   *)
(* moved, whichever deliveries, retries and reads overlap.                 *)
THEOREM UnreadCorrect == Spec => []UnreadHolds
<1>1. IInv => UnreadHolds
  BY DEF IInv, Counted, UnreadHolds
<1> QED BY <1>1, Inductive, PTL

LEMMA SettledAtRest ==
  ASSUME IInv
  PROVE  RowsSettle
<1> SUFFICES ASSUME jobs = {}
             PROVE  RowsSettle
  BY DEF RowsSettle, ChangesLand, StatusSettles, Quiet
<1>1. ASSUME NEW e \in events, e.kind \in {"edit", "revoke"}, OneSided(e.msg), rows[e.msg].stored,
             Kept(e), e.msg \notin lost \union cut
      PROVE  rows[e.msg].deleted \/ (e.kind = "edit" /\ rows[e.msg].edited >= e.at)
  <2>1. PICK m \in Messages, c \in Changes : m = e.msg /\ c = ChangeOf(e)
    BY <1>1, EventTypes DEF IInv
  <2>2. ~Excused(m)
    BY <1>1, <2>1 DEF Excused, Kept
  <2>3. Shown(m, c) \/ Covers(parked[m], c)
    BY <1>1, <2>1, <2>2 DEF IInv, Settling, ChangesOK
  <2>4. ASSUME Covers(parked[m], c)
        PROVE  Shown(m, c)
    <3>1. parked[m] # NoChange /\ parked[m] \in AnyChange
      BY <2>4 DEF Covers, NoChange, IInv, TypeOK
    <3>2. Shown(m, parked[m])
      BY <1>1, <2>1, <2>2, <3>1 DEF IInv, Settling, ParkedOK
    <3> QED BY <2>4, <3>1, <3>2, CoveredShows DEF IInv
  <2>5. Shown(m, c) /\ c.kind = e.kind /\ c.at = e.at
    BY <1>1, <2>1, <2>3, <2>4 DEF ChangeOf
  <2> QED BY <2>1, <2>5 DEF Shown
<1>2. ASSUME NEW e \in events, e.kind = "status", e \notin missed, Kept(e)
      PROVE  rows[e.msg].status >= e.at
  BY <1>2 DEF IInv, Settling, StatusesOK, Kept
<1> QED BY <1>1, <1>2 DEF RowsSettle, ChangesLand, StatusSettles

(* changeOrPark, parkIfOriginalMissing and applyPendingChange: when no     *)
(* envelope is left, a stored message shows every change of its own side,  *)
(* save where its envelope was given up, its worker died, or a parked      *)
(* change was overwritten, cleared unread or expired; and its status is    *)
(* the highest that found its row.                                         *)
THEOREM RowsSettled == Spec => []RowsSettle
<1>1. IInv => RowsSettle
  BY SettledAtRest
<1> QED BY <1>1, Inductive, PTL

(* A mark, a status or the read marker never moves back, and a message is  *)
(* only edited or deleted by what its own side sent (applyEdit,            *)
(* markDeleted, applyMessageStatus, markChatRead).                         *)
THEOREM NeverMovesBack == Spec => NeverBack
<1> DEFINE Forward ==
      /\ \A m \in Messages :
           /\ rows[m].stored => rows'[m].stored
           /\ rows[m].deleted => rows'[m].deleted /\ rows'[m].edited = rows[m].edited
           /\ rows'[m].edited >= rows[m].edited /\ rows'[m].status >= rows[m].status
           /\ rows'[m].edited > rows[m].edited =>
                \E e \in events : e.kind = "edit" /\ e.msg = m /\ e.mine = Mine[m] /\ e.at = rows'[m].edited
           /\ rows'[m].deleted /\ ~rows[m].deleted =>
                \E e \in events : e.kind = "revoke" /\ e.msg = m /\ e.mine = Mine[m]
      /\ chat'.marker = chat.marker \/ chat.marker = Nobody \/ Later(chat'.marker, chat.marker)
<1>1. ASSUME IInv, [Next]_vars
      PROVE  chat'.marker = chat.marker \/ chat.marker = Nobody \/ Later(chat'.marker, chat.marker)
  <2>1. TypeOK /\ JobsOK /\ ReaderOK
    BY <1>1 DEF IInv, Counted
  <2>2. CASE MoveMarker
    <3>1. reader.msg # Nobody /\ chat' = [chat EXCEPT !.marker = reader.msg, !.unread = reader.count]
      BY <2>2 DEF MoveMarker
    <3>2. chat'.marker = reader.msg
      BY <2>1, <3>1 DEF TypeOK
    <3> QED BY <2>1, <3>1, <3>2 DEF ReaderOK
  <2>3. ASSUME NEW j \in jobs, Store(j) PROVE chat'.marker = chat.marker
    BY <2>1, <2>3, StoreEffect
  <2>4. ASSUME NEW m \in Messages, LockAndCount(m) PROVE chat'.marker = chat.marker
    BY <2>4 DEF LockAndCount, store
  <2> QED BY <1>1, <2>1, <2>2, <2>3, <2>4, CountStays
<1>2. IInv /\ [Next]_vars => Forward
  BY <1>1, RowsGrow DEF IInv
<1> QED BY <1>2, Inductive, PTL DEF Spec, NeverBack
=============================================================================
