------------------------------- MODULE Chats -------------------------------
(***************************************************************************)
(* One WhatsApp chat of one connected number: the envelopes Meta delivers, *)
(* the rows of the message store, the chat row they are counted in, and    *)
(* the changes parked in Redis until their original is stored.             *)
(*                                                                         *)
(* Envelopes are BullMQ jobs: ten run at once, more than there are here,   *)
(* so a job takes its next step whenever it likes.  One that throws runs   *)
(* again, at most Attempts times; one whose worker died runs again as the  *)
(* same attempt; and Meta delivers an envelope again when it likes.  A     *)
(* message has its id, its second (Ts) and its side (Mine: the business's, *)
(* not the customer's); its text is the time of the edit it comes from, 0  *)
(* for the original.  An envelope here carries one message.  Media, synced *)
(* history, contacts and the pushes to the browser are left out.           *)
(***************************************************************************)
EXTENDS Integers, FiniteSets

CONSTANTS Messages,  \* ids of messages
          Ts, Mine,  \* each message's second, and whether the business sent it
          Cases      \* what happens: the envelopes, and a bound on each trouble

Troubles == {"again", "faults", "crashes", "reads", "expiries"}
NoRow == [stored |-> FALSE, edited |-> 0, deleted |-> FALSE, status |-> 0]
NoChange == [kind |-> "none", at |-> 0, mine |-> FALSE]
Changes == [kind : {"edit", "revoke"}, at : Nat \ {0}, mine : BOOLEAN]
Attempts == 3        \* attempts of an envelope's job
Failed == 5          \* the top of the delivery ladder
Events == [kind : {"message"}, msg : Messages, at : {0}, mine : BOOLEAN]
            \union [kind : {"edit", "revoke"}, msg : Messages, at : Nat \ {0}, mine : BOOLEAN]
            \union [kind : {"status"}, msg : Messages, at : 1..Failed, mine : BOOLEAN]
Stub == -1           \* the preview of a deleted message
Nobody == 0          \* no message: nothing read yet

ASSUME ChatsAssumption ==
  /\ Messages \subseteq Nat \ {Nobody} /\ IsFiniteSet(Messages)
  /\ Ts \in [Messages -> Nat \ {0}] /\ Mine \in [Messages -> BOOLEAN]
  /\ \A c \in Cases : /\ c.events \subseteq Events /\ IsFiniteSet(c.events)
                      /\ c.limits \in [Troubles -> Nat]

VARIABLES events,    \* the envelopes of this behaviour
          left,      \* how much of each trouble may still come
          jobs,      \* the envelopes' jobs: which delivery, the attempts made, the next step,
                     \* the change in hand (fetched from the park or its own) and the one seen there
          rows,      \* whatsapp_messages
          chat,      \* the whatsapp_chats row: newest second, preview, unread, read marker
          reader,    \* markChatRead, between its lock and its update
          parked,    \* wa:msg:pending:*
          handed,    \* messages handed to the AI
          dropped,   \* envelopes whose last attempt failed
          cut,       \* messages whose job died after it had stored them
          late,      \* messages stored below the read marker since it moved
          missed,    \* status envelopes that found no row
          lost       \* messages with a change that was overwritten or cleared unread while parked,
                     \* that expired there, or that was tried too early and not parked

vars == <<events, left, jobs, rows, chat, reader, parked, handed, dropped, cut, late, missed, lost>>
ghosts == <<dropped, cut, late, missed, lost>>
store == <<rows, chat, parked, handed>>

Stored == {m \in Messages : rows[m].stored}
Later(m, n) == Ts[m] > Ts[n] \/ (Ts[m] = Ts[n] /\ m > n)
AtOrBelowMarker(m) == chat.marker # Nobody /\ ~Later(m, chat.marker)
After(n) == {m \in Stored : ~Mine[m] /\ (n = Nobody \/ Later(m, n))}

FirstStep(e) == CASE e.kind = "message" -> "store"
                  [] e.kind = "status" -> "status"
                  [] OTHER -> "apply"

ChangeOf(e) == IF e.kind \in {"edit", "revoke"}
               THEN [kind |-> e.kind, at |-> e.at, mine |-> e.mine] ELSE NoChange

NewJob(e, copy, made) == [event |-> e, copy |-> copy, made |-> made, at |-> FirstStep(e),
                          change |-> ChangeOf(e), seen |-> NoChange, fetched |-> FALSE]

IsMessage(j) == j.event.kind = "message"

Init ==
  /\ \E c \in Cases : /\ events = c.events /\ left = c.limits
                      /\ jobs = {NewJob(e, 0, 0) : e \in c.events}
  /\ rows = [m \in Messages |-> NoRow]
  /\ chat = [last |-> 0, shown |-> Nobody, text |-> 0, unread |-> 0, marker |-> Nobody]
  /\ reader = [msg |-> Nobody, count |-> 0]
  /\ parked = [m \in Messages |-> NoChange]
  /\ handed = {} /\ dropped = {} /\ cut = {} /\ late = {} /\ missed = {} /\ lost = {}

-----------------------------------------------------------------------------
(* The queue. *)

\* Meta delivers an envelope it has delivered before.
Redeliver(e) ==
  /\ left.again > 0
  /\ left' = [left EXCEPT !.again = @ - 1]
  /\ jobs' = jobs \union {NewJob(e, 1, 0)}
  /\ UNCHANGED <<events, store, reader, ghosts>>

\* A job that is over, and one that goes on.
Finish(j) == jobs' = jobs \ {j}
Replace(j, next) == jobs' = (jobs \ {j}) \union {next}
Goto(j, step) == IF step = "done" THEN Finish(j) ELSE Replace(j, [j EXCEPT !.at = step, !.seen = NoChange])

\* What comes after the parked change: a message's own job goes on to the AI.
Onward(j) == IF IsMessage(j) THEN "hand" ELSE "done"

\* A call of the job throws: the envelope runs again, or is dropped after its last attempt.
Fail(j) ==
  /\ left.faults > 0
  /\ left' = [left EXCEPT !.faults = @ - 1]
  /\ IF j.made + 1 < Attempts
     THEN Replace(j, NewJob(j.event, j.copy, j.made + 1)) /\ UNCHANGED dropped
     ELSE dropped' = dropped \union {j.event} /\ Finish(j)
  /\ UNCHANGED <<events, store, reader, cut, late, missed, lost>>

\* The worker dies: the stalled job runs again, as the attempt it already was.
Crash(j) ==
  /\ left.crashes > 0 /\ j # NewJob(j.event, j.copy, j.made)
  /\ left' = [left EXCEPT !.crashes = @ - 1]
  /\ cut' = IF IsMessage(j) THEN cut \union {j.event.msg} ELSE cut
  /\ Replace(j, NewJob(j.event, j.copy, j.made))
  /\ UNCHANGED <<events, store, reader, dropped, late, missed, lost>>

-----------------------------------------------------------------------------
(* The message store. *)

\* No row lock: the upsert runs between the recount and the update.
ChatFree_Always == TRUE

\* Every write of the chat row waits for markChatRead's row lock.
ChatFree == reader.msg = Nobody

\* Only a first delivery of a customer message counts as unread.
NewUnread(m, inserted) == IF inserted /\ ~Mine[m] THEN 1 ELSE 0

Upserted(m, inserted) ==
  [chat EXCEPT !.shown = IF Ts[m] >= chat.last THEN m ELSE @,
               !.text = IF Ts[m] >= chat.last THEN 0 ELSE @,
               !.last = IF Ts[m] >= @ THEN Ts[m] ELSE @,
               !.unread = @ + NewUnread(m, inserted)]

\* Our own retry skips a stored message too.
GoesOn_First(j, inserted) == inserted

\* Only our own retry goes on with a message the store already held.
GoesOn(j, inserted) == inserted \/ j.made > 0

\* addMessage: the row and the chat in one transaction.
Store(j) ==
  /\ j.at = "store" /\ ChatFree
  /\ LET m == j.event.msg
         inserted == ~rows[m].stored
     IN /\ rows' = IF inserted THEN [rows EXCEPT ![m] = [NoRow EXCEPT !.stored = TRUE]] ELSE rows
        /\ chat' = Upserted(m, inserted)
        /\ late' = IF inserted /\ ~Mine[m] /\ AtOrBelowMarker(m) THEN late \union {m} ELSE late
        /\ Goto(j, IF GoesOn(j, inserted) THEN "fetch" ELSE "done")
  /\ UNCHANGED <<events, left, reader, parked, handed, dropped, cut, missed, lost>>

\* Any side's change lands.
Lands_AnySide(m, c) == rows[m].stored /\ ~rows[m].deleted /\ (c.kind = "edit" => rows[m].edited < c.at)

\* Each side changes its own messages, never a deleted one, never an older edit over a newer one.
Lands(m, c) ==
  /\ rows[m].stored /\ ~rows[m].deleted /\ Mine[m] = c.mine
  /\ c.kind = "edit" => rows[m].edited < c.at

\* applyEdit and markDeleted: the UPDATE of the row.
Apply(j) ==
  /\ j.at = "apply"
  /\ LET m == j.event.msg
         c == j.change
     IN IF Lands(m, c)
        THEN /\ rows' = [rows EXCEPT ![m] = IF c.kind = "edit" THEN [@ EXCEPT !.edited = c.at]
                                                               ELSE [@ EXCEPT !.deleted = TRUE]]
             /\ Goto(j, "preview")
        ELSE /\ Goto(j, IF j.fetched THEN "clear" ELSE "look")
             /\ UNCHANGED rows
  /\ UNCHANGED <<events, left, reader, chat, parked, handed, ghosts>>

\* refreshChatPreview: only when the message is still the chat's newest.
Preview(j) ==
  /\ j.at = "preview" /\ ChatFree
  /\ LET m == j.event.msg
         c == j.change
     IN chat' = IF chat.last # Ts[m] THEN chat
                ELSE [chat EXCEPT !.shown = m, !.text = IF c.kind = "edit" THEN c.at ELSE Stub]
  /\ Goto(j, IF j.fetched THEN "clear" ELSE "done")
  /\ UNCHANGED <<events, left, reader, rows, parked, handed, ghosts>>

\* applyMessageStatus: only ever forward on the ladder, and failed always.
Climbs(m, s) == rows[m].stored /\ (s = Failed \/ rows[m].status < s)

ApplyStatus(j) ==
  /\ j.at = "status"
  /\ LET m == j.event.msg
         s == j.event.at
     IN /\ rows' = IF Climbs(m, s) THEN [rows EXCEPT ![m].status = s] ELSE rows
        /\ missed' = IF rows[m].stored THEN missed ELSE missed \union {j.event}
  /\ Goto(j, "done")
  /\ UNCHANGED <<events, left, reader, chat, parked, handed, dropped, cut, late, lost>>

\* markChatRead: lock the chat row, and recount what lies after the message read.
LockAndCount(m) ==
  /\ left.reads > 0 /\ ChatFree /\ m \in Stored
  /\ left' = [left EXCEPT !.reads = @ - 1]
  /\ reader' = IF AtOrBelowMarker(m) THEN reader
               ELSE [msg |-> m, count |-> Cardinality(After(m))]
  /\ UNCHANGED <<events, jobs, store, ghosts>>

MoveMarker ==
  /\ reader.msg # Nobody
  /\ chat' = [chat EXCEPT !.marker = reader.msg, !.unread = reader.count]
  /\ reader' = [msg |-> Nobody, count |-> 0]
  /\ late' = {}
  /\ UNCHANGED <<events, left, jobs, rows, parked, handed, dropped, cut, missed, lost>>

-----------------------------------------------------------------------------
(* Changes that beat their original. *)

\* A change that is not applied is parked only if its original is missing now.
Look(j) ==
  /\ j.at = "look"
  /\ Goto(j, IF rows[j.event.msg].stored THEN "done" ELSE "read")
  /\ lost' = IF Lands(j.event.msg, j.change) THEN lost \union {j.event.msg} ELSE lost
  /\ UNCHANGED <<events, left, reader, store, dropped, cut, late, missed>>

\* A delete outranks any edit; between edits the newer one wins.
Yields(c, current) ==
  \/ current.kind = "revoke"
  \/ current.kind = "edit" /\ c.kind = "edit" /\ current.at >= c.at

ReadParked(j) ==
  /\ j.at = "read"
  /\ LET current == parked[j.event.msg] IN
       IF Yields(j.change, current) THEN Goto(j, "done")
       ELSE Replace(j, [j EXCEPT !.at = "park", !.seen = current])
  /\ UNCHANGED <<events, left, reader, store, ghosts>>

Park(j) ==
  /\ j.at = "park"
  /\ parked' = [parked EXCEPT ![j.event.msg] = j.change]
  /\ lost' = IF parked[j.event.msg] = j.seen THEN lost ELSE lost \union {j.event.msg}
  /\ Goto(j, "recheck")
  /\ UNCHANGED <<events, left, reader, rows, chat, handed, dropped, cut, late, missed>>

\* The gap after the park is left open.
Recheck_None(j) ==
  /\ j.at = "recheck" /\ Goto(j, "done")
  /\ UNCHANGED <<events, left, reader, store, ghosts>>

\* Closes the gap where the original landed between the check and the park.
Recheck(j) ==
  /\ j.at = "recheck"
  /\ Goto(j, IF rows[j.event.msg].stored THEN "fetch" ELSE "done")
  /\ UNCHANGED <<events, left, reader, store, ghosts>>

\* applyPendingChange: read it, apply it, clear it.
Fetch(j) ==
  /\ j.at = "fetch"
  /\ LET current == parked[j.event.msg] IN
       IF current = NoChange THEN Goto(j, Onward(j))
       ELSE Replace(j, [j EXCEPT !.at = "apply", !.change = current, !.fetched = TRUE])
  /\ UNCHANGED <<events, left, reader, store, ghosts>>

Clear(j) ==
  /\ j.at = "clear"
  /\ parked' = [parked EXCEPT ![j.event.msg] = NoChange]
  /\ lost' = IF parked[j.event.msg] \in {j.change, NoChange} THEN lost ELSE lost \union {j.event.msg}
  /\ Goto(j, Onward(j))
  /\ UNCHANGED <<events, left, reader, rows, chat, handed, dropped, cut, late, missed>>

\* A parked change lives fifteen minutes.
Expire(m) ==
  /\ left.expiries > 0 /\ parked[m] # NoChange
  /\ left' = [left EXCEPT !.expiries = @ - 1]
  /\ parked' = [parked EXCEPT ![m] = NoChange]
  /\ lost' = lost \union {m}
  /\ UNCHANGED <<events, jobs, reader, rows, chat, handed, dropped, cut, late, missed>>

\* The row is read back, and a customer's message that is not deleted goes to the AI.
Hand(j) ==
  /\ j.at = "hand"
  /\ handed' = IF Mine[j.event.msg] \/ rows[j.event.msg].deleted THEN handed ELSE handed \union {j.event.msg}
  /\ Goto(j, "done")
  /\ UNCHANGED <<events, left, reader, rows, chat, parked, ghosts>>

-----------------------------------------------------------------------------
Step(j) == \/ Store(j) \/ Apply(j) \/ Preview(j) \/ ApplyStatus(j) \/ Look(j) \/ ReadParked(j)
           \/ Park(j) \/ Recheck(j) \/ Fetch(j) \/ Clear(j) \/ Hand(j)

Next ==
  \/ \E j \in jobs : Step(j) \/ Fail(j) \/ Crash(j)
  \/ \E e \in events : Redeliver(e)
  \/ \E m \in Messages : LockAndCount(m) \/ Expire(m)
  \/ MoveMarker

\* A queued job is taken and runs on; Postgres serves the waiters of a row lock in turn.
Fairness ==
  /\ \A e \in UNION {c.events : c \in Cases}, copy \in 0..1 :
       WF_vars(\E j \in jobs : j.event = e /\ j.copy = copy /\ Step(j))
  /\ WF_vars(MoveMarker)

Spec == Init /\ [][Next]_vars /\ Fairness

-----------------------------------------------------------------------------
(* Properties. *)

Quiet == jobs = {}

AnyChange == Changes \union {NoChange}

Steps == {"store", "status", "apply", "preview", "look", "read", "park", "recheck", "fetch", "clear", "hand"}
Job == [event : events, copy : 0..1, made : 0..(Attempts - 1), at : Steps, change : AnyChange,
        seen : AnyChange, fetched : BOOLEAN]
Row == [stored : BOOLEAN, edited : Nat, deleted : BOOLEAN, status : 0..Failed]

\* The shape of the state, and that a job only applies a change it has in hand.
TypeOK ==
  /\ events \subseteq Events /\ left \in [Troubles -> Nat]
  /\ jobs \subseteq Job
  /\ \A j \in jobs : j.at \in {"apply", "preview", "look", "park"} => j.change # NoChange
  /\ rows \in [Messages -> Row] /\ \A m \in Messages : rows[m].stored \/ rows[m] = NoRow
  /\ parked \in [Messages -> AnyChange]
  /\ chat \in [last : Nat, shown : Nat, text : Int, unread : Nat, marker : Stored \union {Nobody}]
  /\ reader \in [msg : Stored \union {Nobody}, count : Nat]
  /\ handed \subseteq Stored /\ dropped \subseteq events /\ late \subseteq Stored

\* unread_count is what lies after the read marker, however deliveries, redeliveries and
\* markChatRead overlap; a message that arrives below the marker is counted until the marker moves.
UnreadMatches == chat.unread = Cardinality(After(chat.marker)) + Cardinality(late)

\* No envelope about the event's message was given up.
Kept(e) == \A d \in dropped : d.msg # e.msg

\* Only the message's own side has tried to change it: the place a change is parked in is
\* one for both sides, and a change that could never land keeps another one out of it.
OneSided(m) == \A e \in events : e.kind \in {"edit", "revoke"} /\ e.msg = m => e.mine = Mine[m]

\* Once all is delivered, a stored message shows every change its own side made, whichever
\* came first, unless a parked change was overwritten or expired, the job died in between, or
\* the other side had tried to change it too.
ChangesLand ==
  Quiet => \A e \in events :
    (/\ e.kind \in {"edit", "revoke"} /\ OneSided(e.msg)
     /\ rows[e.msg].stored /\ Kept(e) /\ e.msg \notin lost \union cut)
    => rows[e.msg].deleted \/ (e.kind = "edit" /\ rows[e.msg].edited >= e.at)

\* Once all is delivered, a stored message's status is the highest that found its row.
StatusSettles ==
  Quiet => \A e \in events :
    (e.kind = "status" /\ rows[e.msg].stored /\ e \notin missed /\ Kept(e)) => rows[e.msg].status >= e.at

\* A delete is never taken back, nor an edit, a status or the read marker moved backwards,
\* and a side's message is never changed by an event the other side sent.
NeverBack ==
  [][/\ \A m \in Messages :
          /\ rows[m].stored => rows'[m].stored
          /\ rows[m].deleted => rows'[m].deleted /\ rows'[m].edited = rows[m].edited
          /\ rows'[m].edited >= rows[m].edited /\ rows'[m].status >= rows[m].status
          /\ rows'[m].edited > rows[m].edited =>
               \E e \in events : e.kind = "edit" /\ e.msg = m /\ e.mine = Mine[m] /\ e.at = rows'[m].edited
          /\ rows'[m].deleted /\ ~rows[m].deleted =>
               \E e \in events : e.kind = "revoke" /\ e.msg = m /\ e.mine = Mine[m]
     /\ chat'.marker = chat.marker \/ chat.marker = Nobody \/ Later(chat'.marker, chat.marker)]_vars

\* A stored customer message reaches the AI, unless it is deleted first, its envelope is given
\* up, or its worker died after storing it.
HandedOff ==
  \A m \in Messages :
    (m \in Stored /\ ~Mine[m]) ~>
      (m \in handed \union cut \/ rows[m].deleted \/ \E d \in dropped : d.msg = m)

\* The repository's words: a change can beat its original, and waits instead of failing the job.
\* Once all is delivered, a stored message shows every change its own side made, with no exception
\* for a race between the two envelopes.
NoChangeLost ==
  Quiet => \A e \in events :
    (e.kind \in {"edit", "revoke"} /\ e.mine = Mine[e.msg] /\ rows[e.msg].stored /\ Kept(e))
    => rows[e.msg].deleted \/ (e.kind = "edit" /\ rows[e.msg].edited >= e.at)

\* The repository's words: processing an envelope again is idempotent. Once all is delivered,
\* the chat list does not show the text of a message that was deleted for everyone.
DeletedHidden == Quiet => \A m \in Messages : (rows[m].deleted /\ chat.shown = m) => chat.text = Stub

\* The chat's counter is sound: unread messages are counted once each.
UnreadHolds == TypeOK /\ UnreadMatches

\* Once all is delivered, a message shows its changes and its last status.
RowsSettle == ChangesLand /\ StatusSettles
=============================================================================
